------------------------------ MODULE SlotLimiter ------------------------------
(***************************************************************************)
(* What the DNS semaphore promises to its users, without mutex, wait list, *)
(* wakeups or watchers: a slot is granted only while fewer calls than the  *)
(* current limit hold one, and the limit may move at any time without      *)
(* taking a slot away (the type comment of AdaptiveSemaphore).             *)
(***************************************************************************)
EXTENDS Integers, FiniteSets

CONSTANT Calls

VARIABLES limit, holders

TypeOK == limit \in Nat \ {0} /\ holders \subseteq Calls

Init == limit \in Nat \ {0} /\ holders = {}

Grant(c) ==
    /\ c \notin holders
    /\ Cardinality(holders) < limit
    /\ holders' = holders \cup {c}
    /\ UNCHANGED limit

GiveBack(c) ==
    /\ c \in holders
    /\ holders' = holders \ {c}
    /\ UNCHANGED limit

MoveLimit ==
    /\ limit' \in Nat \ {0}
    /\ UNCHANGED holders

Next == (\E c \in Calls : Grant(c) \/ GiveBack(c)) \/ MoveLimit

Spec == Init /\ [][Next]_<<limit, holders>>
=============================================================================
