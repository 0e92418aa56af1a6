--------------------------- MODULE AdaptiveSemaphore ---------------------------
(***************************************************************************)
(* The semaphore that bounds concurrent DNS queries (dns/adaptive.go).     *)
(* Every transition runs under s.mu, so one step is one critical section:  *)
(* from Lock (or the return of cond.Wait) to Unlock (or the next           *)
(* cond.Wait).  sync.Cond keeps its waiters in arrival order; Signal wakes *)
(* the oldest, Broadcast all.  A woken goroutine still has to get the      *)
(* mutex back, and others may run first.                                   *)
(*                                                                         *)
(* A call is one Acquire and the Release that follows it.  The context of  *)
(* the calls in CanCancel may be cancelled at any time; the watcher that   *)
(* the slow path spawns turns that into a Broadcast, unless the call       *)
(* returns first and the watcher's select picks the closed done channel.   *)
(***************************************************************************)
EXTENDS Integers, Sequences, FiniteSets

CONSTANTS
    Calls,       \* calls to Acquire, each made once
    CanCancel,   \* those whose context may be cancelled
    InitialLimit,
    NewLimits    \* arguments SetLimit is called with

ASSUME CallsAssumption == IsFiniteSet(Calls)
ASSUME CanCancelAssumption == CanCancel \subseteq Calls
ASSUME InitialLimitAssumption == InitialLimit \in Int
ASSUME NewLimitsAssumption == NewLimits \subseteq Int

VARIABLES
    limit, inflight,
    pc,          \* where each call is
    waiters,     \* calls in cond.Wait, oldest first
    cancelled,   \* calls whose ctx is done
    watcher      \* calls whose watcher goroutine is alive

vars == <<limit, inflight, pc, waiters, cancelled, watcher>>

\* waiting: in cond.Wait; woken: removed from the wait list, wants the mutex;
\* failed: Acquire returned the context's error; released: the slot was given back.
CallStates == {"idle", "waiting", "woken", "holding", "failed", "released"}

\* Mutation: the limit is taken as it comes.
Unclamped(n) == n

AtLeastOne(n) == IF n < 1 THEN 1 ELSE n

Holders == {c \in Calls : pc[c] = "holding"}
Woken == {c \in Calls : pc[c] = "woken"}
FailedCalls == {c \in Calls : pc[c] = "failed"}

TypeOK ==
    /\ limit \in Nat \ {0}
    /\ inflight \in Nat
    /\ pc \in [Calls -> CallStates]
    /\ waiters \in Seq(Calls)
    /\ cancelled \subseteq CanCancel
    /\ watcher \subseteq Calls

\* NewAdaptiveSemaphore
Init ==
    /\ limit = AtLeastOne(InitialLimit)
    /\ inflight = 0
    /\ pc = [c \in Calls |-> "idle"]
    /\ waiters = << >>
    /\ cancelled = {}
    /\ watcher = {}

-----------------------------------------------------------------------------
(* Acquire *)

AcquireFast(c) ==
    /\ pc[c] = "idle" /\ inflight < limit
    /\ inflight' = inflight + 1
    /\ pc' = [pc EXCEPT ![c] = "holding"]
    /\ UNCHANGED <<limit, waiters, cancelled, watcher>>

\* The loop of the slow path up to cond.Wait: give up if the context is done,
\* else join the wait list.
GiveUpOrWait(c) ==
    IF c \in cancelled
    THEN /\ pc' = [pc EXCEPT ![c] = "failed"]
         /\ UNCHANGED waiters
    ELSE /\ pc' = [pc EXCEPT ![c] = "waiting"]
         /\ waiters' = Append(waiters, c)

AcquireSlow(c) ==
    /\ pc[c] = "idle" /\ inflight >= limit
    /\ watcher' = watcher \cup {c}
    /\ GiveUpOrWait(c)
    /\ UNCHANGED <<limit, inflight, cancelled>>

\* Mutation: if instead of for, a woken call takes a slot without looking again.
ResumeFullTakes(c) ==
    /\ pc[c] = "woken" /\ inflight >= limit
    /\ inflight' = inflight + 1
    /\ pc' = [pc EXCEPT ![c] = "holding"]
    /\ UNCHANGED <<limit, waiters, cancelled, watcher>>

\* Back from cond.Wait with the mutex, no slot free: around the loop.
ResumeFull(c) ==
    /\ pc[c] = "woken" /\ inflight >= limit
    /\ GiveUpOrWait(c)
    /\ UNCHANGED <<limit, inflight, cancelled, watcher>>

\* Mutation: the slot is counted before the context is looked at.
ResumeFreeLeaks(c) ==
    /\ pc[c] = "woken" /\ inflight < limit
    /\ inflight' = inflight + 1
    /\ pc' = [pc EXCEPT ![c] = IF c \in cancelled THEN "failed" ELSE "holding"]
    /\ UNCHANGED <<limit, waiters, cancelled, watcher>>

\* Back with a slot free: take it, or return the context's error.
ResumeFree(c) ==
    /\ pc[c] = "woken" /\ inflight < limit
    /\ IF c \in cancelled
       THEN /\ pc' = [pc EXCEPT ![c] = "failed"]
            /\ UNCHANGED inflight
       ELSE /\ pc' = [pc EXCEPT ![c] = "holding"]
            /\ inflight' = inflight + 1
    /\ UNCHANGED <<limit, waiters, cancelled, watcher>>

-----------------------------------------------------------------------------
(* Release and SetLimit *)

\* cond.Broadcast on top of the pc that the step sets.
WakeAll(p) ==
    /\ pc' = [c \in Calls |-> IF p[c] = "waiting" THEN "woken" ELSE p[c]]
    /\ waiters' = << >>

\* Mutation: no Signal at all.
WakeNobody(p) == pc' = p /\ UNCHANGED waiters

\* cond.Signal
WakeOne(p) ==
    IF waiters = << >>
    THEN pc' = p /\ UNCHANGED waiters
    ELSE /\ pc' = [p EXCEPT ![Head(waiters)] = "woken"]
         /\ waiters' = Tail(waiters)

Release(c) ==
    /\ pc[c] = "holding"
    /\ inflight' = IF inflight > 0 THEN inflight - 1 ELSE inflight
    /\ WakeOne([pc EXCEPT ![c] = "released"])
    /\ UNCHANGED <<limit, cancelled, watcher>>

SetLimit(n) ==
    /\ limit' = AtLeastOne(n)
    /\ IF AtLeastOne(n) > limit THEN WakeAll(pc) ELSE UNCHANGED <<pc, waiters>>
    /\ UNCHANGED <<inflight, cancelled, watcher>>

-----------------------------------------------------------------------------
(* Cancellation *)

CancelCtx(c) ==
    /\ c \in CanCancel \ cancelled
    /\ pc[c] \notin {"failed", "released"}
    /\ cancelled' = cancelled \cup {c}
    /\ UNCHANGED <<limit, inflight, pc, waiters, watcher>>

\* Mutation: the watcher does not broadcast.
WatcherFiresSilently(c) ==
    /\ c \in watcher /\ c \in cancelled
    /\ watcher' = watcher \ {c}
    /\ UNCHANGED <<limit, inflight, pc, waiters, cancelled>>

\* The watcher sees ctx.Done().
WatcherFires(c) ==
    /\ c \in watcher /\ c \in cancelled
    /\ WakeAll(pc)
    /\ watcher' = watcher \ {c}
    /\ UNCHANGED <<limit, inflight, cancelled>>

\* The watcher sees done closed by the return of Acquire.
WatcherQuits(c) ==
    /\ c \in watcher /\ pc[c] \in {"holding", "failed", "released"}
    /\ watcher' = watcher \ {c}
    /\ UNCHANGED <<limit, inflight, pc, waiters, cancelled>>

Next ==
    \/ \E c \in Calls :
          \/ AcquireFast(c) \/ AcquireSlow(c) \/ ResumeFull(c) \/ ResumeFree(c)
          \/ Release(c) \/ CancelCtx(c) \/ WatcherFires(c) \/ WatcherQuits(c)
    \/ \E n \in NewLimits : SetLimit(n)

Spec == Init /\ [][Next]_vars

\* Goroutines that can run do run, and a DNS query ends (the client has a
\* timeout), so its slot is released.  Nobody has to call Acquire or SetLimit.
Fairness ==
    \A c \in Calls :
        /\ WF_vars(ResumeFull(c) \/ ResumeFree(c))
        /\ WF_vars(Release(c))
        /\ WF_vars(WatcherFires(c) \/ WatcherQuits(c))

FairSpec == Spec /\ Fairness

-----------------------------------------------------------------------------
(* Properties *)

\* inflight is exactly the number of calls that hold a slot: no path through
\* Acquire and Release, cancelled or not, leaks a slot or returns one twice, and
\* the guard in Release never hides an underflow.
InflightExact == inflight = Cardinality(Holders)

\* Seen by its users the semaphore is the SlotLimiter: slots are granted one by
\* one, only below the limit in force at that moment (also to a goroutine that
\* was woken when the limit was higher or a slot was still free), and are taken
\* back from nobody when the limit drops.
Limiter == INSTANCE SlotLimiter WITH holders <- Holders
ImplementsLimiter == Limiter!Spec

\* While calls wait, every slot has a call that holds it, a woken call on its way to
\* it, or a call that failed and took a Signal with it: Release's single Signal and
\* SetLimit's Broadcast are enough, and a cancelled call costs the others one wakeup
\* at most, however waits, barging calls and cancellations overlap.
WakeupsCoverFreeSlots ==
    waiters # << >> =>
        inflight + Cardinality(Woken) + Cardinality(FailedCalls) >= limit

\* A call whose context is cancelled does not stay in Acquire.
CancelUnblocks ==
    \A c \in Calls :
        (c \in cancelled /\ pc[c] \in {"waiting", "woken"})
            ~> pc[c] \notin {"waiting", "woken"}

\* As long as no context is done while its call waits, every call that waits gets a
\* slot in the end; contexts of calls that hold a slot may be cancelled.
EventuallyServed ==
    [](\A c \in cancelled : pc[c] \notin {"waiting", "woken"}) =>
        \A c \in Calls : (pc[c] = "waiting") ~> (pc[c] = "holding")

\* adaptive.go:45 and 87: Acquire blocks if inflight >= limit, and a Release frees
\* a waiter, so a call does not keep waiting beside a free slot.
NotBlockedBesideFreeSlot ==
    \A c \in Calls :
        (pc[c] = "waiting" /\ inflight < limit)
            ~> (pc[c] # "waiting" \/ inflight >= limit)
=============================================================================
