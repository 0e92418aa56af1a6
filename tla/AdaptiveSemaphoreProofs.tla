------------------------ MODULE AdaptiveSemaphoreProofs ------------------------
(***************************************************************************)
(* Proofs about the DNS semaphore, for every finite set of calls, every    *)
(* sequence of limits and every pattern of cancellation.                   *)
(***************************************************************************)
EXTENDS AdaptiveSemaphore, FiniteSetTheorems, TLAPS

\* The wait list of sync.Cond and the pc of the calls are two pictures of one thing.
\* Nothing in adaptive.go could break this; the proofs need it to know that the call
\* a Signal wakes is waiting, so neither a holder nor woken already.
WaitListExact ==
    /\ \A i \in 1..Len(waiters) : pc[waiters[i]] = "waiting"
    /\ \A i, k \in 1..Len(waiters) : waiters[i] = waiters[k] => i = k
    /\ \A c \in Calls :
          pc[c] = "waiting" => \E i \in 1..Len(waiters) : waiters[i] = c

\* The inductive invariant.
SemInv ==
    /\ TypeOK
    /\ InflightExact
    /\ WaitListExact

-----------------------------------------------------------------------------
\* The constructor and SetLimit never set a limit below one.
LEMMA LimitPositive ==
    ASSUME NEW n \in Int
    PROVE  AtLeastOne(n) \in Nat \ {0}
BY DEF AtLeastOne

\* The sets of calls that are counted are finite.
LEMMA CallSetsFinite ==
    /\ IsFiniteSet(Holders) /\ Cardinality(Holders) \in Nat
    /\ IsFiniteSet(Woken) /\ Cardinality(Woken) \in Nat
<1>1. Holders \subseteq Calls /\ Woken \subseteq Calls
  BY DEF Holders, Woken
<1> QED
  BY <1>1, CallsAssumption, FS_Subset, FS_CardinalityType

\* The invariant holds in a new semaphore.
LEMMA SemInit == Init => SemInv
<1> SUFFICES ASSUME Init PROVE SemInv
  OBVIOUS
<1>1. TypeOK
  BY LimitPositive, InitialLimitAssumption DEF Init, TypeOK, CallStates
<1>2. Holders = {}
  BY DEF Init, Holders
<1>3. InflightExact
  BY <1>2, FS_EmptySet DEF Init, InflightExact
<1>4. WaitListExact
  BY DEF Init, WaitListExact
<1> QED
  BY <1>1, <1>3, <1>4 DEF SemInv

\* What Append, Head and Tail do to the wait list.
LEMMA JoinList ==
    ASSUME SemInv, NEW c \in Calls, pc[c] # "waiting",
           pc' = [pc EXCEPT ![c] = "waiting"], waiters' = Append(waiters, c)
    PROVE  waiters' \in Seq(Calls) /\ WaitListExact'
<1>1. /\ waiters \in Seq(Calls) /\ Len(waiters) \in Nat
      /\ Len(waiters') = Len(waiters) + 1
      /\ waiters'[Len(waiters) + 1] = c
      /\ \A i \in 1..Len(waiters) : waiters'[i] = waiters[i] /\ waiters[i] \in Calls
      /\ waiters' \in Seq(Calls)
  BY DEF SemInv, TypeOK
<1>2. \A i \in 1..Len(waiters) : pc[waiters[i]] = "waiting" /\ waiters[i] # c
  BY DEF SemInv, WaitListExact
<1>3. pc'[c] = "waiting" /\ \A d \in Calls : d # c => pc'[d] = pc[d]
  BY DEF SemInv, TypeOK
<1>4. \A i \in 1..Len(waiters') : pc'[waiters'[i]] = "waiting"
  BY <1>1, <1>2, <1>3
<1>5. \A i, k \in 1..Len(waiters') : waiters'[i] = waiters'[k] => i = k
  BY <1>1, <1>2 DEF SemInv, WaitListExact
<1>6. ASSUME NEW d \in Calls, pc'[d] = "waiting"
      PROVE  \E i \in 1..Len(waiters') : waiters'[i] = d
  <2>1. CASE d = c
    BY <1>1, <2>1
  <2>2. CASE d # c
    <3>1. PICK i \in 1..Len(waiters) : waiters[i] = d
      BY <1>3, <1>6, <2>2 DEF SemInv, WaitListExact
    <3> QED
      BY <1>1, <3>1
  <2> QED
    BY <2>1, <2>2
<1> QED
  BY <1>1, <1>4, <1>5, <1>6 DEF WaitListExact

\* A step that moves no call into or out of cond.Wait.
LEMMA ListKept ==
    ASSUME SemInv, UNCHANGED waiters,
           \A c \in Calls : (pc'[c] = "waiting") <=> (pc[c] = "waiting")
    PROVE  WaitListExact'
<1>1. \A i \in 1..Len(waiters) : waiters[i] \in Calls
  BY DEF SemInv, TypeOK
<1> QED
  BY <1>1 DEF SemInv, WaitListExact

\* Broadcast empties the list.
LEMMA ListCleared ==
    ASSUME SemInv, WakeAll(pc)
    PROVE  /\ WaitListExact' /\ waiters' \in Seq(Calls)
           /\ pc' \in [Calls -> CallStates] /\ Holders' = Holders
<1>1. \A c \in Calls : pc'[c] # "waiting"
  BY DEF WakeAll
<1>2. waiters' = << >>
  BY DEF WakeAll
<1>3. pc' \in [Calls -> CallStates]
  BY DEF WakeAll, SemInv, TypeOK, CallStates
<1>4. Holders' = Holders
  BY DEF WakeAll, Holders
<1> QED
  BY <1>1, <1>2, <1>3, <1>4 DEF WaitListExact

\* Slots granted and given back, as set operations on the holders.
LEMMA GrantedSlot ==
    ASSUME SemInv, NEW c \in Calls, pc[c] # "holding",
           pc' = [pc EXCEPT ![c] = "holding"], inflight' = inflight + 1
    PROVE  Holders' = Holders \cup {c} /\ InflightExact'
<1>1. Holders' = Holders \cup {c} /\ c \notin Holders
  BY DEF Holders, SemInv, TypeOK
<1>2. Cardinality(Holders \cup {c}) = Cardinality(Holders) + 1
  BY <1>1, CallSetsFinite, FS_AddElement
<1> QED
  BY <1>1, <1>2 DEF SemInv, InflightExact

\* A step that moves no slot keeps the count exact.
LEMMA SameHolders ==
    ASSUME SemInv, Holders' = Holders, inflight' = inflight
    PROVE  InflightExact'
BY DEF SemInv, InflightExact

\* Release gives back one slot and wakes the oldest waiter, if there is one.
LEMMA ReleaseFacts ==
    ASSUME SemInv, NEW c \in Calls, Release(c)
    PROVE  /\ SemInv' /\ Holders' = Holders \ {c} /\ inflight' = inflight - 1
           /\ waiters # << >> =>
                 Head(waiters) \in Calls /\ Head(waiters) \notin Woken
                 /\ Woken' = Woken \cup {Head(waiters)}
           /\ FailedCalls' = FailedCalls
           /\ waiters = << >> => waiters' = << >>
<1>1. pc[c] = "holding" /\ c \in Holders
  BY DEF Release, Holders
<1>2. Cardinality(Holders \ {c}) = Cardinality(Holders) - 1
  BY <1>1, CallSetsFinite, FS_RemoveElement
<1>3. Cardinality(Holders \ {c}) \in Nat
  <2>1. Holders \ {c} \subseteq Holders
    OBVIOUS
  <2> QED
    BY <2>1, CallSetsFinite, FS_Subset, FS_CardinalityType
<1>4. inflight' = inflight - 1 /\ inflight' \in Nat
  BY <1>2, <1>3, CallSetsFinite DEF Release, SemInv, InflightExact
<1> DEFINE q == [pc EXCEPT ![c] = "released"]
<1>5. q \in [Calls -> CallStates] /\ q[c] = "released"
      /\ \A d \in Calls : d # c => q[d] = pc[d]
  BY DEF SemInv, TypeOK, CallStates
<1>6. WakeOne(q) /\ UNCHANGED <<limit, cancelled, watcher>>
  BY DEF Release
<1> HIDE DEF q
<1>7. CASE waiters = << >>
  <2>1. pc' = q /\ waiters' = waiters
    BY <1>6, <1>7 DEF WakeOne
  <2>2. Holders' = Holders \ {c}
    BY <1>1, <1>5, <2>1 DEF Holders
  <2>3. WaitListExact'
    BY <1>1, <1>5, <2>1, ListKept
  <2>4. InflightExact'
    BY <1>2, <1>4, <2>2 DEF SemInv, InflightExact
  <2>5. TypeOK'
    BY <1>4, <1>5, <1>6, <2>1 DEF SemInv, TypeOK
  <2>6. FailedCalls' = FailedCalls
    BY <1>1, <1>5, <2>1 DEF FailedCalls
  <2> QED
    BY <1>4, <1>7, <2>1, <2>2, <2>3, <2>4, <2>5, <2>6 DEF SemInv
<1>8. CASE waiters # << >>
  <2> DEFINE h == Head(waiters)
  <2>1. pc' = [q EXCEPT ![h] = "woken"] /\ waiters' = Tail(waiters)
    BY <1>6, <1>8 DEF WakeOne
  <2>2. /\ waiters \in Seq(Calls) /\ Len(waiters) \in Nat
        /\ 1 \in 1..Len(waiters) /\ h = waiters[1] /\ h \in Calls
        /\ waiters' \in Seq(Calls) /\ Len(waiters') = Len(waiters) - 1
        /\ \A i \in 1..Len(waiters') :
              /\ i + 1 \in 1..Len(waiters) /\ waiters'[i] = waiters[i + 1]
              /\ waiters'[i] \in Calls
    BY <1>8, <2>1 DEF SemInv, TypeOK
  <2>3. pc[h] = "waiting" /\ h # c
    BY <1>1, <2>2 DEF SemInv, WaitListExact
  <2> HIDE DEF h
  <2>4. /\ pc'[h] = "woken" /\ pc'[c] = "released"
        /\ \A d \in Calls : d # c /\ d # h => pc'[d] = pc[d]
        /\ pc' \in [Calls -> CallStates]
    BY <1>5, <2>1, <2>2, <2>3 DEF CallStates
  <2>5. Holders' = Holders \ {c}
    BY <2>3, <2>4 DEF Holders
  <2>6. h \notin Woken /\ Woken' = Woken \cup {h}
    BY <1>1, <2>2, <2>3, <2>4 DEF Woken
  <2>7. WaitListExact'
    <3>1. \A i \in 1..Len(waiters') : waiters'[i] # h
      BY <2>2 DEF SemInv, WaitListExact
    <3>2. \A i \in 1..Len(waiters') : pc'[waiters'[i]] = "waiting"
      BY <1>1, <2>2, <2>4, <3>1 DEF SemInv, WaitListExact
    <3>3. \A i, k \in 1..Len(waiters') : waiters'[i] = waiters'[k] => i = k
      BY <2>2 DEF SemInv, WaitListExact
    <3>4. ASSUME NEW d \in Calls, pc'[d] = "waiting"
          PROVE  \E i \in 1..Len(waiters') : waiters'[i] = d
      <4>1. d # h /\ pc[d] = "waiting"
        BY <2>4, <3>4
      <4>2. PICK i \in 1..Len(waiters) : waiters[i] = d
        BY <4>1 DEF SemInv, WaitListExact
      <4>3. i # 1
        BY <2>2, <4>1, <4>2
      <4>4. i - 1 \in 1..Len(waiters') /\ (i - 1) + 1 = i
        BY <2>2, <4>3
      <4> QED
        BY <2>2, <4>2, <4>4
    <3> QED
      BY <3>2, <3>3, <3>4 DEF WaitListExact
  <2>8. InflightExact'
    BY <1>2, <1>4, <2>5 DEF SemInv, InflightExact
  <2>9. TypeOK'
    BY <1>4, <1>6, <2>2, <2>4 DEF SemInv, TypeOK
  <2>10. FailedCalls' = FailedCalls
    BY <1>1, <2>3, <2>4 DEF FailedCalls
  <2> QED
    BY <1>4, <1>8, <2>2, <2>5, <2>6, <2>7, <2>8, <2>9, <2>10 DEF SemInv, h
<1> QED
  BY <1>7, <1>8

-----------------------------------------------------------------------------
(* Every step keeps the invariant and is a step of the SlotLimiter, or      *)
(* changes neither the limit nor the holders.                               *)

\* The fast path grants a slot below the limit.
LEMMA AcquireFastFacts ==
    ASSUME SemInv, NEW c \in Calls, AcquireFast(c)
    PROVE  SemInv' /\ Limiter!Grant(c)
<1>1. Holders' = Holders \cup {c} /\ InflightExact'
  BY GrantedSlot DEF AcquireFast
<1>2. TypeOK'
  BY DEF AcquireFast, SemInv, TypeOK, CallStates
<1>3. WaitListExact'
  BY ListKept DEF AcquireFast, SemInv, TypeOK
<1>4. c \notin Holders /\ Cardinality(Holders) < limit
  BY DEF AcquireFast, SemInv, InflightExact, Holders
<1>5. SemInv'
  BY <1>1, <1>2, <1>3 DEF SemInv
<1>6. limit' = limit
  BY DEF AcquireFast
<1> QED
  BY <1>1, <1>4, <1>5, <1>6, Zenon DEF Limiter!Grant, Limiter!Cardinality, Cardinality

\* The tail shared by the slow path and a wakeup that found no slot.
LEMMA GiveUpOrWaitFacts ==
    ASSUME SemInv, NEW c \in Calls, pc[c] \in {"idle", "woken"}, GiveUpOrWait(c),
           UNCHANGED inflight
    PROVE  /\ pc' \in [Calls -> CallStates] /\ waiters' \in Seq(Calls)
           /\ WaitListExact' /\ InflightExact' /\ Holders' = Holders
<1>1. CASE c \in cancelled
  <2>1. pc' = [pc EXCEPT ![c] = "failed"] /\ waiters' = waiters
    BY <1>1 DEF GiveUpOrWait
  <2>2. Holders' = Holders
    BY <2>1 DEF Holders, SemInv, TypeOK
  <2>3. WaitListExact'
    BY <2>1, ListKept DEF SemInv, TypeOK
  <2> QED
    BY <2>1, <2>2, <2>3, SameHolders DEF SemInv, TypeOK, CallStates
<1>2. CASE c \notin cancelled
  <2>1. pc' = [pc EXCEPT ![c] = "waiting"] /\ waiters' = Append(waiters, c)
    BY <1>2 DEF GiveUpOrWait
  <2>2. Holders' = Holders
    BY <2>1 DEF Holders, SemInv, TypeOK
  <2>3. waiters' \in Seq(Calls) /\ WaitListExact'
    BY <2>1, JoinList
  <2> QED
    BY <2>1, <2>2, <2>3, SameHolders DEF SemInv, TypeOK, CallStates
<1> QED
  BY <1>1, <1>2

\* The slow path up to cond.Wait grants nothing.
LEMMA AcquireSlowFacts ==
    ASSUME SemInv, NEW c \in Calls, AcquireSlow(c)
    PROVE  SemInv' /\ UNCHANGED <<limit, Holders>>
BY GiveUpOrWaitFacts DEF AcquireSlow, SemInv, TypeOK

\* A wakeup that finds no free slot grants nothing.
LEMMA ResumeFullFacts ==
    ASSUME SemInv, NEW c \in Calls, ResumeFull(c)
    PROVE  SemInv' /\ UNCHANGED <<limit, Holders>>
BY GiveUpOrWaitFacts DEF ResumeFull, SemInv, TypeOK

\* A wakeup that finds one grants it, unless the context is done.
LEMMA ResumeFreeFacts ==
    ASSUME SemInv, NEW c \in Calls, ResumeFree(c)
    PROVE  SemInv' /\ (Limiter!Grant(c) \/ UNCHANGED <<limit, Holders>>)
<1>1. WaitListExact'
  BY ListKept DEF ResumeFree, SemInv, TypeOK
<1>2. CASE c \in cancelled
  <2>1. pc' = [pc EXCEPT ![c] = "failed"] /\ inflight' = inflight
    BY <1>2 DEF ResumeFree
  <2>2. Holders' = Holders
    BY <2>1 DEF Holders, SemInv, TypeOK, ResumeFree
  <2>3. TypeOK'
    BY <2>1 DEF SemInv, TypeOK, CallStates, ResumeFree
  <2> QED
    BY <1>1, <2>1, <2>2, <2>3, SameHolders DEF SemInv, ResumeFree
<1>3. CASE c \notin cancelled
  <2>1. pc' = [pc EXCEPT ![c] = "holding"] /\ inflight' = inflight + 1
    BY <1>3 DEF ResumeFree
  <2>2. Holders' = Holders \cup {c} /\ InflightExact'
    BY <2>1, GrantedSlot DEF ResumeFree
  <2>3. TypeOK'
    BY <2>1 DEF SemInv, TypeOK, CallStates, ResumeFree
  <2>4. c \notin Holders /\ Cardinality(Holders) < limit
    BY DEF ResumeFree, SemInv, InflightExact, Holders
  <2>5. SemInv'
    BY <1>1, <2>2, <2>3 DEF SemInv
  <2>6. limit' = limit
    BY DEF ResumeFree
  <2> QED
    BY <2>2, <2>4, <2>5, <2>6, Zenon DEF Limiter!Grant, Limiter!Cardinality, Cardinality
<1> QED
  BY <1>2, <1>3

\* SetLimit moves the limit and no slot.
LEMMA SetLimitFacts ==
    ASSUME SemInv, NEW n \in NewLimits, SetLimit(n)
    PROVE  SemInv' /\ Limiter!MoveLimit
<1>1. limit' \in Nat \ {0}
  BY LimitPositive, NewLimitsAssumption DEF SetLimit
<1>2. CASE WakeAll(pc)
  BY <1>1, <1>2, ListCleared, SameHolders
  DEF SetLimit, SemInv, TypeOK, Limiter!MoveLimit
<1>3. CASE UNCHANGED <<pc, waiters>>
  <2>1. Holders' = Holders
    BY <1>3 DEF Holders
  <2>2. WaitListExact'
    BY <1>3, ListKept
  <2> QED
    BY <1>1, <1>3, <2>1, <2>2, SameHolders
    DEF SetLimit, SemInv, TypeOK, Limiter!MoveLimit
<1> QED
  BY <1>2, <1>3 DEF SetLimit

\* Cancelling, and the watcher, change neither limit nor holders.
LEMMA CancellationFacts ==
    ASSUME SemInv, NEW c \in Calls, CancelCtx(c) \/ WatcherFires(c) \/ WatcherQuits(c)
    PROVE  SemInv' /\ UNCHANGED <<limit, Holders>>
<1>1. CASE WatcherFires(c)
  BY <1>1, ListCleared, SameHolders DEF WatcherFires, SemInv, TypeOK
<1>2. CASE CancelCtx(c) \/ WatcherQuits(c)
  <2>1. UNCHANGED <<limit, inflight, pc, waiters>>
    BY <1>2 DEF CancelCtx, WatcherQuits
  <2>2. Holders' = Holders
    BY <2>1 DEF Holders
  <2>3. WaitListExact'
    BY <2>1, ListKept
  <2>4. cancelled' \subseteq CanCancel /\ watcher' \subseteq Calls
    BY <1>2 DEF CancelCtx, WatcherQuits, SemInv, TypeOK
  <2> QED
    BY <2>1, <2>2, <2>3, <2>4, SameHolders DEF SemInv, TypeOK
<1> QED
  BY <1>1, <1>2

\* Every step keeps the invariant and maps to a step of the limiter or none.
LEMMA SemStep ==
    SemInv /\ [Next]_vars => SemInv' /\ [Limiter!Next]_<<limit, Holders>>
<1> SUFFICES ASSUME SemInv, [Next]_vars
             PROVE  SemInv' /\ [Limiter!Next]_<<limit, Holders>>
  OBVIOUS
<1>1. ASSUME NEW c \in Calls, AcquireFast(c) \/ ResumeFree(c)
      PROVE  SemInv' /\ [Limiter!Next]_<<limit, Holders>>
  BY <1>1, AcquireFastFacts, ResumeFreeFacts DEF Limiter!Next
<1>2. ASSUME NEW c \in Calls, AcquireSlow(c) \/ ResumeFull(c)
      PROVE  SemInv' /\ [Limiter!Next]_<<limit, Holders>>
  BY <1>2, AcquireSlowFacts, ResumeFullFacts
<1>3. ASSUME NEW c \in Calls, Release(c)
      PROVE  SemInv' /\ [Limiter!Next]_<<limit, Holders>>
  <2>1. SemInv' /\ Holders' = Holders \ {c}
    BY <1>3, ReleaseFacts
  <2>2. Limiter!GiveBack(c)
    BY <1>3, <2>1 DEF Limiter!GiveBack, Release, Holders
  <2> QED
    BY <2>1, <2>2 DEF Limiter!Next
<1>4. ASSUME NEW c \in Calls, CancelCtx(c) \/ WatcherFires(c) \/ WatcherQuits(c)
      PROVE  SemInv' /\ [Limiter!Next]_<<limit, Holders>>
  BY <1>4, CancellationFacts
<1>5. ASSUME NEW n \in NewLimits, SetLimit(n)
      PROVE  SemInv' /\ [Limiter!Next]_<<limit, Holders>>
  BY <1>5, SetLimitFacts DEF Limiter!Next
<1>6. CASE UNCHANGED vars
  <2>1. Holders' = Holders
    BY <1>6 DEF vars, Holders
  <2>2. WaitListExact'
    BY <1>6, ListKept DEF vars
  <2> QED
    BY <1>6, <2>1, <2>2, SameHolders DEF SemInv, TypeOK, vars
<1> QED
  BY <1>1, <1>2, <1>3, <1>4, <1>5, <1>6 DEF Next

\* The wait list is exact and the counter counts the holders, in every state.
THEOREM SemInvariant == Spec => []SemInv
BY SemInit, SemStep, PTL DEF Spec

\* The limit stays positive whatever SetLimit is called with, and nothing else leaves
\* its type.
THEOREM SemaphoreTypes == Spec => []TypeOK
<1>1. SemInv => TypeOK
  BY DEF SemInv
<1> QED
  BY <1>1, SemInvariant, PTL

\* The counter is exact: no slot leaks and none is returned twice.
THEOREM SlotsExact == Spec => []InflightExact
<1>1. SemInv => InflightExact
  BY DEF SemInv
<1> QED
  BY <1>1, SemInvariant, PTL

\* The semaphore implements the slot limiter.
THEOREM SemaphoreImplementsLimiter == Spec => ImplementsLimiter
<1>1. Init => Limiter!Init
  <2> SUFFICES ASSUME Init PROVE Limiter!Init
    OBVIOUS
  <2>1. Holders = {}
    BY DEF Init, Holders
  <2> QED
    BY <2>1, LimitPositive, InitialLimitAssumption DEF Init, Limiter!Init
<1> QED
  BY <1>1, SemInvariant, SemStep, PTL DEF Spec, Limiter!Spec, ImplementsLimiter

-----------------------------------------------------------------------------
(* Wakeups.                                                                 *)

CoverInv == SemInv /\ WakeupsCoverFreeSlots

\* What covers the slots beside the holders, as one number.
Covered == inflight + Cardinality(Woken) + Cardinality(FailedCalls)

\* What is counted are numbers.
CoverTyped ==
    /\ inflight \in Nat /\ limit \in Nat
    /\ Cardinality(Woken) \in Nat /\ Cardinality(FailedCalls) \in Nat
    /\ IsFiniteSet(Woken) /\ IsFiniteSet(FailedCalls)

\* The invariant types what is counted.
LEMMA CoverTypes == SemInv => CoverTyped
<1>1. Woken \subseteq Calls /\ FailedCalls \subseteq Calls
  BY DEF Woken, FailedCalls
<1>2. /\ IsFiniteSet(Woken) /\ Cardinality(Woken) \in Nat
      /\ IsFiniteSet(FailedCalls) /\ Cardinality(FailedCalls) \in Nat
  BY <1>1, CallsAssumption, FS_Subset, FS_CardinalityType
<1> QED
  BY <1>2 DEF SemInv, TypeOK, CoverTyped

\* The same after a step.
LEMMA CoverTypesNext == SemInv' => CoverTyped'
BY CoverTypes, PTL

\* A woken call that finds a slot takes it, or fails and is counted as failed.
LEMMA ResumeFreeCovers ==
    ASSUME SemInv, NEW c \in Calls, ResumeFree(c)
    PROVE  Covered' = Covered /\ UNCHANGED <<limit, waiters>>
<1>0. c \in Woken /\ c \notin FailedCalls /\ UNCHANGED <<limit, waiters>>
  BY DEF ResumeFree, Woken, FailedCalls
<1>1. Cardinality(Woken \ {c}) = Cardinality(Woken) - 1
  BY <1>0, CoverTypes, FS_RemoveElement DEF CoverTyped
<1>2. CASE c \in cancelled
  <2>1. pc' = [pc EXCEPT ![c] = "failed"] /\ inflight' = inflight
    BY <1>2 DEF ResumeFree
  <2>2. Woken' = Woken \ {c} /\ FailedCalls' = FailedCalls \cup {c}
    BY <1>0, <2>1 DEF Woken, FailedCalls, SemInv, TypeOK
  <2>3. Cardinality(FailedCalls \cup {c}) = Cardinality(FailedCalls) + 1
    BY <1>0, CoverTypes, FS_AddElement DEF CoverTyped
  <2> QED
    BY <1>0, <1>1, <2>1, <2>2, <2>3, CoverTypes DEF Covered, CoverTyped
<1>3. CASE c \notin cancelled
  <2>1. pc' = [pc EXCEPT ![c] = "holding"] /\ inflight' = inflight + 1
    BY <1>3 DEF ResumeFree
  <2>2. Woken' = Woken \ {c} /\ FailedCalls' = FailedCalls
    BY <1>0, <2>1 DEF Woken, FailedCalls, SemInv, TypeOK
  <2> QED
    BY <1>0, <1>1, <2>1, <2>2, CoverTypes DEF Covered, CoverTyped
<1> QED
  BY <1>2, <1>3

\* Every step keeps the slots covered.
LEMMA CoverStep ==
    ASSUME CoverInv, [Next]_vars
    PROVE  WakeupsCoverFreeSlots'
<1> USE DEF CoverInv
<1>1. SemInv'
  BY SemStep
<1>2. /\ inflight \in Nat /\ limit \in Nat
      /\ Cardinality(Woken) \in Nat /\ Cardinality(FailedCalls) \in Nat
      /\ IsFiniteSet(Woken)
      /\ inflight' \in Nat /\ limit' \in Nat
      /\ Cardinality(Woken') \in Nat /\ Cardinality(FailedCalls') \in Nat
  BY <1>1, CoverTypes, CoverTypesNext DEF CoverTyped
<1>3. ASSUME NEW c \in Calls, AcquireFast(c) PROVE WakeupsCoverFreeSlots'
  <2>1. Woken' = Woken /\ FailedCalls' = FailedCalls
    BY <1>3 DEF AcquireFast, Woken, FailedCalls, SemInv, TypeOK
  <2> QED
    BY <1>2, <1>3, <2>1 DEF AcquireFast, WakeupsCoverFreeSlots
\* A call joins the list only when every slot is held.
<1>4. ASSUME NEW c \in Calls, AcquireSlow(c) \/ ResumeFull(c)
      PROVE  WakeupsCoverFreeSlots'
  BY <1>2, <1>4 DEF AcquireSlow, ResumeFull, WakeupsCoverFreeSlots
<1>5. ASSUME NEW c \in Calls, ResumeFree(c) PROVE WakeupsCoverFreeSlots'
  BY <1>5, ResumeFreeCovers DEF Covered, WakeupsCoverFreeSlots
<1>6. ASSUME NEW c \in Calls, Release(c) PROVE WakeupsCoverFreeSlots'
  <2>1. inflight' = inflight - 1 /\ limit' = limit /\ FailedCalls' = FailedCalls
    BY <1>6, ReleaseFacts DEF Release
  <2>2. CASE waiters = << >>
    BY <1>6, <2>2, ReleaseFacts DEF WakeupsCoverFreeSlots
  <2>3. CASE waiters # << >>
    <3>1. Head(waiters) \notin Woken /\ Woken' = Woken \cup {Head(waiters)}
      BY <1>6, <2>3, ReleaseFacts
    <3>2. Cardinality(Woken') = Cardinality(Woken) + 1
      BY <1>2, <3>1, FS_AddElement
    <3> QED
      BY <1>2, <2>1, <2>3, <3>2 DEF WakeupsCoverFreeSlots
  <2> QED
    BY <2>2, <2>3
<1>7. ASSUME WakeAll(pc) PROVE WakeupsCoverFreeSlots'
  BY <1>7 DEF WakeAll, WakeupsCoverFreeSlots
<1>8. ASSUME NEW n \in NewLimits, SetLimit(n) PROVE WakeupsCoverFreeSlots'
  <2>1. CASE UNCHANGED <<pc, waiters>> /\ limit' <= limit
    <3>1. Woken' = Woken /\ FailedCalls' = FailedCalls
      BY <2>1 DEF Woken, FailedCalls
    <3> QED
      BY <1>2, <1>8, <2>1, <3>1 DEF SetLimit, WakeupsCoverFreeSlots
  <2>2. AtLeastOne(n) \in Nat /\ limit' = AtLeastOne(n)
    BY <1>8, LimitPositive, NewLimitsAssumption DEF SetLimit
  <2> QED
    BY <1>2, <1>7, <1>8, <2>1, <2>2 DEF SetLimit
<1>9. ASSUME UNCHANGED <<limit, inflight, pc, waiters>> PROVE WakeupsCoverFreeSlots'
  <2>1. Woken' = Woken /\ FailedCalls' = FailedCalls
    BY <1>9 DEF Woken, FailedCalls
  <2> QED
    BY <1>9, <2>1 DEF WakeupsCoverFreeSlots
<1>10. ASSUME NEW c \in Calls, CancelCtx(c) \/ WatcherFires(c) \/ WatcherQuits(c)
       PROVE  WakeupsCoverFreeSlots'
  BY <1>7, <1>9, <1>10 DEF CancelCtx, WatcherFires, WatcherQuits
<1>11. CASE UNCHANGED vars
  BY <1>9, <1>11 DEF vars
<1> QED
  BY <1>3, <1>4, <1>5, <1>6, <1>8, <1>10, <1>11 DEF Next

\* Whatever is cancelled, beside waiting calls at most as many slots stand idle, with
\* nobody on the way to them, as cancelled calls have failed: Release's single Signal
\* and SetLimit's Broadcast are enough.
THEOREM NoWakeupIsLost == Spec => []WakeupsCoverFreeSlots
<1>1. Init => CoverInv
  BY SemInit DEF CoverInv, WakeupsCoverFreeSlots, Init
<1>2. CoverInv /\ [Next]_vars => CoverInv'
  BY CoverStep, SemStep DEF CoverInv
<1>3. CoverInv => WakeupsCoverFreeSlots
  BY DEF CoverInv
<1> QED
  BY <1>1, <1>2, <1>3, PTL DEF Spec
=============================================================================
