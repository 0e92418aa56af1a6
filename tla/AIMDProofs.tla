------------------------------ MODULE AIMDProofs ------------------------------
(***************************************************************************)
(* Proofs about the AIMD controller, for every choice of limits, step,     *)
(* thresholds and sample size, and for every interleaving of queries with  *)
(* the reads of a tick.                                                    *)
(***************************************************************************)
EXTENDS AIMD, TLAPS

\* What the first n reads of a tick would add up to now.
ReadUpTo(n) ==
      (IF n >= 1 THEN count["ok"] ELSE 0)
    + (IF n >= 2 THEN count["nxdomain"] ELSE 0)
    + (IF n >= 3 THEN count["timeout"] ELSE 0)
    + (IF n >= 4 THEN count["servfail"] ELSE 0)
    + (IF n >= 5 THEN count["error"] ELSE 0)

\* The inductive invariant: what has been added up in this tick is at most what the
\* counters read so far hold now, whether the reads succeeded or not.
AimdInv ==
    /\ TypeOK
    /\ LimitInRange
    /\ WindowsAreReal
    /\ sum <= ReadUpTo(cursor)

\* Clamp lands in the range whatever it is given.
LEMMA ClampInRange ==
    ASSUME NEW n \in Int
    PROVE  Clamp(n) \in Nat /\ MinLimit <= Clamp(n) /\ Clamp(n) <= MaxLimit
BY LimitsAssumption DEF Clamp

\* So does the switch of tick.
LEMMA NewLimitInRange ==
    ASSUME NEW old \in Nat, NEW errors \in Nat, NEW total \in Nat
    PROVE  /\ NewLimit(old, errors, total) \in Nat
           /\ MinLimit <= NewLimit(old, errors, total)
           /\ NewLimit(old, errors, total) <= MaxLimit
<1>1. old \div 4 \in Int /\ old \div 2 \in Int /\ old + AdditiveStep \in Int
  BY StepAssumption
<1> QED
  BY <1>1, ClampInRange DEF NewLimit

\* Without errors the switch never lowers a limit that is in range.
LEMMA NoErrorsNoCut ==
    ASSUME NEW old \in Nat, MinLimit <= old, old <= MaxLimit, NEW total \in Nat
    PROVE  NewLimit(old, 0, total) >= old
<1>1. CriticalPct * total \in Nat /\ UpperPct * total \in Nat
      /\ LowerPct * total \in Nat
  BY PctAssumption
<1>2. ~(0 * 100 > CriticalPct * total) /\ ~(0 * 100 > UpperPct * total)
  BY <1>1
<1>3. NewLimit(old, 0, total) \in {Clamp(old + AdditiveStep), Clamp(old)}
  BY <1>2 DEF NewLimit
<1>4. Clamp(old + AdditiveStep) >= old /\ Clamp(old) >= old
  BY StepAssumption, LimitsAssumption DEF Clamp
<1> QED
  BY <1>3, <1>4

\* A difference of two totals is a natural number.
LEMMA SinceType ==
    ASSUME NEW now \in Nat, NEW last \in Nat
    PROVE  /\ Since(now, last) \in Nat /\ Since(now, last) <= now
           /\ Since(now, last) # 0 => now > last
BY DEF Since

\* A reading is a number and at most what the counter holds.
LEMMA ReadingType ==
    ASSUME NEW n \in Nat, NEW m \in Readings(n)
    PROVE  m \in Nat /\ m <= n
BY DEF Readings

\* The invariant holds when the process starts.
LEMMA AimdInit == Init => AimdInv
BY LimitsAssumption
DEF Init, AimdInv, TypeOK, LimitInRange, WindowsAreReal, Answered, Results, ReadUpTo

\* Every step keeps it.
LEMMA AimdStep == AimdInv /\ [Next]_vars => AimdInv'
<1> SUFFICES ASSUME AimdInv, [Next]_vars PROVE AimdInv'
  OBVIOUS
<1>0. /\ count \in [Results -> Nat]
      /\ count["ok"] \in Nat /\ count["nxdomain"] \in Nat /\ count["timeout"] \in Nat
      /\ count["servfail"] \in Nat /\ count["error"] \in Nat
      /\ cursor \in 0..5 /\ sum \in Nat /\ lastTotal \in Nat /\ lastErrors \in Nat
  BY DEF AimdInv, TypeOK, Results
<1>1. ASSUME NEW r \in Results, CountQuery(r) PROVE AimdInv'
  <2>1. /\ count' \in [Results -> Nat]
        /\ \A q \in Results : count'[q] \in Nat /\ count'[q] >= count[q]
    BY <1>0, <1>1 DEF CountQuery
  <2>2. /\ count'["ok"] \in Nat /\ count'["ok"] >= count["ok"]
        /\ count'["nxdomain"] \in Nat /\ count'["nxdomain"] >= count["nxdomain"]
        /\ count'["timeout"] \in Nat /\ count'["timeout"] >= count["timeout"]
        /\ count'["servfail"] \in Nat /\ count'["servfail"] >= count["servfail"]
        /\ count'["error"] \in Nat /\ count'["error"] >= count["error"]
    BY <2>1 DEF Results
  <2>3. UNCHANGED <<cursor, sum, lastTotal, lastErrors, limit, rate>>
    BY <1>1 DEF CountQuery
  <2>4. (sum <= ReadUpTo(cursor))'
    BY <1>0, <2>2, <2>3 DEF AimdInv, ReadUpTo
  <2>5. WindowsAreReal'
    BY <1>0, <2>2, <2>3 DEF AimdInv, TypeOK, WindowsAreReal, Answered
  <2> QED
    BY <1>0, <2>1, <2>3, <2>4, <2>5 DEF AimdInv, TypeOK, LimitInRange
<1>2. CASE ReadCounter
  <2>1. /\ cursor' = cursor + 1 /\ cursor < 5
        /\ \E n \in Readings(count[ReadOrder[cursor + 1]]) : sum' = sum + n
        /\ UNCHANGED <<count, lastTotal, lastErrors, limit, rate>>
    BY <1>2 DEF ReadCounter
  <2>2. count[ReadOrder[cursor + 1]] \in Nat
        /\ count[ReadOrder[cursor + 1]] = ReadUpTo(cursor + 1) - ReadUpTo(cursor)
    <3>1. cursor \in {0, 1, 2, 3, 4}
      BY <1>0, <2>1
    <3>2. /\ ReadOrder[1] = "ok" /\ ReadOrder[2] = "nxdomain"
          /\ ReadOrder[3] = "timeout" /\ ReadOrder[4] = "servfail"
          /\ ReadOrder[5] = "error"
      BY DEF ReadOrder
    <3>3. CASE cursor = 0
      BY <1>0, <3>2, <3>3 DEF ReadUpTo
    <3>4. CASE cursor = 1
      BY <1>0, <3>2, <3>4 DEF ReadUpTo
    <3>5. CASE cursor = 2
      BY <1>0, <3>2, <3>5 DEF ReadUpTo
    <3>6. CASE cursor = 3
      BY <1>0, <3>2, <3>6 DEF ReadUpTo
    <3>7. CASE cursor = 4
      BY <1>0, <3>2, <3>7 DEF ReadUpTo
    <3> QED
      BY <3>1, <3>3, <3>4, <3>5, <3>6, <3>7
  <2>3. \A n \in 0..5 : ReadUpTo(n)' = ReadUpTo(n) /\ ReadUpTo(n) \in Nat
    BY <1>0, <2>1 DEF ReadUpTo
  <2>4. PICK n \in Readings(count[ReadOrder[cursor + 1]]) : sum' = sum + n
    BY <2>1
  <2>5. n \in Nat /\ n <= count[ReadOrder[cursor + 1]]
    BY <2>2, <2>4, ReadingType
  <2>6. cursor + 1 \in 0..5 /\ sum' \in Nat
    BY <1>0, <2>1, <2>4, <2>5
  <2>7. ReadUpTo(cursor)' = ReadUpTo(cursor + 1)
    BY <1>0, <2>1 DEF ReadUpTo
  <2>8. (sum <= ReadUpTo(cursor))'
    BY <1>0, <2>1, <2>2, <2>3, <2>4, <2>5, <2>6, <2>7 DEF AimdInv
  <2>9. WindowsAreReal'
    BY <2>1 DEF AimdInv, WindowsAreReal, Answered
  <2> QED
    BY <1>0, <2>1, <2>6, <2>8, <2>9 DEF AimdInv, TypeOK, LimitInRange
<1>3. ASSUME NEW errs \in Readings(ReadErrors), TickWith(errs) PROVE AimdInv'
  <2> DEFINE t == Since(sum, lastTotal)
             e == Since(errs, lastErrors)
  <2>1. errs \in Nat /\ errs <= count["timeout"]
    BY <1>0, ReadingType DEF ReadErrors
  <2>2. t \in Nat /\ t <= sum /\ e \in Nat /\ e <= errs
    BY <1>0, <2>1, SinceType
  <2>3. /\ lastTotal' = sum /\ lastErrors' = errs /\ cursor = 5
        /\ cursor' = 0 /\ sum' = 0 /\ count' = count
    BY <1>3 DEF TickWith
  <2>4. \/ limit' = limit /\ rate' = rate
        \/ rate' = [errors |-> e, of |-> t] /\ limit' = NewLimit(limit, e, t)
    BY <1>3 DEF TickWith
  <2> HIDE DEF t, e
  <2>5. limit \in Nat /\ limit' \in Nat /\ MinLimit <= limit' /\ limit' <= MaxLimit
    <3>1. limit \in Nat /\ MinLimit <= limit /\ limit <= MaxLimit
      BY DEF AimdInv, TypeOK, LimitInRange
    <3>2. /\ NewLimit(limit, e, t) \in Nat
          /\ MinLimit <= NewLimit(limit, e, t) /\ NewLimit(limit, e, t) <= MaxLimit
      BY <2>2, <3>1, NewLimitInRange
    <3> QED
      BY <2>4, <3>1, <3>2
  <2>6. rate' \in [errors : Nat, of : Nat]
    BY <2>2, <2>4 DEF AimdInv, TypeOK
  <2>7. (sum <= ReadUpTo(cursor))'
    BY <1>0, <2>3 DEF ReadUpTo
  <2>8. WindowsAreReal'
    <3>1. sum <= ReadUpTo(5) /\ ReadUpTo(5) = Answered /\ Answered \in Nat
      BY <1>0, <2>3 DEF AimdInv, ReadUpTo, Answered
    <3>2. CASE rate' = rate
      BY <2>3, <3>2 DEF AimdInv, WindowsAreReal, Answered
    <3>3. CASE rate' = [errors |-> e, of |-> t]
      <4>1. e <= count["timeout"] /\ t <= Answered
        BY <1>0, <2>1, <2>2, <3>1
      <4> QED
        BY <2>3, <3>3, <4>1 DEF WindowsAreReal, Answered
    <3> QED
      BY <2>4, <3>2, <3>3
  <2> QED
    BY <1>0, <2>1, <2>3, <2>5, <2>6, <2>7, <2>8 DEF AimdInv, TypeOK, LimitInRange
<1>4. CASE UNCHANGED vars
  BY <1>4 DEF vars, AimdInv, TypeOK, LimitInRange, WindowsAreReal, Answered, ReadUpTo
<1> QED
  BY <1>1, <1>2, <1>3, <1>4 DEF Next, Tick

\* The inductive invariant is one.
THEOREM AimdInvariant == Spec => []AimdInv
BY AimdInit, AimdStep, PTL DEF Spec

\* The controller keeps the semaphore's limit between minLimit and maxLimit.
THEOREM LimitAlwaysInRange == Spec => []LimitInRange
<1>1. AimdInv => LimitInRange
  BY DEF AimdInv
<1> QED
  BY <1>1, AimdInvariant, PTL

\* Failed readings and reads that are not atomic never make a tick see more queries or
\* timeouts than there were.
THEOREM OnlyRealWindows == Spec => []WindowsAreReal
<1>1. AimdInv => WindowsAreReal
  BY DEF AimdInv
<1> QED
  BY <1>1, AimdInvariant, PTL

\* Only a tick that finds more timeouts than the last one remembered makes the
\* controller cut.
THEOREM OnlyNewTimeoutsCut == Spec => CutOnlyByNewTimeouts
<1>1. AimdInv /\ [Next]_vars
        => [limit' < limit => count["timeout"] > lastErrors]_vars
  <2> SUFFICES ASSUME AimdInv, Next, limit' < limit
               PROVE  count["timeout"] > lastErrors
    OBVIOUS
  <2> USE DEF AimdInv, TypeOK, LimitInRange
  <2>1. PICK errs \in Readings(ReadErrors) : TickWith(errs)
    BY DEF Next, CountQuery, ReadCounter, Tick
  <2> DEFINE t == Since(sum, lastTotal)
             e == Since(errs, lastErrors)
  <2>2. errs \in Nat /\ count["timeout"] \in Nat /\ errs <= count["timeout"]
    <3>1. count["timeout"] \in Nat
      BY DEF Results
    <3>2. errs \in Readings(count["timeout"])
      BY DEF ReadErrors
    <3> QED
      BY <3>1, <3>2, ReadingType
  <2>3. t \in Nat /\ e \in Nat /\ (e # 0 => count["timeout"] > lastErrors)
    <3>1. sum \in Nat /\ lastTotal \in Nat /\ lastErrors \in Nat
      OBVIOUS
    <3>2. t \in Nat /\ e \in Nat /\ (e # 0 => errs > lastErrors)
      BY <2>2, <3>1, SinceType
    <3> QED
      BY <2>2, <3>1, <3>2
  <2>4. limit' = limit \/ limit' = NewLimit(limit, e, t)
    BY <2>1 DEF TickWith
  <2> HIDE DEF t, e
  <2>5. limit \in Nat /\ MinLimit <= limit /\ limit <= MaxLimit
    OBVIOUS
  <2>6. e # 0
    <3> SUFFICES ASSUME e = 0 PROVE FALSE
      OBVIOUS
    <3>1. NewLimit(limit, 0, t) >= limit /\ NewLimit(limit, 0, t) \in Nat
      BY <2>3, <2>5, NoErrorsNoCut, NewLimitInRange
    <3> QED
      BY <2>4, <2>5, <3>1
  <2> QED
    BY <2>3, <2>6
<1> QED
  BY <1>1, AimdInvariant, PTL DEF Spec, CutOnlyByNewTimeouts
=============================================================================
