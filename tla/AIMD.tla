--------------------------------- MODULE AIMD ---------------------------------
(***************************************************************************)
(* The controller that moves the limit of the DNS semaphore (dns/adaptive  *)
(* .go, AIMDController) and the reader that feeds it (dns/stats_reader.go).*)
(* Query goroutines bump one Prometheus counter per MX query; every tick   *)
(* the reader adds the five counters up, reads the timeout counter again   *)
(* for the errors, and hands the differences with the previous tick over.  *)
(* Each counter is read by itself: queries finish between two reads, and a *)
(* read whose Write fails gives 0, which is remembered like any other.     *)
(*                                                                         *)
(* Rates are compared as integers: errs / total > pct / 100 is             *)
(* errs * 100 > pct * total.                                               *)
(***************************************************************************)
EXTENDS Integers, Sequences

CONSTANTS
    InitialLimit, MinLimit, MaxLimit, AdditiveStep,
    UpperPct, CriticalPct, LowerPct,
    MinSamples,
    MaxQueries,  \* bound: MX queries answered in a run
    Env          \* which outside events the instance includes

ASSUME LimitsAssumption ==
    /\ MinLimit \in Nat \ {0} /\ MaxLimit \in Nat /\ InitialLimit \in Nat
    /\ MinLimit <= InitialLimit /\ InitialLimit <= MaxLimit
ASSUME StepAssumption == AdditiveStep \in Nat
ASSUME PctAssumption ==
    LowerPct \in Nat /\ UpperPct \in Nat /\ CriticalPct \in Nat
ASSUME SamplesAssumption == MinSamples \in Nat /\ MaxQueries \in Nat
ASSUME EnvAssumption == Env \subseteq {"read_error"}

VARIABLES
    count,       \* mx_queries_total, by result
    cursor,      \* reads of the current tick already done
    sum,         \* what they added up to
    lastTotal, lastErrors,
    limit,       \* of the semaphore; only the controller sets it
    rate         \* lastErrorRate, as errors of how many queries

vars == <<count, cursor, sum, lastTotal, lastErrors, limit, rate>>

Results == {"ok", "nxdomain", "timeout", "servfail", "error"}
ReadOrder == <<"ok", "nxdomain", "timeout", "servfail", "error">>

Answered == count["ok"] + count["nxdomain"] + count["timeout"]
            + count["servfail"] + count["error"]

TypeOK ==
    /\ count \in [Results -> Nat]
    /\ cursor \in 0..5
    /\ sum \in Nat /\ lastTotal \in Nat /\ lastErrors \in Nat
    /\ limit \in Nat
    /\ rate \in [errors : Nat, of : Nat]

Init ==
    /\ count = [r \in Results |-> 0]
    /\ cursor = 0 /\ sum = 0
    /\ lastTotal = 0 /\ lastErrors = 0
    /\ limit = InitialLimit
    /\ rate = [errors |-> 0, of |-> 0]

-----------------------------------------------------------------------------
\* resolveMX counts the outcome of a query.
CountQuery(r) ==
    /\ Answered < MaxQueries
    /\ count' = [count EXCEPT ![r] = @ + 1]
    /\ UNCHANGED <<cursor, sum, lastTotal, lastErrors, limit, rate>>

\* What readCounter returns for a counter that stands at n: if Write fails, 0.
Readings(n) == {n} \cup (IF "read_error" \in Env THEN {0} ELSE {})

\* The next of the five reads of total.
ReadCounter ==
    /\ cursor < 5
    /\ \E n \in Readings(count[ReadOrder[cursor + 1]]) : sum' = sum + n
    /\ cursor' = cursor + 1
    /\ UNCHANGED <<count, lastTotal, lastErrors, limit, rate>>

\* Mutation: the guards are gone, and the unsigned difference wraps around (here at
\* 16 bits instead of 64).
SinceWrapping(now, last) == (now - last) % 65536

\* A difference, or nothing if the reading fell behind the last one.
Since(now, last) == IF now >= last THEN now - last ELSE 0

\* Mutation: servfail counts as saturation.
ReadErrorsOfBoth == count["timeout"] + count["servfail"]

\* The counters the controller takes for errors.
ReadErrors == count["timeout"]

\* Mutation: no lower bound.
ClampMaxOnly(n) == IF n > MaxLimit THEN MaxLimit ELSE n

Clamp(n) ==
    IF n < MinLimit THEN MinLimit
    ELSE IF n > MaxLimit THEN MaxLimit ELSE n

\* The switch of tick: errors of total, from the limit old.
NewLimit(old, errors, total) ==
    Clamp(IF errors * 100 > CriticalPct * total THEN old \div 4
          ELSE IF errors * 100 > UpperPct * total THEN old \div 2
          ELSE IF errors * 100 < LowerPct * total THEN old + AdditiveStep
          ELSE old)

\* The sixth read, which gives errs, the end of the reader and the rest of tick.
TickWith(errs) ==
    /\ cursor = 5
    /\ LET total == Since(sum, lastTotal)
           errors == Since(errs, lastErrors)
       IN  IF total = 0 \/ total < MinSamples
           THEN UNCHANGED <<limit, rate>>
           ELSE /\ rate' = [errors |-> errors, of |-> total]
                /\ limit' = NewLimit(limit, errors, total)
    /\ lastTotal' = sum
    /\ lastErrors' = errs
    /\ cursor' = 0 /\ sum' = 0
    /\ UNCHANGED count

Tick == \E errs \in Readings(ReadErrors) : TickWith(errs)

Next == (\E r \in Results : CountQuery(r)) \/ ReadCounter \/ Tick

Spec == Init /\ [][Next]_vars

-----------------------------------------------------------------------------
(* Properties *)

\* The limit stays between minLimit and maxLimit whatever the counters do, so
\* the semaphore is never closed by repeated cuts nor opened without end.
LimitInRange == MinLimit <= limit /\ limit <= MaxLimit

\* A tick never judges by more queries or timeouts than there have been: a reading that
\* falls behind the remembered one, which the unsigned difference would turn into a
\* huge window, counts as no news (stats_reader.go:44-49).
WindowsAreReal == rate.errors <= count["timeout"] /\ rate.of <= Answered

\* Broken authoritative servers do not throttle us (stats_reader.go:13-25): the
\* limit is cut only by a tick that finds more timeouts than the tick before it
\* remembered, however many queries ended in servfail, nxdomain or error and
\* whatever readings fail.  (A failed reading is remembered as 0, so the next tick
\* charges timeouts again that an earlier one was charged with.)
CutOnlyByNewTimeouts ==
    [][limit' < limit => count["timeout"] > lastErrors]_vars
=============================================================================
