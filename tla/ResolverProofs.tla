---------------------------- MODULE ResolverProofs ----------------------------
(***************************************************************************)
(* Proofs about LookupMX and IsCached, for every set of callers and of     *)
(* domains, every zone, every number of slots and of retries, and with     *)
(* every fault and outside event that the model has.                       *)
(***************************************************************************)
EXTENDS Resolver, FiniteSetTheorems, TLAPS

\* What a call relies on between two of its steps: the domain it asks for, no answer
\* before it begins, the kind of domain that the fallback to A is for, and an answer
\* worth a cache entry.
HandsSound ==
    \A c \in Callers :
        /\ pc[c] \notin {"idle", "returned"} => dom[c] \in Domains
        /\ pc[c] = "idle" => status[c] = "none"
        /\ pc[c] = "query_a" => zone[dom[c]] \in {"a", "none"}
        /\ pc[c] \in {"refill", "store_l1", "store_l2"} => status[c] \in Definitive

ResInv == TypeOK /\ HandsSound /\ OneLeaderPerFlight /\ AnswersSound /\ SlotsExact

SlotUsers == {c \in Callers : pc[c] \in HasSlot}

USE DEF Leading

-----------------------------------------------------------------------------
\* The calls that hold a slot are finitely many.
LEMMA SlotUsersFinite == IsFiniteSet(SlotUsers) /\ Cardinality(SlotUsers) \in Nat
<1>1. SlotUsers \subseteq Callers
  BY DEF SlotUsers
<1> QED
  BY <1>1, CallersAssumption, FS_Subset, FS_CardinalityType

\* The parts hold when nothing has happened yet.
LEMMA ResInit == Init => ResInv
<1> SUFFICES ASSUME Init PROVE ResInv
  OBVIOUS
<1>1. TypeOK
  BY RetriesAssumption DEF Init, TypeOK, CallStates, Statuses
<1>2. HandsSound
  BY DEF Init, HandsSound
<1>3. OneLeaderPerFlight
  BY DEF Init, OneLeaderPerFlight, HasSlot
<1>4. AnswersSound
  BY DEF Init, AnswersSound, Sound
<1>5. SlotUsers = {}
  BY DEF Init, SlotUsers, HasSlot
<1>6. SlotsExact
  BY <1>5, FS_EmptySet, LimitAssumption DEF Init, SlotsExact, SlotUsers
<1> QED
  BY <1>1, <1>2, <1>3, <1>4, <1>6 DEF ResInv

\* A step that moves no call into or out of a slot keeps the count.
LEMMA SlotsKept ==
    ASSUME ResInv, UNCHANGED slots,
           \A c \in Callers : (pc'[c] \in HasSlot) <=> (pc[c] \in HasSlot)
    PROVE  SlotsExact'
<1>1. SlotUsers' = SlotUsers
  BY DEF SlotUsers
<1> QED
  BY <1>1 DEF ResInv, SlotsExact, SlotUsers

\* A call that goes from one state to another without entering or leaving a flight,
\* with the maps and the answers left alone.
LEMMA FlightsKept ==
    ASSUME ResInv, NEW c \in Callers, NEW s \in CallStates,
           pc' = [pc EXCEPT ![c] = s], UNCHANGED flight,
           s \in Leading <=> pc[c] \in Leading, s # "waiting", pc[c] # "waiting",
           \A x \in Callers : x # c \/ pc[c] \in Leading => dom'[x] = dom[x]
    PROVE  OneLeaderPerFlight'
<1>1. \A x \in Callers : pc'[x] = IF x = c THEN s ELSE pc[x]
  BY DEF ResInv, TypeOK
<1>2. \A d \in Domains : flight[d] \in Callers \cup {NoCaller}
  BY DEF ResInv, TypeOK
<1>3. \A x \in Callers : pc'[x] \in Leading => flight'[dom'[x]] = x
  BY <1>1 DEF ResInv, OneLeaderPerFlight
<1>4. ASSUME NEW d \in Domains, flight[d] # NoCaller
      PROVE  pc'[flight'[d]] \in Leading /\ dom'[flight'[d]] = d
  BY <1>1, <1>2, <1>4 DEF ResInv, OneLeaderPerFlight
<1>5. \A x \in Callers : pc'[x] = "waiting" => flight'[dom'[x]] # NoCaller
  BY <1>1 DEF ResInv, OneLeaderPerFlight
<1> QED
  BY <1>3, <1>4, <1>5 DEF OneLeaderPerFlight

\* Changing one entry of a status map.
LEMMA StatusKept ==
    ASSUME ResInv, NEW c \in Callers, NEW s \in Statuses,
           status' = [status EXCEPT ![c] = s], UNCHANGED <<zone, l1, l2>>,
           \A x \in Callers : x # c => dom'[x] = dom[x],
           dom'[c] # NoDomain => Sound(dom'[c], s)
    PROVE  AnswersSound'
<1>1. \A x \in Callers : status'[x] = IF x = c THEN s ELSE status[x]
  BY DEF ResInv, TypeOK
<1>2. \A d, r : Sound(d, r)' <=> Sound(d, r)
  BY DEF Sound
<1>3. \A x \in Callers : dom'[x] # NoDomain => Sound(dom'[x], status'[x])
  BY <1>1 DEF ResInv, AnswersSound
<1> QED
  BY <1>2, <1>3 DEF ResInv, AnswersSound, Sound

-----------------------------------------------------------------------------
(* The steps of a call that touch no flight *)

\* Every status is one of those that Sound tells apart.
LEMMA SoundMeans ==
    ASSUME NEW d, NEW s
    PROVE  Sound(d, s) <=> /\ s = "ok_mx" => zone[d] = "mx"
                           /\ s = "ok_a" => zone[d] = "a"
                           /\ s = "no_mx" => zone[d] \in {"a", "none"}
                           /\ s = "nxdomain" => zone[d] = "nx"
BY DEF Sound

\* A lookup begins, or returns at once for lack of a domain.
LEMMA LookupBeginFacts ==
    ASSUME ResInv, NEW c \in Callers, NEW d \in Domains \cup {NoDomain}, LookupBegin(c, d)
    PROVE  ResInv'
<1> DEFINE t == IF d = NoDomain THEN "returned" ELSE "get_l1"
<1>1. PICK s \in {status[c], "miss", "nxdomain"} :
         /\ d # NoDomain => s = status[c]
         /\ pc[c] = "idle"
         /\ pc' = [pc EXCEPT ![c] = t] /\ status' = [status EXCEPT ![c] = s]
         /\ dom' = [dom EXCEPT ![c] = d]
         /\ UNCHANGED <<zone, cacheVars, attempt, flight, slots, cancelled, clearVars>>
  BY DEF LookupBegin, Return, Goto, ResInv, TypeOK
<1>2. t \in CallStates /\ s \in Statuses /\ t \in {"returned", "get_l1"}
  BY <1>1 DEF CallStates, Statuses, Definitive, ResInv, TypeOK
<1>3. \A x \in Callers : x # c => dom'[x] = dom[x] /\ pc'[x] = pc[x] /\ status'[x] = status[x]
  BY <1>1 DEF ResInv, TypeOK
<1>4. dom'[c] = d /\ pc'[c] = t
  BY <1>1 DEF ResInv, TypeOK
<1>5. d # NoDomain => Sound(d, s)
  BY <1>1, SoundMeans DEF ResInv, HandsSound
<1>6. TypeOK'
  BY <1>1, <1>2 DEF ResInv, TypeOK, cacheVars, clearVars
<1>7. HandsSound'
  BY <1>1, <1>2, <1>3, <1>4 DEF ResInv, HandsSound
<1>8. OneLeaderPerFlight'
  BY <1>1, <1>2, <1>3, FlightsKept DEF HasSlot
<1>9. AnswersSound'
  BY <1>1, <1>2, <1>3, <1>4, <1>5, StatusKept DEF cacheVars
<1>10. SlotsExact'
  BY <1>1, <1>2, <1>3, <1>4, SlotsKept DEF HasSlot
<1> QED
  BY <1>6, <1>7, <1>8, <1>9, <1>10 DEF ResInv

\* L1 answers, or the call goes on to L2.
LEMMA GetL1Facts ==
    ASSUME ResInv, NEW c \in Callers, GetL1(c)
    PROVE  ResInv'
<1> DEFINE e == l1[dom[c]]
<1> DEFINE t == IF e # "miss" THEN "returned" ELSE "get_l2"
<1> DEFINE s == IF e # "miss" THEN e ELSE status[c]
<1>1. /\ pc[c] = "get_l1"
      /\ pc' = [pc EXCEPT ![c] = t] /\ status' = [status EXCEPT ![c] = s]
      /\ UNCHANGED <<zone, cacheVars, dom, attempt, flight, slots, cancelled, clearVars>>
  BY DEF GetL1, Return, Goto, ResInv, TypeOK
<1>2. dom[c] \in Domains /\ dom[c] # NoDomain
  BY <1>1, DomainsAssumption DEF ResInv, HandsSound
<1>3. t \in CallStates /\ s \in Statuses /\ t \in {"returned", "get_l2"} /\ Sound(dom[c], s)
  BY <1>2 DEF CallStates, Statuses, ResInv, TypeOK, AnswersSound
<1>4. /\ pc'[c] = t
      /\ \A x \in Callers : x # c => pc'[x] = pc[x] /\ status'[x] = status[x]
  BY <1>1 DEF ResInv, TypeOK
<1> HIDE DEF t, s
<1>5. TypeOK'
  BY <1>1, <1>3 DEF ResInv, TypeOK, cacheVars, clearVars
<1>6. HandsSound'
  BY <1>1, <1>2, <1>3, <1>4 DEF ResInv, HandsSound
<1>7. OneLeaderPerFlight'
  BY <1>1, <1>3, FlightsKept DEF HasSlot
<1>8. AnswersSound'
  BY <1>1, <1>3, StatusKept, SoundMeans DEF cacheVars
<1>9. SlotsExact'
  BY <1>1, <1>3, <1>4, SlotsKept DEF HasSlot
<1> QED
  BY <1>5, <1>6, <1>7, <1>8, <1>9 DEF ResInv

\* L2 answers, or the call goes on to the flight, or IsCached returns.
LEMMA GetL2Facts ==
    ASSUME ResInv, NEW c \in Callers, GetL2(c)
    PROVE  ResInv'
<1>1. PICK t \in {"refill", "join", "returned"}, s \in Statuses :
         /\ pc' = [pc EXCEPT ![c] = t] /\ status' = [status EXCEPT ![c] = s]
         /\ Sound(dom[c], s) /\ (t = "refill" => s \in Definitive)
  <2>1. dom[c] \in Domains /\ dom[c] # NoDomain
    BY DomainsAssumption DEF GetL2, ResInv, HandsSound
  <2>2. CASE /\ l2[dom[c]] # "miss" /\ Goto(c, "refill")
             /\ status' = [status EXCEPT ![c] = l2[dom[c]]]
    BY <2>1, <2>2 DEF Goto, ResInv, TypeOK, AnswersSound, Statuses
  <2>3. CASE Return(c, "miss")
    <3>1. Sound(dom[c], "miss") /\ "miss" \in Statuses
      BY SoundMeans DEF Statuses
    <3> QED
      BY <2>3, <3>1 DEF Return, Goto
  <2>4. CASE Goto(c, "join") /\ UNCHANGED status
    <3>1. status' = [status EXCEPT ![c] = status[c]] /\ status[c] \in Statuses
      BY <2>4 DEF ResInv, TypeOK
    <3> QED
      BY <2>1, <2>4, <3>1 DEF Goto, ResInv, AnswersSound
  <2> QED
    BY <2>2, <2>3, <2>4 DEF GetL2
<1>2. /\ pc[c] = "get_l2" /\ dom[c] \in Domains
      /\ UNCHANGED <<zone, cacheVars, dom, attempt, flight, slots, cancelled, clearVars>>
  BY DEF GetL2, ResInv, HandsSound
<1>3. /\ pc'[c] = t /\ status'[c] = s /\ t \in CallStates
      /\ \A x \in Callers : x # c => pc'[x] = pc[x] /\ status'[x] = status[x]
  BY <1>1 DEF ResInv, TypeOK, CallStates
<1>4. TypeOK'
  BY <1>1, <1>2, <1>3 DEF ResInv, TypeOK, cacheVars, clearVars
<1>5. HandsSound'
  BY <1>1, <1>2, <1>3 DEF ResInv, HandsSound
<1>6. OneLeaderPerFlight'
  BY <1>1, <1>2, <1>3, FlightsKept DEF HasSlot
<1>7. AnswersSound'
  BY <1>1, <1>2, StatusKept, SoundMeans DEF cacheVars
<1>8. SlotsExact'
  BY <1>1, <1>2, <1>3, SlotsKept DEF HasSlot
<1> QED
  BY <1>4, <1>5, <1>6, <1>7, <1>8 DEF ResInv

\* A cache operation: entries change, each to an answer that is sound, and at most
\* the call c moves on, to a state in which it holds no slot more and none less.
LEMMA CacheStep ==
    ASSUME ResInv, NEW c \in Callers, NEW t \in CallStates,
           pc' = [pc EXCEPT ![c] = t],
           t \in Leading <=> pc[c] \in Leading, t # "waiting", pc[c] # "waiting",
           (t \in HasSlot) <=> (pc[c] \in HasSlot),
           t \notin {"idle", "refill", "query_a"}, pc[c] \notin {"idle", "returned"},
           t \in {"store_l1", "store_l2"} => status[c] \in Definitive,
           l1' \in [Domains -> Definitive \cup {"miss"}],
           l2' \in [Domains -> Definitive \cup {"miss"}], forever' \subseteq Domains,
           \A d \in Domains : Sound(d, l1'[d]) /\ Sound(d, l2'[d]),
           UNCHANGED <<zone, dom, status, attempt, flight, slots, cancelled, clearVars>>
    PROVE  ResInv'
<1>1. \A x \in Callers : pc'[x] = IF x = c THEN t ELSE pc[x]
  BY DEF ResInv, TypeOK
<1>2. TypeOK'
  BY DEF ResInv, TypeOK, clearVars
<1>3. HandsSound'
  BY <1>1 DEF ResInv, HandsSound
<1>4. OneLeaderPerFlight'
  BY FlightsKept
<1>5. AnswersSound'
  BY DEF Sound, ResInv, AnswersSound
<1>6. SlotsExact'
  BY <1>1, SlotsKept
<1> QED
  BY <1>2, <1>3, <1>4, <1>5, <1>6 DEF ResInv

\* The entries that L1Set leaves behind.
LEMMA L1SetFacts ==
    ASSUME ResInv, NEW d \in Domains, NEW s \in Definitive, NEW ttl,
           L1Set(d, s, ttl), Sound(d, s)
    PROVE  /\ l1' \in [Domains -> Definitive \cup {"miss"}] /\ forever' \subseteq Domains
           /\ \A x \in Domains : Sound(x, l1'[x])
<1>1. l1' = [l1 EXCEPT ![d] = s] /\ forever' \subseteq Domains
  BY DEF L1Set, ResInv, TypeOK
<1>2. \A x \in Domains : l1'[x] = IF x = d THEN s ELSE l1[x]
  BY <1>1 DEF ResInv, TypeOK
<1> QED
  BY <1>1, <1>2 DEF ResInv, TypeOK, AnswersSound

\* The answer a call is about to store is sound for its domain.
LEMMA HandFacts ==
    ASSUME ResInv, NEW c \in Callers, pc[c] \notin {"idle", "returned"}
    PROVE  dom[c] \in Domains /\ status[c] \in Statuses /\ Sound(dom[c], status[c])
BY DomainsAssumption DEF ResInv, TypeOK, HandsSound, AnswersSound

\* L1 is filled with what L2 held.
LEMMA RefillFacts ==
    ASSUME ResInv, NEW c \in Callers, Refill(c)
    PROVE  ResInv'
<1>1. dom[c] \in Domains /\ Sound(dom[c], status[c]) /\ status[c] \in Definitive
  BY HandFacts DEF Refill, ResInv, HandsSound
<1>2. /\ l1' \in [Domains -> Definitive \cup {"miss"}] /\ forever' \subseteq Domains
      /\ \A x \in Domains : Sound(x, l1'[x])
  BY <1>1, L1SetFacts DEF Refill
<1>3. l2' \in [Domains -> Definitive \cup {"miss"}] /\ \A d \in Domains : Sound(d, l2'[d])
  BY DEF Refill, ResInv, TypeOK, AnswersSound
<1> QED
  BY <1>2, <1>3, CacheStep DEF Refill, Goto, CallStates, HasSlot

\* The leader stores its answer in L1.
LEMMA StoreL1Facts ==
    ASSUME ResInv, NEW c \in Callers, StoreL1(c)
    PROVE  ResInv'
<1>1. dom[c] \in Domains /\ Sound(dom[c], status[c]) /\ status[c] \in Definitive
  BY HandFacts DEF StoreL1, ResInv, HandsSound
<1>2. /\ l1' \in [Domains -> Definitive \cup {"miss"}] /\ forever' \subseteq Domains
      /\ \A x \in Domains : Sound(x, l1'[x])
  BY <1>1, L1SetFacts DEF StoreL1
<1>3. l2' \in [Domains -> Definitive \cup {"miss"}] /\ \A d \in Domains : Sound(d, l2'[d])
  BY DEF StoreL1, ResInv, TypeOK, AnswersSound
<1> QED
  BY <1>1, <1>2, <1>3, CacheStep DEF StoreL1, Goto, CallStates, HasSlot

\* The leader stores its answer in L2, or Redis fails.
LEMMA StoreL2Facts ==
    ASSUME ResInv, NEW c \in Callers, StoreL2(c)
    PROVE  ResInv'
<1>1. dom[c] \in Domains /\ Sound(dom[c], status[c]) /\ status[c] \in Definitive
  BY HandFacts DEF StoreL2, ResInv, HandsSound
<1>2. /\ l1' \in [Domains -> Definitive \cup {"miss"}] /\ forever' \subseteq Domains
      /\ \A x \in Domains : Sound(x, l1'[x])
  BY DEF StoreL2, ResInv, TypeOK, AnswersSound
<1>3. l2' \in [Domains -> Definitive \cup {"miss"}] /\ \A d \in Domains : Sound(d, l2'[d])
  <2>1. CASE l2' = [l2 EXCEPT ![dom[c]] = status[c]]
    <3>1. \A x \in Domains : l2'[x] = IF x = dom[c] THEN status[c] ELSE l2[x]
      BY <2>1 DEF ResInv, TypeOK
    <3> QED
      BY <1>1, <2>1, <3>1 DEF ResInv, TypeOK, AnswersSound
  <2>2. CASE l2' = l2
    BY <2>2 DEF ResInv, TypeOK, AnswersSound
  <2> QED
    BY <2>1, <2>2 DEF StoreL2
<1> QED
  BY <1>2, <1>3, CacheStep DEF StoreL2, Goto, CallStates, HasSlot

\* The backoff ends in another query or in the last status.
LEMMA BackoffFacts ==
    ASSUME ResInv, NEW c \in Callers, Backoff(c)
    PROVE  ResInv'
<1>1. PICK t \in {"query_mx", "finish"} : pc' = [pc EXCEPT ![c] = t]
  BY DEF Backoff, Goto
<1>2. t \in CallStates /\ t \in HasSlot /\ pc[c] \in HasSlot
  BY DEF Backoff, CallStates, HasSlot
<1>3. /\ l1' \in [Domains -> Definitive \cup {"miss"}] /\ forever' \subseteq Domains
      /\ l2' \in [Domains -> Definitive \cup {"miss"}]
      /\ \A d \in Domains : Sound(d, l1'[d]) /\ Sound(d, l2'[d])
  BY DEF Backoff, cacheVars, ResInv, TypeOK, AnswersSound
<1> QED
  BY <1>1, <1>2, <1>3, CacheStep DEF Backoff
-----------------------------------------------------------------------------
(* Flights and slots *)

\* A call leads a new flight, or waits for the one there is.
LEMMA DoFacts ==
    ASSUME ResInv, NEW c \in Callers, Do(c)
    PROVE  ResInv'
<1>1. /\ pc[c] = "join" /\ dom[c] \in Domains
      /\ UNCHANGED <<zone, cacheVars, dom, status, attempt, slots, cancelled, clearVars>>
  BY DEF Do, ResInv, HandsSound
<1>2. PICK t \in {"limiter", "waiting"} :
         /\ pc' = [pc EXCEPT ![c] = t]
         /\ t = "limiter" => /\ flight[dom[c]] = NoCaller
                             /\ flight' = [flight EXCEPT ![dom[c]] = c]
         /\ t = "waiting" => flight[dom[c]] # NoCaller /\ flight' = flight
  BY DEF Do, Goto
<1>3. \A x \in Callers : pc'[x] = IF x = c THEN t ELSE pc[x]
  BY <1>2 DEF ResInv, TypeOK
<1>4. TypeOK'
  BY <1>1, <1>2 DEF ResInv, TypeOK, CallStates, cacheVars, clearVars
<1>5. HandsSound'
  BY <1>1, <1>3 DEF ResInv, HandsSound
<1>6. AnswersSound'
  BY <1>1 DEF Sound, ResInv, AnswersSound, cacheVars
<1>7. SlotsExact'
  BY <1>1, <1>3, SlotsKept DEF HasSlot
<1>8. OneLeaderPerFlight'
  <2>1. CASE t = "waiting"
    <3>1. \A d \in Domains : flight[d] # NoCaller => flight[d] \in Callers
      BY DEF ResInv, TypeOK
    <3> QED
      BY <1>1, <1>2, <1>3, <2>1, <3>1 DEF ResInv, OneLeaderPerFlight, HasSlot
  <2>2. CASE t = "limiter"
    <3>1. \A d \in Domains : flight'[d] = IF d = dom[c] THEN c ELSE flight[d]
      BY <1>2, <2>2 DEF ResInv, TypeOK
    <3>2. c # NoCaller /\ \A d \in Domains : flight[d] # NoCaller => flight[d] \in Callers
      BY CallersAssumption DEF ResInv, TypeOK
    <3>3. \A x \in Callers : pc[x] \in Leading \/ pc[x] = "waiting" => dom[x] \in Domains
      BY DEF ResInv, HandsSound, HasSlot
    <3>4. ASSUME NEW x \in Callers, pc'[x] \in Leading PROVE flight'[dom'[x]] = x
      <4>1. CASE x = c
        BY <1>1, <3>1, <4>1
      <4>2. CASE x # c
        <5>1. flight[dom[x]] = x /\ dom[x] \in Domains /\ dom'[x] = dom[x]
          BY <1>1, <1>3, <3>3, <3>4, <4>2 DEF ResInv, OneLeaderPerFlight
        <5> QED
          BY <1>2, <2>2, <3>1, <5>1, CallersAssumption
      <4> QED
        BY <4>1, <4>2
    <3>5. \A d \in Domains : flight'[d] # NoCaller =>
             pc'[flight'[d]] \in Leading /\ dom'[flight'[d]] = d
      BY <1>1, <1>2, <1>3, <2>2, <3>1, <3>2 DEF ResInv, OneLeaderPerFlight
    <3>6. \A x \in Callers : pc'[x] = "waiting" => flight'[dom'[x]] # NoCaller
      BY <1>1, <1>2, <1>3, <2>2, <3>1, <3>2, <3>3 DEF ResInv, OneLeaderPerFlight
    <3> QED
      BY <3>4, <3>5, <3>6 DEF OneLeaderPerFlight
  <2> QED
    BY <2>1, <2>2
<1> QED
  BY <1>4, <1>5, <1>6, <1>7, <1>8 DEF ResInv

\* The end of a flight: its leader and all of its followers have returned with the
\* same answer, and of the calls that hold a slot only the leader is gone.
LEMMA EndFlightFacts ==
    ASSUME ResInv, NEW c \in Callers, NEW s \in Statuses, pc[c] \in Leading,
           EndFlight(c, s), Sound(dom[c], s), slots' \in Nat,
           attempt' \in [Callers -> 0..MaxRetries],
           UNCHANGED <<zone, cacheVars, dom, cancelled, clearVars>>
    PROVE  /\ TypeOK' /\ HandsSound' /\ OneLeaderPerFlight' /\ AnswersSound'
           /\ SlotUsers' = SlotUsers \ {c}
<1> DEFINE In(x) == x = c \/ (pc[x] = "waiting" /\ dom[x] = dom[c])
<1>1. \A x \in Callers : In(x) <=> x \in Followers(c) \cup {c}
  BY DEF Followers
<1>2. \A x \in Callers : /\ pc'[x] = IF In(x) THEN "returned" ELSE pc[x]
                         /\ status'[x] = IF In(x) THEN s ELSE status[x]
                         /\ dom'[x] = dom[x]
  BY <1>1 DEF EndFlight
<1>3. dom[c] \in Domains
  BY DEF ResInv, HandsSound, HasSlot
<1>4. \A d \in Domains : flight'[d] = IF d = dom[c] THEN NoCaller ELSE flight[d]
  BY <1>3 DEF EndFlight, ResInv, TypeOK
<1>5. TypeOK'
  <2>1. pc' \in [Callers -> CallStates] /\ status' \in [Callers -> Statuses]
    BY DEF EndFlight, ResInv, TypeOK, CallStates
  <2>2. flight' \in [Domains -> Callers \cup {NoCaller}]
    BY DEF EndFlight, ResInv, TypeOK
  <2> QED
    BY <2>1, <2>2 DEF ResInv, TypeOK, cacheVars, clearVars
<1> HIDE DEF In
<1>6. HandsSound'
  BY <1>2 DEF ResInv, HandsSound
<1>7. AnswersSound'
  <2>1. \A x \in Callers : In(x) => dom[x] = dom[c]
    BY DEF In
  <2> QED
    BY <1>2, <2>1 DEF Sound, ResInv, AnswersSound, cacheVars
<1>8. \A d \in Domains : flight[d] # NoCaller => flight[d] \in Callers
  BY DEF ResInv, TypeOK
<1>9. \A x \in Callers : pc[x] \in Leading \/ pc[x] = "waiting" => dom[x] \in Domains
  BY DEF ResInv, HandsSound, HasSlot
<1>10. flight[dom[c]] = c /\ ~(c \in Callers /\ pc[c] = "waiting")
  BY DEF ResInv, OneLeaderPerFlight, HasSlot
<1>11. OneLeaderPerFlight'
  <2>1. ASSUME NEW x \in Callers, pc'[x] \in Leading
        PROVE  flight'[dom'[x]] = x
    <3>1. ~In(x) /\ pc[x] \in Leading /\ x # c
      BY <1>2, <2>1 DEF In, HasSlot
    <3>2. flight[dom[x]] = x
      BY <3>1 DEF ResInv, OneLeaderPerFlight
    <3> QED
      BY <1>2, <1>4, <1>9, <1>10, <3>1, <3>2
  <2>2. ASSUME NEW d \in Domains, flight'[d] # NoCaller
        PROVE  pc'[flight'[d]] \in Leading /\ dom'[flight'[d]] = d
    <3>1. d # dom[c] /\ flight'[d] = flight[d] /\ flight[d] \in Callers
      BY <1>4, <1>8, <2>2
    <3>2. pc[flight[d]] \in Leading /\ dom[flight[d]] = d
      BY <2>2, <3>1 DEF ResInv, OneLeaderPerFlight
    <3>3. ~In(flight[d])
      BY <3>1, <3>2 DEF In
    <3> QED
      BY <1>2, <3>1, <3>2, <3>3
  <2>3. ASSUME NEW x \in Callers, pc'[x] = "waiting"
        PROVE  flight'[dom'[x]] # NoCaller
    <3>1. pc[x] = "waiting" /\ dom[x] # dom[c] /\ dom[x] \in Domains
      BY <1>2, <1>9, <2>3 DEF In
    <3> QED
      BY <1>2, <1>4, <3>1 DEF ResInv, OneLeaderPerFlight
  <2> QED
    BY <2>1, <2>2, <2>3 DEF OneLeaderPerFlight
<1>12. SlotUsers' = SlotUsers \ {c}
  BY <1>2 DEF SlotUsers, HasSlot, In
<1> QED
  BY <1>5, <1>6, <1>7, <1>11, <1>12

\* A flight that ends before it has a slot gives none back.
LEMMA EndWithoutSlot ==
    ASSUME ResInv, NEW c \in Callers, NEW s \in {"rate_limited", "ctx_error"},
           pc[c] \in {"limiter", "acquire"}, EndFlight(c, s),
           UNCHANGED <<zone, cacheVars, dom, attempt, slots, cancelled, clearVars>>
    PROVE  ResInv'
<1>1. /\ s \in Statuses /\ Sound(dom[c], s) /\ pc[c] \in Leading /\ slots' \in Nat
      /\ attempt' \in [Callers -> 0..MaxRetries]
  BY DEF Statuses, Sound, ResInv, TypeOK
<1>2. /\ TypeOK' /\ HandsSound' /\ OneLeaderPerFlight' /\ AnswersSound'
      /\ SlotUsers' = SlotUsers \ {c}
  BY <1>1, EndFlightFacts
<1>3. SlotUsers' = SlotUsers
  BY <1>2 DEF SlotUsers, HasSlot
<1>4. SlotsExact'
  BY <1>3 DEF SlotUsers, SlotsExact, ResInv
<1> QED
  BY <1>2, <1>4 DEF ResInv

\* The limiter lets the leader pass, or its ctx is done.
LEMMA LimiterWaitFacts ==
    ASSUME ResInv, NEW c \in Callers, LimiterWait(c)
    PROVE  ResInv'
<1>1. CASE c \in cancelled
  BY <1>1, EndWithoutSlot DEF LimiterWait
<1>2. CASE c \notin cancelled
  <2>1. /\ l1' \in [Domains -> Definitive \cup {"miss"}] /\ forever' \subseteq Domains
        /\ l2' \in [Domains -> Definitive \cup {"miss"}]
        /\ \A d \in Domains : Sound(d, l1'[d]) /\ Sound(d, l2'[d])
    BY DEF LimiterWait, cacheVars, ResInv, TypeOK, AnswersSound
  <2> QED
    BY <1>2, <2>1, CacheStep DEF LimiterWait, Goto, CallStates, HasSlot
<1> QED
  BY <1>1, <1>2

\* The leader takes a slot that is free.
LEMMA AcquireFacts ==
    ASSUME ResInv, NEW c \in Callers, Acquire(c)
    PROVE  ResInv'
<1>1. /\ pc[c] = "acquire" /\ slots < Limit /\ slots' = slots + 1
      /\ pc' = [pc EXCEPT ![c] = "query_mx"]
      /\ UNCHANGED <<zone, cacheVars, dom, status, attempt, flight, cancelled, clearVars>>
  BY DEF Acquire, Goto
<1>2. \A x \in Callers : pc'[x] = IF x = c THEN "query_mx" ELSE pc[x]
  BY <1>1 DEF ResInv, TypeOK
<1>3. TypeOK'
  BY <1>1 DEF ResInv, TypeOK, CallStates, HasSlot, cacheVars, clearVars
<1>4. HandsSound'
  BY <1>1, <1>2 DEF ResInv, HandsSound
<1>5. OneLeaderPerFlight'
  BY <1>1, FlightsKept DEF CallStates, HasSlot
<1>6. AnswersSound'
  BY <1>1 DEF Sound, ResInv, AnswersSound, cacheVars
<1>7. SlotsExact'
  <2>1. SlotUsers' = SlotUsers \cup {c} /\ c \notin SlotUsers
    BY <1>1, <1>2 DEF SlotUsers, HasSlot
  <2>2. Cardinality(SlotUsers') = Cardinality(SlotUsers) + 1
    BY <2>1, SlotUsersFinite, FS_AddElement
  <2>3. slots = Cardinality(SlotUsers) /\ slots \in Nat
    BY DEF ResInv, SlotsExact, SlotUsers, TypeOK
  <2>4. slots' = Cardinality(SlotUsers') /\ slots' <= Limit
    BY <1>1, <2>2, <2>3, LimitAssumption
  <2> QED
    BY <2>4 DEF SlotsExact, SlotUsers
<1> QED
  BY <1>3, <1>4, <1>5, <1>6, <1>7 DEF ResInv

\* The ctx is done while the leader waits for a slot.
LEMMA AcquireFailsFacts ==
    ASSUME ResInv, NEW c \in Callers, AcquireFails(c)
    PROVE  ResInv'
BY EndWithoutSlot DEF AcquireFails

\* The leader gives its slot back and the flight ends with its answer.
LEMMA FinishFacts ==
    ASSUME ResInv, NEW c \in Callers, Finish(c)
    PROVE  ResInv'
<1>1. pc[c] = "finish" /\ slots' = slots - 1 /\ c \in SlotUsers
  BY DEF Finish, SlotUsers, HasSlot
<1>2. slots = Cardinality(SlotUsers) /\ slots <= Limit /\ slots \in Nat
  BY DEF ResInv, SlotsExact, SlotUsers, TypeOK
<1>3. /\ IsFiniteSet(SlotUsers \ {c})
      /\ Cardinality(SlotUsers \ {c}) = Cardinality(SlotUsers) - 1
  BY <1>1, SlotUsersFinite, FS_RemoveElement
<1>4. slots' = Cardinality(SlotUsers \ {c}) /\ slots' \in Nat /\ slots' <= Limit
  BY <1>1, <1>2, <1>3, FS_CardinalityType, LimitAssumption
<1>5. status[c] \in Statuses /\ Sound(dom[c], status[c]) /\ pc[c] \in Leading
  BY <1>1, HandFacts DEF HasSlot
<1>a. attempt' \in [Callers -> 0..MaxRetries]
  BY RetriesAssumption DEF Finish, ResInv, TypeOK
<1>6. /\ TypeOK' /\ HandsSound' /\ OneLeaderPerFlight' /\ AnswersSound'
      /\ SlotUsers' = SlotUsers \ {c}
  BY <1>4, <1>5, <1>a, EndFlightFacts DEF Finish
<1>7. SlotsExact'
  BY <1>4, <1>6 DEF SlotsExact, SlotUsers
<1> QED
  BY <1>6, <1>7 DEF ResInv

-----------------------------------------------------------------------------
(* The query *)

\* What an exchange over UDP and one over TCP come to: TCP's truncation bit is not
\* looked at, and UDP's is what the TCP exchange is for.
LEMMA OutcomesAre ==
    ASSUME NEW c \in Callers, NEW o \in Outcomes(c)
    PROVE  o \in {"answer", "timeout", "neterr", "servfail", "refused"}
<1>1. Exchanges(c) \subseteq {"answer", "timeout", "neterr", "servfail", "refused", "truncated"}
  BY FaultsAssumption DEF Exchanges, AllFaults, ExchangeErrors
<1>2. PICK u \in Exchanges(c), t \in Exchanges(c) \ {"truncated"} : o = Query(u, t)
  BY DEF Outcomes
<1> QED
  BY <1>1, <1>2 DEF Query, ExchangeErrors

\* What an outcome says of the domain is sound, for the query of MX and, where
\* there are no MX records, for the fallback to A.
LEMMA StatusSound ==
    ASSUME ResInv, NEW d \in Domains,
           NEW o \in {"answer", "timeout", "neterr", "servfail", "refused"}
    PROVE  /\ ~(o = "answer" /\ zone[d] \in {"a", "none"}) =>
                 MXStatus(d, o) \in Statuses /\ Sound(d, MXStatus(d, o))
           /\ zone[d] \in {"a", "none"} =>
                 AStatus(d, o) \in Statuses /\ Sound(d, AStatus(d, o))
<1>1. zone[d] \in ZoneKinds
  BY DEF ResInv, TypeOK
<1> QED
  BY <1>1 DEF MXStatus, AStatus, Sound, Statuses, Definitive, Transient, ZoneKinds

\* One resolution ends with a sound status: the call retries, stores or finishes.
LEMMA ResolvedFacts ==
    ASSUME ResInv, NEW c \in Callers, NEW s \in Statuses, pc[c] \in {"query_mx", "query_a"},
           Resolved(c, s), Sound(dom[c], s),
           UNCHANGED <<zone, cacheVars, dom, flight, slots, cancelled, clearVars>>
    PROVE  ResInv'
<1>1. PICK t \in {"backoff", "store_l1", "finish"} :
         /\ pc' = [pc EXCEPT ![c] = t] /\ status' = [status EXCEPT ![c] = s]
         /\ t = "store_l1" => s \in Definitive
  BY DEF Resolved, Goto, Transient, Definitive
<1>2. attempt' \in [Callers -> 0..MaxRetries]
  <2>1. CASE s \in Transient /\ attempt[c] < MaxRetries
    <3>1. attempt' = [attempt EXCEPT ![c] = attempt[c] + 1]
      BY <2>1 DEF Resolved
    <3>2. attempt[c] + 1 \in 0..MaxRetries
      BY <2>1, RetriesAssumption DEF ResInv, TypeOK
    <3> QED
      BY <3>1, <3>2 DEF ResInv, TypeOK
  <2>2. CASE ~(s \in Transient /\ attempt[c] < MaxRetries)
    BY <2>2 DEF Resolved, ResInv, TypeOK
  <2> QED
    BY <2>1, <2>2
<1>3. \A x \in Callers : /\ pc'[x] = IF x = c THEN t ELSE pc[x]
                         /\ status'[x] = IF x = c THEN s ELSE status[x]
  BY <1>1 DEF ResInv, TypeOK
<1>4. TypeOK'
  BY <1>1, <1>2 DEF ResInv, TypeOK, CallStates, HasSlot, cacheVars, clearVars
<1>5. HandsSound'
  BY <1>1, <1>3 DEF ResInv, HandsSound
<1>6. OneLeaderPerFlight'
  BY <1>1, FlightsKept DEF CallStates, HasSlot
<1>7. AnswersSound'
  BY <1>1, <1>3 DEF Sound, ResInv, AnswersSound, cacheVars
<1>8. SlotsExact'
  BY <1>1, <1>3, SlotsKept DEF HasSlot
<1> QED
  BY <1>4, <1>5, <1>6, <1>7, <1>8 DEF ResInv

\* The query of MX: the fallback to A, or an end.
LEMMA QueryMXFacts ==
    ASSUME ResInv, NEW c \in Callers, QueryMX(c)
    PROVE  ResInv'
<1>1. /\ pc[c] = "query_mx" /\ dom[c] \in Domains
      /\ UNCHANGED <<zone, cacheVars, dom, flight, slots, cancelled, clearVars>>
  BY DEF QueryMX, ResInv, HandsSound
<1>2. PICK o \in Outcomes(c) :
         IF o = "answer" /\ zone[dom[c]] \in {"a", "none"}
         THEN Goto(c, "query_a") /\ UNCHANGED <<status, attempt>>
         ELSE Resolved(c, MXStatus(dom[c], o))
  BY DEF QueryMX
<1>3. CASE o = "answer" /\ zone[dom[c]] \in {"a", "none"}
  <2>1. pc' = [pc EXCEPT ![c] = "query_a"] /\ UNCHANGED <<status, attempt>>
    BY <1>2, <1>3 DEF Goto
  <2>2. \A x \in Callers : pc'[x] = IF x = c THEN "query_a" ELSE pc[x]
    BY <2>1 DEF ResInv, TypeOK
  <2>3. TypeOK'
    BY <1>1, <2>1 DEF ResInv, TypeOK, CallStates, HasSlot, cacheVars, clearVars
  <2>4. HandsSound'
    BY <1>1, <1>3, <2>1, <2>2 DEF ResInv, HandsSound
  <2>5. OneLeaderPerFlight'
    BY <1>1, <2>1, FlightsKept DEF CallStates, HasSlot
  <2>6. AnswersSound'
    BY <1>1, <2>1 DEF Sound, ResInv, AnswersSound, cacheVars
  <2>7. SlotsExact'
    BY <1>1, <2>2, SlotsKept DEF HasSlot
  <2> QED
    BY <2>3, <2>4, <2>5, <2>6, <2>7 DEF ResInv
<1>4. CASE ~(o = "answer" /\ zone[dom[c]] \in {"a", "none"})
  BY <1>1, <1>2, <1>4, OutcomesAre, StatusSound, ResolvedFacts
<1> QED
  BY <1>3, <1>4

\* The fallback to A ends.
LEMMA QueryAFacts ==
    ASSUME ResInv, NEW c \in Callers, QueryA(c)
    PROVE  ResInv'
<1>1. /\ pc[c] = "query_a" /\ dom[c] \in Domains /\ zone[dom[c]] \in {"a", "none"}
      /\ UNCHANGED <<zone, cacheVars, dom, flight, slots, cancelled, clearVars>>
  BY DEF QueryA, ResInv, HandsSound
<1>2. PICK o \in Outcomes(c) : Resolved(c, AStatus(dom[c], o))
  BY DEF QueryA
<1> QED
  BY <1>1, <1>2, OutcomesAre, StatusSound, ResolvedFacts

-----------------------------------------------------------------------------
(* Time, cancellation, ClearCache, and the whole *)

\* Whatever happens around the calls only takes entries out of the caches.
LEMMA OutsideStep ==
    ASSUME ResInv, UNCHANGED <<zone, callVars, flight, slots>>,
           cancelled' \subseteq Callers, forever' \subseteq Domains,
           clear' \in {"idle", "purged", "scanned", "done"}, scanned' \subseteq Domains,
           l1' \in [Domains -> Definitive \cup {"miss"}],
           l2' \in [Domains -> Definitive \cup {"miss"}],
           \A d \in Domains : l1'[d] \in {l1[d], "miss"} /\ l2'[d] \in {l2[d], "miss"}
    PROVE  ResInv'
<1>1. TypeOK'
  BY DEF ResInv, TypeOK, callVars
<1>2. HandsSound'
  BY DEF ResInv, HandsSound, callVars
<1>3. OneLeaderPerFlight'
  BY DEF ResInv, OneLeaderPerFlight, callVars
<1>4. AnswersSound'
  BY DEF Sound, ResInv, AnswersSound, callVars
<1>5. SlotsExact'
  BY DEF ResInv, SlotsExact, callVars
<1> QED
  BY <1>1, <1>2, <1>3, <1>4, <1>5 DEF ResInv

\* Cancellation, expiry and ClearCache between any two steps of the calls.
LEMMA OutsideFacts ==
    ASSUME ResInv,
           \/ \E c \in Callers : Cancel(c)
           \/ \E d \in Domains : ExpireL1(d) \/ ExpireL2(d)
           \/ ClearL1 \/ ClearScan \/ ClearL2 \/ UNCHANGED vars
    PROVE  ResInv'
<1> USE DEF ResInv, TypeOK, cacheVars, callVars, clearVars
<1>1. CASE \E c \in Callers : Cancel(c)
  BY <1>1, OutsideStep DEF Cancel
<1>2. ASSUME NEW d \in Domains, ExpireL1(d) PROVE ResInv'
  BY <1>2, OutsideStep DEF ExpireL1
<1>3. ASSUME NEW d \in Domains, ExpireL2(d) PROVE ResInv'
  BY <1>3, OutsideStep DEF ExpireL2
<1>4. CASE ClearL1
  BY <1>4, OutsideStep DEF ClearL1
<1>5. CASE ClearScan
  BY <1>5, OutsideStep DEF ClearScan
<1>6. CASE ClearL2
  BY <1>6, OutsideStep DEF ClearL2
<1>7. CASE UNCHANGED vars
  BY <1>7, OutsideStep DEF vars
<1> HIDE DEF ResInv
<1> QED
  BY <1>1, <1>2, <1>3, <1>4, <1>5, <1>6, <1>7

\* One lemma per step of a call, and one for what happens outside of it.
LEMMA ResStep == ResInv /\ [Next]_vars => ResInv'
<1> SUFFICES ASSUME ResInv, [Next]_vars PROVE ResInv'
  OBVIOUS
<1>1. ASSUME NEW c \in Callers, NEW d \in Domains \cup {NoDomain}, LookupBegin(c, d)
      PROVE  ResInv'
  BY <1>1, LookupBeginFacts
<1>2. ASSUME NEW c \in Callers, CallStep(c) PROVE ResInv'
  BY <1>2, GetL1Facts, GetL2Facts, RefillFacts, DoFacts, LimiterWaitFacts, AcquireFacts,
     AcquireFailsFacts, QueryMXFacts, QueryAFacts, BackoffFacts, StoreL1Facts,
     StoreL2Facts, FinishFacts DEF CallStep
<1> QED
  BY <1>1, <1>2, OutsideFacts DEF Next

\* The invariant of calls, flights, slots and caches, whatever fails meanwhile.
THEOREM ResInvariant == Spec => []ResInv
BY ResInit, ResStep, PTL DEF Spec

\* The state of the resolver keeps its types: what is cached is always definitive, and
\* no call retries more often than maxRetries.
THEOREM ResolverTypes == Spec => []TypeOK
<1>1. ResInv => TypeOK
  BY DEF ResInv
<1> QED
  BY <1>1, ResInvariant, PTL

\* A flight has exactly one leader, registered as long as it runs, and no follower
\* waits for a flight that is over (singleflight in LookupMX).
THEOREM FlightsWellFormed == Spec => []OneLeaderPerFlight
<1>1. ResInv => OneLeaderPerFlight
  BY DEF ResInv
<1> QED
  BY <1>1, ResInvariant, PTL

\* Whatever fails, is cancelled, expires or is cleared: no answer and no cache entry
\* makes up a domain, denies one that exists, or hides MX records.
THEOREM NoDomainMadeUp == Spec => []AnswersSound
<1>1. ResInv => AnswersSound
  BY DEF ResInv
<1> QED
  BY <1>1, ResInvariant, PTL

\* The slots in use are those of the calls between Acquire and Release, never more
\* than the limit, on every path out of a flight.
THEOREM SlotsGivenBack == Spec => []SlotsExact
<1>1. ResInv => SlotsExact
  BY DEF ResInv
<1> QED
  BY <1>1, ResInvariant, PTL
-----------------------------------------------------------------------------
(* What CachedIsDefinitive lacks *)

\* "no_mx" is in a cache, or in the hands of a call, only for a domain without A.
NoMXIsTrue ==
    /\ \A d \in Domains : "no_mx" \in {l1[d], l2[d]} => zone[d] = "none"
    /\ \A c \in Callers : dom[c] \in Domains /\ status[c] = "no_mx" => zone[dom[c]] = "none"

DefinitiveInv == cancelled = {} /\ NoMXIsTrue

\* What holds of every behaviour: the first cancellation ends it.
PoisonInv == cancelled = {} => NoMXIsTrue

\* Without a cancellation, a refusal or a failing network, the fallback to A ends
\* in "no_mx" only for want of an A.
LEMMA HarmlessOutcomes ==
    ASSUME ResInv, cancelled = {}, Faults \cap {"refused", "neterr"} = {},
           NEW c \in Callers, NEW o \in Outcomes(c), NEW d \in Domains, zone[d] \in {"a", "none"},
           AStatus(d, o) = "no_mx"
    PROVE  zone[d] = "none"
<1>1. Exchanges(c) \subseteq {"answer", "timeout", "servfail", "truncated"}
  BY FaultsAssumption DEF Exchanges, AllFaults, ExchangeErrors
<1>2. PICK u \in Exchanges(c), t \in Exchanges(c) \ {"truncated"} : o = Query(u, t)
  BY DEF Outcomes
<1>3. o \in {"answer", "timeout", "servfail"}
  BY <1>1, <1>2 DEF Query, ExchangeErrors
<1> QED
  BY <1>3 DEF AStatus

\* A call's own step puts "no_mx" nowhere else.
LEMMA CallKeepsDefinitive ==
    ASSUME ResInv, DefinitiveInv, Faults \cap {"refused", "neterr"} = {},
           NEW c \in Callers, CallStep(c)
    PROVE  DefinitiveInv'
<1> USE DEF DefinitiveInv, NoMXIsTrue, cacheVars
<1>t. /\ status \in [Callers -> Statuses] /\ l1 \in [Domains -> Definitive \cup {"miss"}]
      /\ l2 \in [Domains -> Definitive \cup {"miss"}]
  BY DEF ResInv, TypeOK
<1>d. pc[c] \notin {"idle", "returned"} => dom[c] \in Domains
  BY DEF ResInv, HandsSound
<1>1. CASE GetL1(c)
  <2>1. \A x \in Callers : status'[x] \in {status[x], IF x = c THEN l1[dom[c]] ELSE status[x]}
    <3>1. status' = status \/ status' = [status EXCEPT ![c] = l1[dom[c]]]
      BY <1>1 DEF GetL1, Return
    <3> QED
      BY <3>1, <1>t
  <2> QED
    BY <1>1, <1>d, <2>1 DEF GetL1
<1>2. CASE GetL2(c)
  <2>1. \A x \in Callers : \/ status'[x] = status[x]
                           \/ x = c /\ status'[x] \in {l2[dom[c]], "miss"}
    BY <1>2, <1>t DEF GetL2, Return
  <2> QED
    BY <1>2, <1>d, <2>1 DEF GetL2
<1>3. CASE Refill(c)
  <2>1. \A x \in Domains : l1'[x] \in {l1[x], IF x = dom[c] THEN status[c] ELSE l1[x]}
    <3>1. l1' = [l1 EXCEPT ![dom[c]] = status[c]]
      BY <1>3 DEF Refill, L1Set
    <3> QED
      BY <3>1, <1>t
  <2> QED
    BY <1>3, <2>1 DEF Refill
<1>4. CASE Do(c)
  BY <1>4 DEF Do
<1>5. CASE LimiterWait(c) \/ AcquireFails(c)
  <2>1. \A x \in Callers : status'[x] \in {status[x], "rate_limited", "ctx_error"}
    BY <1>5, <1>t DEF LimiterWait, AcquireFails, EndFlight
  <2> QED
    BY <1>5, <2>1 DEF LimiterWait, AcquireFails
<1>6. CASE Acquire(c)
  BY <1>6 DEF Acquire
<1>7. CASE QueryMX(c)
  <2>1. PICK o \in Outcomes(c) :
           \/ status' = status
           \/ status' = [status EXCEPT ![c] = MXStatus(dom[c], o)]
    BY <1>7 DEF QueryMX, Resolved
  <2>2. MXStatus(dom[c], o) # "no_mx"
    BY OutcomesAre DEF MXStatus
  <2>3. \A x \in Callers : status'[x] = status[x] \/ status'[x] # "no_mx"
    BY <1>t, <2>1, <2>2
  <2> QED
    BY <1>7, <2>3 DEF QueryMX
<1>8. CASE QueryA(c)
  <2>1. PICK o \in Outcomes(c) : status' = [status EXCEPT ![c] = AStatus(dom[c], o)]
    BY <1>8 DEF QueryA, Resolved
  <2>2. dom[c] \in Domains /\ zone[dom[c]] \in {"a", "none"}
    BY <1>8, <1>d DEF QueryA, ResInv, HandsSound
  <2>3. AStatus(dom[c], o) = "no_mx" => zone[dom[c]] = "none"
    BY <2>2, HarmlessOutcomes
  <2>4. \A x \in Callers : status'[x] = IF x = c THEN AStatus(dom[c], o) ELSE status[x]
    BY <1>t, <2>1
  <2> QED
    BY <1>8, <2>3, <2>4 DEF QueryA
<1>9. CASE Backoff(c)
  BY <1>9 DEF Backoff
<1>10. CASE StoreL1(c)
  <2>1. \A x \in Domains : l1'[x] \in {l1[x], IF x = dom[c] THEN status[c] ELSE l1[x]}
    <3>1. l1' = [l1 EXCEPT ![dom[c]] = status[c]]
      BY <1>10 DEF StoreL1, L1Set
    <3> QED
      BY <3>1, <1>t
  <2> QED
    BY <1>10, <2>1 DEF StoreL1
<1>11. CASE StoreL2(c)
  <2>1. \A x \in Domains : l2'[x] \in {l2[x], IF x = dom[c] THEN status[c] ELSE l2[x]}
    <3>1. l2' = l2 \/ l2' = [l2 EXCEPT ![dom[c]] = status[c]]
      BY <1>11 DEF StoreL2
    <3> QED
      BY <3>1, <1>t
  <2> QED
    BY <1>11, <2>1 DEF StoreL2
<1>12. CASE Finish(c)
  <2>1. \A x \in Callers : \/ status'[x] = status[x]
                           \/ dom[x] = dom[c] /\ status'[x] = status[c]
    BY <1>12, <1>t DEF Finish, EndFlight, Followers
  <2> QED
    BY <1>12, <2>1 DEF Finish
<1> HIDE DEF DefinitiveInv
<1> QED
  BY <1>1, <1>2, <1>3, <1>4, <1>5, <1>6, <1>7, <1>8, <1>9, <1>10, <1>11, <1>12 DEF CallStep

\* A cancelled ctx stays cancelled.
LEMMA CancelledGrows ==
    ASSUME [Next]_vars
    PROVE  cancelled \subseteq cancelled'
<1>1. ASSUME NEW c \in Callers, NEW d \in Domains \cup {NoDomain}, LookupBegin(c, d)
      PROVE  cancelled' = cancelled
  BY <1>1 DEF LookupBegin
<1>2. ASSUME NEW c \in Callers, CallStep(c) PROVE cancelled' = cancelled
  BY <1>2 DEF CallStep, GetL1, GetL2, Refill, Do, LimiterWait, Acquire, AcquireFails,
     QueryMX, QueryA, Backoff, StoreL1, StoreL2, Finish
<1>3. CASE \/ \E c \in Callers : Cancel(c)
           \/ \E d \in Domains : ExpireL1(d) \/ ExpireL2(d)
           \/ ClearL1 \/ ClearScan \/ ClearL2 \/ UNCHANGED vars
  BY <1>3 DEF Cancel, ExpireL1, ExpireL2, ClearL1, ClearScan, ClearL2, vars
<1> QED
  BY <1>1, <1>2, <1>3 DEF Next

\* And neither does anything else, as long as no ctx is cancelled.
LEMMA DefinitiveStep ==
    ASSUME ResInv, PoisonInv, [Next]_vars, Faults \cap {"refused", "neterr"} = {}
    PROVE  PoisonInv'
<1> SUFFICES ASSUME cancelled' = {} PROVE NoMXIsTrue'
  BY DEF PoisonInv
<1>i. DefinitiveInv
  BY CancelledGrows DEF PoisonInv, DefinitiveInv
<1>t. status \in [Callers -> Statuses] /\ dom \in [Callers -> Domains \cup {NoDomain}]
  BY DEF ResInv, TypeOK
<1>1. ASSUME NEW c \in Callers, NEW d \in Domains \cup {NoDomain}, LookupBegin(c, d)
      PROVE  NoMXIsTrue'
  <2>1. pc[c] = "idle" /\ status[c] = "none"
    BY <1>1 DEF LookupBegin, ResInv, HandsSound
  <2>2. status'[c] # "no_mx" /\ \A x \in Callers : x # c => status'[x] = status[x]
    BY <1>1, <1>t, <2>1 DEF LookupBegin, Return
  <2>3. \A x \in Callers : x # c => dom'[x] = dom[x]
    BY <1>1, <1>t DEF LookupBegin
  <2> QED
    BY <1>1, <1>i, <2>2, <2>3 DEF LookupBegin, DefinitiveInv, NoMXIsTrue, cacheVars
<1>2. ASSUME NEW c \in Callers, CallStep(c) PROVE NoMXIsTrue'
  BY <1>i, <1>2, CallKeepsDefinitive DEF DefinitiveInv
<1>3. CASE \/ \E c \in Callers : Cancel(c)
           \/ \E d \in Domains : ExpireL1(d) \/ ExpireL2(d)
           \/ ClearL1 \/ ClearScan \/ ClearL2 \/ UNCHANGED vars
  <2>1. UNCHANGED <<zone, callVars, cancelled>>
    BY <1>3 DEF Cancel, ExpireL1, ExpireL2, ClearL1, ClearScan, ClearL2, vars
  <2>2. \A d \in Domains : l1'[d] \in {l1[d], "miss"} /\ l2'[d] \in {l2[d], "miss"}
    BY <1>3 DEF Cancel, ExpireL1, ExpireL2, ClearL1, ClearScan, ClearL2, vars,
       cacheVars, ResInv, TypeOK
  <2> QED
    BY <1>i, <2>1, <2>2 DEF DefinitiveInv, NoMXIsTrue, callVars
<1> QED
  BY <1>1, <1>2, <1>3 DEF Next

\* The comments at resolver.go:109 and 286 hold until the first cancellation, as long as
\* no exchange ends in a refusal or a network error, whatever times out, fails at the
\* server, is truncated, expires or is cleared: the run that violates
\* CachedIsDefinitive needs exactly what is assumed away here.
THEOREM OnlyCancellationsPoison ==
    ASSUME Faults \cap {"refused", "neterr"} = {}
    PROVE  Spec => []OnlyCancelPoisons
<1>1. Init => PoisonInv
  BY DEF Init, PoisonInv, NoMXIsTrue
<1>2. ResInv /\ PoisonInv /\ [Next]_vars => PoisonInv'
  BY DefinitiveStep
<1>3. PoisonInv => OnlyCancelPoisons
  BY DEF PoisonInv, NoMXIsTrue, CachedIsDefinitive, OnlyCancelPoisons
<1> QED
  BY <1>1, <1>2, <1>3, ResInvariant, PTL DEF Spec
=============================================================================
