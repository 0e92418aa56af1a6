------------------------------- MODULE Resolver -------------------------------
(***************************************************************************)
(* LookupMX: the two cache layers, singleflight, the slot of the DNS       *)
(* semaphore, the retries and the fallback to A (dns/resolver.go,          *)
(* dns/client.go, internal/cache), called by many goroutines at once.      *)
(*                                                                         *)
(* One step is one cache operation, one query to the upstream server or    *)
(* one operation under a lock.  An answer is its status; host names and    *)
(* priorities are left out.  The zone of a domain (what DNS really holds)  *)
(* does not change during a run; a single exchange with the upstream may   *)
(* end in a fault instead.                                                 *)
(***************************************************************************)
EXTENDS Integers, FiniteSets

CONSTANTS
    Callers,     \* calls of LookupMX or IsCached, each made once
    Domains,
    NoCaller, NoDomain,
    Limit,       \* slots of the DNS semaphore
    MaxRetries,  \* maxRetries
    Faults,      \* what an exchange may end in instead of the zone's answer
    Env          \* which outside events the instance includes

ExchangeErrors == {"timeout", "neterr"}
AllFaults == ExchangeErrors \cup {"truncated", "servfail", "refused"}
EnvEvents == {"cancel", "l2_error", "expire", "evict", "clear"}

ASSUME CallersAssumption ==
    IsFiniteSet(Callers) /\ NoCaller \notin Callers
ASSUME DomainsAssumption == NoDomain \notin Domains
ASSUME LimitAssumption == Limit \in Nat \ {0}
ASSUME RetriesAssumption == MaxRetries \in Nat
ASSUME FaultsAssumption == Faults \subseteq AllFaults
ASSUME EnvAssumption == Env \subseteq EnvEvents

VARIABLES
    zone,        \* what DNS holds: MX records, only an A, neither, no such name
    l1, l2,      \* status cached in the LRU of the process, and in Redis
    forever,     \* L1 entries without expiry
    pc, dom,     \* where each call is, and the domain it asks for
    status,      \* the answer it has in hand, and in the end returns
    attempt,     \* retries done, 0 once the flight is over
    flight,      \* singleflight's map: the leader for each key
    slots,       \* slots of the semaphore in use
    cancelled,   \* calls whose ctx is done
    clear,       \* where the request ClearCache is
    scanned      \* keys its SCAN returned and it has still to delete

cacheVars == <<l1, l2, forever>>
callVars == <<pc, dom, status, attempt>>
clearVars == <<clear, scanned>>
vars == <<zone, cacheVars, callVars, flight, slots, cancelled, clearVars>>

ZoneKinds == {"mx", "a", "none", "nx"}
\* MXResult.Status, with "ok" split by what was found.
Definitive == {"ok_mx", "ok_a", "no_mx", "nxdomain"}
Transient == {"timeout", "servfail"}
Statuses == Definitive \cup Transient \cup
            {"none", "miss", "rate_limited", "ctx_error"}

HasSlot == {"query_mx", "query_a", "backoff", "store_l1", "store_l2", "finish"}
Leading == HasSlot \cup {"limiter", "acquire"}
CallStates == Leading \cup {"idle", "get_l1", "get_l2", "refill", "join",
                            "waiting", "returned"}

TypeOK ==
    /\ zone \in [Domains -> ZoneKinds]
    /\ l1 \in [Domains -> Definitive \cup {"miss"}]
    /\ l2 \in [Domains -> Definitive \cup {"miss"}]
    /\ forever \subseteq Domains
    /\ pc \in [Callers -> CallStates]
    /\ dom \in [Callers -> Domains \cup {NoDomain}]
    /\ status \in [Callers -> Statuses]
    /\ attempt \in [Callers -> 0..MaxRetries]
    /\ flight \in [Domains -> Callers \cup {NoCaller}]
    /\ slots \in Nat
    /\ cancelled \subseteq Callers
    /\ clear \in {"idle", "purged", "scanned", "done"}
    /\ scanned \subseteq Domains

Init ==
    /\ zone \in [Domains -> ZoneKinds]
    /\ l1 = [d \in Domains |-> "miss"]
    /\ l2 = [d \in Domains |-> "miss"]
    /\ forever = {}
    /\ pc = [c \in Callers |-> "idle"]
    /\ dom = [c \in Callers |-> NoDomain]
    /\ status = [c \in Callers |-> "none"]
    /\ attempt = [c \in Callers |-> 0]
    /\ flight = [d \in Domains |-> NoCaller]
    /\ slots = 0
    /\ cancelled = {}
    /\ clear = "idle" /\ scanned = {}

Goto(c, s) == pc' = [pc EXCEPT ![c] = s]

Return(c, s) ==
    /\ Goto(c, "returned")
    /\ status' = [status EXCEPT ![c] = s]

-----------------------------------------------------------------------------
(* The caches: Multi.Get and Multi.Set over LRU and Redis. *)

L1Set(d, s, ttl) ==
    /\ l1' = [l1 EXCEPT ![d] = s]
    /\ forever' = IF ttl = 0 THEN forever \cup {d} ELSE forever \ {d}

\* Redis.Get and Set fail when the server does, or when the ctx is done.
L2Fails(c) == "l2_error" \in Env \/ c \in cancelled

\* Which of the two functions a call is of is left open until they differ.
LookupBegin(c, d) ==
    /\ pc[c] = "idle"
    /\ IF d = NoDomain
       THEN \E s \in {"nxdomain", "miss"} : Return(c, s)
       ELSE Goto(c, "get_l1") /\ UNCHANGED status
    /\ dom' = [dom EXCEPT ![c] = d]
    /\ UNCHANGED <<zone, cacheVars, attempt, flight, slots, cancelled, clearVars>>

GetL1(c) ==
    /\ pc[c] = "get_l1"
    /\ IF l1[dom[c]] # "miss"
       THEN Return(c, l1[dom[c]])
       ELSE Goto(c, "get_l2") /\ UNCHANGED status
    /\ UNCHANGED <<zone, cacheVars, dom, attempt, flight, slots, cancelled, clearVars>>

\* On a miss, or any error of Redis, LookupMX goes on and IsCached says no.
GetL2(c) ==
    /\ pc[c] = "get_l2"
    /\ \/ /\ l2[dom[c]] # "miss"
          /\ Goto(c, "refill")
          /\ status' = [status EXCEPT ![c] = l2[dom[c]]]
       \/ /\ l2[dom[c]] = "miss" \/ L2Fails(c)
          /\ \/ Return(c, "miss")
             \/ Goto(c, "join") /\ UNCHANGED status
    /\ UNCHANGED <<zone, cacheVars, dom, attempt, flight, slots, cancelled, clearVars>>

\* L1 is filled again with ttl 0: the entry never expires.
Refill(c) ==
    /\ pc[c] = "refill"
    /\ L1Set(dom[c], status[c], 0)
    /\ Goto(c, "returned")
    /\ UNCHANGED <<zone, l2, dom, status, attempt, flight, slots, cancelled,
                   clearVars>>

-----------------------------------------------------------------------------
(* The flight: singleflight, rate limiter, semaphore. *)

\* Mutation: no singleflight.
DoAlone(c) ==
    /\ pc[c] = "join"
    /\ flight' = [flight EXCEPT ![dom[c]] = c]
    /\ Goto(c, "limiter")
    /\ UNCHANGED <<zone, cacheVars, dom, status, attempt, slots, cancelled, clearVars>>

\* sf.Do: lead, or wait for the leader whatever becomes of one's own ctx.
Do(c) ==
    /\ pc[c] = "join"
    /\ IF flight[dom[c]] = NoCaller
       THEN /\ flight' = [flight EXCEPT ![dom[c]] = c]
            /\ Goto(c, "limiter")
       ELSE Goto(c, "waiting") /\ UNCHANGED flight
    /\ UNCHANGED <<zone, cacheVars, dom, status, attempt, slots, cancelled, clearVars>>

Followers(c) == {x \in Callers : pc[x] = "waiting" /\ dom[x] = dom[c]}

\* Mutation: the followers are not told.
EndFlightAlone(c, s) ==
    /\ Return(c, s)
    /\ flight' = [flight EXCEPT ![dom[c]] = NoCaller]

\* The leader's function returns: everybody in the flight gets its result.
EndFlight(c, s) ==
    /\ pc' = [x \in Callers |-> IF x \in Followers(c) \cup {c}
                                THEN "returned" ELSE pc[x]]
    /\ status' = [x \in Callers |-> IF x \in Followers(c) \cup {c}
                                    THEN s ELSE status[x]]
    /\ flight' = [flight EXCEPT ![dom[c]] = NoCaller]

\* DomainLimiter.Wait fails only if the ctx is done.
LimiterWait(c) ==
    /\ pc[c] = "limiter"
    /\ IF c \in cancelled
       THEN EndFlight(c, "rate_limited")
       ELSE Goto(c, "acquire") /\ UNCHANGED <<status, flight>>
    /\ UNCHANGED <<zone, cacheVars, dom, attempt, slots, cancelled, clearVars>>

\* The semaphore as its contract (SlotLimiter) gives it; a free slot is taken
\* without a look at the ctx.
Acquire(c) ==
    /\ pc[c] = "acquire" /\ slots < Limit
    /\ slots' = slots + 1
    /\ Goto(c, "query_mx")
    /\ UNCHANGED <<zone, cacheVars, dom, status, attempt, flight, cancelled, clearVars>>

\* Mutation: the Release is deferred before Acquire has succeeded.
AcquireFailsReleasing(c) ==
    /\ pc[c] = "acquire" /\ c \in cancelled
    /\ slots' = slots - 1
    /\ EndFlight(c, "ctx_error")
    /\ UNCHANGED <<zone, cacheVars, dom, attempt, cancelled, clearVars>>

AcquireFails(c) ==
    /\ pc[c] = "acquire" /\ c \in cancelled
    /\ EndFlight(c, "ctx_error")
    /\ UNCHANGED <<zone, cacheVars, dom, attempt, slots, cancelled, clearVars>>

-----------------------------------------------------------------------------
(* The query and its retries. *)

\* What one exchange can end in: with the ctx cancelled or past its deadline,
\* also in an error that is not the network's.
Exchanges(c) == {"answer"} \cup Faults \cup
                (IF c \in cancelled THEN ExchangeErrors ELSE {})

\* Client.Query from its last exchange over UDP and the one over TCP: TCP decides
\* when UDP was truncated or failed, but the error reported is UDP's.
Query(udp, tcp) ==
    IF udp \notin ExchangeErrors \cup {"truncated"} THEN udp
    ELSE IF tcp \notin ExchangeErrors \/ udp = "truncated" THEN tcp
    ELSE udp

\* After a TCP exchange the truncation bit is not looked at.
Outcomes(c) ==
    {Query(u, t) : u \in Exchanges(c), t \in Exchanges(c) \ {"truncated"}}

\* Mutation: one retry too many.
ResolvedOnceMore(c, s) ==
    /\ status' = [status EXCEPT ![c] = s]
    /\ IF s \in Transient /\ attempt[c] <= MaxRetries
       THEN /\ Goto(c, "backoff")
            /\ attempt' = [attempt EXCEPT ![c] = @ + 1]
       ELSE /\ Goto(c, IF s \in Definitive THEN "store_l1" ELSE "finish")
            /\ UNCHANGED attempt

\* End of one resolveMX with status s: done, or once more after the backoff.
Resolved(c, s) ==
    /\ status' = [status EXCEPT ![c] = s]
    /\ IF s \in Transient /\ attempt[c] < MaxRetries
       THEN /\ Goto(c, "backoff")
            /\ attempt' = [attempt EXCEPT ![c] = @ + 1]
       ELSE /\ Goto(c, IF s \in Definitive THEN "store_l1" ELSE "finish")
            /\ UNCHANGED attempt

\* Mutation: whatever fails, the domain does not exist.
MXStatusAnyError(d, outcome) ==
    IF outcome = "answer" /\ zone[d] = "mx" THEN "ok_mx" ELSE "nxdomain"

\* An error that is neither NXDOMAIN nor a timeout counts as servfail here.
MXStatus(d, outcome) ==
    CASE outcome = "timeout" -> "timeout"
      [] outcome \in {"servfail", "refused", "neterr"} -> "servfail"
      [] outcome = "answer" -> IF zone[d] = "nx" THEN "nxdomain" ELSE "ok_mx"

QueryMX(c) ==
    /\ pc[c] = "query_mx"
    /\ \E o \in Outcomes(c) :
          IF o = "answer" /\ zone[dom[c]] \in {"a", "none"}
          THEN Goto(c, "query_a") /\ UNCHANGED <<status, attempt>>
          ELSE Resolved(c, MXStatus(dom[c], o))
    /\ UNCHANGED <<zone, cacheVars, dom, flight, slots, cancelled, clearVars>>

\* Mutation: whatever fails, there is no A.
AStatusAnyError(d, outcome) ==
    IF outcome = "answer" /\ zone[d] = "a" THEN "ok_a" ELSE "no_mx"

\* fallbackA: here every other error means that there is no A either.
AStatus(d, outcome) ==
    CASE outcome \in {"timeout", "servfail"} -> outcome
      [] outcome \in {"refused", "neterr"} -> "no_mx"
      [] outcome = "answer" -> IF zone[d] = "a" THEN "ok_a" ELSE "no_mx"

QueryA(c) ==
    /\ pc[c] = "query_a"
    /\ \E o \in Outcomes(c) : Resolved(c, AStatus(dom[c], o))
    /\ UNCHANGED <<zone, cacheVars, dom, flight, slots, cancelled, clearVars>>

\* The pause before a retry; with the ctx done the last status stands.
Backoff(c) ==
    /\ pc[c] = "backoff"
    /\ \/ Goto(c, "query_mx")
       \/ c \in cancelled /\ Goto(c, "finish")
    /\ UNCHANGED <<zone, cacheVars, dom, status, attempt, flight, slots, cancelled,
                   clearVars>>

\* cache.Set, for definitive answers only.
StoreL1(c) ==
    /\ pc[c] = "store_l1"
    /\ L1Set(dom[c], status[c], 1)
    /\ Goto(c, "store_l2")
    /\ UNCHANGED <<zone, l2, dom, status, attempt, flight, slots, cancelled, clearVars>>

StoreL2(c) ==
    /\ pc[c] = "store_l2"
    /\ \/ l2' = [l2 EXCEPT ![dom[c]] = status[c]]
       \/ L2Fails(c) /\ UNCHANGED l2
    /\ Goto(c, "finish")
    /\ UNCHANGED <<zone, l1, forever, dom, status, attempt, flight, slots, cancelled,
                   clearVars>>

\* The deferred Release, and the return to singleflight.
Finish(c) ==
    /\ pc[c] = "finish"
    /\ slots' = slots - 1
    /\ EndFlight(c, status[c])
    /\ attempt' = [attempt EXCEPT ![c] = 0]
    /\ UNCHANGED <<zone, cacheVars, dom, cancelled, clearVars>>

-----------------------------------------------------------------------------
(* Time, cancellation, and the administrator's ClearCache. *)

Cancel(c) ==
    /\ "cancel" \in Env
    /\ c \notin cancelled /\ pc[c] # "returned"
    /\ cancelled' = cancelled \cup {c}
    /\ UNCHANGED <<zone, cacheVars, callVars, flight, slots, clearVars>>

\* An entry's TTL passes, or the LRU drops it: it is full, or a Get that found
\* an expired entry removes the one stored meanwhile.
ExpireL1(d) ==
    /\ \/ "expire" \in Env /\ d \notin forever
       \/ "evict" \in Env
    /\ l1[d] # "miss"
    /\ l1' = [l1 EXCEPT ![d] = "miss"]
    /\ forever' = forever \ {d}
    /\ UNCHANGED <<zone, l2, callVars, flight, slots, cancelled, clearVars>>

ExpireL2(d) ==
    /\ "expire" \in Env
    /\ l2[d] # "miss"
    /\ l2' = [l2 EXCEPT ![d] = "miss"]
    /\ UNCHANGED <<zone, l1, forever, callVars, flight, slots, cancelled,
                   clearVars>>

ClearL1 ==
    /\ "clear" \in Env /\ clear = "idle"
    /\ clear' = "purged"
    /\ l1' = [d \in Domains |-> "miss"]
    /\ forever' = {}
    /\ UNCHANGED <<zone, l2, callVars, flight, slots, cancelled, scanned>>

ClearScan ==
    /\ clear = "purged"
    /\ clear' = "scanned"
    /\ scanned' = {d \in Domains : l2[d] # "miss"}
    /\ UNCHANGED <<zone, cacheVars, callVars, flight, slots, cancelled>>

ClearL2 ==
    /\ clear = "scanned"
    /\ clear' = "done"
    /\ l2' = [d \in Domains |-> IF d \in scanned THEN "miss" ELSE l2[d]]
    /\ scanned' = {}
    /\ UNCHANGED <<zone, l1, forever, callVars, flight, slots, cancelled>>

CallStep(c) ==
    \/ GetL1(c) \/ GetL2(c) \/ Refill(c) \/ Do(c) \/ LimiterWait(c)
    \/ Acquire(c) \/ AcquireFails(c) \/ QueryMX(c) \/ QueryA(c) \/ Backoff(c)
    \/ StoreL1(c) \/ StoreL2(c) \/ Finish(c)

Next ==
    \/ \E c \in Callers :
          \/ \E d \in Domains \cup {NoDomain} : LookupBegin(c, d)
          \/ CallStep(c) \/ Cancel(c)
    \/ \E d \in Domains : ExpireL1(d) \/ ExpireL2(d)
    \/ ClearL1 \/ ClearScan \/ ClearL2

Spec == Init /\ [][Next]_vars

\* Goroutines run, and a query ends.  That a call in Acquire takes a slot which stays
\* free is what AdaptiveSemaphore provides as long as no ctx is done while its call
\* waits (EventuallyServed); EveryLookupReturns assumes that beside it.
Fairness ==
    \A c \in Callers : WF_vars(CallStep(c))

FairSpec == Spec /\ Fairness

-----------------------------------------------------------------------------
(* Properties *)

\* A flight has one leader, registered until it ends, and whoever waits waits for
\* a leader that is still at work: no follower is left behind, and two goroutines
\* never query the same domain at once.
OneLeaderPerFlight ==
    /\ \A c \in Callers : pc[c] \in Leading => flight[dom[c]] = c
    /\ \A d \in Domains : flight[d] # NoCaller =>
          pc[flight[d]] \in Leading /\ dom[flight[d]] = d
    /\ \A c \in Callers : pc[c] = "waiting" => flight[dom[c]] # NoCaller

\* Every path out of a flight gives back exactly the slots it took: the semaphore
\* counts the calls between Acquire and Release, and never more than its limit.
SlotsExact ==
    /\ slots = Cardinality({c \in Callers : pc[c] \in HasSlot})
    /\ slots <= Limit

\* What an answer may say of a domain, even after faults and cancellations.
Sound(d, s) ==
    CASE s = "ok_mx" -> zone[d] = "mx"
      [] s = "ok_a" -> zone[d] = "a"
      [] s = "no_mx" -> zone[d] \in {"a", "none"}
      [] s = "nxdomain" -> zone[d] = "nx"
      [] OTHER -> TRUE

\* No fault, cancellation or race turns an existing domain into NXDOMAIN, makes
\* one up, or hides MX records, neither in the caches nor in a returned answer:
\* only "no_mx" can be wrong, and only for a domain with an A alone.
AnswersSound ==
    /\ \A d \in Domains : Sound(d, l1[d]) /\ Sound(d, l2[d])
    /\ \A c \in Callers : dom[c] # NoDomain => Sound(dom[c], status[c])

\* resolver.go:109 and 286: only definitive answers are cached, and a failed
\* fallback is not taken for the absence of an A.  So what is cached is what a
\* query without faults answers.
CachedIsDefinitive ==
    \A d \in Domains : "no_mx" \in {l1[d], l2[d]} => zone[d] = "none"

\* Only a cancellation gets in the way of that: until the first one, timeouts,
\* failures of servers and of Redis, truncation, expiry, eviction and ClearCache
\* leave only definitive answers in the caches.
OnlyCancelPoisons == cancelled = {} => CachedIsDefinitive

\* Every call returns although another domain's leader may hold the only slot, the
\* leader it follows may be cancelled at the limiter, in a query, in the backoff or
\* before a store, and queries are retried: as long as no ctx is done while its call
\* waits in Acquire, where the semaphore may lose a wakeup (NotBlockedBesideFreeSlot).
EveryLookupReturns ==
    [](\A c \in cancelled : pc[c] # "acquire") =>
        <>[](\A c \in Callers : pc[c] \in {"idle", "returned"})
=============================================================================
