------------------------------ MODULE Validation ------------------------------
(***************************************************************************)
(* The validation of one batch: up to Concurrency addresses at a time run  *)
(* through the stages of the pipeline (validation/pipeline.go,             *)
(* validation/stages) and the score engine (validation/scoring.go).  The   *)
(* batch of a job (jobs/handler.go, phases 2 and 3) is then stored as a    *)
(* whole or not at all; that of POST /validate/batch                       *)
(* (validation/validator.go) runs one address after the other and is sent  *)
(* back.  Meanwhile the context may be cancelled, and the updater, the     *)
(* administrator and the seeding command change the list of disposable     *)
(* domains (validation/disposable, storage/disposable_repo.go).            *)
(*                                                                         *)
(* One step is one stage of one address.  An address is abstracted to what *)
(* the stages tell apart: its form, its domain, and whether its local part *)
(* is a role.  LookupMX is what Resolver shows of it: any status, and an   *)
(* error of the context when the context is done.                          *)
(***************************************************************************)
EXTENDS Integers, Sequences, FiniteSets, TypoCorrector

CONSTANTS
    Emails,              \* the addresses of the batch
    Domains,
    Trim,                \* a domain without the spaces in front of it
    KnownTLD, Free,      \* domains with an IANA TLD, of a free provider
    Spelling,            \* the letters of a domain
    NoDomain, Garbled,   \* Email.Domain empty, and with text after the domain
    Shapes,              \* what an address of the batch may look like
    Modes,               \* "job": MakeTaskHandler, "sync": ValidateBatch
    Embedded, Bodies,    \* disposable domains of the program, and of the URL
    Tables, SeedChunks,  \* table disposable_domains at boot, and what is upserted
    Lookups,             \* what LookupMX answers while the context lives
    Concurrency,
    Weights, ValidMin, RiskyMin,
    Env                  \* which outside events the instance includes

\* blank: nothing but spaces; no_at: no @ with text on both sides; plain: accepted
\* by the regular expression; parsed and display: accepted by mail.ParseAddress
\* only; malformed: refused, by either or for its lengths or dots.  What follows the
\* last @ is the domain, of a parsed address perhaps with a space in front, which
\* ParseAddress skips ("ann@ x.com"); of a display one it goes on after it, with
\* ">", ")" or ";" ("Ann <ann@x.com>").
Forms == {"blank", "no_at", "plain", "parsed", "display", "malformed"}
AllShapes == [form : Forms, domain : Domains, role : BOOLEAN]

LookupFailures == {"timeout", "servfail", "rate_limited", "ctx_error"}
LookupResults == LookupFailures \cup {"ok_mx", "ok_a", "no_mx", "nxdomain"}

\* A space in front does not change what follows the last dot; no TLD has the
\* character that a garbled domain ends with.
ASSUME DomainsAssumption ==
    /\ KnownTLD \subseteq Domains /\ Free \subseteq Domains
    /\ Trim \in [Domains -> Domains]
    /\ \A d \in Domains : Trim[Trim[d]] = Trim[d] /\ (d \in KnownTLD <=> Trim[d] \in KnownTLD)
    /\ Spelling \in [Domains -> Seq(Letters) \ {<< >>}]
    /\ NoDomain \notin Domains /\ Garbled \notin Domains /\ NoDomain # Garbled
ASSUME InputsAssumption ==
    /\ IsFiniteSet(Emails) /\ Shapes \subseteq AllShapes
    /\ \A sh \in Shapes : sh.form = "plain" => Trim[sh.domain] = sh.domain
    /\ Modes \subseteq {"job", "sync"} /\ Lookups \subseteq LookupResults
ASSUME ListsAssumption ==
    /\ Embedded \subseteq Domains /\ Bodies \subseteq SUBSET Domains
    /\ Tables \subseteq SUBSET Domains /\ SeedChunks \in Seq(SUBSET Domains)
ASSUME ConcurrencyAssumption == Concurrency \in Nat \ {0}
ASSUME WeightsAssumption ==
    /\ Weights \in [syntax : Int, tld : Int, mx : Int, aFallback : Int,
                    disposable : Int, role : Int, typo : Int]
    /\ ValidMin \in Int /\ RiskyMin \in Int
ASSUME EnvAssumption == Env \subseteq {"cancel", "update", "reload", "seed"}

VARIABLES
    shape,       \* what each address looks like
    em,          \* the *Email of each address
    pc,          \* the stage it comes to next
    mode,        \* who validates the batch
    listed,      \* disposable.Registry
    table,       \* table disposable_domains
    bootTable,   \* what the table held at boot
    upserted,    \* chunks the seeding command has written
    cancelled,   \* the context of the batch is done
    batch,       \* where the handler is
    delta        \* storage.ProgressDelta, by status

listVars == <<listed, table, bootTable, upserted>>
vars == <<shape, em, pc, mode, listVars, cancelled, batch, delta>>

ResultStatuses == {"valid", "invalid", "risky", "unknown", "disposable"}
Stages == {"normalize", "syntax", "tld", "typo", "disposable", "role", "mx"}
Running == Stages \cup {"lookup", "score"}
Positions == Running \cup {"waiting", "done", "aborted"}
BatchStates == {"validating", "inserting", "persisted", "failed", "aborted", "answered"}

Reasons == {"INVALID_SYNTAX", "INVALID_TLD", "TYPO", "DISPOSABLE", "ROLE",
            "NXDOMAIN", "NO_MX", "DNS_ERROR", "DNS_UNAVAILABLE"}

\* type Email
EmailRecords ==
    [normalized : BOOLEAN, domain : Domains \cup {NoDomain, Garbled},
     hasMX : BOOLEAN, hasA : BOOLEAN, isDisposable : BOOLEAN, isRole : BOOLEAN,
     suggested : BOOLEAN, classification : {"unknown", "role", "free", "other"},
     status : ResultStatuses \cup {"none"}, score : 0..100,
     failedAt : Stages \cup {"none"}, reasons : SUBSET Reasons]

TypeOK ==
    /\ shape \in [Emails -> Shapes]
    /\ em \in [Emails -> EmailRecords]
    /\ pc \in [Emails -> Positions]
    /\ mode \in Modes
    /\ listed \subseteq Domains /\ table \subseteq Domains /\ bootTable \in Tables
    /\ upserted \in 0..Len(SeedChunks)
    /\ cancelled \in BOOLEAN
    /\ batch \in BatchStates
    /\ delta \in [ResultStatuses -> Nat]

NewEmail ==
    [normalized |-> FALSE, domain |-> NoDomain, hasMX |-> FALSE, hasA |-> FALSE,
     isDisposable |-> FALSE, isRole |-> FALSE, suggested |-> FALSE,
     classification |-> "unknown", status |-> "none", score |-> 0,
     failedAt |-> "none", reasons |-> {}]

\* app.New: the embedded list, replaced by a table that has rows and can be read.
BootList(domains) == IF domains = {} THEN Embedded ELSE domains

Init ==
    /\ shape \in [Emails -> Shapes]
    /\ em = [e \in Emails |-> NewEmail]
    /\ pc = [e \in Emails |-> "waiting"]
    /\ mode \in Modes
    /\ bootTable \in Tables /\ table = bootTable /\ upserted = 0
    /\ listed \in {Embedded, BootList(table)}
    /\ cancelled = FALSE
    /\ batch = "validating"
    /\ delta = [s \in ResultStatuses |-> 0]

-----------------------------------------------------------------------------
(* The stages.  Each gives the email it leaves behind; Failed says whether   *)
(* it returned an error.                                                     *)

Because(m, code) == [m EXCEPT !.reasons = @ \cup {code}]

\* Normalize: Domain is what follows the last @, as it stands if idna refuses it.
RunNormalize(m, sh) ==
    CASE sh.form = "blank" -> m
      [] sh.form = "no_at" -> [m EXCEPT !.normalized = TRUE]
      [] sh.form \in {"display", "malformed"} ->
            [m EXCEPT !.normalized = TRUE, !.domain = Garbled]
      [] OTHER -> [m EXCEPT !.normalized = TRUE, !.domain = sh.domain]

\* Syntax: checkParts fills Domain only if Normalize left it empty; that of the
\* parsed address goes to Normalized alone.
RunSyntax(m, sh) ==
    IF sh.form \in {"blank", "no_at", "malformed"}
    THEN Because(m, "INVALID_SYNTAX") ELSE m

\* TLD looks at what follows the last dot.
RunTLD(m) ==
    IF m.domain \in KnownTLD \cup {NoDomain} THEN m ELSE Because(m, "INVALID_TLD")

Near == {d \in Domains : Suggest(Spelling[d], MaxDist) # NoSuggestion}

RunTypo(m) ==
    IF m.domain \in Near THEN Because([m EXCEPT !.suggested = TRUE], "TYPO") ELSE m

\* Registry.Contains trims the domain.
RunDisposable(m) ==
    IF m.domain \in Domains /\ Trim[m.domain] \in listed
    THEN Because([m EXCEPT !.isDisposable = TRUE], "DISPOSABLE") ELSE m

\* Role: the local part of a plain address is the one that was cut.
RunRole(m, sh) ==
    IF sh.role
    THEN Because([m EXCEPT !.isRole = TRUE, !.classification = "role"], "ROLE")
    ELSE m

Classify(m) ==
    IF m.classification # "unknown" THEN m.classification
    ELSE IF m.domain \in Free THEN "free" ELSE "other"

\* MX: a failed lookup makes the address risky, without an error of the stage.
RunMX(m, r) ==
    CASE r = "nxdomain" -> Because(m, "NXDOMAIN")
      [] r = "no_mx" -> Because(m, "NO_MX")
      [] r \in {"timeout", "servfail"} ->
            Because([m EXCEPT !.status = "risky"], "DNS_UNAVAILABLE")
      [] r \in {"rate_limited", "ctx_error"} ->
            Because([m EXCEPT !.status = "risky"], "DNS_ERROR")
      [] OTHER -> [m EXCEPT !.hasMX = (r = "ok_mx"), !.hasA = (r = "ok_a"),
                            !.classification = Classify(m)]

\* The stages that make no call.
RunStage(s, m, sh) ==
    CASE s = "normalize" -> RunNormalize(m, sh)
      [] s = "syntax" -> RunSyntax(m, sh)
      [] s = "tld" -> RunTLD(m)
      [] s = "typo" -> RunTypo(m)
      [] s = "disposable" -> RunDisposable(m)
      [] s = "role" -> RunRole(m, sh)

\* The stages whose error ends the pipeline, and the reasons it is recorded with;
\* an error of Normalize is ignored.
ShortCircuit == {"syntax", "tld", "mx"}
Failed(m) == m.reasons \cap {"INVALID_SYNTAX", "INVALID_TLD", "NXDOMAIN", "NO_MX"} # {}

NextStage(s) ==
    CASE s = "normalize" -> "syntax"
      [] s = "syntax" -> "tld"
      [] s = "tld" -> "typo"
      [] s = "typo" -> "disposable"
      [] s = "disposable" -> "role"
      [] s = "role" -> "mx"

-----------------------------------------------------------------------------
(* Pipeline.Run *)

Others == <<shape, mode, listVars, cancelled, batch, delta>>

\* The errgroup cancels its context with the first error of an address.
ContextDone == cancelled \/ \E e \in Emails : pc[e] = "aborted"

Answers == Lookups \cup (IF ContextDone THEN LookupFailures ELSE {})

\* Mutation: a failed stage does not decide the status.
EndStageUndecided(e, s, m, next) ==
    IF s \in ShortCircuit /\ Failed(m)
    THEN /\ em' = [em EXCEPT ![e] = [m EXCEPT !.failedAt = s]]
         /\ pc' = [pc EXCEPT ![e] = "score"]
    ELSE em' = [em EXCEPT ![e] = m] /\ pc' = [pc EXCEPT ![e] = next]

\* Mutation: an unknown TLD is only noted.
EndStageLenient(e, s, m, next) ==
    IF s \in {"syntax", "mx"} /\ Failed(m)
    THEN /\ em' = [em EXCEPT ![e] = [m EXCEPT !.failedAt = s, !.status = "invalid"]]
         /\ pc' = [pc EXCEPT ![e] = "score"]
    ELSE em' = [em EXCEPT ![e] = m] /\ pc' = [pc EXCEPT ![e] = next]

\* What the loop does with the outcome of stage s: the short circuit, or on to
\* the next one.
EndStage(e, s, m, next) ==
    IF s \in ShortCircuit /\ Failed(m)
    THEN /\ em' = [em EXCEPT ![e] =
                 [m EXCEPT !.failedAt = s, !.status = IF @ = "none" THEN "invalid" ELSE @]]
         /\ pc' = [pc EXCEPT ![e] = "score"]
    ELSE em' = [em EXCEPT ![e] = m] /\ pc' = [pc EXCEPT ![e] = next]

\* One iteration of the loop whose look at the context finds it alive.
Stage(e) ==
    /\ pc[e] \in Stages \ {"mx"} /\ ~ContextDone
    /\ EndStage(e, pc[e], RunStage(pc[e], em[e], shape[e]), NextStage(pc[e]))
    /\ UNCHANGED Others

\* The last iteration: the context may be done before LookupMX returns.
CallLookup(e) ==
    /\ pc[e] = "mx" /\ ~ContextDone
    /\ pc' = [pc EXCEPT ![e] = "lookup"]
    /\ UNCHANGED <<em, Others>>

Lookup(e) ==
    /\ pc[e] = "lookup"
    /\ \E r \in Answers : EndStage(e, "mx", RunMX(em[e], r), "score")
    /\ UNCHANGED Others

\* The loop finds the context done: Validate returns its error.
Abort(e) ==
    /\ pc[e] \in Stages /\ ContextDone
    /\ pc' = [pc EXCEPT ![e] = "aborted"]
    /\ UNCHANGED <<em, Others>>

-----------------------------------------------------------------------------
(* ScoreEngine.Apply *)

Add(condition, weight) == IF condition THEN weight ELSE 0

\* The TLD counts for every address.
Sum(m) ==
    Add(m.normalized, Weights.syntax)
    + Add(m.hasMX, Weights.mx) + Add(~m.hasMX /\ m.hasA, Weights.aFallback)
    + Weights.tld
    + Add(m.isDisposable, Weights.disposable)
    + Add(m.isRole, Weights.role)
    + Add(m.suggested, Weights.typo)

\* Mutation: no lower bound.
BoundedAbove(n) == IF n > 100 THEN 100 ELSE n

Bounded(n) == IF n < 0 THEN 0 ELSE IF n > 100 THEN 100 ELSE n

\* Mutations: a disposable domain is left to its score; a low score to nobody.
ClassifyByScore(m, score) ==
    CASE m.status # "none" -> m.status
      [] OTHER -> IF score >= ValidMin THEN "valid"
                  ELSE IF score >= RiskyMin THEN "risky" ELSE "invalid"

ClassifyNoDefault(m, score) ==
    CASE m.status # "none" -> m.status
      [] m.status = "none" /\ m.isDisposable -> "disposable"
      [] OTHER -> IF score >= ValidMin THEN "valid"
                  ELSE IF score >= RiskyMin THEN "risky" ELSE "none"

\* A status set by a stage stands.
FinalStatus(m, score) ==
    CASE m.status # "none" -> m.status
      [] m.status = "none" /\ m.isDisposable -> "disposable"
      [] OTHER -> IF score >= ValidMin THEN "valid"
                  ELSE IF score >= RiskyMin THEN "risky" ELSE "invalid"

Apply(e) ==
    /\ pc[e] = "score"
    /\ LET score == Bounded(Sum(em[e]))
       IN  em' = [em EXCEPT ![e].score = score, ![e].status = FinalStatus(em[e], score)]
    /\ pc' = [pc EXCEPT ![e] = "done"]
    /\ UNCHANGED Others

-----------------------------------------------------------------------------
(* The handler of the batch *)

\* errgroup.SetLimit; ValidateBatch has no goroutines.
InProgress == {e \in Emails : pc[e] \in Running}
SlotFree == Cardinality(InProgress) < IF mode = "sync" THEN 1 ELSE Concurrency

\* An address starts: in a job even if the context is done.
Go(e) ==
    /\ batch = "validating" /\ pc[e] = "waiting" /\ SlotFree
    /\ mode = "sync" => ~ContextDone
    /\ pc' = [pc EXCEPT ![e] = "normalize"]
    /\ UNCHANGED <<em, Others>>

WithStatus(s) == {e \in Emails : em[e].status = s}

\* Mutation: an address that returned an error is never counted as finished.
WaitForResults ==
    /\ mode = "job" /\ batch = "validating"
    /\ \A e \in Emails : pc[e] = "done"
    /\ batch' = "inserting"
    /\ delta' = [s \in ResultStatuses |-> Cardinality(WithStatus(s))]
    /\ UNCHANGED <<shape, em, pc, mode, listVars, cancelled>>

\* g.Wait: one error abandons the batch; otherwise records and counters are made.
Wait ==
    /\ mode = "job" /\ batch = "validating"
    /\ \A e \in Emails : pc[e] \in {"done", "aborted"}
    /\ IF \E e \in Emails : pc[e] = "aborted"
       THEN batch' = "aborted" /\ UNCHANGED delta
       ELSE /\ batch' = "inserting"
            /\ delta' = [s \in ResultStatuses |-> Cardinality(WithStatus(s))]
    /\ UNCHANGED <<shape, em, pc, mode, listVars, cancelled>>

\* Mutation: the rows are written with a context of their own.
InsertDetached ==
    /\ batch = "inserting"
    /\ batch' = "persisted"
    /\ UNCHANGED <<shape, em, pc, mode, listVars, cancelled, delta>>

\* BulkInsert and IncrementProgress with the context of the batch; JobSystem has
\* their failures.
Insert ==
    /\ batch = "inserting"
    /\ batch' = IF cancelled THEN "failed" ELSE "persisted"
    /\ UNCHANGED <<shape, em, pc, mode, listVars, cancelled, delta>>

\* ValidateBatch comes to the end, and Batch sends the results.
Answer ==
    /\ mode = "sync" /\ batch = "validating"
    /\ \A e \in Emails : pc[e] = "done"
    /\ batch' = "answered"
    /\ UNCHANGED <<shape, em, pc, mode, listVars, cancelled, delta>>

\* It finds the context done before an address, or an address did: no results.
GiveUp ==
    /\ mode = "sync" /\ batch = "validating"
    /\ ContextDone /\ InProgress = {} /\ \E e \in Emails : pc[e] # "done"
    /\ batch' = "aborted"
    /\ UNCHANGED <<shape, em, pc, mode, listVars, cancelled, delta>>

-----------------------------------------------------------------------------
(* Around it *)

Cancel ==
    /\ "cancel" \in Env /\ ~cancelled
    /\ cancelled' = TRUE
    /\ UNCHANGED <<shape, em, pc, mode, listVars, batch, delta>>

\* Registry.LoadString and LoadDomains replace the whole list.
LoadDomains(list) ==
    /\ batch = "validating"
    /\ listed' = list
    /\ UNCHANGED <<shape, em, pc, mode, table, bootTable, upserted, cancelled, batch, delta>>

\* Updater.RunOnce: any answer 200 becomes the list.
RunOnce == "update" \in Env /\ \E body \in Bodies : LoadDomains(body)

\* The administrator: the table becomes the list, also when it is empty.
ReloadDisposable == "reload" \in Env /\ LoadDomains(table)

\* Mutation: the upsert replaces what is there.
UpsertReplacing(domains) == table' = domains

\* ON CONFLICT (domain) DO UPDATE
BulkUpsert(domains) == table' = table \cup domains

\* One chunk of cmd/seed-disposable, which stops at the first error.
SeedChunk ==
    /\ "seed" \in Env /\ batch = "validating" /\ upserted < Len(SeedChunks)
    /\ BulkUpsert(SeedChunks[upserted + 1])
    /\ upserted' = upserted + 1
    /\ UNCHANGED <<shape, em, pc, mode, listed, bootTable, cancelled, batch, delta>>

EmailStep(e) ==
    Go(e) \/ Stage(e) \/ CallLookup(e) \/ Lookup(e) \/ Abort(e) \/ Apply(e)

Next ==
    \/ \E e \in Emails : EmailStep(e)
    \/ Wait \/ Insert \/ Answer \/ GiveUp \/ Cancel
    \/ RunOnce \/ ReloadDisposable \/ SeedChunk

Spec == Init /\ [][Next]_vars

\* Goroutines run, and a lookup returns (EveryLookupReturns of Resolver).
Fairness ==
    /\ \A e \in Emails : WF_vars(EmailStep(e))
    /\ WF_vars(Wait \/ Insert \/ Answer \/ GiveUp)

FairSpec == Spec /\ Fairness

-----------------------------------------------------------------------------
(* Properties *)

Unanswered(e) == em[e].reasons \cap {"DNS_UNAVAILABLE", "DNS_ERROR"} # {}

\* Why an address has the status that the code gives it.  Invalid is what a short
\* circuit left behind, whatever the score, or a low score; an address on the list
\* of disposable domains is never passed as valid, nor as risky unless DNS gave no
\* answer; and one that DNS gave no answer for is risky, never invalid or valid.
\* The documents differ: README.md:219-223 classifies by the score alone, and for a
\* disposable address stages/disposable.go:11 and the example of README.md:117-131
\* do so too.  ScoreDecidesDisposable below is theirs.
VerdictExplained ==
    \A e \in Emails : pc[e] = "done" =>
        /\ em[e].failedAt # "none" => em[e].status = "invalid"
        /\ Unanswered(e) <=> (em[e].status = "risky" /\ ~em[e].hasMX /\ ~em[e].hasA)
        /\ em[e].status = "invalid" =>
              em[e].failedAt # "none" \/ em[e].score < RiskyMin
        /\ em[e].isDisposable /\ em[e].status # "disposable" =>
              em[e].failedAt = "mx" \/ Unanswered(e)

\* stages/disposable.go:11, "score decide": an address on the list of disposable
\* domains that no stage has decided gets the status of its score (README.md:219-223).
\* Apply asks for the list before it asks for the score.
ScoreDecidesDisposable ==
    \A e \in Emails :
        pc[e] = "done" /\ em[e].isDisposable /\ em[e].failedAt = "none" /\ ~Unanswered(e) =>
            /\ em[e].status = "valid" <=> em[e].score >= ValidMin
            /\ em[e].status = "risky" <=> em[e].score \in RiskyMin..(ValidMin - 1)
            /\ em[e].status = "invalid" <=> em[e].score < RiskyMin

\* A batch that comes to the INSERT has rows table emails takes (its enum and its
\* CHECK on score refuse the whole batch otherwise), and its counters add up to
\* the addresses that processed is going to count.
RowsAndCountersAgree ==
    batch \in {"inserting", "persisted"} =>
        /\ \A e \in Emails : em[e].status \in ResultStatuses /\ em[e].score \in 0..100
        /\ Cardinality(Emails) = delta["valid"] + delta["invalid"] + delta["risky"]
                                  + delta["unknown"] + delta["disposable"]

\* DNS is asked for what follows the last @ of the address, when its TLD is known,
\* and for nothing else: Normalize and Syntax let a domain through that has text after
\* it, and TLD an empty one, but not the stages together.  They do let through the
\* space of "ann@ x.com": LookupMX is asked for " x.com", of which email_normalized
\* (ann@x.com) shows nothing.
LookupsAreSane ==
    \A e \in Emails : pc[e] \in {"mx", "lookup"} =>
        em[e].domain = shape[e].domain /\ em[e].domain \in KnownTLD

\* handler.go:100: a cancelled batch is not stored in part.  A cancellation during
\* the lookups does not abort the batch but makes addresses risky; none of these
\* verdicts is ever stored, because the INSERT runs under the same context.
OwnCancelNotStored ==
    batch = "persisted" => \A e \in Emails : "DNS_ERROR" \notin em[e].reasons

\* A domain that every source knows (the program, the URL, the table at boot) is caught
\* whenever its address comes by, with a space in front too, whatever is loaded,
\* reloaded and seeded around it.
CommonDomainsCaught ==
    \A e \in Emails :
        /\ pc[e] \in {"role", "mx", "lookup"} /\ em[e].domain \in Domains
        /\ Trim[em[e].domain] \in Embedded \cap bootTable
        /\ \A body \in Bodies : Trim[em[e].domain] \in body
        => em[e].isDisposable

\* When an address comes to Typo, with whatever letters, the rotating rows of
\* DamerauLevenshtein give the optimal string alignment of its domain and any other.
DistanceIsAlignment == \A e \in Emails : pc[e] = "typo" => AllDistancesRight

CloseDomains ==
    {d \in Domains : \E k \in DOMAIN CommonDomains :
                        Alignment(Spelling[d], CommonDomains[k]) <= MaxDist}

\* The suggestion that Typo makes is a domain of the list within the distance, with the
\* same first letter if there is one, and the nearest of those; an address leaves the stage
\* without one only if its domain is on the list or no domain of the list is
\* close: neither the pruning by length nor the bucket of the first letter loses any.
SuggestionSound ==
    \A e \in Emails :
        /\ pc[e] = "typo" => AllSuggestionsSound
        /\ pc[e] = "disposable" /\ em[e].domain \in Domains =>
              (em[e].suggested <=> /\ em[e].domain \in CloseDomains
                                   /\ \A k \in DOMAIN CommonDomains :
                                         Spelling[em[e].domain] # CommonDomains[k])

\* Every batch is stored, failed, sent back or abandoned, with a cancellation at any
\* point: addresses of a job that have not started yet when the context is done still
\* start, see it, and let g.Wait return.
EveryBatchEnds == <>(batch \in {"persisted", "failed", "aborted", "answered"})
=============================================================================
