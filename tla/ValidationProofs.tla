--------------------------- MODULE ValidationProofs ---------------------------
(***************************************************************************)
(* Proofs about the validation of a batch, for every set of addresses and  *)
(* of domains, every list of disposable domains, every list of common      *)
(* domains, and every weight and threshold of the score.                   *)
(***************************************************************************)
EXTENDS Validation, TypoCorrectorProofs, FiniteSetTheorems, TLAPS

\* The reasons that MX gives.
LookupReasons == {"NXDOMAIN", "NO_MX", "DNS_ERROR", "DNS_UNAVAILABLE"}

\* An address of which no stage has decided anything yet.
Fresh(m) ==
    /\ m.status = "none" /\ m.failedAt = "none" /\ ~m.hasMX /\ ~m.hasA
    /\ m.reasons \cap (LookupReasons \cup {"INVALID_SYNTAX", "INVALID_TLD"}) = {}

NoAnswer(m) == m.reasons \cap {"DNS_UNAVAILABLE", "DNS_ERROR"} # {}

\* The three ways to come to the score: a short circuit, no answer of DNS, an answer.
Judged(m) ==
    \/ m.failedAt # "none" /\ m.status = "invalid" /\ ~NoAnswer(m)
       /\ (m.isDisposable => m.failedAt = "mx")
    \/ m.failedAt = "none" /\ m.status = "risky" /\ NoAnswer(m) /\ ~m.hasMX /\ ~m.hasA
    \/ m.failedAt = "none" /\ m.status = "none" /\ ~NoAnswer(m) /\ (m.hasMX \/ m.hasA)

\* VerdictExplained, of one address.
Explained(m) ==
    /\ m.status \in ResultStatuses
    /\ m.failedAt # "none" => m.status = "invalid"
    /\ NoAnswer(m) <=> (m.status = "risky" /\ ~m.hasMX /\ ~m.hasA)
    /\ m.status = "invalid" => m.failedAt # "none" \/ m.score < RiskyMin
    /\ m.isDisposable /\ m.status # "disposable" => m.failedAt = "mx" \/ NoAnswer(m)

\* The domains that CommonDomainsCaught is about.
Core == {d \in Embedded \cap bootTable : \A body \in Bodies : d \in body}

\* What is known of an address m of shape sh that comes to stage s next.
InPlace(s, m, sh) ==
    /\ s \notin {"score", "done"} => Fresh(m)
    /\ s \in {"waiting", "normalize", "syntax", "tld", "typo", "disposable"} => ~m.isDisposable
    /\ s \in {"waiting", "normalize"} => m.domain = NoDomain
    /\ s = "syntax" => sh.form \in {"blank", "no_at", "malformed"} \/ m.domain # NoDomain
    /\ s \in {"syntax", "tld"} => m.domain \in {NoDomain, Garbled, sh.domain}
    /\ s = "tld" => m.domain # NoDomain
    /\ s \in {"typo", "disposable", "role", "mx", "lookup"} =>
          m.domain \in KnownTLD /\ m.domain = sh.domain
    /\ s \in {"role", "mx", "lookup"} /\ Trim[m.domain] \in Core => m.isDisposable
    /\ s = "score" => Judged(m)
    /\ s = "done" => Explained(m)

EmailsInPlace == \A e \in Emails : InPlace(pc[e], em[e], shape[e])

\* A batch is written when all of its addresses have a verdict, with their counts.
BatchExact ==
    batch \in {"inserting", "persisted"} =>
        /\ \A e \in Emails : pc[e] = "done"
        /\ delta = [s \in ResultStatuses |-> Cardinality(WithStatus(s))]

\* The list and the table never lose a domain that every source has.
CoreListed == Core \subseteq listed /\ Core \subseteq table

ValInv == TypeOK /\ EmailsInPlace /\ BatchExact /\ CoreListed

-----------------------------------------------------------------------------
(* The stages, on one address *)

\* Normalize leaves a domain unless the address has none to begin with.
LEMMA NormalizeFacts ==
    ASSUME NEW m \in EmailRecords, NEW sh \in AllShapes, InPlace("normalize", m, sh)
    PROVE  /\ RunNormalize(m, sh) \in EmailRecords
           /\ InPlace("syntax", RunNormalize(m, sh), sh)
<1>1. CASE sh.form = "blank"
  BY <1>1 DEF RunNormalize, InPlace, EmailRecords, Fresh
<1>2. CASE sh.form # "blank"
  <2>1. PICK d \in Domains \cup {NoDomain, Garbled} :
           /\ RunNormalize(m, sh) = [m EXCEPT !.normalized = TRUE, !.domain = d]
           /\ d \in {NoDomain, Garbled, sh.domain}
           /\ sh.form \in {"blank", "no_at", "malformed"} \/ d # NoDomain
    <3>1. m.domain \in Domains \cup {NoDomain, Garbled} /\ sh.domain \in Domains
      BY DEF EmailRecords, AllShapes
    <3>2. CASE sh.form = "no_at"
      <4>1. RunNormalize(m, sh) = [m EXCEPT !.normalized = TRUE, !.domain = m.domain]
        BY <3>2 DEF RunNormalize, EmailRecords
      <4>2. m.domain = NoDomain
        BY DEF InPlace
      <4> QED
        BY <3>1, <3>2, <4>1, <4>2
    <3>3. CASE sh.form \in {"display", "malformed"}
      BY <3>3, DomainsAssumption DEF RunNormalize
    <3>4. CASE sh.form \notin {"blank", "no_at", "display", "malformed"}
      <4>1. RunNormalize(m, sh) = [m EXCEPT !.normalized = TRUE, !.domain = sh.domain]
        BY <3>4 DEF RunNormalize
      <4>2. sh.domain # NoDomain
        BY <3>1, DomainsAssumption
      <4> QED
        BY <3>1, <4>1, <4>2
    <3> QED
      BY <1>2, <3>2, <3>3, <3>4
  <2> DEFINE n == [m EXCEPT !.normalized = TRUE, !.domain = d]
  <2>2. n \in EmailRecords
    BY DEF EmailRecords
  <2>3. n.domain = d /\ n.isDisposable = m.isDisposable /\ n.status = m.status
        /\ n.failedAt = m.failedAt /\ n.hasMX = m.hasMX /\ n.hasA = m.hasA /\ n.reasons = m.reasons
    BY DEF EmailRecords
  <2> HIDE DEF n
  <2>4. InPlace("syntax", n, sh)
    BY <2>1, <2>3 DEF InPlace, Fresh
  <2> QED
    BY <2>1, <2>2, <2>4 DEF n
<1> QED
  BY <1>1, <1>2
\* What EndStage makes of an address m that stage s leaves behind.
Stopped(m, s) ==
    [m EXCEPT !.failedAt = s, !.status = IF @ = "none" THEN "invalid" ELSE @]

Outcome(s, m, sh, next) ==
    /\ m \in EmailRecords
    /\ IF s \in ShortCircuit /\ Failed(m)
       THEN m.status = "none" /\ ~NoAnswer(m) /\ (m.isDisposable => s = "mx")
       ELSE InPlace(next, m, sh)

\* A short circuit makes the address invalid, and it is scored as such.
LEMMA StoppedFacts ==
    ASSUME NEW m \in EmailRecords, NEW s \in {"syntax", "tld", "mx"}, NEW sh,
           m.status = "none", ~NoAnswer(m), m.isDisposable => s = "mx"
    PROVE  Stopped(m, s) \in EmailRecords /\ InPlace("score", Stopped(m, s), sh)
<1>1. Stopped(m, s) \in EmailRecords
  BY DEF EmailRecords, Stopped, Stages, ResultStatuses
<1>2. /\ Stopped(m, s).failedAt = s /\ Stopped(m, s).status = "invalid"
      /\ Stopped(m, s).reasons = m.reasons
      /\ Stopped(m, s).isDisposable = m.isDisposable
  BY DEF EmailRecords, Stopped
<1>3. Judged(Stopped(m, s))
  BY <1>2 DEF Judged, NoAnswer
<1> QED
  BY <1>1, <1>3 DEF InPlace

\* A reason more changes nothing else.
LEMMA BecauseFacts ==
    ASSUME NEW m \in EmailRecords, NEW code \in Reasons
    PROVE  /\ Because(m, code) \in EmailRecords
           /\ Because(m, code).reasons = m.reasons \cup {code}
           /\ Because(m, code).status = m.status /\ Because(m, code).failedAt = m.failedAt
           /\ Because(m, code).hasMX = m.hasMX /\ Because(m, code).hasA = m.hasA
           /\ Because(m, code).domain = m.domain
           /\ Because(m, code).isDisposable = m.isDisposable
BY DEF EmailRecords, Because

\* Syntax lets no address without a domain through.
LEMMA SyntaxFacts ==
    ASSUME NEW m \in EmailRecords, NEW sh \in AllShapes, InPlace("syntax", m, sh)
    PROVE  Outcome("syntax", RunSyntax(m, sh), sh, "tld")
<1> DEFINE n == Because(m, "INVALID_SYNTAX")
<1>1. /\ n \in EmailRecords /\ n.reasons = m.reasons \cup {"INVALID_SYNTAX"}
      /\ n.status = m.status /\ n.isDisposable = m.isDisposable
  BY BecauseFacts DEF Reasons
<1> HIDE DEF n
<1>2. Outcome("syntax", n, sh, "tld")
  BY <1>1 DEF Outcome, InPlace, Fresh, Failed, ShortCircuit, NoAnswer, LookupReasons
<1>3. sh.form \notin {"blank", "no_at", "malformed"} => Outcome("syntax", m, sh, "tld")
  BY DEF Outcome, InPlace, Fresh, Failed, ShortCircuit, LookupReasons
<1> QED
  BY <1>2, <1>3 DEF RunSyntax, n

\* TLD lets known top-level domains through only.
LEMMA TLDFacts ==
    ASSUME NEW m \in EmailRecords, NEW sh \in AllShapes, InPlace("tld", m, sh)
    PROVE  Outcome("tld", RunTLD(m), sh, "typo")
<1> DEFINE n == Because(m, "INVALID_TLD")
<1>1. /\ n \in EmailRecords /\ n.reasons = m.reasons \cup {"INVALID_TLD"}
      /\ n.status = m.status /\ n.isDisposable = m.isDisposable
  BY BecauseFacts DEF Reasons
<1> HIDE DEF n
<1>2. Outcome("tld", n, sh, "typo")
  BY <1>1 DEF Outcome, InPlace, Fresh, Failed, ShortCircuit, NoAnswer, LookupReasons
<1>3. m.domain \in KnownTLD \cup {NoDomain} => Outcome("tld", m, sh, "typo")
  <2> SUFFICES ASSUME m.domain \in KnownTLD \cup {NoDomain} PROVE Outcome("tld", m, sh, "typo")
    OBVIOUS
  <2>1. m.domain \in KnownTLD /\ m.domain = sh.domain
    BY DomainsAssumption DEF InPlace
  <2> QED
    BY <2>1 DEF Outcome, InPlace, Fresh, Failed, ShortCircuit, LookupReasons
<1> QED
  BY <1>2, <1>3 DEF RunTLD, n

\* Typo notes a suggestion and decides nothing.
LEMMA TypoFacts ==
    ASSUME NEW m \in EmailRecords, NEW sh \in AllShapes, InPlace("typo", m, sh)
    PROVE  Outcome("typo", RunTypo(m), sh, "disposable")
<1> DEFINE k == [m EXCEPT !.suggested = TRUE]
<1> DEFINE n == Because(k, "TYPO")
<1>1. /\ k \in EmailRecords /\ k.reasons = m.reasons /\ k.status = m.status
      /\ k.isDisposable = m.isDisposable /\ k.failedAt = m.failedAt /\ k.hasMX = m.hasMX
      /\ k.hasA = m.hasA /\ k.domain = m.domain
  BY DEF EmailRecords
<1> HIDE DEF k
<1>2. /\ n \in EmailRecords /\ n.reasons = m.reasons \cup {"TYPO"} /\ n.status = m.status
      /\ n.isDisposable = m.isDisposable /\ n.failedAt = m.failedAt /\ n.hasMX = m.hasMX
      /\ n.hasA = m.hasA /\ n.domain = m.domain
  BY <1>1, BecauseFacts DEF Reasons
<1> HIDE DEF n
<1>3. Outcome("typo", n, sh, "disposable")
  BY <1>2 DEF Outcome, InPlace, Fresh, ShortCircuit, LookupReasons
<1>4. Outcome("typo", m, sh, "disposable")
  BY DEF Outcome, InPlace, ShortCircuit
<1> QED
  BY <1>3, <1>4 DEF RunTypo, n, k

\* Disposable marks every domain that all sources list.
LEMMA DisposableFacts ==
    ASSUME NEW m \in EmailRecords, NEW sh \in AllShapes, InPlace("disposable", m, sh), CoreListed
    PROVE  Outcome("disposable", RunDisposable(m), sh, "role")
<1> DEFINE k == [m EXCEPT !.isDisposable = TRUE]
<1> DEFINE n == Because(k, "DISPOSABLE")
<1>1. /\ k \in EmailRecords /\ k.reasons = m.reasons /\ k.status = m.status
      /\ k.isDisposable /\ k.failedAt = m.failedAt /\ k.hasMX = m.hasMX
      /\ k.hasA = m.hasA /\ k.domain = m.domain
  BY DEF EmailRecords
<1> HIDE DEF k
<1>2. /\ n \in EmailRecords /\ n.reasons = m.reasons \cup {"DISPOSABLE"} /\ n.status = m.status
      /\ n.isDisposable /\ n.failedAt = m.failedAt /\ n.hasMX = m.hasMX
      /\ n.hasA = m.hasA /\ n.domain = m.domain
  BY <1>1, BecauseFacts DEF Reasons
<1> HIDE DEF n
<1>3. Outcome("disposable", n, sh, "role")
  BY <1>2 DEF Outcome, InPlace, Fresh, ShortCircuit, LookupReasons
<1>4. Trim[m.domain] \notin listed => Outcome("disposable", m, sh, "role")
  BY DEF Outcome, InPlace, ShortCircuit, CoreListed
<1>5. m.domain \in Domains
  BY DomainsAssumption DEF InPlace
<1> QED
  BY <1>3, <1>4, <1>5 DEF RunDisposable, n, k

\* Role notes a role and decides nothing.
LEMMA RoleFacts ==
    ASSUME NEW m \in EmailRecords, NEW sh \in AllShapes, InPlace("role", m, sh)
    PROVE  Outcome("role", RunRole(m, sh), sh, "mx")
<1> DEFINE k == [m EXCEPT !.isRole = TRUE, !.classification = "role"]
<1> DEFINE n == Because(k, "ROLE")
<1>1. /\ k \in EmailRecords /\ k.reasons = m.reasons /\ k.status = m.status
      /\ k.isDisposable = m.isDisposable /\ k.failedAt = m.failedAt /\ k.hasMX = m.hasMX
      /\ k.hasA = m.hasA /\ k.domain = m.domain
  BY DEF EmailRecords
<1> HIDE DEF k
<1>2. /\ n \in EmailRecords /\ n.reasons = m.reasons \cup {"ROLE"} /\ n.status = m.status
      /\ n.isDisposable = m.isDisposable /\ n.failedAt = m.failedAt /\ n.hasMX = m.hasMX
      /\ n.hasA = m.hasA /\ n.domain = m.domain
  BY <1>1, BecauseFacts DEF Reasons
<1> HIDE DEF n
<1>3. Outcome("role", n, sh, "mx")
  BY <1>2 DEF Outcome, InPlace, Fresh, ShortCircuit, LookupReasons
<1>4. Outcome("role", m, sh, "mx")
  BY DEF Outcome, InPlace, ShortCircuit
<1> QED
  BY <1>3, <1>4 DEF RunRole, n, k

\* Each answer of LookupMX leads to one of the three ways to the score.
LEMMA MXFacts ==
    ASSUME NEW m \in EmailRecords, NEW sh \in AllShapes, NEW r \in LookupResults,
           InPlace("lookup", m, sh)
    PROVE  Outcome("mx", RunMX(m, r), sh, "score")
<1>0. Fresh(m)
  BY DEF InPlace
<1>1. CASE r \in {"nxdomain", "no_mx"}
  <2>1. PICK code \in {"NXDOMAIN", "NO_MX"} : RunMX(m, r) = Because(m, code)
    BY <1>1 DEF RunMX
  <2> DEFINE n == Because(m, code)
  <2>2. n \in EmailRecords /\ n.reasons = m.reasons \cup {code} /\ n.status = m.status
    BY BecauseFacts DEF Reasons
  <2> HIDE DEF n
  <2>3. Outcome("mx", n, sh, "score")
    BY <1>0, <2>2 DEF Outcome, Fresh, Failed, ShortCircuit, NoAnswer, LookupReasons
  <2> QED
    BY <2>1, <2>3 DEF n
<1>2. CASE r \in LookupFailures
  <2> DEFINE k == [m EXCEPT !.status = "risky"]
  <2>1. PICK code \in {"DNS_UNAVAILABLE", "DNS_ERROR"} : RunMX(m, r) = Because(k, code)
    BY <1>2 DEF RunMX, LookupFailures
  <2> DEFINE n == Because(k, code)
  <2>2. /\ k \in EmailRecords /\ k.reasons = m.reasons /\ k.status = "risky"
        /\ k.failedAt = m.failedAt /\ k.hasMX = m.hasMX /\ k.hasA = m.hasA
    BY DEF EmailRecords, ResultStatuses
  <2> HIDE DEF k
  <2>3. /\ n \in EmailRecords /\ n.reasons = m.reasons \cup {code} /\ n.status = "risky"
        /\ n.failedAt = m.failedAt /\ n.hasMX = m.hasMX /\ n.hasA = m.hasA
    BY <2>2, BecauseFacts DEF Reasons
  <2> HIDE DEF n
  <2>4. ~Failed(n) /\ NoAnswer(n)
    BY <1>0, <2>3 DEF Fresh, Failed, NoAnswer, LookupReasons
  <2>5. Outcome("mx", n, sh, "score")
    BY <1>0, <2>3, <2>4 DEF Outcome, InPlace, Judged, Fresh
  <2> QED
    BY <2>1, <2>5 DEF n
<1>3. CASE r \in {"ok_mx", "ok_a"}
  <2> DEFINE n == [m EXCEPT !.hasMX = (r = "ok_mx"), !.hasA = (r = "ok_a"),
                            !.classification = Classify(m)]
  <2>1. RunMX(m, r) = n
    BY <1>3 DEF RunMX
  <2>2. Classify(m) \in {"unknown", "role", "free", "other"}
    BY DEF Classify, EmailRecords
  <2>3. n \in EmailRecords
    <3>1. \A b1, b2 \in BOOLEAN, k \in {"unknown", "role", "free", "other"} :
             [m EXCEPT !.hasMX = b1, !.hasA = b2, !.classification = k] \in EmailRecords
      BY DEF EmailRecords
    <3>2. (r = "ok_mx") \in BOOLEAN /\ (r = "ok_a") \in BOOLEAN
      OBVIOUS
    <3> QED
      BY <2>2, <3>1, <3>2, Zenon
  <2>4. /\ n.hasMX = (r = "ok_mx") /\ n.hasA = (r = "ok_a") /\ n.reasons = m.reasons
        /\ n.status = m.status /\ n.failedAt = m.failedAt
    BY DEF EmailRecords
  <2> HIDE DEF n
  <2>5. ~Failed(n) /\ ~NoAnswer(n)
    BY <1>0, <2>4 DEF Fresh, Failed, NoAnswer, LookupReasons
  <2>6. Outcome("mx", n, sh, "score")
    BY <1>0, <1>3, <2>3, <2>4, <2>5 DEF Outcome, InPlace, Judged, Fresh
  <2> QED
    BY <2>1, <2>6
<1> QED
  BY <1>1, <1>2, <1>3 DEF LookupResults

\* The score of an address that comes to it, and its last verdict.
LEMMA ScoreFacts ==
    ASSUME NEW m \in EmailRecords, NEW sh, NEW score \in 0..100, InPlace("score", m, sh)
    PROVE  LET n == [m EXCEPT !.score = score, !.status = FinalStatus(m, score)]
           IN  n \in EmailRecords /\ InPlace("done", n, sh)
<1> DEFINE n == [m EXCEPT !.score = score, !.status = FinalStatus(m, score)]
<1>1. m.status \in ResultStatuses \cup {"none"} /\ m.isDisposable \in BOOLEAN
  BY DEF EmailRecords
<1>2. /\ FinalStatus(m, score) \in ResultStatuses
      /\ m.status # "none" => FinalStatus(m, score) = m.status
      /\ m.status = "none" /\ m.isDisposable => FinalStatus(m, score) = "disposable"
      /\ m.status = "none" /\ ~m.isDisposable =>
            /\ FinalStatus(m, score) \in {"valid", "risky", "invalid"}
            /\ FinalStatus(m, score) = "invalid" => score < RiskyMin
  BY <1>1, WeightsAssumption DEF FinalStatus, ResultStatuses
<1>3. n \in EmailRecords
  BY <1>2 DEF EmailRecords
<1>4. /\ n.status = FinalStatus(m, score) /\ n.score = score /\ n.failedAt = m.failedAt
      /\ n.hasMX = m.hasMX /\ n.hasA = m.hasA /\ n.isDisposable = m.isDisposable
      /\ n.reasons = m.reasons
  BY DEF EmailRecords
<1> HIDE DEF n
<1>5. Judged(m) /\ (NoAnswer(n) <=> NoAnswer(m))
  BY <1>4 DEF InPlace, NoAnswer
<1>6. Explained(n)
  <2>1. CASE m.failedAt # "none" /\ m.status = "invalid" /\ ~NoAnswer(m)
             /\ (m.isDisposable => m.failedAt = "mx")
    BY <1>2, <1>4, <1>5, <2>1 DEF Explained
  <2>2. CASE m.failedAt = "none" /\ m.status = "risky" /\ NoAnswer(m) /\ ~m.hasMX /\ ~m.hasA
    BY <1>2, <1>4, <1>5, <2>2 DEF Explained
  <2>3. CASE m.failedAt = "none" /\ m.status = "none" /\ ~NoAnswer(m) /\ (m.hasMX \/ m.hasA)
    BY <1>1, <1>2, <1>4, <1>5, <2>3 DEF Explained
  <2> QED
    BY <1>5, <2>1, <2>2, <2>3 DEF Judged
<1> QED
  BY <1>3, <1>6 DEF InPlace, n
-----------------------------------------------------------------------------
(* The steps of an address *)

\* One address moves on, to where the record it leaves behind is in place.
LEMMA AddressMoves ==
    ASSUME ValInv, NEW e \in Emails, NEW m \in EmailRecords, NEW t \in Positions,
           em' = [em EXCEPT ![e] = m], pc' = [pc EXCEPT ![e] = t], UNCHANGED Others,
           pc[e] # "done", InPlace(t, m, shape[e])
    PROVE  ValInv'
<1>1. UNCHANGED <<shape, mode, listed, table, bootTable, upserted, cancelled, batch, delta>>
  BY DEF Others, listVars
<1>2. \A x \in Emails : /\ em'[x] = IF x = e THEN m ELSE em[x]
                        /\ pc'[x] = IF x = e THEN t ELSE pc[x]
  BY DEF ValInv, TypeOK
<1>3. TypeOK'
  BY <1>1 DEF ValInv, TypeOK
<1>4. EmailsInPlace'
  BY <1>1, <1>2 DEF ValInv, EmailsInPlace, InPlace, Core
<1>5. BatchExact'
  BY <1>1 DEF ValInv, BatchExact
<1>6. CoreListed'
  BY <1>1 DEF ValInv, CoreListed, Core
<1> QED
  BY <1>3, <1>4, <1>5, <1>6 DEF ValInv

\* The address, its record and its shape, where it stands.
LEMMA Standing ==
    ASSUME ValInv, NEW e \in Emails
    PROVE  /\ em[e] \in EmailRecords /\ shape[e] \in AllShapes /\ pc[e] \in Positions
           /\ InPlace(pc[e], em[e], shape[e])
           /\ em = [em EXCEPT ![e] = em[e]]
BY InputsAssumption DEF ValInv, TypeOK, EmailsInPlace

\* An address moves and its record stays.
LEMMA OnlyThePlaceMoves ==
    ASSUME ValInv, NEW e \in Emails, NEW t \in Positions, pc[e] # "done",
           pc' = [pc EXCEPT ![e] = t], UNCHANGED <<em, Others>>, InPlace(t, em[e], shape[e])
    PROVE  ValInv'
<1>1. em[e] \in EmailRecords /\ em' = [em EXCEPT ![e] = em[e]]
  BY Standing
<1> QED
  BY <1>1, AddressMoves

\* The end of a stage: on to the next one, or short-circuited to the score.
LEMMA EndStageFacts ==
    ASSUME ValInv, NEW e \in Emails, NEW s, NEW m, NEW next \in Positions, pc[e] # "done",
           EndStage(e, s, m, next), Outcome(s, m, shape[e], next), UNCHANGED Others
    PROVE  ValInv'
<1>1. CASE s \in ShortCircuit /\ Failed(m)
  <2>1. em' = [em EXCEPT ![e] = Stopped(m, s)] /\ pc' = [pc EXCEPT ![e] = "score"]
    BY <1>1 DEF EndStage, Stopped
  <2>2. Stopped(m, s) \in EmailRecords /\ InPlace("score", Stopped(m, s), shape[e])
    BY <1>1, StoppedFacts DEF Outcome, ShortCircuit
  <2> QED
    BY <2>1, <2>2, AddressMoves DEF Positions, Running
<1>2. CASE ~(s \in ShortCircuit /\ Failed(m))
  BY <1>2, AddressMoves DEF EndStage, Outcome
<1> QED
  BY <1>1, <1>2

\* What a stage without a call leaves behind.
LEMMA StageOutcome ==
    ASSUME ValInv, NEW e \in Emails, Stage(e)
    PROVE  /\ Outcome(pc[e], RunStage(pc[e], em[e], shape[e]), shape[e], NextStage(pc[e]))
           /\ NextStage(pc[e]) \in {"syntax", "tld", "typo", "disposable", "role", "mx"}
           /\ pc[e] \in {"normalize", "syntax", "tld", "typo", "disposable", "role"}
<1> DEFINE s == pc[e]
<1>1. s \in {"normalize", "syntax", "tld", "typo", "disposable", "role"}
  BY DEF Stage, Stages
<1>2. NextStage(s) \in {"syntax", "tld", "typo", "disposable", "role", "mx"}
  BY <1>1 DEF NextStage
<1>3. CoreListed
  BY DEF ValInv
<1>4. Outcome(s, RunStage(s, em[e], shape[e]), shape[e], NextStage(s))
  <2>1. CASE s = "normalize"
    <3>1. Outcome("normalize", RunNormalize(em[e], shape[e]), shape[e], "syntax")
      BY <2>1, Standing, NormalizeFacts DEF Outcome, ShortCircuit
    <3> QED
      BY <2>1, <3>1 DEF RunStage, NextStage
  <2>2. CASE s = "syntax"
    BY <2>2, Standing, SyntaxFacts DEF RunStage, NextStage
  <2>3. CASE s = "tld"
    BY <2>3, Standing, TLDFacts DEF RunStage, NextStage
  <2>4. CASE s = "typo"
    BY <2>4, Standing, TypoFacts DEF RunStage, NextStage
  <2>5. CASE s = "disposable"
    BY <1>3, <2>5, Standing, DisposableFacts DEF RunStage, NextStage
  <2>6. CASE s = "role"
    BY <2>6, Standing, RoleFacts DEF RunStage, NextStage
  <2> QED
    BY <1>1, <2>1, <2>2, <2>3, <2>4, <2>5, <2>6
<1> QED
  BY <1>1, <1>2, <1>4

\* A stage of the pipeline keeps the invariant.
LEMMA StageFacts ==
    ASSUME ValInv, NEW e \in Emails, Stage(e)
    PROVE  ValInv'
<1>1. NextStage(pc[e]) \in Positions /\ pc[e] # "done"
  BY StageOutcome DEF Positions, Running, Stages
<1> QED
  BY <1>1, StageOutcome, EndStageFacts DEF Stage

\* The return of LookupMX keeps the invariant.
LEMMA LookupFacts ==
    ASSUME ValInv, NEW e \in Emails, Lookup(e)
    PROVE  ValInv'
<1>1. PICK r \in Answers : EndStage(e, "mx", RunMX(em[e], r), "score")
  BY DEF Lookup
<1>2. r \in LookupResults
  BY InputsAssumption DEF Answers, LookupResults
<1>3. Outcome("mx", RunMX(em[e], r), shape[e], "score")
  BY <1>2, Standing, MXFacts DEF Lookup
<1> QED
  BY <1>1, <1>3, EndStageFacts DEF Lookup, Positions, Running

\* The score gives the verdict that the way to it justifies.
LEMMA ApplyFacts ==
    ASSUME ValInv, NEW e \in Emails, Apply(e)
    PROVE  ValInv'
<1> DEFINE score == Bounded(Sum(em[e]))
<1> DEFINE n == [em[e] EXCEPT !.score = score, !.status = FinalStatus(em[e], score)]
<1>1. score \in 0..100
  <2>1. Sum(em[e]) \in Int
    BY WeightsAssumption DEF Sum, Add
  <2> QED
    BY <2>1 DEF Bounded
<1>2. /\ em' = [em EXCEPT ![e] = n] /\ pc' = [pc EXCEPT ![e] = "done"]
      /\ pc[e] = "score" /\ UNCHANGED Others
  BY Standing DEF Apply
<1> HIDE DEF score
<1>3. n \in EmailRecords /\ InPlace("done", n, shape[e])
  BY <1>1, <1>2, Standing, ScoreFacts
<1> QED
  BY <1>2, <1>3, AddressMoves DEF Positions

\* Each step of an address keeps the invariant.
LEMMA EmailStepFacts ==
    ASSUME ValInv, NEW e \in Emails, EmailStep(e)
    PROVE  ValInv'
<1>1. CASE Go(e)
  <2>1. InPlace("normalize", em[e], shape[e])
    BY <1>1, Standing DEF Go, InPlace
  <2> QED
    BY <1>1, <2>1, OnlyThePlaceMoves DEF Go, Positions, Running, Stages
<1>2. CASE CallLookup(e)
  <2>1. InPlace("lookup", em[e], shape[e])
    BY <1>2, Standing DEF CallLookup, InPlace
  <2> QED
    BY <1>2, <2>1, OnlyThePlaceMoves DEF CallLookup, Positions, Running
<1>3. CASE Abort(e)
  <2>1. InPlace("aborted", em[e], shape[e])
    BY <1>3, Standing DEF Abort, InPlace, Stages
  <2> QED
    BY <1>3, <2>1, OnlyThePlaceMoves DEF Abort, Positions, Stages
<1> QED
  BY <1>1, <1>2, <1>3, StageFacts, LookupFacts, ApplyFacts DEF EmailStep

-----------------------------------------------------------------------------
(* The batch and what happens around it *)

\* The addresses with one verdict are finitely many.
LEMMA StatusSetsFinite ==
    ASSUME NEW s
    PROVE  IsFiniteSet(WithStatus(s)) /\ Cardinality(WithStatus(s)) \in Nat
<1>1. WithStatus(s) \subseteq Emails
  BY DEF WithStatus
<1> QED
  BY <1>1, InputsAssumption, FS_Subset, FS_CardinalityType

\* Nothing is decided of any address when the batch is taken.
LEMMA ValInit == Init => ValInv
<1> SUFFICES ASSUME Init PROVE ValInv
  OBVIOUS
<1>1. NewEmail \in EmailRecords
  BY DEF NewEmail, EmailRecords
<1>2. TypeOK
  <2>1. Len(SeedChunks) \in Nat /\ 0 \in 0..Len(SeedChunks)
    BY ListsAssumption
  <2>2. listed \subseteq Domains /\ table \subseteq Domains
    BY ListsAssumption DEF Init, BootList
  <2> QED
    BY <1>1, <2>1, <2>2 DEF Init, TypeOK, Positions, BatchStates
<1>3. Fresh(NewEmail) /\ ~NewEmail.isDisposable /\ NewEmail.domain = NoDomain
  BY DEF Fresh, NewEmail
<1>4. EmailsInPlace
  BY <1>3 DEF Init, EmailsInPlace, InPlace
<1>5. BatchExact
  BY DEF Init, BatchExact
<1>6. CoreListed
  BY DEF Init, CoreListed, Core, BootList
<1> QED
  BY <1>2, <1>4, <1>5, <1>6 DEF ValInv

\* A step that moves no address keeps them in place.
LEMMA AddressesKept ==
    ASSUME ValInv, UNCHANGED <<shape, em, pc, bootTable>>
    PROVE  EmailsInPlace'
BY DEF ValInv, EmailsInPlace, InPlace, Core

\* A batch is written only when the last of its addresses is done.
LEMMA BatchFacts ==
    ASSUME ValInv, Wait \/ Insert \/ Answer \/ GiveUp
    PROVE  ValInv'
<1>1. UNCHANGED <<shape, em, pc, mode, listed, table, bootTable, upserted, cancelled>>
  BY DEF Wait, Insert, Answer, GiveUp, listVars
<1>2. EmailsInPlace'
  BY <1>1, AddressesKept
<1>3. CoreListed'
  BY <1>1 DEF ValInv, CoreListed, Core
<1>4. \A s : WithStatus(s)' = WithStatus(s)
  BY <1>1 DEF WithStatus
<1>5. batch' \in BatchStates
  BY DEF Wait, Insert, Answer, GiveUp, BatchStates
<1>6. delta' \in [ResultStatuses -> Nat]
  BY StatusSetsFinite DEF Wait, Insert, Answer, GiveUp, ValInv, TypeOK
<1>7. TypeOK'
  BY <1>1, <1>5, <1>6 DEF ValInv, TypeOK
<1>8. BatchExact'
  <2>1. CASE Wait
    BY <1>1, <1>4, <2>1 DEF Wait, BatchExact
  <2>2. CASE Insert
    BY <1>1, <1>4, <2>2 DEF Insert, BatchExact, ValInv
  <2>3. CASE Answer \/ GiveUp
    BY <2>3 DEF Answer, GiveUp, BatchExact
  <2> QED
    BY <2>1, <2>2, <2>3
<1> QED
  BY <1>2, <1>3, <1>7, <1>8 DEF ValInv

\* Cancellation, and changes of the disposable list and its table.
LEMMA OutsideFacts ==
    ASSUME ValInv, Cancel \/ RunOnce \/ ReloadDisposable \/ SeedChunk \/ UNCHANGED vars
    PROVE  ValInv'
<1>1. UNCHANGED <<shape, em, pc, mode, bootTable, batch, delta>>
  BY DEF Cancel, RunOnce, ReloadDisposable, LoadDomains, SeedChunk, vars, listVars
<1>2. EmailsInPlace'
  BY <1>1, AddressesKept
<1>3. BatchExact'
  BY <1>1 DEF ValInv, BatchExact, WithStatus
<1>4. cancelled' \in BOOLEAN
  BY DEF Cancel, RunOnce, ReloadDisposable, LoadDomains, SeedChunk, vars, ValInv, TypeOK
<1>5. /\ listed' \subseteq Domains /\ table' \subseteq Domains
      /\ upserted' \in 0..Len(SeedChunks) /\ CoreListed'
  <2>1. CASE Cancel \/ UNCHANGED vars
    BY <2>1 DEF Cancel, vars, listVars, ValInv, TypeOK, CoreListed, Core
  <2>2. CASE RunOnce
    BY <2>2, ListsAssumption DEF RunOnce, LoadDomains, ValInv, TypeOK, CoreListed, Core
  <2>3. CASE ReloadDisposable
    BY <2>3 DEF ReloadDisposable, LoadDomains, ValInv, TypeOK, CoreListed, Core
  <2>4. CASE SeedChunk
    <3>1. Len(SeedChunks) \in Nat /\ upserted \in Nat /\ upserted + 1 \in 1..Len(SeedChunks)
      BY <2>4, ListsAssumption DEF SeedChunk, ValInv, TypeOK
    <3>2. SeedChunks[upserted + 1] \subseteq Domains
      BY <3>1, ListsAssumption
    <3>3. table' = table \cup SeedChunks[upserted + 1] /\ upserted' = upserted + 1
          /\ UNCHANGED <<listed, bootTable>>
      BY <2>4 DEF SeedChunk, BulkUpsert
    <3>4. table' \subseteq Domains /\ listed' \subseteq Domains
      BY <3>2, <3>3 DEF ValInv, TypeOK
    <3>5. CoreListed'
      BY <3>3 DEF ValInv, CoreListed, Core
    <3> QED
      BY <3>1, <3>3, <3>4, <3>5
  <2> QED
    BY <2>1, <2>2, <2>3, <2>4
<1>6. TypeOK'
  BY <1>1, <1>4, <1>5 DEF ValInv, TypeOK
<1> QED
  BY <1>2, <1>3, <1>5, <1>6 DEF ValInv

\* Every step keeps the invariant.
LEMMA ValStep == ValInv /\ [Next]_vars => ValInv'
BY EmailStepFacts, BatchFacts, OutsideFacts DEF Next

\* Every address is in place, whatever is cancelled, loaded and seeded meanwhile.
THEOREM ValInvariant == Spec => []ValInv
BY ValInit, ValStep, PTL DEF Spec
-----------------------------------------------------------------------------
(* The theorems *)

\* No stage, no weight and no threshold takes a record out of its type: the score that
\* is stored is between 0 and 100.
THEOREM ValidationTypes == Spec => []TypeOK
<1>1. ValInv => TypeOK
  BY DEF ValInv
<1> QED
  BY <1>1, ValInvariant, PTL

\* The verdict on every address is the one that its stages justify (Pipeline.Run,
\* MX.Run, ScoreEngine.Apply).
THEOREM VerdictsJustified == Spec => []VerdictExplained
<1>1. ValInv => VerdictExplained
  BY DEF ValInv, EmailsInPlace, InPlace, Explained, VerdictExplained, Unanswered, NoAnswer
<1> QED
  BY <1>1, ValInvariant, PTL

\* DNS is asked for nothing but what follows the last @ of an address, with a known TLD
\* (Normalize.Run, Syntax.Run and TLD.Run together): a domain with text after it is
\* refused before, a space in front of one is not.
THEOREM OnlySaneLookups == Spec => []LookupsAreSane
<1>1. ValInv => LookupsAreSane
  BY DEF ValInv, EmailsInPlace, InPlace, LookupsAreSane
<1> QED
  BY <1>1, ValInvariant, PTL

\* No order of updates, reloads and seeding lets a domain pass that all sources list.
THEOREM CommonAlwaysCaught == Spec => []CommonDomainsCaught
<1>1. ValInv => CommonDomainsCaught
  BY DEF ValInv, EmailsInPlace, InPlace, CommonDomainsCaught, Core
<1> QED
  BY <1>1, ValInvariant, PTL

\* The sizes of disjoint finite sets add up.
LEMMA DisjointSum ==
    ASSUME NEW S, NEW T, IsFiniteSet(S), IsFiniteSet(T), S \cap T = {}
    PROVE  IsFiniteSet(S \cup T) /\ Cardinality(S \cup T) = Cardinality(S) + Cardinality(T)
<1>1. /\ IsFiniteSet(S \cup T)
      /\ Cardinality(S \cup T) = Cardinality(S) + Cardinality(T) - Cardinality(S \cap T)
  BY FS_Union
<1>2. Cardinality(S \cap T) = 0 /\ Cardinality(S) \in Nat /\ Cardinality(T) \in Nat
  BY FS_EmptySet, FS_CardinalityType
<1> QED
  BY <1>1, <1>2

\* Five counters that between them count every address once.
LEMMA CountersAddUp ==
    ASSUME \A e \in Emails : em[e].status \in ResultStatuses
    PROVE  Cardinality(Emails) =
              Cardinality(WithStatus("valid")) + Cardinality(WithStatus("invalid"))
              + Cardinality(WithStatus("risky")) + Cardinality(WithStatus("unknown"))
              + Cardinality(WithStatus("disposable"))
<1> DEFINE A == WithStatus("valid")
           B == WithStatus("invalid")
           C == WithStatus("risky")
           D == WithStatus("unknown")
           E == WithStatus("disposable")
<1>1. /\ IsFiniteSet(A) /\ IsFiniteSet(B) /\ IsFiniteSet(C) /\ IsFiniteSet(D) /\ IsFiniteSet(E)
      /\ Cardinality(A) \in Nat /\ Cardinality(B) \in Nat /\ Cardinality(C) \in Nat
      /\ Cardinality(D) \in Nat /\ Cardinality(E) \in Nat
  BY StatusSetsFinite
<1>2. /\ A \cap B = {} /\ (A \cup B) \cap C = {} /\ (A \cup B \cup C) \cap D = {}
      /\ (A \cup B \cup C \cup D) \cap E = {}
  BY DEF WithStatus
<1>3. Emails = A \cup B \cup C \cup D \cup E
  BY DEF WithStatus, ResultStatuses
<1> HIDE DEF A, B, C, D, E
<1>5. /\ IsFiniteSet(A \cup B) /\ Cardinality(A \cup B) = Cardinality(A) + Cardinality(B)
  BY <1>1, <1>2, DisjointSum
<1>6. /\ IsFiniteSet(A \cup B \cup C)
      /\ Cardinality(A \cup B \cup C) = Cardinality(A \cup B) + Cardinality(C)
  BY <1>1, <1>2, <1>5, DisjointSum
<1>7. /\ IsFiniteSet(A \cup B \cup C \cup D)
      /\ Cardinality(A \cup B \cup C \cup D) = Cardinality(A \cup B \cup C) + Cardinality(D)
  BY <1>1, <1>2, <1>6, DisjointSum
<1>8. Cardinality(A \cup B \cup C \cup D \cup E)
         = Cardinality(A \cup B \cup C \cup D) + Cardinality(E)
  BY <1>1, <1>2, <1>7, DisjointSum
<1>9. Cardinality(Emails) = Cardinality(A) + Cardinality(B) + Cardinality(C) + Cardinality(D)
                            + Cardinality(E)
  BY <1>1, <1>3, <1>5, <1>6, <1>7, <1>8
<1> QED
  BY <1>9 DEF A, B, C, D, E

\* What comes to the INSERT is taken by table emails, and its counters add up.
THEOREM RowsMatchCounters == Spec => []RowsAndCountersAgree
<1>1. ValInv => RowsAndCountersAgree
  <2> SUFFICES ASSUME ValInv, batch \in {"inserting", "persisted"}
               PROVE  /\ \A e \in Emails : /\ em[e].status \in ResultStatuses
                                           /\ em[e].score \in 0..100
                      /\ Cardinality(Emails) = delta["valid"] + delta["invalid"]
                            + delta["risky"] + delta["unknown"] + delta["disposable"]
    BY DEF RowsAndCountersAgree
  <2>1. \A e \in Emails : pc[e] = "done"
    BY DEF ValInv, BatchExact
  <2>2. \A e \in Emails : em[e].status \in ResultStatuses
    BY <2>1 DEF ValInv, EmailsInPlace, InPlace, Explained
  <2>3. \A e \in Emails : em[e].score \in 0..100
    BY DEF ValInv, TypeOK, EmailRecords
  <2>4. \A s \in ResultStatuses : delta[s] = Cardinality(WithStatus(s))
    BY DEF ValInv, BatchExact
  <2>5. /\ delta["valid"] = Cardinality(WithStatus("valid"))
        /\ delta["invalid"] = Cardinality(WithStatus("invalid"))
        /\ delta["risky"] = Cardinality(WithStatus("risky"))
        /\ delta["unknown"] = Cardinality(WithStatus("unknown"))
        /\ delta["disposable"] = Cardinality(WithStatus("disposable"))
    BY <2>4 DEF ResultStatuses
  <2> QED
    BY <2>2, <2>3, <2>5, CountersAddUp
<1> QED
  BY <1>1, ValInvariant, PTL

-----------------------------------------------------------------------------
(* A cancelled batch *)

\* A lookup that failed for its context leaves its trace only with the context done.
CancelSeen == \A e \in Emails : "DNS_ERROR" \in em[e].reasons => ContextDone

CancelInv == CancelSeen /\ OwnCancelNotStored

\* An address moves with no new error of a context that lives.
LEMMA TraceKept ==
    ASSUME ValInv, CancelInv, NEW e \in Emails, pc[e] \notin {"done", "aborted"},
           \E t \in Positions : pc' = [pc EXCEPT ![e] = t], UNCHANGED Others,
           \A x \in Emails : "DNS_ERROR" \in em'[x].reasons =>
                                 "DNS_ERROR" \in em[x].reasons \/ ContextDone
    PROVE  CancelInv'
<1>1. \A x \in Emails : x # e => pc'[x] = pc[x]
  BY DEF ValInv, TypeOK
<1>2. UNCHANGED <<cancelled, batch>>
  BY DEF Others
<1>3. ContextDone => ContextDone'
  BY <1>1, <1>2 DEF ContextDone
<1>4. CancelSeen'
  BY <1>3 DEF CancelInv, CancelSeen
<1>5. batch' # "persisted"
  BY <1>2 DEF ValInv, BatchExact
<1> QED
  BY <1>4, <1>5 DEF CancelInv, OwnCancelNotStored

\* The end of a stage moves one address and keeps the reasons of its stage.
LEMMA EndStageReasons ==
    ASSUME ValInv, NEW e \in Emails, NEW s, NEW m \in EmailRecords, NEW next \in Positions,
           EndStage(e, s, m, next)
    PROVE  /\ \E t \in Positions : pc' = [pc EXCEPT ![e] = t]
           /\ \A x \in Emails : em'[x].reasons = IF x = e THEN m.reasons ELSE em[x].reasons
<1>1. em \in [Emails -> EmailRecords]
  BY DEF ValInv, TypeOK
<1>2. PICK k : em' = [em EXCEPT ![e] = k] /\ k.reasons = m.reasons
  <2>1. CASE s \in ShortCircuit /\ Failed(m)
    <3>1. em' = [em EXCEPT ![e] = Stopped(m, s)]
      BY <2>1 DEF EndStage, Stopped
    <3>2. Stopped(m, s).reasons = m.reasons
      BY DEF Stopped, EmailRecords
    <3> QED
      BY <3>1, <3>2
  <2>2. CASE ~(s \in ShortCircuit /\ Failed(m))
    BY <2>2 DEF EndStage
  <2> QED
    BY <2>1, <2>2
<1>3. \E t \in Positions : pc' = [pc EXCEPT ![e] = t]
  BY DEF EndStage, Positions, Running
<1> QED
  BY <1>1, <1>2, <1>3

\* Only a lookup gives DNS_ERROR, and with Lookups free of it only a late one.
LEMMA TraceOfLookup ==
    ASSUME ValInv, Lookups \cap {"rate_limited", "ctx_error"} = {}, NEW e \in Emails,
           NEW r \in Answers, "DNS_ERROR" \in RunMX(em[e], r).reasons
    PROVE  "DNS_ERROR" \in em[e].reasons \/ ContextDone
<1>1. em[e] \in EmailRecords /\ r \in LookupResults
  BY Standing, InputsAssumption DEF Answers, LookupResults
<1>2. CASE r \in {"rate_limited", "ctx_error"}
  BY <1>2 DEF Answers
<1>3. CASE r \notin {"rate_limited", "ctx_error"}
  BY <1>1, <1>3 DEF RunMX, Because, EmailRecords, LookupResults, LookupFailures
<1> QED
  BY <1>2, <1>3

\* No step of an address hides that a cancellation spoilt its verdict.
LEMMA EmailKeepsTrace ==
    ASSUME ValInv, CancelInv, Lookups \cap {"rate_limited", "ctx_error"} = {},
           NEW e \in Emails, EmailStep(e)
    PROVE  CancelInv'
<1>1. CASE Go(e) \/ CallLookup(e) \/ Abort(e)
  BY <1>1, TraceKept DEF Go, CallLookup, Abort, Positions, Running, Stages
<1>2. CASE Stage(e)
  <2> DEFINE m == RunStage(pc[e], em[e], shape[e])
  <2>1. m \in EmailRecords /\ "DNS_ERROR" \notin m.reasons
    BY <1>2, StageOutcome DEF Outcome, InPlace, Fresh, NoAnswer, LookupReasons
  <2>2. EndStage(e, pc[e], m, NextStage(pc[e])) /\ UNCHANGED Others
    BY <1>2 DEF Stage
  <2>3. NextStage(pc[e]) \in Positions /\ pc[e] \notin {"done", "aborted"}
    BY <1>2, StageOutcome DEF Positions, Running, Stages
  <2> HIDE DEF m
  <2> QED
    BY <2>1, <2>2, <2>3, EndStageReasons, TraceKept
<1>3. CASE Lookup(e)
  <2>1. PICK r \in Answers : EndStage(e, "mx", RunMX(em[e], r), "score")
    BY <1>3 DEF Lookup
  <2>2. RunMX(em[e], r) \in EmailRecords
    <3>1. r \in LookupResults
      BY InputsAssumption DEF Answers, LookupResults
    <3> QED
      BY <1>3, <3>1, Standing, MXFacts DEF Lookup, Outcome
  <2> QED
    BY <1>3, <2>1, <2>2, EndStageReasons, TraceOfLookup, TraceKept
    DEF Lookup, Positions, Running
<1>4. CASE Apply(e)
  <2>1. \A x \in Emails : em'[x].reasons = em[x].reasons
    BY <1>4 DEF Apply, ValInv, TypeOK, EmailRecords
  <2> QED
    BY <1>4, <2>1, TraceKept DEF Apply, Positions
<1> QED
  BY <1>1, <1>2, <1>3, <1>4 DEF EmailStep

\* The INSERT runs under the same context, so it fails if a trace of it is there.
LEMMA CancelStep ==
    ASSUME ValInv, CancelInv, [Next]_vars, Lookups \cap {"rate_limited", "ctx_error"} = {}
    PROVE  CancelInv'
<1>1. ASSUME NEW e \in Emails, EmailStep(e) PROVE CancelInv'
  BY <1>1, EmailKeepsTrace
<1>2. CASE Insert
  <2>1. UNCHANGED <<em, pc, cancelled>> /\ batch = "inserting"
    BY <1>2 DEF Insert
  <2>2. ContextDone => cancelled
    BY <2>1 DEF ValInv, BatchExact, ContextDone
  <2>3. OwnCancelNotStored'
    BY <1>2, <2>1, <2>2 DEF Insert, CancelInv, CancelSeen, OwnCancelNotStored
  <2>4. CancelSeen'
    BY <2>1 DEF CancelInv, CancelSeen, ContextDone
  <2> QED
    BY <2>3, <2>4 DEF CancelInv
<1>3. CASE \/ Wait \/ Answer \/ GiveUp \/ Cancel \/ RunOnce \/ ReloadDisposable
           \/ SeedChunk \/ UNCHANGED vars
  <2>1. UNCHANGED <<em, pc>> /\ (cancelled => cancelled')
    BY <1>3 DEF Wait, Answer, GiveUp, Cancel, RunOnce, ReloadDisposable, LoadDomains,
       SeedChunk, vars
  <2>2. batch' = "persisted" => batch = "persisted"
    BY <1>3 DEF Wait, Answer, GiveUp, Cancel, RunOnce, ReloadDisposable, LoadDomains,
       SeedChunk, vars
  <2> QED
    BY <2>1, <2>2 DEF CancelInv, CancelSeen, OwnCancelNotStored, ContextDone
<1> QED
  BY <1>1, <1>2, <1>3 DEF Next

\* As long as no lookup fails for the context of another caller, whose flight it
\* joined, no verdict that a cancellation spoilt is stored.
THEOREM CancelledNotStored ==
    ASSUME Lookups \cap {"rate_limited", "ctx_error"} = {}
    PROVE  Spec => []OwnCancelNotStored
<1>1. Init => CancelInv
  BY DEF Init, CancelInv, CancelSeen, OwnCancelNotStored, NewEmail
<1>2. ValInv /\ CancelInv /\ [Next]_vars => CancelInv'
  BY CancelStep
<1>3. CancelInv => OwnCancelNotStored
  BY DEF CancelInv
<1> QED
  BY <1>1, <1>2, <1>3, ValInvariant, PTL DEF Spec

-----------------------------------------------------------------------------
(* The suggestion *)

\* The suggestion of an address m that comes to stage s next.
Suggested(s, m) ==
    /\ s \in {"waiting", "normalize", "syntax", "tld", "typo"} => m.suggested = FALSE
    /\ s = "disposable" => (m.suggested <=> m.domain \in Near)

SuggestInv == \A e \in Emails : Suggested(pc[e], em[e])

\* No stage before Typo makes a suggestion, and Typo makes the one of Suggest.
LEMMA StageSuggests ==
    ASSUME NEW m \in EmailRecords, NEW sh, NEW s \in Stages \ {"mx"}, Suggested(s, m)
    PROVE  Suggested(NextStage(s), RunStage(s, m, sh))
<1>1. CASE s = "normalize"
  BY <1>1 DEF Suggested, NextStage, RunStage, RunNormalize, EmailRecords
<1>2. CASE s = "syntax"
  BY <1>2 DEF Suggested, NextStage, RunStage, RunSyntax, Because, EmailRecords
<1>3. CASE s = "tld"
  BY <1>3 DEF Suggested, NextStage, RunStage, RunTLD, Because, EmailRecords
<1>4. CASE s = "typo"
  <2> DEFINE k == [m EXCEPT !.suggested = TRUE]
  <2> DEFINE n == Because(k, "TYPO")
  <2>1. RunStage(s, m, sh) = IF m.domain \in Near THEN n ELSE m
    BY <1>4 DEF RunStage, RunTypo
  <2>2. n.suggested = TRUE /\ n.domain = m.domain
    BY DEF Because, EmailRecords
  <2>3. m.suggested = FALSE /\ NextStage(s) = "disposable"
    BY <1>4 DEF Suggested, NextStage
  <2> HIDE DEF n
  <2>4. CASE m.domain \in Near
    <3>1. n.suggested <=> n.domain \in Near
      BY <2>2, <2>4, Zenon
    <3> QED
      BY <2>1, <2>3, <2>4, <3>1 DEF Suggested
  <2>5. CASE m.domain \notin Near
    <3>1. m.suggested <=> m.domain \in Near
      BY <2>3, <2>5, Zenon
    <3> QED
      BY <2>1, <2>3, <2>5, <3>1 DEF Suggested
  <2> QED
    BY <2>4, <2>5
<1>5. CASE s \in {"disposable", "role"}
  BY <1>5 DEF Suggested, NextStage
<1> QED
  BY <1>1, <1>2, <1>3, <1>4, <1>5 DEF Stages

\* An address that moves has the suggestion of its new place.
LEMMA AddressSuggests ==
    ASSUME ValInv, SuggestInv, NEW e \in Emails, EmailStep(e)
    PROVE  SuggestInv'
<1>0. pc \in [Emails -> Positions] /\ em \in [Emails -> EmailRecords] /\ Suggested(pc[e], em[e])
  BY DEF ValInv, TypeOK, SuggestInv
<1> SUFFICES ASSUME NEW x \in Emails PROVE Suggested(pc'[x], em'[x])
  BY DEF SuggestInv, Suggested, Near
<1>1. CASE Go(e)
  BY <1>0, <1>1 DEF Go, SuggestInv, Suggested
<1>2. CASE CallLookup(e) \/ Abort(e)
  BY <1>0, <1>2 DEF CallLookup, Abort, SuggestInv, Suggested
<1>3. CASE Stage(e)
  <2> DEFINE m == RunStage(pc[e], em[e], shape[e])
  <2>1. pc[e] \in Stages \ {"mx"} /\ EndStage(e, pc[e], m, NextStage(pc[e]))
    BY <1>3 DEF Stage
  <2>2. Suggested(NextStage(pc[e]), m)
    BY <1>0, <2>1, StageSuggests
  <2> HIDE DEF m
  <2>3. pc'[e] = "score" \/ (pc'[e] = NextStage(pc[e]) /\ em'[e] = m)
    BY <1>0, <2>1 DEF EndStage
  <2>4. x # e => pc'[x] = pc[x] /\ em'[x] = em[x]
    BY <1>0, <2>1 DEF EndStage
  <2>5. Suggested("score", em'[e])
    BY DEF Suggested
  <2> QED
    BY <2>2, <2>3, <2>4, <2>5 DEF SuggestInv
<1>4. CASE Lookup(e) \/ Apply(e)
  <2>1. pc'[e] \in {"score", "done"} /\ (x # e => pc'[x] = pc[x] /\ em'[x] = em[x])
    BY <1>0, <1>4 DEF Lookup, EndStage, Apply
  <2> QED
    BY <2>1 DEF SuggestInv, Suggested
<1> QED
  BY <1>1, <1>2, <1>3, <1>4 DEF EmailStep

\* The suggestion of every address is that of its place.
LEMMA SuggestInvariant == Spec => []SuggestInv
<1>1. Init => SuggestInv
  BY DEF Init, SuggestInv, Suggested, NewEmail
<1>2. ValInv /\ SuggestInv /\ [Next]_vars => SuggestInv'
  <2> SUFFICES ASSUME ValInv, SuggestInv, [Next]_vars PROVE SuggestInv'
    OBVIOUS
  <2>1. ASSUME NEW e \in Emails, EmailStep(e) PROVE SuggestInv'
    BY <2>1, AddressSuggests
  <2>2. CASE \/ Wait \/ Insert \/ Answer \/ GiveUp \/ Cancel \/ RunOnce \/ ReloadDisposable
             \/ SeedChunk \/ UNCHANGED vars
    <3>1. UNCHANGED <<em, pc>>
      BY <2>2 DEF Wait, Insert, Answer, GiveUp, Cancel, RunOnce, ReloadDisposable,
         LoadDomains, SeedChunk, vars
    <3> QED
      BY <3>1 DEF SuggestInv, Suggested, Near
  <2> QED
    BY <2>1, <2>2 DEF Next
<1> QED
  BY <1>1, <1>2, ValInvariant, PTL DEF Spec

\* Whatever domain comes to Typo, the rotating rows compute its optimal string alignment
\* with any other word.
THEOREM DistancesExact == Spec => []DistanceIsAlignment
<1>1. DistanceIsAlignment
  BY DistanceRight, WordsAssumption DEF DistanceIsAlignment, AllDistancesRight
<1> QED
  BY <1>1, PTL

\* Typo suggests for exactly the domains that are close to the list and not on it, and
\* what it suggests is the closest domain of the same first letter, or of all.
THEOREM SuggestionsSound == Spec => []SuggestionSound
<1>1. AllSuggestionsSound
  BY SuggestionRight, WordsAssumption DEF AllSuggestionsSound
<1>2. ASSUME NEW d \in Domains
      PROVE  d \in Near <=> /\ d \in CloseDomains
                            /\ \A k \in DOMAIN CommonDomains : Spelling[d] # CommonDomains[k]
  <2>1. Spelling[d] \in Seq(Letters) \ {<< >>}
    BY DomainsAssumption
  <2> QED
    BY <2>1, SuggestsIff DEF Near, CloseDomains
<1>3. SuggestInv => SuggestionSound
  <2> SUFFICES ASSUME SuggestInv, NEW e \in Emails, pc[e] = "disposable",
                      em[e].domain \in Domains
               PROVE  em[e].suggested <=>
                         /\ em[e].domain \in CloseDomains
                         /\ \A k \in DOMAIN CommonDomains :
                               Spelling[em[e].domain] # CommonDomains[k]
    BY <1>1 DEF SuggestionSound
  <2>1. em[e].suggested <=> em[e].domain \in Near
    BY DEF SuggestInv, Suggested
  <2> QED
    BY <1>2, <2>1
<1> QED
  BY <1>3, SuggestInvariant, PTL
=============================================================================
