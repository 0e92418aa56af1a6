---------------------------- MODULE TypoCorrector ----------------------------
(***************************************************************************)
(* The suggestion of a domain for a misspelt one                           *)
(* (validation/typo/corrector.go, levenshtein.go): the distance by three   *)
(* rows that rotate, the search by first letter and then over the whole    *)
(* list, and the pruning by length.  A domain is a sequence of letters.    *)
(***************************************************************************)
EXTENDS Integers, Sequences, FiniteSets

CONSTANTS
    Letters,         \* bytes of a domain
    CommonDomains,   \* Corrector.domains, in order
    MaxDist,         \* NewTypo(corrector, 2)
    NoSuggestion,    \* the empty string Suggest returns
    Words            \* bound: the words that are compared

\* load skips empty lines.
ASSUME CommonDomainsAssumption ==
    /\ CommonDomains \in Seq(Seq(Letters) \ {<< >>})
    /\ \A k \in DOMAIN CommonDomains : CommonDomains[k] # NoSuggestion
ASSUME MaxDistAssumption == MaxDist \in Nat
ASSUME WordsAssumption == Words \subseteq Seq(Letters)

Least(S) == CHOOSE x \in S : \A y \in S : x <= y

-----------------------------------------------------------------------------
(* DamerauLevenshtein *)

\* Mutation: the transposition reads the row before, not the one before that.
CellOneRow(a, b, i, j, prev2, prev1, left) ==
    LET cost == IF a[i] = b[j] THEN 0 ELSE 1
        swap == i > 1 /\ j > 1 /\ a[i] = b[j - 1] /\ a[i - 1] = b[j]
    IN  Least({prev1[j] + 1, left + 1, prev1[j - 1] + cost}
              \cup IF swap THEN {prev1[j - 2] + 1} ELSE {})

\* curr[j], from the two rows before and from left, which is curr[j-1].  Rows are
\* numbered from 0 as in Go, the letters of a word from 1.
Cell(a, b, i, j, prev2, prev1, left) ==
    LET cost == IF a[i] = b[j] THEN 0 ELSE 1
        swap == i > 1 /\ j > 1 /\ a[i] = b[j - 1] /\ a[i - 1] = b[j]
    IN  Least({prev1[j] + 1, left + 1, prev1[j - 1] + cost}
              \cup IF swap THEN {prev2[j - 2] + 1} ELSE {})

\* The inner loop fills curr, whatever it held two rounds before.
FillRow(a, b, i, prev2, prev1) ==
    LET curr[j \in 0..Len(b)] ==
            IF j = 0 THEN i ELSE Cell(a, b, i, j, prev2, prev1, curr[j - 1])
    IN  curr

\* One round of the outer loop on <<prev2, prev1>>, with its
\* prev2, prev1, curr = prev1, curr, prev2.
Round(a, b, i, prev) == <<prev[2], FillRow(a, b, i, prev[1], prev[2])>>

Rounds(a, b) ==
    LET zero == [j \in 0..Len(b) |-> 0]
        row0 == [j \in 0..Len(b) |-> j]
        rows[i \in 0..Len(a)] ==
            IF i = 0 THEN <<zero, row0>> ELSE Round(a, b, i, rows[i - 1])
    IN  rows

DamerauLevenshtein(a, b) ==
    IF a = << >> THEN Len(b)
    ELSE IF b = << >> THEN Len(a)
    ELSE Rounds(a, b)[Len(a)][2][Len(b)]

-----------------------------------------------------------------------------
(* Corrector.Suggest *)

Abs(n) == IF n < 0 THEN -n ELSE n

\* Mutation: only domains of the same length.
ReachableSameLength(d, w, maxDist) == Len(d) = Len(w)

Reachable(d, w, maxDist) == Abs(Len(d) - Len(w)) <= maxDist

\* One of the two loops: of the domains K of the list that are close enough, the
\* first of the closest.
Best(K, w, maxDist) ==
    LET dist(k) == DamerauLevenshtein(w, CommonDomains[k])
        close   == {k \in K : Reachable(CommonDomains[k], w, maxDist) /\ dist(k) <= maxDist}
        nearest == {k \in close : \A m \in close : dist(k) <= dist(m)}
    IN  IF close = {} THEN NoSuggestion ELSE CommonDomains[Least(nearest)]

Bucket(letter) == {k \in DOMAIN CommonDomains : Head(CommonDomains[k]) = letter}

Suggest(w, maxDist) ==
    IF w = << >> \/ \E k \in DOMAIN CommonDomains : CommonDomains[k] = w
    THEN NoSuggestion
    ELSE LET best == Best(Bucket(Head(w)), w, maxDist)
         IN  IF best # NoSuggestion THEN best
             ELSE Best(DOMAIN CommonDomains, w, maxDist)

-----------------------------------------------------------------------------
(* Reference *)

\* What aligning the first i letters of a with the first j of b can cost, by its last
\* step, where d has the costs of shorter ones: a letter is dropped on either side, the
\* last one is kept or replaced, or the last two are swapped.
Costs(a, b, d, i, j) ==
    (IF i = 0 /\ j = 0 THEN {0} ELSE {})
    \cup (IF i > 0 THEN {d[<<i - 1, j>>] + 1} ELSE {})
    \cup (IF j > 0 THEN {d[<<i, j - 1>>] + 1} ELSE {})
    \cup (IF i > 0 /\ j > 0
          THEN {d[<<i - 1, j - 1>>] + IF a[i] = b[j] THEN 0 ELSE 1} ELSE {})
    \cup (IF i > 1 /\ j > 1 /\ a[i] = b[j - 1] /\ a[i - 1] = b[j]
          THEN {d[<<i - 2, j - 2>>] + 1} ELSE {})

\* The least cost for all prefixes.
Alignments(a, b) ==
    LET d[p \in (0..Len(a)) \X (0..Len(b))] == Least(Costs(a, b, d, p[1], p[2]))
    IN  d

\* The optimal string alignment.
Alignment(a, b) == Alignments(a, b)[<<Len(a), Len(b)>>]

\* The rotating rows of DamerauLevenshtein compute the optimal string alignment.
AllDistancesRight ==
    \A a, b \in Words : DamerauLevenshtein(a, b) = Alignment(a, b)

\* The suggestion for w is a domain of the list within the distance, if there is one
\* and w is not itself on the list: with the same first letter if that is possible, and
\* then the closest.
SuggestionFits(w) ==
    LET listedAt(n) == {k \in DOMAIN CommonDomains : Alignment(w, CommonDomains[k]) <= n}
        ofBucket    == {k \in listedAt(MaxDist) : Head(CommonDomains[k]) = Head(w)}
        pool        == IF ofBucket # {} THEN ofBucket ELSE listedAt(MaxDist)
    IN  IF w = << >> \/ listedAt(0) # {} \/ listedAt(MaxDist) = {}
        THEN Suggest(w, MaxDist) = NoSuggestion
        ELSE \E k \in pool :
                /\ Suggest(w, MaxDist) = CommonDomains[k]
                /\ \A m \in pool :
                      Alignment(w, CommonDomains[k]) <= Alignment(w, CommonDomains[m])

\* Neither the pruning by length nor the bucket loses a domain that is close enough,
\* and the exact match is no more than a distance of zero.
AllSuggestionsSound == \A w \in Words : SuggestionFits(w)
=============================================================================
