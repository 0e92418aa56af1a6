------------------------- MODULE TypoCorrectorProofs -------------------------
(***************************************************************************)
(* The distance and the suggestion, for words of any length over any       *)
(* letters.  The theorems are about loops, so they need induction: it is   *)
(* had from the well-foundedness of the naturals, over sets of numbers     *)
(* instead of predicates.                                                  *)
(***************************************************************************)
EXTENDS TypoCorrector, SequenceTheorems, WellFoundedInduction, TLAPS

-----------------------------------------------------------------------------
(* Induction and recursion *)

\* Least finds the least element of every set of numbers that is not empty.
LEMMA LeastFacts ==
    ASSUME NEW T \in SUBSET Nat, T # {}
    PROVE  Least(T) \in T /\ Least(T) \in Nat /\ \A y \in T : Least(T) <= y
<1> DEFINE Less == {p \in Nat \X Nat : p[1] < p[2]}
<1>1. IsWellFoundedOn(Less, Nat)
  BY NatLessThanWellFounded DEF OpToRel
<1>2. PICK x \in T : \A y \in T : <<y, x>> \notin Less
  <2> HIDE DEF Less
  <2> QED
    BY <1>1, WFMin
<1>3. ASSUME NEW y \in T PROVE x <= y
  <2>1. <<y, x>> \in Nat \X Nat
    OBVIOUS
  <2>2. ~(y < x)
    BY <1>2, <2>1
  <2> QED
    BY <2>2
<1> QED
  BY <1>3 DEF Least

\* A property of the numbers up to n, as the set of those that have it.
LEMMA Induction ==
    ASSUME NEW n \in Nat, NEW S, 0 \in S, \A k \in 1..n : k - 1 \in S => k \in S
    PROVE  0..n \subseteq S
<1> DEFINE T == {k \in 0..n : k \notin S}
<1> SUFFICES ASSUME T # {} PROVE FALSE
  OBVIOUS
<1>1. T \in SUBSET Nat
  OBVIOUS
<1>2. Least(T) \in T /\ \A y \in T : Least(T) <= y
  <2> HIDE DEF T
  <2> QED
    BY <1>1, LeastFacts
<1>3. Least(T) \in 1..n /\ Least(T) - 1 \in 0..n
  BY <1>2
<1>4. Least(T) - 1 \in S
  BY <1>2, <1>3
<1> QED
  BY <1>2, <1>3, <1>4

\* The same for pairs of numbers, by their sum.
LEMMA PairInduction ==
    ASSUME NEW n \in Nat, NEW m \in Nat, NEW S,
           \A i \in 0..n, j \in 0..m :
              (\A k \in 0..n, l \in 0..m : k + l < i + j => <<k, l>> \in S)
              => <<i, j>> \in S
    PROVE  (0..n) \X (0..m) \subseteq S
<1> DEFINE U == {s \in 0..n + m : \A i \in 0..n, j \in 0..m : i + j <= s => <<i, j>> \in S}
<1>1. 0 \in U
  <2>1. \A i \in 0..n, j \in 0..m : i + j <= 0 =>
           \A k \in 0..n, l \in 0..m : ~(k + l < i + j)
    OBVIOUS
  <2> QED
    BY <2>1
<1>2. ASSUME NEW s \in 1..n + m, s - 1 \in U PROVE s \in U
  <2>1. ASSUME NEW i \in 0..n, NEW j \in 0..m, i + j <= s PROVE <<i, j>> \in S
    <3>1. ASSUME NEW k \in 0..n, NEW l \in 0..m, k + l < i + j PROVE <<k, l>> \in S
      <4>1. k + l <= s - 1
        BY <2>1, <3>1
      <4> QED
        BY <1>2, <4>1
    <3> QED
      BY <3>1
  <2> QED
    BY <2>1
<1>3. n + m \in U
  <2> HIDE DEF U
  <2>1. n + m \in Nat
    OBVIOUS
  <2>2. 0..n + m \subseteq U
    BY <1>1, <1>2, <2>1, Induction
  <2> QED
    BY <2>1, <2>2
<1> QED
  BY <1>3

\* f has the states, all in V, of a loop of n rounds that starts with v.
IsLoop(f, n, V, v, step) ==
    f \in [0..n -> V] /\ f[0] = v /\ \A k \in 1..n : f[k] = step[<<k, f[k - 1]>>]

\* A loop of n rounds comes to an end.
LEMMA Recursion ==
    ASSUME NEW n \in Nat, NEW V, NEW v \in V, NEW step \in [(1..n) \X V -> V]
    PROVE  \E f : IsLoop(f, n, V, v, step)
<1> DEFINE S == {m \in 0..n : \E f \in [0..m -> V] :
                    f[0] = v /\ \A k \in 1..m : f[k] = step[<<k, f[k - 1]>>]}
<1>1. 0 \in S
  <2> DEFINE f == [k \in 0..0 |-> v]
  <2>1. /\ f \in [0..0 -> V] /\ f[0] = v
        /\ \A k \in 1..0 : f[k] = step[<<k, f[k - 1]>>]
    OBVIOUS
  <2> HIDE DEF f
  <2> QED
    BY <2>1
<1>2. ASSUME NEW k \in 1..n, k - 1 \in S PROVE k \in S
  <2>1. PICK f \in [0..k - 1 -> V] :
           f[0] = v /\ \A x \in 1..k - 1 : f[x] = step[<<x, f[x - 1]>>]
    BY <1>2
  <2> DEFINE g == [x \in 0..k |-> IF x = k THEN step[<<k, f[k - 1]>>] ELSE f[x]]
  <2>2. f[k - 1] \in V /\ step[<<k, f[k - 1]>>] \in V
    BY <2>1
  <2>3. g \in [0..k -> V]
    BY <2>1, <2>2
  <2>4. g[0] = v
    BY <2>1
  <2>5. ASSUME NEW x \in 1..k PROVE g[x] = step[<<x, g[x - 1]>>]
    <3>1. x \in 0..k /\ x - 1 \in 0..k /\ x - 1 # k
      OBVIOUS
    <3>2. g[x - 1] = f[x - 1] /\ g[x] = IF x = k THEN step[<<k, f[k - 1]>>] ELSE f[x]
      BY <3>1
    <3>3. CASE x # k
      <4>1. x \in 1..k - 1
        BY <3>3
      <4> QED
        BY <2>1, <3>2, <3>3, <4>1
    <3> QED
      BY <3>2, <3>3
  <2> HIDE DEF g
  <2> QED
    BY <2>3, <2>4, <2>5
<1>3. 0..n \subseteq S
  <2> HIDE DEF S
  <2> QED
    BY <1>1, <1>2, Induction
<1> QED
  BY <1>3 DEF IsLoop

-----------------------------------------------------------------------------
(* The loops of DamerauLevenshtein *)

Rows(b) == [0..Len(b) -> Nat]

\* What a round compares is a number.
LEMMA CellFacts ==
    ASSUME NEW a, NEW b \in Seq(Letters), NEW i \in Nat, NEW j \in 1..Len(b),
           NEW prev2 \in Rows(b), NEW prev1 \in Rows(b), NEW left \in Nat
    PROVE  Cell(a, b, i, j, prev2, prev1, left) \in Nat
<1> DEFINE swap == i > 1 /\ j > 1 /\ a[i] = b[j - 1] /\ a[i - 1] = b[j]
<1> DEFINE T == {prev1[j] + 1, left + 1, prev1[j - 1] + IF a[i] = b[j] THEN 0 ELSE 1}
                 \cup IF swap THEN {prev2[j - 2] + 1} ELSE {}
<1>1. prev1[j] \in Nat /\ prev1[j - 1] \in Nat /\ (swap => prev2[j - 2] \in Nat)
  BY DEF Rows
<1>2. T \in SUBSET Nat /\ T # {}
  BY <1>1
<1>3. Least(T) \in Nat
  <2> HIDE DEF T
  <2> QED
    BY <1>2, LeastFacts
<1>4. Cell(a, b, i, j, prev2, prev1, left) = Least(T)
  BY DEF Cell
<1> QED
  BY <1>3, <1>4

\* The inner loop fills a row from its left to its right.
LEMMA FillRowFacts ==
    ASSUME NEW a, NEW b \in Seq(Letters), NEW i \in Nat,
           NEW prev2 \in Rows(b), NEW prev1 \in Rows(b)
    PROVE  LET row == FillRow(a, b, i, prev2, prev1)
           IN  /\ row \in Rows(b) /\ row[0] = i
               /\ \A j \in 1..Len(b) :
                     row[j] = Cell(a, b, i, j, prev2, prev1, row[j - 1])
<1> DEFINE n == Len(b)
<1> DEFINE Def(f) == [j \in 0..n |-> IF j = 0 THEN i
                                     ELSE Cell(a, b, i, j, prev2, prev1, f[j - 1])]
<1> DEFINE row == FillRow(a, b, i, prev2, prev1)
<1>1. n \in Nat
  BY LenProperties
<1> DEFINE step == [p \in (1..n) \X Nat |-> Cell(a, b, i, p[1], prev2, prev1, p[2])]
<1>2. step \in [(1..n) \X Nat -> Nat]
  BY CellFacts
<1>3. PICK f : IsLoop(f, n, Nat, i, step)
  <2> HIDE DEF step, n
  <2> QED
    BY <1>1, <1>2, Recursion
<1>4. f = Def(f)
  <2>1. ASSUME NEW k \in 1..n PROVE f[k] = Cell(a, b, i, k, prev2, prev1, f[k - 1])
    <3>1. <<k, f[k - 1]>> \in (1..n) \X Nat
      BY <1>1, <1>3 DEF IsLoop
    <3> QED
      BY <1>3, <3>1 DEF IsLoop
  <2> QED
    BY <1>1, <1>3, <2>1 DEF IsLoop
<1>5. row = Def(row)
  BY <1>4 DEF FillRow
<1> HIDE DEF row, step
<1>6. row[0] = i /\ \A j \in 1..n : row[j] = Cell(a, b, i, j, prev2, prev1, row[j - 1])
  BY <1>1, <1>5
<1>7. 0..n \subseteq {k \in 0..n : row[k] \in Nat}
  <2> DEFINE S == {k \in 0..n : row[k] \in Nat}
  <2>1. 0 \in S
    BY <1>1, <1>6
  <2>2. ASSUME NEW k \in 1..n, k - 1 \in S PROVE k \in S
    BY <1>1, <1>6, <2>2, CellFacts
  <2> HIDE DEF S
  <2>3. 0..n \subseteq S
    BY <1>1, <2>1, <2>2, Induction
  <2> QED
    BY <2>3 DEF S
<1>8. row \in Rows(b)
  BY <1>5, <1>7 DEF Rows
<1> QED
  BY <1>6, <1>8 DEF row

\* A round makes two rows of two rows.
LEMMA RoundFacts ==
    ASSUME NEW a, NEW b \in Seq(Letters), NEW i \in Nat, NEW prev \in Rows(b) \X Rows(b)
    PROVE  Round(a, b, i, prev) \in Rows(b) \X Rows(b)
<1>1. prev[1] \in Rows(b) /\ prev[2] \in Rows(b)
  OBVIOUS
<1>2. FillRow(a, b, i, prev[1], prev[2]) \in Rows(b)
  BY <1>1, FillRowFacts
<1> QED
  BY <1>1, <1>2 DEF Round

\* The outer loop keeps the last two rows, the older one first.
LEMMA RoundsFacts ==
    ASSUME NEW a \in Seq(Letters), NEW b \in Seq(Letters)
    PROVE  LET r == Rounds(a, b)
           IN  /\ r \in [0..Len(a) -> Rows(b) \X Rows(b)]
               /\ r[0][2] = [j \in 0..Len(b) |-> j]
               /\ \A i \in 1..Len(a) : r[i] = Round(a, b, i, r[i - 1])
<1> DEFINE n == Len(a)
<1> DEFINE V == Rows(b) \X Rows(b)
<1> DEFINE first == <<[j \in 0..Len(b) |-> 0], [j \in 0..Len(b) |-> j]>>
<1> DEFINE Def(f) == [i \in 0..n |-> IF i = 0 THEN first ELSE Round(a, b, i, f[i - 1])]
<1> DEFINE r == Rounds(a, b)
<1>1. n \in Nat /\ Len(b) \in Nat
  BY LenProperties
<1>2. first \in V
  <2>1. [j \in 0..Len(b) |-> 0] \in Rows(b) /\ [j \in 0..Len(b) |-> j] \in Rows(b)
    BY <1>1 DEF Rows
  <2> QED
    BY <2>1
<1> DEFINE step == [p \in (1..n) \X V |-> Round(a, b, p[1], p[2])]
<1>3. step \in [(1..n) \X V -> V]
  <2>1. ASSUME NEW p \in (1..n) \X V PROVE Round(a, b, p[1], p[2]) \in V
    <3>1. p[1] \in Nat /\ p[2] \in V
      BY <1>1
    <3> QED
      BY <3>1, RoundFacts
  <2> HIDE DEF V
  <2> QED
    BY <2>1
<1>4. PICK f : IsLoop(f, n, V, first, step)
  <2> HIDE DEF step, n, V, first
  <2> QED
    BY <1>1, <1>2, <1>3, Recursion
<1>5. f = Def(f)
  <2> HIDE DEF first, V
  <2>1. ASSUME NEW k \in 1..n PROVE f[k] = Round(a, b, k, f[k - 1])
    <3>1. k - 1 \in 0..n
      BY <1>1
    <3>2. <<k, f[k - 1]>> \in (1..n) \X V
      BY <1>4, <3>1 DEF IsLoop
    <3>3. f[k] = step[<<k, f[k - 1]>>]
      BY <1>4 DEF IsLoop
    <3> QED
      BY <3>2, <3>3
  <2> HIDE DEF step
  <2>2. f \in [0..n -> V] /\ f[0] = first
    BY <1>4 DEF IsLoop
  <2> QED
    BY <1>1, <2>1, <2>2
<1>6. r = Def(r)
  BY <1>5 DEF Rounds
<1> HIDE DEF r, step, first
<1>7. r[0] = first /\ \A i \in 1..n : r[i] = Round(a, b, i, r[i - 1])
  BY <1>1, <1>6
<1>8. 0..n \subseteq {k \in 0..n : r[k] \in V}
  <2> DEFINE S == {k \in 0..n : r[k] \in V}
  <2>1. 0 \in S
    BY <1>1, <1>2, <1>7
  <2>2. ASSUME NEW k \in 1..n, k - 1 \in S PROVE k \in S
    <3>1. r[k - 1] \in V /\ k \in Nat /\ k \in 0..n
      BY <1>1, <2>2
    <3>2. r[k] \in V
      BY <1>7, <3>1, RoundFacts
    <3> QED
      BY <3>1, <3>2
  <2> HIDE DEF S
  <2>3. 0..n \subseteq S
    BY <1>1, <2>1, <2>2, Induction
  <2> QED
    BY <2>3 DEF S
<1>9. r \in [0..n -> V]
  <2> HIDE DEF V
  <2> QED
    BY <1>6, <1>8
<1>10. r[0][2] = [j \in 0..Len(b) |-> j]
  BY <1>7 DEF first
<1> QED
  BY <1>7, <1>9, <1>10 DEF r

-----------------------------------------------------------------------------
(* The rows are those of the table of alignments *)

Prefixes(a, b) == (0..Len(a)) \X (0..Len(b))

\* All the rows that the outer loop computes.
Table(a, b) == [p \in Prefixes(a, b) |-> Rounds(a, b)[p[1]][2][p[2]]]

\* d has the least costs of all prefixes.
IsOptimal(a, b, d) == d = [p \in Prefixes(a, b) |-> Least(Costs(a, b, d, p[1], p[2]))]

\* A set of one number has that number as its least.
LEMMA LeastOfOne == ASSUME NEW x \in Nat PROVE Least({x}) = x
BY DEF Least

\* The rows one by one: an entry has the three entries around it, and the one two rows
\* above if there are two.
LEMMA TableRows ==
    ASSUME NEW a \in Seq(Letters), NEW b \in Seq(Letters)
    PROVE  /\ \A i \in 0..Len(a), j \in 0..Len(b) : Table(a, b)[<<i, j>>] \in Nat
           /\ \A j \in 0..Len(b) : Table(a, b)[<<0, j>>] = j
           /\ \A i \in 1..Len(a) : Table(a, b)[<<i, 0>>] = i
           /\ \A i \in 1..Len(a), j \in 1..Len(b) :
                 Table(a, b)[<<i, j>>] = Least(Costs(a, b, Table(a, b), i, j))
<1> DEFINE n == Len(a)
<1> DEFINE m == Len(b)
<1> DEFINE r == Rounds(a, b)
<1> DEFINE D == Table(a, b)
<1>1. n \in Nat /\ m \in Nat
  BY LenProperties
<1>2. /\ r \in [0..n -> Rows(b) \X Rows(b)]
      /\ r[0][2] = [j \in 0..m |-> j]
      /\ \A i \in 1..n : r[i] = Round(a, b, i, r[i - 1])
  BY RoundsFacts
<1> HIDE DEF r
<1>3. ASSUME NEW i \in 0..n PROVE r[i][1] \in Rows(b) /\ r[i][2] \in Rows(b)
  BY <1>2
<1>4. ASSUME NEW i \in 0..n, NEW j \in 0..m
      PROVE  D[<<i, j>>] = r[i][2][j]
  BY DEF Table, Prefixes, r
<1>5. ASSUME NEW i \in 0..n, NEW j \in 0..m
      PROVE  D[<<i, j>>] \in Nat
  BY <1>3, <1>4 DEF Rows
<1>6. ASSUME NEW j \in 0..m PROVE D[<<0, j>>] = j
  BY <1>1, <1>2, <1>4
<1>7. ASSUME NEW i \in 1..n
      PROVE  /\ r[i][1] = r[i - 1][2] /\ r[i][2][0] = i
             /\ \A j \in 1..m :
                   r[i][2][j] = Cell(a, b, i, j, r[i - 1][1], r[i - 1][2], r[i][2][j - 1])
  <2>1. r[i - 1][1] \in Rows(b) /\ r[i - 1][2] \in Rows(b) /\ i \in Nat
    BY <1>1, <1>3
  <2>2. r[i][1] = r[i - 1][2] /\ r[i][2] = FillRow(a, b, i, r[i - 1][1], r[i - 1][2])
    BY <1>2 DEF Round
  <2> QED
    BY <2>1, <2>2, FillRowFacts
<1>8. ASSUME NEW i \in 1..n PROVE D[<<i, 0>>] = i
  BY <1>1, <1>4, <1>7
<1>9. ASSUME NEW i \in 1..n, NEW j \in 1..m
      PROVE  D[<<i, j>>] = Least(Costs(a, b, D, i, j))
  <2>1. /\ r[i - 1][2][j] = D[<<i - 1, j>>] /\ r[i - 1][2][j - 1] = D[<<i - 1, j - 1>>]
        /\ r[i][2][j - 1] = D[<<i, j - 1>>] /\ r[i][2][j] = D[<<i, j>>]
    <3>1. i \in 0..n /\ i - 1 \in 0..n /\ j \in 0..m /\ j - 1 \in 0..m
      BY <1>1
    <3> HIDE DEF D
    <3> QED
      BY <1>4, <3>1
  <2>2. i > 1 /\ j > 1 => r[i - 1][1][j - 2] = D[<<i - 2, j - 2>>]
    <3> SUFFICES ASSUME i > 1, j > 1 PROVE r[i - 1][1][j - 2] = D[<<i - 2, j - 2>>]
      OBVIOUS
    <3>1. i - 1 \in 1..n /\ i - 2 \in 0..n /\ j - 2 \in 0..m /\ (i - 1) - 1 = i - 2
      BY <1>1
    <3>2. r[i - 1][1] = r[i - 2][2]
      BY <1>7, <3>1
    <3> QED
      BY <1>4, <3>1, <3>2
  <2> HIDE DEF D
  <2> DEFINE swap == i > 1 /\ j > 1 /\ a[i] = b[j - 1] /\ a[i - 1] = b[j]
  <2> DEFINE T == {D[<<i - 1, j>>] + 1, D[<<i, j - 1>>] + 1,
                   D[<<i - 1, j - 1>>] + IF a[i] = b[j] THEN 0 ELSE 1}
                  \cup IF swap THEN {D[<<i - 2, j - 2>>] + 1} ELSE {}
  <2>3. Cell(a, b, i, j, r[i - 1][1], r[i - 1][2], r[i][2][j - 1]) = Least(T)
    BY <2>1, <2>2 DEF Cell
  <2>4. Costs(a, b, D, i, j) = T
    BY <1>1 DEF Costs
  <2> QED
    BY <1>7, <2>1, <2>3, <2>4
<1> QED
  BY <1>5, <1>6, <1>8, <1>9

\* The rows of the loop are an optimal table: along its edges there is one way only.
LEMMA TableIsOptimal ==
    ASSUME NEW a \in Seq(Letters), NEW b \in Seq(Letters)
    PROVE  IsOptimal(a, b, Table(a, b))
<1> DEFINE n == Len(a)
<1> DEFINE m == Len(b)
<1> DEFINE D == Table(a, b)
<1>1. n \in Nat /\ m \in Nat
  BY LenProperties
<1>2. /\ \A i \in 0..n, j \in 0..m : D[<<i, j>>] \in Nat
      /\ \A j \in 0..m : D[<<0, j>>] = j
      /\ \A i \in 1..n : D[<<i, 0>>] = i
      /\ \A i \in 1..n, j \in 1..m : D[<<i, j>>] = Least(Costs(a, b, D, i, j))
  BY TableRows
<1>3. D = [p \in Prefixes(a, b) |-> D[p]]
  BY DEF Table
<1> HIDE DEF D
<1>4. ASSUME NEW i \in 0..n, NEW j \in 0..m
      PROVE  D[<<i, j>>] = Least(Costs(a, b, D, i, j))
  <2>1. CASE i = 0 /\ j = 0
    <3>1. Costs(a, b, D, i, j) = {0}
      BY <2>1 DEF Costs
    <3> QED
      BY <1>1, <1>2, <2>1, <3>1, LeastOfOne
  <2>2. CASE i = 0 /\ j > 0
    <3>1. Costs(a, b, D, i, j) = {D[<<0, j - 1>>] + 1}
      BY <1>1, <2>2 DEF Costs
    <3>2. j - 1 \in 0..m /\ j \in Nat
      BY <1>1, <2>2
    <3>3. D[<<0, j - 1>>] = j - 1 /\ D[<<0, j>>] = j
      BY <1>2, <3>2
    <3>4. Costs(a, b, D, i, j) = {j}
      BY <3>1, <3>2, <3>3
    <3> QED
      BY <2>2, <3>2, <3>3, <3>4, LeastOfOne
  <2>3. CASE i > 0 /\ j = 0
    <3>1. Costs(a, b, D, i, j) = {D[<<i - 1, 0>>] + 1}
      BY <1>1, <2>3 DEF Costs
    <3>2. i - 1 \in 0..n /\ i \in Nat /\ i \in 1..n
      BY <1>1, <2>3
    <3>3. D[<<i, 0>>] = i
      BY <1>2, <3>2
    <3>4. D[<<i - 1, 0>>] = i - 1
      <4>1. CASE i = 1
        BY <1>1, <1>2, <4>1
      <4>2. CASE i # 1
        <5>1. i - 1 \in 1..n
          BY <3>2, <4>2
        <5> QED
          BY <1>2, <5>1
      <4> QED
        BY <4>1, <4>2
    <3>5. Costs(a, b, D, i, j) = {i}
      BY <3>1, <3>2, <3>4
    <3> QED
      BY <2>3, <3>2, <3>3, <3>5, LeastOfOne
  <2>4. CASE i > 0 /\ j > 0
    <3>1. i \in 1..n /\ j \in 1..m
      BY <1>1, <2>4
    <3> QED
      BY <1>2, <3>1
  <2> QED
    BY <1>1, <2>1, <2>2, <2>3, <2>4
<1>5. ASSUME NEW p \in Prefixes(a, b) PROVE D[p] = Least(Costs(a, b, D, p[1], p[2]))
  <2>1. p = <<p[1], p[2]>> /\ p[1] \in 0..n /\ p[2] \in 0..m
    BY DEF Prefixes
  <2> QED
    BY <1>4, <2>1
<1>6. IsOptimal(a, b, D)
  BY <1>3, <1>5 DEF IsOptimal
<1> QED
  BY <1>6 DEF D

\* There is one optimal table: every entry is determined by entries nearer to the start.
LEMMA OptimalIsUnique ==
    ASSUME NEW a \in Seq(Letters), NEW b \in Seq(Letters), NEW d, NEW e,
           IsOptimal(a, b, d), IsOptimal(a, b, e)
    PROVE  d = e
<1> DEFINE n == Len(a)
<1> DEFINE m == Len(b)
<1> DEFINE S == {p \in Prefixes(a, b) : d[p] = e[p]}
<1>1. n \in Nat /\ m \in Nat
  BY LenProperties
<1>2. ASSUME NEW i \in 0..n, NEW j \in 0..m
      PROVE  /\ <<i, j>> \in Prefixes(a, b)
             /\ d[<<i, j>>] = Least(Costs(a, b, d, i, j))
             /\ e[<<i, j>>] = Least(Costs(a, b, e, i, j))
  <2>1. <<i, j>> \in Prefixes(a, b)
    BY DEF Prefixes
  <2> QED
    BY <2>1 DEF IsOptimal
<1>3. ASSUME NEW i \in 0..n, NEW j \in 0..m,
             \A k \in 0..n, l \in 0..m : k + l < i + j => <<k, l>> \in S
      PROVE  <<i, j>> \in S
  <2>1. /\ i > 0 => <<i - 1, j>> \in S
        /\ j > 0 => <<i, j - 1>> \in S
        /\ i > 0 /\ j > 0 => <<i - 1, j - 1>> \in S
        /\ i > 1 /\ j > 1 => <<i - 2, j - 2>> \in S
    <3> HIDE DEF S
    <3> QED
      BY <1>1, <1>3
  <2>2. Costs(a, b, d, i, j) = Costs(a, b, e, i, j)
    BY <2>1 DEF Costs
  <2> QED
    BY <1>2, <2>2
<1>6. Prefixes(a, b) \subseteq S
  <2> HIDE DEF S
  <2> QED
    BY <1>1, <1>3, PairInduction DEF Prefixes
<1>7. \A p \in Prefixes(a, b) : d[p] = e[p]
  BY <1>6
<1>8. d = [p \in Prefixes(a, b) |-> d[p]] /\ e = [p \in Prefixes(a, b) |-> e[p]]
  BY DEF IsOptimal
<1> QED
  BY <1>7, <1>8

\* So the reference definition and the loops give one table.
LEMMA AlignmentsAreTable ==
    ASSUME NEW a \in Seq(Letters), NEW b \in Seq(Letters)
    PROVE  Alignments(a, b) = Table(a, b) /\ IsOptimal(a, b, Alignments(a, b))
<1>1. IsOptimal(a, b, Alignments(a, b))
  BY TableIsOptimal DEF Alignments, IsOptimal, Prefixes
<1> QED
  BY <1>1, TableIsOptimal, OptimalIsUnique

\* DamerauLevenshtein, with its two rows kept and its short cuts for empty words,
\* computes the optimal string alignment of any two words.
THEOREM DistanceRight ==
    \A a, b \in Seq(Letters) : DamerauLevenshtein(a, b) = Alignment(a, b)
<1> SUFFICES ASSUME NEW a \in Seq(Letters), NEW b \in Seq(Letters)
             PROVE  DamerauLevenshtein(a, b) = Alignment(a, b)
  OBVIOUS
<1>1. Len(a) \in Nat /\ Len(b) \in Nat
  BY LenProperties
<1>2. Alignment(a, b) = Table(a, b)[<<Len(a), Len(b)>>]
  BY AlignmentsAreTable DEF Alignment
<1>3. CASE a = << >>
  <2>1. Len(a) = 0 /\ Len(b) \in 0..Len(b)
    BY <1>1, <1>3
  <2>2. Table(a, b)[<<0, Len(b)>>] = Len(b)
    BY <2>1, TableRows
  <2> QED
    BY <1>2, <1>3, <2>1, <2>2 DEF DamerauLevenshtein
<1>4. CASE a # << >> /\ b = << >>
  <2>1. Len(b) = 0 /\ Len(a) \in 1..Len(a)
    BY <1>1, <1>4, EmptySeq
  <2> QED
    BY <1>1, <1>2, <1>4, <2>1, TableRows DEF DamerauLevenshtein
<1>5. CASE a # << >> /\ b # << >>
  <2>1. <<Len(a), Len(b)>> \in Prefixes(a, b)
    BY <1>1 DEF Prefixes
  <2> QED
    BY <1>2, <1>5, <2>1 DEF DamerauLevenshtein, Table
<1> QED
  BY <1>3, <1>4, <1>5

-----------------------------------------------------------------------------
(* What the distance says of two words *)

\* c is the cost of an alignment with one of the last steps.
LastStep(a, b, d, i, j, c) ==
    \/ i = 0 /\ j = 0 /\ c = 0
    \/ i > 0 /\ c = d[<<i - 1, j>>] + 1
    \/ j > 0 /\ c = d[<<i, j - 1>>] + 1
    \/ i > 0 /\ j > 0 /\ a[i] = b[j] /\ c = d[<<i - 1, j - 1>>] + 0
    \/ i > 0 /\ j > 0 /\ a[i] # b[j] /\ c = d[<<i - 1, j - 1>>] + 1
    \/ /\ i > 1 /\ j > 1 /\ a[i] = b[j - 1] /\ a[i - 1] = b[j]
       /\ c = d[<<i - 2, j - 2>>] + 1

\* Costs by its members.
LEMMA LastSteps ==
    ASSUME NEW a, NEW b, NEW d, NEW i, NEW j, NEW c
    PROVE  c \in Costs(a, b, d, i, j) <=> LastStep(a, b, d, i, j, c)
BY DEF Costs, LastStep

\* Every entry of the table is a cost, and no cost is less.
LEMMA Entries ==
    ASSUME NEW a \in Seq(Letters), NEW b \in Seq(Letters),
           NEW i \in 0..Len(a), NEW j \in 0..Len(b)
    PROVE  LET d == Alignments(a, b)
           IN  /\ d[<<i, j>>] \in Nat
               /\ d[<<i, j>>] \in Costs(a, b, d, i, j)
               /\ \A c \in Costs(a, b, d, i, j) : d[<<i, j>>] <= c
<1>0. PICK d : d = Alignments(a, b)
  OBVIOUS
<1> DEFINE T == Costs(a, b, d, i, j)
<1>1. Len(a) \in Nat /\ Len(b) \in Nat
  BY LenProperties
<1>2. \A k \in 0..Len(a), l \in 0..Len(b) : d[<<k, l>>] \in Nat
  BY <1>0, AlignmentsAreTable, TableRows
<1>3. d[<<i, j>>] = Least(T)
  <2>1. <<i, j>> \in Prefixes(a, b)
    BY DEF Prefixes
  <2> QED
    BY <1>0, <2>1, AlignmentsAreTable DEF IsOptimal
<1>4. /\ i > 0 => d[<<i - 1, j>>] \in Nat
      /\ j > 0 => d[<<i, j - 1>>] \in Nat
      /\ i > 0 /\ j > 0 => d[<<i - 1, j - 1>>] \in Nat
      /\ i > 1 /\ j > 1 => d[<<i - 2, j - 2>>] \in Nat
  <2>1. /\ i > 0 => i - 1 \in 0..Len(a)
        /\ j > 0 => j - 1 \in 0..Len(b)
        /\ i > 1 => i - 2 \in 0..Len(a)
        /\ j > 1 => j - 2 \in 0..Len(b)
    BY <1>1
  <2> QED
    BY <1>2, <2>1
<1>5. ASSUME NEW c \in T PROVE c \in Nat
  <2>1. LastStep(a, b, d, i, j, c)
    BY <1>5, LastSteps
  <2> HIDE DEF T
  <2>2. CASE c = 0
    BY <2>2
  <2>3. CASE i > 0 /\ c = d[<<i - 1, j>>] + 1
    BY <1>4, <2>3
  <2>4. CASE j > 0 /\ c = d[<<i, j - 1>>] + 1
    BY <1>4, <2>4
  <2>5. CASE i > 0 /\ j > 0 /\ c \in {d[<<i - 1, j - 1>>] + 0, d[<<i - 1, j - 1>>] + 1}
    BY <1>4, <2>5
  <2>6. CASE i > 1 /\ j > 1 /\ c = d[<<i - 2, j - 2>>] + 1
    BY <1>4, <2>6
  <2> QED
    BY <2>1, <2>2, <2>3, <2>4, <2>5, <2>6 DEF LastStep
<1>6. T # {}
  <2>1. CASE i = 0 /\ j = 0
    BY <2>1 DEF Costs
  <2>2. CASE i > 0
    BY <2>2 DEF Costs
  <2>3. CASE j > 0
    BY <2>3 DEF Costs
  <2> QED
    BY <1>1, <2>1, <2>2, <2>3
<1>7. Least(T) \in T /\ \A c \in T : Least(T) <= c
  <2> HIDE DEF T
  <2> QED
    BY <1>5, <1>6, LeastFacts
<1> QED
  BY <1>0, <1>2, <1>3, <1>7

\* Words are at least as far apart as their lengths, which is what the pruning relies on.
LEMMA LengthBound ==
    ASSUME NEW a \in Seq(Letters), NEW b \in Seq(Letters)
    PROVE  Alignment(a, b) \in Nat /\ Abs(Len(b) - Len(a)) <= Alignment(a, b)
<1> DEFINE n == Len(a)
<1> DEFINE m == Len(b)
<1>0. PICK d : d = Alignments(a, b)
  OBVIOUS
<1> DEFINE S == {p \in Prefixes(a, b) : p[1] - p[2] <= d[p] /\ p[2] - p[1] <= d[p]}
<1>1. n \in Nat /\ m \in Nat
  BY LenProperties
<1>2. \A i \in 0..n, j \in 0..m : d[<<i, j>>] \in Nat /\ d[<<i, j>>] \in Costs(a, b, d, i, j)
  BY <1>0, Entries
<1>3. ASSUME NEW i \in 0..n, NEW j \in 0..m,
             \A k \in 0..n, l \in 0..m : k + l < i + j => <<k, l>> \in S
      PROVE  <<i, j>> \in S
  <2>1. ASSUME NEW k \in 0..n, NEW l \in 0..m, k + l < i + j
        PROVE  d[<<k, l>>] \in Nat /\ k - l <= d[<<k, l>>] /\ l - k <= d[<<k, l>>]
    BY <1>2, <1>3, <2>1
  <2>2. /\ i > 0 => /\ d[<<i - 1, j>>] \in Nat
                    /\ i - 1 - j <= d[<<i - 1, j>>] /\ j - (i - 1) <= d[<<i - 1, j>>]
        /\ j > 0 => /\ d[<<i, j - 1>>] \in Nat
                    /\ i - (j - 1) <= d[<<i, j - 1>>] /\ j - 1 - i <= d[<<i, j - 1>>]
        /\ i > 0 /\ j > 0 => /\ d[<<i - 1, j - 1>>] \in Nat
                             /\ i - j <= d[<<i - 1, j - 1>>] /\ j - i <= d[<<i - 1, j - 1>>]
        /\ i > 1 /\ j > 1 => /\ d[<<i - 2, j - 2>>] \in Nat
                             /\ i - j <= d[<<i - 2, j - 2>>] /\ j - i <= d[<<i - 2, j - 2>>]
    <3>1. i > 0 => i - 1 \in 0..n /\ i - 1 + j < i + j
      BY <1>1
    <3>2. j > 0 => j - 1 \in 0..m /\ i + (j - 1) < i + j
      BY <1>1
    <3>3. i > 0 /\ j > 0 => (i - 1) + (j - 1) < i + j /\ (i - 1) - (j - 1) = i - j
                            /\ (j - 1) - (i - 1) = j - i
      BY <1>1
    <3>4. i > 1 /\ j > 1 => /\ i - 2 \in 0..n /\ j - 2 \in 0..m
                            /\ (i - 2) + (j - 2) < i + j /\ (i - 2) - (j - 2) = i - j
                            /\ (j - 2) - (i - 2) = j - i
      BY <1>1
    <3>5. ASSUME i > 0
          PROVE  /\ d[<<i - 1, j>>] \in Nat
                 /\ i - 1 - j <= d[<<i - 1, j>>] /\ j - (i - 1) <= d[<<i - 1, j>>]
      BY <2>1, <3>1, <3>5
    <3>6. ASSUME j > 0
          PROVE  /\ d[<<i, j - 1>>] \in Nat
                 /\ i - (j - 1) <= d[<<i, j - 1>>] /\ j - 1 - i <= d[<<i, j - 1>>]
      BY <2>1, <3>2, <3>6
    <3>7. ASSUME i > 0, j > 0
          PROVE  /\ d[<<i - 1, j - 1>>] \in Nat
                 /\ i - j <= d[<<i - 1, j - 1>>] /\ j - i <= d[<<i - 1, j - 1>>]
      <4>1. i - 1 \in 0..n /\ j - 1 \in 0..m
        BY <3>1, <3>2, <3>7
      <4>2. /\ d[<<i - 1, j - 1>>] \in Nat
            /\ (i - 1) - (j - 1) <= d[<<i - 1, j - 1>>]
            /\ (j - 1) - (i - 1) <= d[<<i - 1, j - 1>>]
        BY <2>1, <3>3, <3>7, <4>1
      <4> QED
        BY <3>3, <3>7, <4>2
    <3>8. ASSUME i > 1, j > 1
          PROVE  /\ d[<<i - 2, j - 2>>] \in Nat
                 /\ i - j <= d[<<i - 2, j - 2>>] /\ j - i <= d[<<i - 2, j - 2>>]
      <4>1. /\ d[<<i - 2, j - 2>>] \in Nat
            /\ (i - 2) - (j - 2) <= d[<<i - 2, j - 2>>]
            /\ (j - 2) - (i - 2) <= d[<<i - 2, j - 2>>]
        BY <2>1, <3>4, <3>8
      <4> QED
        BY <3>4, <3>8, <4>1
    <3> QED
      BY <3>5, <3>6, <3>7, <3>8
  <2>3. i - j <= d[<<i, j>>] /\ j - i <= d[<<i, j>>]
    <3>0. PICK c : c = d[<<i, j>>]
      OBVIOUS
    <3>1. c \in Nat /\ i \in Nat /\ j \in Nat
      <4>1. c \in Nat
        BY <1>2, <3>0
      <4> QED
        BY <1>1, <4>1
    <3>2. LastStep(a, b, d, i, j, c)
      BY <1>2, <3>0, LastSteps
    <3>3. i - j <= c /\ j - i <= c
      <4>1. CASE i = 0 /\ j = 0
        BY <3>1, <4>1
      <4>2. CASE i > 0 /\ c = d[<<i - 1, j>>] + 1
        <5>1. d[<<i - 1, j>>] \in Nat /\ i - 1 - j <= d[<<i - 1, j>>] /\ j - (i - 1) <= d[<<i - 1, j>>]
          BY <2>2, <4>2
        <5> QED
          BY <3>1, <4>2, <5>1
      <4>3. CASE j > 0 /\ c = d[<<i, j - 1>>] + 1
        <5>1. d[<<i, j - 1>>] \in Nat /\ i - (j - 1) <= d[<<i, j - 1>>] /\ j - 1 - i <= d[<<i, j - 1>>]
          BY <2>2, <4>3
        <5> QED
          BY <3>1, <4>3, <5>1
      <4>4. CASE i > 0 /\ j > 0 /\ c \in {d[<<i - 1, j - 1>>] + 0, d[<<i - 1, j - 1>>] + 1}
        <5>1. d[<<i - 1, j - 1>>] \in Nat /\ i - j <= d[<<i - 1, j - 1>>] /\ j - i <= d[<<i - 1, j - 1>>]
          BY <2>2, <4>4
        <5> QED
          BY <3>1, <4>4, <5>1
      <4>5. CASE i > 1 /\ j > 1 /\ c = d[<<i - 2, j - 2>>] + 1
        <5>1. d[<<i - 2, j - 2>>] \in Nat /\ i - j <= d[<<i - 2, j - 2>>] /\ j - i <= d[<<i - 2, j - 2>>]
          BY <2>2, <4>5
        <5> QED
          BY <3>1, <4>5, <5>1
      <4> QED
        BY <3>2, <4>1, <4>2, <4>3, <4>4, <4>5 DEF LastStep
    <3> QED
      BY <3>0, <3>3
  <2> QED
    BY <2>3 DEF Prefixes
<1>4. Prefixes(a, b) \subseteq S
  <2> HIDE DEF S
  <2> QED
    BY <1>1, <1>3, PairInduction DEF Prefixes
<1>5. n - m <= d[<<n, m>>] /\ m - n <= d[<<n, m>>] /\ d[<<n, m>>] \in Nat
  <2>1. n \in 0..n /\ m \in 0..m
    BY <1>1
  <2>2. <<n, m>> \in S
    BY <1>4, <2>1 DEF Prefixes
  <2> QED
    BY <1>2, <2>1, <2>2
<1> QED
  BY <1>0, <1>1, <1>5 DEF Alignment, Abs

\* No distance, no difference; which is what the exact match before the search relies on.
LEMMA ZeroIsEqual ==
    ASSUME NEW a \in Seq(Letters), NEW b \in Seq(Letters)
    PROVE  Alignment(a, b) = 0 <=> a = b
<1> DEFINE n == Len(a)
<1> DEFINE m == Len(b)
<1>0. PICK d : d = Alignments(a, b)
  OBVIOUS
<1>1. n \in Nat /\ m \in Nat
  BY LenProperties
<1>2. \A i \in 0..n, j \in 0..m : /\ d[<<i, j>>] \in Nat
                                  /\ d[<<i, j>>] \in Costs(a, b, d, i, j)
                                  /\ \A c \in Costs(a, b, d, i, j) : d[<<i, j>>] <= c
  BY <1>0, Entries
<1>3. ASSUME a = b PROVE d[<<n, m>>] = 0
  <2> DEFINE S == {i \in 0..n : d[<<i, i>>] = 0}
  <2>1. 0 \in S
    <3>1. Costs(a, b, d, 0, 0) = {0}
      BY DEF Costs
    <3>2. 0 \in 0..n /\ 0 \in 0..m
      BY <1>1
    <3>3. d[<<0, 0>>] \in {0}
      BY <1>2, <3>1, <3>2
    <3> QED
      BY <3>2, <3>3
  <2>2. ASSUME NEW k \in 1..n, k - 1 \in S PROVE k \in S
    <3>1. 0 \in Costs(a, b, d, k, k)
      BY <1>1, <1>3, <2>2 DEF Costs
    <3>2. d[<<k, k>>] <= 0 /\ d[<<k, k>>] \in Nat
      BY <1>1, <1>2, <1>3, <3>1
    <3> QED
      BY <1>1, <3>2
  <2> HIDE DEF S
  <2>3. n \in S
    <3>1. 0..n \subseteq S
      BY <1>1, <2>1, <2>2, Induction
    <3> QED
      BY <1>1, <3>1
  <2> QED
    BY <1>3, <2>3 DEF S
<1>4. ASSUME d[<<n, m>>] = 0 PROVE a = b
  <2>1. n = m
    BY <1>0, <1>1, <1>4, LengthBound DEF Alignment, Abs
  <2> DEFINE S == {k \in 0..n : d[<<n - k, n - k>>] = 0
                                /\ \A x \in 1..k : a[n - k + x] = b[n - k + x]}
  <2>2. 0 \in S
    BY <1>1, <1>4, <2>1
  <2>3. ASSUME NEW k \in 1..n, k - 1 \in S PROVE k \in S
    <3> DEFINE i == n - k + 1
    <3>1. /\ i \in 1..n /\ i - 1 \in 0..n /\ n - (k - 1) = i /\ n - k = i - 1
          /\ i \in 0..n
      BY <1>1
    <3>2. d[<<i, i>>] = 0 /\ \A x \in 1..k - 1 : a[i + x] = b[i + x]
      BY <2>3, <3>1
    <3>3. LastStep(a, b, d, i, i, 0)
      BY <1>2, <2>1, <3>1, <3>2, LastSteps
    <3>4. /\ d[<<i - 1, i - 1>>] \in Nat /\ d[<<i - 1, i>>] \in Nat
          /\ d[<<i, i - 1>>] \in Nat
      <4> HIDE DEF i
      <4> QED
        BY <1>2, <2>1, <3>1
    <3>5. i > 1 => d[<<i - 2, i - 2>>] \in Nat
      <4>1. i > 1 => i - 2 \in 0..n
        BY <1>1
      <4> HIDE DEF i
      <4> QED
        BY <1>2, <2>1, <4>1
    <3>6. d[<<i - 1, i - 1>>] = 0 /\ a[i] = b[i]
      <4> HIDE DEF i
      <4>1. CASE i = 0
        BY <3>1, <4>1
      <4>2. CASE 0 = d[<<i - 1, i>>] + 1 \/ 0 = d[<<i, i - 1>>] + 1
                 \/ 0 = d[<<i - 1, i - 1>>] + 1
        BY <3>4, <4>2
      <4>3. CASE i > 1 /\ 0 = d[<<i - 2, i - 2>>] + 1
        BY <3>5, <4>3
      <4>4. CASE a[i] = b[i] /\ 0 = d[<<i - 1, i - 1>>] + 0
        BY <3>4, <4>4
      <4> QED
        BY <3>3, <4>1, <4>2, <4>3, <4>4 DEF LastStep
    <3>7. ASSUME NEW x \in 1..k PROVE a[n - k + x] = b[n - k + x]
      <4>1. CASE x = 1
        BY <1>1, <3>6, <4>1
      <4>2. CASE x # 1
        <5>1. x - 1 \in 1..k - 1 /\ n - k + x = i + (x - 1)
          BY <1>1, <4>2
        <5> QED
          BY <3>2, <5>1
      <4> QED
        BY <4>1, <4>2
    <3>8. k \in 0..n /\ d[<<n - k, n - k>>] = 0
      <4> HIDE DEF i
      <4> QED
        BY <3>1, <3>6
    <3> HIDE DEF i
    <3> QED
      BY <3>7, <3>8
  <2>4. n \in S
    <3> HIDE DEF S
    <3>1. 0..n \subseteq S
      BY <1>1, <2>2, <2>3, Induction
    <3> QED
      BY <1>1, <3>1
  <2>5. \A x \in 1..n : a[x] = b[x]
    BY <1>1, <2>4
  <2> QED
    BY <2>1, <2>5, SeqEqual
<1> QED
  BY <1>0, <1>3, <1>4 DEF Alignment

-----------------------------------------------------------------------------
(* Suggest *)

\* The list, and the distance of a word to its domains.
LEMMA ListFacts ==
    ASSUME NEW w \in Seq(Letters), NEW k \in DOMAIN CommonDomains
    PROVE  /\ k \in Nat
           /\ CommonDomains[k] \in Seq(Letters)
           /\ CommonDomains[k] # NoSuggestion
           /\ Alignment(w, CommonDomains[k]) \in Nat
           /\ DamerauLevenshtein(w, CommonDomains[k]) = Alignment(w, CommonDomains[k])
           /\ Alignment(w, CommonDomains[k]) = 0 <=> w = CommonDomains[k]
           /\ Abs(Len(CommonDomains[k]) - Len(w)) <= Alignment(w, CommonDomains[k])
<1>1. k \in Nat /\ CommonDomains[k] \in Seq(Letters) /\ CommonDomains[k] # NoSuggestion
  <2>1. CommonDomains \in Seq(Seq(Letters) \ {<< >>})
    BY CommonDomainsAssumption
  <2>2. k \in 1..Len(CommonDomains) /\ Len(CommonDomains) \in Nat
    BY <2>1, LenProperties
  <2>3. CommonDomains[k] \in Seq(Letters) \ {<< >>}
    BY <2>1, <2>2, ElementOfSeq
  <2> QED
    BY <2>2, <2>3, CommonDomainsAssumption
<1> QED
  BY <1>1, DistanceRight, ZeroIsEqual, LengthBound

\* One loop of Suggest finds a closest domain among those it is given, if any is close
\* enough: what the length rules out is not.
LEMMA BestFacts ==
    ASSUME NEW w \in Seq(Letters), NEW K \in SUBSET DOMAIN CommonDomains
    PROVE  LET near == {k \in K : Alignment(w, CommonDomains[k]) <= MaxDist}
           IN  /\ near = {} => Best(K, w, MaxDist) = NoSuggestion
               /\ near # {} =>
                    \E k \in near :
                       /\ Best(K, w, MaxDist) = CommonDomains[k]
                       /\ \A m \in near :
                             Alignment(w, CommonDomains[k]) <= Alignment(w, CommonDomains[m])
<1> DEFINE L(k) == Alignment(w, CommonDomains[k])
<1> DEFINE near == {k \in K : L(k) <= MaxDist}
<1> DEFINE dist(k) == DamerauLevenshtein(w, CommonDomains[k])
<1> DEFINE close == {k \in K : Reachable(CommonDomains[k], w, MaxDist) /\ dist(k) <= MaxDist}
<1> DEFINE nearest == {k \in close : \A m \in close : dist(k) <= dist(m)}
<1>1. \A k \in K : /\ k \in Nat /\ L(k) \in Nat /\ dist(k) = L(k)
                   /\ Abs(Len(CommonDomains[k]) - Len(w)) <= L(k)
  BY ListFacts
<1>2. Best(K, w, MaxDist) = IF close = {} THEN NoSuggestion ELSE CommonDomains[Least(nearest)]
  BY DEF Best
<1>3. close = near
  <2>1. ASSUME NEW k \in K, L(k) <= MaxDist PROVE Reachable(CommonDomains[k], w, MaxDist)
    <3>1. CommonDomains[k] \in Seq(Letters)
      BY ListFacts
    <3>2. Len(CommonDomains[k]) - Len(w) \in Int
      BY <3>1, LenProperties
    <3>3. Abs(Len(CommonDomains[k]) - Len(w)) \in Int
      BY <3>2 DEF Abs
    <3> HIDE DEF L
    <3> QED
      BY <1>1, <2>1, <3>3, MaxDistAssumption DEF Reachable
  <2> HIDE DEF L, dist
  <2> QED
    BY <1>1, <2>1
<1>4. nearest = {k \in near : \A m \in near : L(k) <= L(m)}
  <2> HIDE DEF L, dist
  <2>1. \A k \in near : dist(k) = L(k)
    BY <1>1
  <2> HIDE DEF close, near
  <2> QED
    BY <1>3, <2>1
<1>5. ASSUME near # {} PROVE nearest # {}
  <2> DEFINE T == {L(k) : k \in near}
  <2> HIDE DEF L
  <2>1. T \in SUBSET Nat /\ T # {}
    BY <1>1, <1>5
  <2>2. Least(T) \in T /\ \A y \in T : Least(T) <= y
    <3> HIDE DEF T
    <3> QED
      BY <2>1, LeastFacts
  <2>3. PICK k \in near : L(k) = Least(T)
    BY <2>2
  <2>4. \A m \in near : L(k) <= L(m)
    BY <2>2, <2>3
  <2> HIDE DEF nearest, near
  <2> QED
    BY <1>4, <2>4
<1>6. ASSUME near # {} PROVE Least(nearest) \in nearest
  <2>1. nearest \in SUBSET Nat
    BY <1>1
  <2> HIDE DEF nearest, near
  <2> QED
    BY <1>5, <1>6, <2>1, LeastFacts
<1> HIDE DEF nearest, near, close, L
<1>7. near = {} => Best(K, w, MaxDist) = NoSuggestion
  BY <1>2, <1>3
<1>8. near # {} => \E k \in near : /\ Best(K, w, MaxDist) = CommonDomains[k]
                                   /\ \A m \in near : L(k) <= L(m)
  BY <1>2, <1>3, <1>4, <1>6
<1> QED
  BY <1>7, <1>8 DEF near, L

\* Suggest finds, for every word, a domain of the list within the distance if there is
\* one, of the first letter of the word before any other, and the closest of them; and it
\* leaves a word of the list alone.
THEOREM SuggestionRight == \A w \in Seq(Letters) : SuggestionFits(w)
<1> SUFFICES ASSUME NEW w \in Seq(Letters) PROVE SuggestionFits(w)
  OBVIOUS
<1> DEFINE L(k) == Alignment(w, CommonDomains[k])
<1> DEFINE listedAt(n) == {k \in DOMAIN CommonDomains : L(k) <= n}
<1> DEFINE ofBucket == {k \in listedAt(MaxDist) : Head(CommonDomains[k]) = Head(w)}
<1> DEFINE all == {k \in DOMAIN CommonDomains : L(k) <= MaxDist}
<1> DEFINE best == Best(Bucket(Head(w)), w, MaxDist)
<1> DEFINE first == {k \in Bucket(Head(w)) : L(k) <= MaxDist}
<1>1. \A k \in DOMAIN CommonDomains : /\ L(k) \in Nat /\ CommonDomains[k] # NoSuggestion
                                      /\ L(k) = 0 <=> w = CommonDomains[k]
  BY ListFacts
<1>2. listedAt(0) # {} <=> \E k \in DOMAIN CommonDomains : CommonDomains[k] = w
  <2> HIDE DEF L
  <2> QED
    BY <1>1
<1>3. first = ofBucket /\ Bucket(Head(w)) \in SUBSET DOMAIN CommonDomains
  BY DEF Bucket
<1>4. /\ first = {} => best = NoSuggestion
      /\ first # {} => \E k \in first : best = CommonDomains[k] /\ \A m \in first : L(k) <= L(m)
  BY <1>3, BestFacts
<1>5. /\ all = {} => Best(DOMAIN CommonDomains, w, MaxDist) = NoSuggestion
      /\ all # {} => \E k \in all : /\ Best(DOMAIN CommonDomains, w, MaxDist) = CommonDomains[k]
                                    /\ \A m \in all : L(k) <= L(m)
  BY BestFacts
<1>6. CASE w = << >> \/ listedAt(0) # {}
  <2>1. Suggest(w, MaxDist) = NoSuggestion
    BY <1>2, <1>6 DEF Suggest
  <2> QED
    BY <1>6, <2>1 DEF SuggestionFits
<1>7. CASE ~(w = << >> \/ listedAt(0) # {})
  <2>1. Suggest(w, MaxDist) = IF best # NoSuggestion THEN best
                              ELSE Best(DOMAIN CommonDomains, w, MaxDist)
    BY <1>2, <1>7 DEF Suggest
  <2>2. first \subseteq all /\ all = listedAt(MaxDist)
    BY <1>3
  <2>3. CASE all = {}
    <3>1. Suggest(w, MaxDist) = NoSuggestion
      BY <1>4, <1>5, <2>1, <2>2, <2>3
    <3> QED
      BY <2>2, <2>3, <3>1 DEF SuggestionFits
  <2>4. CASE first # {}
    <3>1. \E k \in ofBucket : /\ Suggest(w, MaxDist) = CommonDomains[k]
                              /\ \A m \in ofBucket : L(k) <= L(m)
      <4>1. PICK k \in first : best = CommonDomains[k] /\ \A m \in first : L(k) <= L(m)
        BY <1>4, <2>4
      <4>2. best # NoSuggestion
        BY <1>1, <1>3, <4>1
      <4> QED
        BY <1>3, <2>1, <4>1, <4>2
    <3>2. listedAt(MaxDist) # {} /\ ofBucket # {}
      BY <1>3, <2>2, <2>4
    <3> QED
      BY <1>7, <3>1, <3>2 DEF SuggestionFits
  <2>5. CASE first = {} /\ all # {}
    <3>1. \E k \in listedAt(MaxDist) : /\ Suggest(w, MaxDist) = CommonDomains[k]
                                       /\ \A m \in listedAt(MaxDist) : L(k) <= L(m)
      BY <1>4, <1>5, <2>1, <2>2, <2>5
    <3>2. listedAt(MaxDist) # {} /\ ofBucket = {}
      BY <1>3, <2>2, <2>5
    <3> QED
      BY <1>7, <3>1, <3>2 DEF SuggestionFits
  <2> QED
    BY <2>3, <2>4, <2>5
<1> QED
  BY <1>6, <1>7

\* When there is a suggestion at all.
LEMMA SuggestsIff ==
    ASSUME NEW w \in Seq(Letters) \ {<< >>}
    PROVE  Suggest(w, MaxDist) # NoSuggestion <=>
              /\ \E k \in DOMAIN CommonDomains : Alignment(w, CommonDomains[k]) <= MaxDist
              /\ \A k \in DOMAIN CommonDomains : w # CommonDomains[k]
<1> DEFINE L(k) == Alignment(w, CommonDomains[k])
<1> DEFINE listedAt(n) == {k \in DOMAIN CommonDomains : L(k) <= n}
<1>1. \A k \in DOMAIN CommonDomains : /\ L(k) \in Nat /\ CommonDomains[k] # NoSuggestion
                                      /\ L(k) = 0 <=> w = CommonDomains[k]
  BY ListFacts
<1>2. listedAt(0) = {} <=> \A k \in DOMAIN CommonDomains : w # CommonDomains[k]
  <2> HIDE DEF L
  <2> QED
    BY <1>1
<1>3. SuggestionFits(w)
  BY SuggestionRight
<1>4. CASE listedAt(0) # {} \/ listedAt(MaxDist) = {}
  <2>1. Suggest(w, MaxDist) = NoSuggestion
    BY <1>3, <1>4 DEF SuggestionFits
  <2> QED
    BY <1>2, <1>4, <2>1
<1>5. CASE ~(listedAt(0) # {} \/ listedAt(MaxDist) = {})
  <2>1. \E k \in listedAt(MaxDist) : Suggest(w, MaxDist) = CommonDomains[k]
    BY <1>3, <1>5 DEF SuggestionFits
  <2> QED
    BY <1>1, <1>2, <1>5, <2>1
<1> QED
  BY <1>4, <1>5
=============================================================================
