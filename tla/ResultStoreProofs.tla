--------------------------- MODULE ResultStoreProofs ---------------------------
(***************************************************************************)
(* Table emails under concurrent BulkInserts and readers, for every set of *)
(* transactions, every normalization and every page size: the inductive    *)
(* invariant of ResultStore, that each of its steps keeps it, and that     *)
(* each is a step of ResultTable.  DataPathProofs puts them together.      *)
(***************************************************************************)
EXTENDS ResultStore, FiniteSetTheorems, SequenceTheorems, TLAPS

-----------------------------------------------------------------------------
(* The invariant *)

\* Rows of one job differ in their keys, those of open transactions included.
KeysUnique == \A r, s \in table : Norm[r.email] = Norm[s.email] => r = s

\* An id is drawn once, whether it ends in a row, in a conflict or in a rollback.
IdsUnique ==
    /\ \A r \in table : r.id <= lastId
    /\ \A r, s \in table : r.id = s.id => r = s
    /\ \A t \in Txs : drawn[t] <= lastId /\ \A r \in table : r.id # drawn[t]
    /\ \A t, u \in Txs : drawn[t] = drawn[u] => t = u \/ drawn[t] = 0

Ascending(list) == \A i, j \in DOMAIN list : i < j => Norm[list[i]] < Norm[list[j]]

\* The key k has a row of t or one that stays, or t is still to come to it.
Covered(t, k) ==
    \/ \E r \in table : Norm[r.email] = k /\ (r.tx = t \/ stage[r.tx] # "open")
    \/ \E j \in DOMAIN todo[t] : Norm[todo[t][j]] = k

\* An open transaction goes through its keys in ascending order and skips none.
OpenSound(t) ==
    /\ items[t] # << >>
    /\ Ascending(todo[t])
    /\ \A j \in DOMAIN todo[t] : \E i \in DOMAIN items[t] : items[t][i] = todo[t][j]
    /\ \A r \in table : r.tx = t => \A j \in DOMAIN todo[t] : Norm[r.email] < Norm[todo[t][j]]
    /\ \A i \in DOMAIN items[t] : Covered(t, Norm[items[t][i]])

\* Every key of t has a row that stays.
Kept(t) == \A i \in DOMAIN items[t] : \E r \in Visible : Norm[r.email] = Norm[items[t][i]]

TxSound(t) ==
    /\ items[t] = << >> => stage[t] = "idle"
    /\ stage[t] = "open" => OpenSound(t)
    /\ stage[t] \in {"committed", "lost", "counted", "uncounted"} => Kept(t)
    /\ stage[t] = "idle" => drawn[t] = 0
    /\ drawn[t] # 0 => stage[t] = "open" /\ todo[t] # << >>
    /\ \A r \in table : r.tx = t =>
          /\ stage[t] \notin {"idle", "failed"}
          /\ \E i \in DOMAIN items[t] : items[t][i] = r.email

TxsSound == \A t \in Txs : TxSound(t)

Seen == {reader.out[i] : i \in DOMAIN reader.out}

\* What a reader has passed is what it has seen, and it stays in the table.
ReaderSound ==
    /\ \A i, k \in DOMAIN reader.out : i < k => reader.out[i].id < reader.out[k].id
    /\ Seen \subseteq Visible
    /\ reader.base \subseteq Matching(reader.filter)
    /\ reader.state = "reading" =>
          /\ \A r \in Seen : r.id <= reader.cursor
          /\ \A r \in reader.base : r.id <= reader.cursor => r \in Seen
    /\ reader.state = "done" => reader.base \subseteq Seen

StoreInv ==
    /\ StoreTypeOK /\ IsFiniteSet(table)
    /\ KeysUnique /\ IdsUnique /\ TxsSound /\ ReaderSound
-----------------------------------------------------------------------------
(* Sorting *)

Rank(S, key, x) == Cardinality({y \in S : key[y] <= key[x]})

\* Of a finite set whose elements have different keys, each has a rank, and every
\* rank up to the number of elements is taken.
LEMMA Ranks ==
    ASSUME NEW S, IsFiniteSet(S), NEW key, \A x \in S : key[x] \in Nat,
           \A x, y \in S : key[x] = key[y] => x = y
    PROVE  /\ Cardinality(S) \in Nat
           /\ \A x \in S : Rank(S, key, x) \in 1..Cardinality(S)
           /\ \A x, y \in S : Rank(S, key, x) < Rank(S, key, y) <=> key[x] < key[y]
           /\ \A i \in 1..Cardinality(S) : \E x \in S : Rank(S, key, x) = i
<1> DEFINE Below(x) == {y \in S : key[y] <= key[x]}
<1> DEFINE n == Cardinality(S)
<1>1. n \in Nat
  BY FS_CardinalityType
<1>2. ASSUME NEW x \in S
      PROVE  IsFiniteSet(Below(x)) /\ Cardinality(Below(x)) \in 1..n
  <2>1. Below(x) \in SUBSET S /\ x \in Below(x)
    OBVIOUS
  <2>2. IsFiniteSet(Below(x)) /\ Cardinality(Below(x)) <= n /\ Cardinality(Below(x)) \in Nat
    BY <2>1, FS_Subset, FS_CardinalityType
  <2>3. Cardinality(Below(x)) # 0
    BY <2>1, <2>2, FS_EmptySet
  <2> QED
    BY <1>1, <2>2, <2>3
<1>3. ASSUME NEW x \in S, NEW y \in S, key[x] < key[y]
      PROVE  Cardinality(Below(x)) < Cardinality(Below(y))
  <2>1. Below(x) \in SUBSET Below(y) /\ y \in Below(y) /\ y \notin Below(x)
    BY <1>3
  <2>2. /\ Cardinality(Below(x)) <= Cardinality(Below(y))
        /\ Cardinality(Below(y)) = Cardinality(Below(x)) => Below(y) = Below(x)
    BY <1>2, <2>1, FS_Subset
  <2>3. Cardinality(Below(x)) \in 1..n /\ Cardinality(Below(y)) \in 1..n
    BY <1>2
  <2>4. Below(x) # Below(y)
    BY <2>1
  <2> HIDE DEF Below
  <2> QED
    BY <1>1, <2>2, <2>3, <2>4
<1>4. \A x, y \in S : Cardinality(Below(x)) < Cardinality(Below(y)) <=> key[x] < key[y]
  <2> SUFFICES ASSUME NEW x \in S, NEW y \in S
               PROVE  Cardinality(Below(x)) < Cardinality(Below(y)) <=> key[x] < key[y]
    OBVIOUS
  <2>1. Cardinality(Below(x)) \in 1..n /\ Cardinality(Below(y)) \in 1..n
    BY <1>2
  <2>2. key[x] = key[y] => Below(x) = Below(y)
    OBVIOUS
  <2>3. key[x] < key[y] \/ key[y] < key[x] \/ key[x] = key[y]
    OBVIOUS
  <2> HIDE DEF Below
  <2> QED
    BY <1>1, <1>3, <2>1, <2>2, <2>3
<1> DEFINE rank == [x \in S |-> Cardinality(Below(x))]
<1>5. rank \in Injection(S, 1..n)
  <2>1. rank \in [S -> 1..n]
    BY <1>2
  <2>2. ASSUME NEW x \in S, NEW y \in S, rank[x] = rank[y] PROVE x = y
    <3>1. Cardinality(Below(x)) = Cardinality(Below(y)) /\ Cardinality(Below(x)) \in 1..n
      BY <1>2, <2>2
    <3>2. ~(key[x] < key[y]) /\ ~(key[y] < key[x])
      <4> HIDE DEF Below
      <4> QED
        BY <1>1, <1>4, <3>1
    <3> QED
      BY <3>2
  <2> HIDE DEF rank
  <2> QED
    BY <2>1, <2>2 DEF Injection, IsInjective
<1>6. IsFiniteSet(1..n) /\ Cardinality(1..n) = n
  BY <1>1, FS_Interval
<1>7. rank \in Surjection(S, 1..n)
  <2> HIDE DEF rank, n
  <2> QED
    BY <1>5, <1>6, FS_Injection DEF n
<1>8. \A i \in 1..n : \E x \in S : rank[x] = i
  <2> HIDE DEF rank
  <2> QED
    BY <1>7 DEF Surjection
<1>9. \A x \in S : rank[x] = Cardinality(Below(x))
  OBVIOUS
<1>10. \A i \in 1..n : \E x \in S : Cardinality(Below(x)) = i
  <2> HIDE DEF rank, Below
  <2> QED
    BY <1>8, <1>9
<1>11. \A x \in S : Rank(S, key, x) = Cardinality(Below(x))
  BY DEF Rank
<1> HIDE DEF Below
<1> QED
  BY <1>1, <1>2, <1>4, <1>10, <1>11

\* SortedBy gives every element once, in the order of the keys.
LEMMA Sorted ==
    ASSUME NEW S, IsFiniteSet(S), NEW key, \A x \in S : key[x] \in Nat,
           \A x, y \in S : key[x] = key[y] => x = y
    PROVE  /\ SortedBy(S, key) \in [1..Cardinality(S) -> S] /\ Cardinality(S) \in Nat
           /\ \A i, j \in 1..Cardinality(S) : i < j =>
                 key[SortedBy(S, key)[i]] < key[SortedBy(S, key)[j]]
           /\ \A x \in S : \E i \in 1..Cardinality(S) : SortedBy(S, key)[i] = x
<1> DEFINE rank(x) == Rank(S, key, x)
<1> DEFINE n == Cardinality(S)
<1> DEFINE s == SortedBy(S, key)
<1>1. /\ n \in Nat
      /\ \A x \in S : rank(x) \in 1..n
      /\ \A x, y \in S : rank(x) < rank(y) <=> key[x] < key[y]
      /\ \A i \in 1..n : \E x \in S : rank(x) = i
  BY Ranks
<1>2. s = [i \in 1..n |-> CHOOSE x \in S : rank(x) = i]
  BY DEF SortedBy, Rank
<1> HIDE DEF rank, s, n
<1>3. \A i \in 1..n : s[i] \in S /\ rank(s[i]) = i
  BY <1>1, <1>2
<1>4. s \in [1..n -> S]
  BY <1>2, <1>3
<1>5. \A i, j \in 1..n : i < j => key[s[i]] < key[s[j]]
  BY <1>1, <1>3
<1>6. ASSUME NEW x \in S PROVE \E i \in 1..n : s[i] = x
  <2>1. rank(x) \in 1..n /\ s[rank(x)] \in S /\ rank(s[rank(x)]) = rank(x)
    BY <1>1, <1>3
  <2>2. ~(key[x] < key[s[rank(x)]]) /\ ~(key[s[rank(x)]] < key[x])
    BY <1>1, <2>1
  <2>3. key[x] = key[s[rank(x)]]
    BY <2>1, <2>2
  <2> QED
    BY <2>1, <2>3
<1> QED
  BY <1>1, <1>4, <1>5, <1>6 DEF s, n

\* A finite set that is not empty has an element with the greatest key.
LEMMA Greatest ==
    ASSUME NEW S, IsFiniteSet(S), S # {}, NEW key, \A x \in S : key[x] \in Nat
    PROVE  \E x \in S : \A y \in S : key[y] <= key[x]
<1> DEFINE K == {key[x] : x \in S}
<1> DEFINE f == [x \in S |-> key[x]]
<1> DEFINE id == [k \in K |-> k]
<1>1. f \in Surjection(S, K)
  BY DEF Surjection
<1>2. IsFiniteSet(K)
  <2> HIDE DEF f, K
  <2> QED
    BY <1>1, FS_Surjection
<1>3. K \subseteq Nat /\ K # {}
  OBVIOUS
<1>4. \A k \in K : id[k] = k
  OBVIOUS
<1> HIDE DEF K, id
<1>5. /\ SortedBy(K, id) \in [1..Cardinality(K) -> K] /\ Cardinality(K) \in Nat
      /\ \A i, j \in 1..Cardinality(K) : i < j =>
            id[SortedBy(K, id)[i]] < id[SortedBy(K, id)[j]]
      /\ \A k \in K : \E i \in 1..Cardinality(K) : SortedBy(K, id)[i] = k
  <2>1. /\ \A k \in K : id[k] \in Nat
        /\ \A k, l \in K : id[k] = id[l] => k = l
    BY <1>3, <1>4
  <2> QED
    BY <1>2, <2>1, Sorted
<1>6. Cardinality(K) \in 1..Cardinality(K)
  BY <1>2, <1>3, <1>5, FS_EmptySet
<1> DEFINE top == SortedBy(K, id)[Cardinality(K)]
<1>7. top \in K /\ \A k \in K : k <= top
  <2>1. top \in K /\ top \in Nat
    BY <1>3, <1>5, <1>6
  <2>2. ASSUME NEW k \in K PROVE k <= top
    <3>1. PICK i \in 1..Cardinality(K) : SortedBy(K, id)[i] = k
      BY <1>5
    <3>2. CASE i = Cardinality(K)
      BY <2>1, <3>1, <3>2
    <3>3. CASE i < Cardinality(K)
      <4>1. id[SortedBy(K, id)[i]] < id[top]
        BY <1>5, <1>6, <3>3
      <4> QED
        BY <1>3, <1>4, <2>1, <3>1, <4>1
    <3> QED
      BY <1>5, <3>2, <3>3
  <2> QED
    BY <2>1, <2>2
<1> QED
  BY <1>7 DEF K
\* A finite set of numbers that is not empty has a least one.
LEMMA Least ==
    ASSUME NEW S \in SUBSET Nat, IsFiniteSet(S), S # {}
    PROVE  \E x \in S : \A y \in S : x <= y
<1> DEFINE id == [x \in S |-> x]
<1>1. PICK top \in S : \A y \in S : id[y] <= id[top]
  <2>1. \A x \in S : id[x] \in Nat
    OBVIOUS
  <2> HIDE DEF id
  <2> QED
    BY <2>1, Greatest
<1> DEFINE key == [x \in S |-> top - x]
<1>2. \A x \in S : key[x] = top - x /\ key[x] \in Nat /\ x \in Nat
  BY <1>1
<1> HIDE DEF key
<1>3. PICK x \in S : \A y \in S : key[y] <= key[x]
  BY <1>2, Greatest
<1>4. \A y \in S : x <= y
  BY <1>2, <1>3
<1> QED
  BY <1>4

-----------------------------------------------------------------------------
(* The staging table and the pages *)

\* A function over 1..n is a sequence of its values.
LEMMA Tuple ==
    ASSUME NEW S, NEW n \in Nat, NEW f \in [1..n -> S]
    PROVE  f \in Seq(S) /\ Len(f) = n /\ DOMAIN f = 1..n
<1>1. f \in Seq(S)
  BY SeqDef
<1>2. Len(f) \in Nat /\ DOMAIN f = 1..Len(f) /\ DOMAIN f = 1..n
  BY <1>1, LenProperties
<1>3. Len(f) = n
  <2>1. n > 0 => n \in 1..Len(f)
    BY <1>2
  <2>2. Len(f) > 0 => Len(f) \in 1..n
    BY <1>2
  <2> QED
    BY <1>2, <2>1, <2>2
<1> QED
  BY <1>1, <1>2, <1>3

\* The elements of a sequence are finitely many.
LEMMA ElementsFinite ==
    ASSUME NEW S, NEW list \in Seq(S)
    PROVE  IsFiniteSet({list[i] : i \in DOMAIN list})
<1> DEFINE f == [i \in DOMAIN list |-> list[i]]
<1> DEFINE E == {list[i] : i \in DOMAIN list}
<1>1. f \in Surjection(DOMAIN list, E)
  BY DEF Surjection
<1>2. IsFiniteSet(DOMAIN list)
  BY LenProperties, FS_Interval
<1> HIDE DEF f, E
<1> QED
  BY <1>1, <1>2, FS_Surjection DEF E

\* The staging table has the keys of the batch, each once and in ascending order.
LEMMA StagedSound ==
    ASSUME NEW list \in Seq(Emails), NEW rows \in Staged(list)
    PROVE  /\ rows \in Seq(Emails) /\ Ascending(rows)
           /\ \A j \in DOMAIN rows : \E i \in DOMAIN list : list[i] = rows[j]
           /\ \A i \in DOMAIN list : \E j \in DOMAIN rows : Norm[rows[j]] = Norm[list[i]]
<1>1. PICK R \in SUBSET {list[i] : i \in DOMAIN list} :
         /\ rows = SortedBy(R, Norm)
         /\ \A a, b \in R : Norm[a] = Norm[b] => a = b
         /\ \A i \in DOMAIN list : \E a \in R : Norm[a] = Norm[list[i]]
  BY DEF Staged
<1>2. IsFiniteSet(R)
  <2> DEFINE E == {list[i] : i \in DOMAIN list}
  <2>1. IsFiniteSet(E)
    BY ElementsFinite
  <2>2. R \in SUBSET E
    OBVIOUS
  <2> HIDE DEF E
  <2> QED
    BY <2>1, <2>2, FS_Subset
<1>3. R \subseteq Emails
  BY LenProperties
<1>4. \A a \in R : Norm[a] \in Nat
  BY <1>3, NormAssumption
<1>5. /\ rows \in [1..Cardinality(R) -> R] /\ Cardinality(R) \in Nat
      /\ \A i, j \in 1..Cardinality(R) : i < j => Norm[rows[i]] < Norm[rows[j]]
      /\ \A a \in R : \E j \in 1..Cardinality(R) : rows[j] = a
  BY <1>1, <1>2, <1>4, Sorted
<1>6. rows \in Seq(Emails) /\ DOMAIN rows = 1..Cardinality(R)
  BY <1>3, <1>5, Tuple
<1>7. Ascending(rows)
  BY <1>5, <1>6 DEF Ascending
<1>8. \A j \in DOMAIN rows : \E i \in DOMAIN list : list[i] = rows[j]
  BY <1>5, <1>6
<1>9. \A i \in DOMAIN list : \E j \in DOMAIN rows : Norm[rows[j]] = Norm[list[i]]
  BY <1>1, <1>5, <1>6
<1> QED
  BY <1>6, <1>7, <1>8, <1>9

\* A page continues after the cursor without leaving a row out, and an empty page
\* means that there is none.
LEMMA Page ==
    ASSUME StoreInv, NEW filter, NEW cursor \in Nat,
           NEW page, page = ListByJob(filter, cursor, PageSize)
    PROVE  /\ page \in Seq(Row)
           /\ \A i \in DOMAIN page : page[i] \in Matching(filter) /\ page[i].id > cursor
           /\ \A i, j \in DOMAIN page : i < j => page[i].id < page[j].id
           /\ page = << >> => \A r \in Matching(filter) : r.id <= cursor
           /\ page # << >> =>
                 /\ Len(page) \in DOMAIN page
                 /\ \A r \in Matching(filter) :
                       cursor < r.id /\ r.id <= page[Len(page)].id =>
                          \E i \in DOMAIN page : page[i] = r
<1> DEFINE rest == {r \in Matching(filter) : r.id > cursor}
<1> DEFINE all == SortedBy(rest, Ids(rest))
<1> DEFINE n == Cardinality(rest)
<1> DEFINE m == IF PageSize < n THEN PageSize ELSE n
<1>1. rest \in SUBSET table /\ rest \subseteq Row
  BY DEF StoreInv, StoreTypeOK, Matching, Visible
<1>2. IsFiniteSet(rest)
  BY <1>1, FS_Subset DEF StoreInv
<1>3. \A r \in rest : r.id \in Nat /\ Ids(rest)[r] = r.id
  BY <1>1 DEF Ids, Row
<1>4. \A r, s \in rest : Ids(rest)[r] = Ids(rest)[s] => r = s
  BY <1>1, <1>3 DEF StoreInv, IdsUnique
<1>5. /\ all \in [1..n -> rest] /\ n \in Nat
      /\ \A i, j \in 1..n : i < j => Ids(rest)[all[i]] < Ids(rest)[all[j]]
      /\ \A r \in rest : \E i \in 1..n : all[i] = r
  <2>1. \A r \in rest : Ids(rest)[r] \in Nat
    BY <1>3
  <2> HIDE DEF rest
  <2> QED
    BY <1>2, <1>4, <2>1, Sorted
<1>6. page = SubSeq(all, 1, IF PageSize < Len(all) THEN PageSize ELSE Len(all))
  BY DEF ListByJob
<1>7. ASSUME NEW r PROVE r \in rest <=> r \in Matching(filter) /\ r.id > cursor
  OBVIOUS
<1> HIDE DEF rest, all, n
<1>8. all \in Seq(rest) /\ Len(all) = n
  BY <1>5, Tuple
<1>9. m \in Nat /\ m <= n /\ PageSize \in Nat /\ PageSize > 0 /\ (m = 0 => n = 0)
  BY <1>5, PoolAssumption
<1>10. /\ page \in Seq(rest) /\ Len(page) = m /\ DOMAIN page = 1..m
       /\ \A i \in 1..m : page[i] = all[i]
  <2>1. page = SubSeq(all, 1, m)
    BY <1>6, <1>8
  <2>2. \A i \in 1..m : all[i] \in rest
    BY <1>5, <1>9
  <2> HIDE DEF m
  <2>3. /\ page \in Seq(rest) /\ Len(page) = IF 1 <= m THEN m - 1 + 1 ELSE 0
        /\ \A i \in 1..(m - 1 + 1) : page[i] = all[1 + i - 1]
    BY <1>9, <2>1, <2>2, SubSeqProperties
  <2> QED
    BY <1>5, <1>9, <2>3, LenProperties
<1> HIDE DEF m
<1>11. page \in Seq(Row)
  BY <1>1, <1>10, SeqMonotonic
<1>12. \A i \in DOMAIN page : page[i] \in Matching(filter) /\ page[i].id > cursor
  BY <1>5, <1>7, <1>9, <1>10
<1>13. \A i, j \in 1..n : i < j => all[i].id < all[j].id
  BY <1>3, <1>5
<1>14. \A i, j \in DOMAIN page : i < j => page[i].id < page[j].id
  BY <1>5, <1>9, <1>10, <1>13
<1>15. ASSUME page = << >> PROVE \A r \in Matching(filter) : r.id <= cursor
  <2>1. n = 0
    BY <1>9, <1>10, <1>15, EmptySeq
  <2>2. rest = {}
    BY <1>5, <2>1
  <2> QED
    BY <2>2, <1>7 DEF StoreInv, StoreTypeOK, Matching, Visible, Row
<1>16. ASSUME page # << >> PROVE Len(page) \in DOMAIN page
  BY <1>9, <1>10, <1>16, EmptySeq
<1>17. ASSUME page # << >>, NEW r \in Matching(filter),
              cursor < r.id, r.id <= page[Len(page)].id
       PROVE  \E i \in DOMAIN page : page[i] = r
  <2>1. r \in rest /\ m \in 1..m /\ page[m] = all[m] /\ all[m] \in rest
    <3>1. r.id \in Nat
      BY DEF StoreInv, StoreTypeOK, Matching, Visible, Row
    <3> QED
      BY <3>1, <1>5, <1>7, <1>9, <1>10, <1>16, <1>17
  <2>2. PICK i \in 1..n : all[i] = r
    BY <1>5, <2>1
  <2>3. ~(m < i)
    <3>1. m < i => all[m].id < r.id
      BY <1>13, <1>9, <2>1, <2>2
    <3> QED
      BY <3>1, <1>3, <1>10, <1>17, <2>1
  <2> QED
    BY <1>9, <1>10, <2>2, <2>3
<1> QED
  BY <1>11, <1>12, <1>14, <1>15, <1>16, <1>17
-----------------------------------------------------------------------------
(* What a step leaves alone *)

RowsOf(t) == {r \in table : r.tx = t}

\* A transaction whose own state and rows do not change stays sound, for rows that
\* are committed stay.
LEMMA OthersKept ==
    ASSUME NEW u \in Txs, TxSound(u), RowsOf(u)' = RowsOf(u), Visible \subseteq Visible',
           items'[u] = items[u], stage'[u] = stage[u], todo'[u] = todo[u],
           drawn'[u] = drawn[u]
    PROVE  TxSound(u)'
<1>1. \A r : r \in table' /\ r.tx = u <=> r \in table /\ r.tx = u
  BY DEF RowsOf
<1>2. \A r \in table : stage[r.tx] # "open" => r \in table' /\ stage'[r.tx] # "open"
  BY DEF Visible
<1>3. ASSUME NEW k, Covered(u, k) PROVE Covered(u, k)'
  BY <1>1, <1>2, <1>3 DEF Covered
<1>4. OpenSound(u) => OpenSound(u)'
  BY <1>1, <1>3 DEF OpenSound, Ascending
<1>5. Kept(u) => Kept(u)'
  BY DEF Kept
<1> QED
  BY <1>1, <1>4, <1>5 DEF TxSound

\* A reader is not disturbed by rows that appear.
LEMMA ReaderKept ==
    ASSUME ReaderSound, reader' = reader, Visible \subseteq Visible'
    PROVE  ReaderSound'
<1>1. Matching(reader.filter) \subseteq Matching(reader.filter)'
  BY DEF Matching
<1>2. Seen' = Seen
  BY DEF Seen
<1> QED
  BY <1>1, <1>2 DEF ReaderSound

\* Steps that change neither the table nor the sequence.
LEMMA IdsKept ==
    ASSUME IdsUnique, KeysUnique, table' = table, lastId' = lastId, drawn' = drawn
    PROVE  IdsUnique' /\ KeysUnique'
BY DEF IdsUnique, KeysUnique

-----------------------------------------------------------------------------
(* The steps of BulkInsert *)

\* Staging gives the transaction its keys in ascending order, each of them once.
LEMMA BeginKeeps ==
    ASSUME StoreInv, NEW t \in Txs, Begin(t)
    PROVE  StoreInv' /\ Visible' = Visible
<1> USE DEF StoreInv
<1>1. PICK rows \in Staged(items[t]) : todo' = [todo EXCEPT ![t] = rows]
  BY DEF Begin
<1>2. /\ items[t] # << >> /\ stage[t] = "idle" /\ items[t] \in Seq(Emails)
      /\ stage' = [stage EXCEPT ![t] = "open"]
      /\ UNCHANGED <<items, drawn, table, lastId, reader>>
  BY DEF Begin, StoreTypeOK
<1>3. /\ rows \in Seq(Emails) /\ Ascending(rows)
      /\ \A j \in DOMAIN rows : \E i \in DOMAIN items[t] : items[t][i] = rows[j]
      /\ \A i \in DOMAIN items[t] : \E j \in DOMAIN rows : Norm[rows[j]] = Norm[items[t][i]]
  BY <1>1, <1>2, StagedSound
<1>4. StoreTypeOK' /\ todo'[t] = rows /\ stage'[t] = "open"
  BY <1>1, <1>2, <1>3 DEF StoreTypeOK, TxStages
<1>5. \A r \in table : r.tx # t
  BY <1>2 DEF TxsSound, TxSound
<1>6. \A u \in Txs \ {t} : stage'[u] = stage[u] /\ todo'[u] = todo[u]
  BY <1>1, <1>2 DEF StoreTypeOK
<1>7. Visible' = Visible
  BY <1>2, <1>5, <1>6 DEF Visible, StoreTypeOK, Row
<1>8. \A u \in Txs \ {t} : TxSound(u)'
  <2> TAKE u \in Txs \ {t}
  <2>1. RowsOf(u)' = RowsOf(u)
    BY <1>2 DEF RowsOf
  <2> QED
    BY <1>2, <1>6, <1>7, <2>1, OthersKept DEF TxsSound
<1>9. TxSound(t)'
  <2>1. \A i \in DOMAIN items[t] : Covered(t, Norm[items[t][i]])'
    BY <1>2, <1>3, <1>4 DEF Covered
  <2>2. OpenSound(t)'
    BY <1>2, <1>3, <1>4, <1>5, <2>1 DEF OpenSound, Ascending
  <2>3. drawn[t] = 0
    BY <1>2 DEF TxsSound, TxSound
  <2> QED
    BY <1>2, <1>4, <1>5, <2>2, <2>3 DEF TxSound
<1>10. TxsSound'
  BY <1>8, <1>9 DEF TxsSound
<1>11. ReaderSound'
  BY <1>2, <1>7, ReaderKept
<1>12. IdsUnique' /\ KeysUnique' /\ IsFiniteSet(table')
  BY <1>2, IdsKept
<1> QED
  BY <1>4, <1>7, <1>10, <1>11, <1>12

\* An id that is drawn is new.
LEMMA DrawIdKeeps ==
    ASSUME StoreInv, NEW t \in Txs, DrawId(t)
    PROVE  StoreInv' /\ Visible' = Visible
<1> USE DEF StoreInv
<1>1. /\ stage[t] = "open" /\ todo[t] # << >> /\ drawn[t] = 0
      /\ lastId' = lastId + 1 /\ drawn' = [drawn EXCEPT ![t] = lastId + 1]
      /\ UNCHANGED <<items, stage, todo, table, reader>>
  BY DEF DrawId
<1>2. StoreTypeOK' /\ drawn'[t] = lastId + 1 /\ lastId \in Nat
  BY <1>1 DEF StoreTypeOK
<1>3. \A u \in Txs \ {t} : drawn'[u] = drawn[u] /\ drawn[u] \in Nat
  BY <1>1 DEF StoreTypeOK
<1>4. Visible' = Visible
  BY <1>1 DEF Visible
<1>5. IdsUnique'
  <2>1. \A r \in table : r.id <= lastId /\ r.id \in Nat
    BY DEF IdsUnique, StoreTypeOK, Row
  <2>2. \A u \in Txs : drawn[u] <= lastId
    BY DEF IdsUnique
  <2> QED
    BY <1>1, <1>2, <1>3, <2>1, <2>2 DEF IdsUnique
<1>6. \A u \in Txs \ {t} : TxSound(u)'
  <2> TAKE u \in Txs \ {t}
  <2>1. RowsOf(u)' = RowsOf(u)
    BY <1>1 DEF RowsOf
  <2> QED
    BY <1>1, <1>3, <1>4, <2>1, OthersKept DEF TxsSound
<1>7. TxSound(t)'
  <2>1. TxSound(t)
    BY DEF TxsSound
  <2> QED
    BY <1>1, <1>2, <2>1 DEF TxSound, OpenSound, Covered, Ascending, Kept
<1>8. KeysUnique' /\ IsFiniteSet(table')
  BY <1>1 DEF KeysUnique
<1> QED
  BY <1>1, <1>2, <1>4, <1>5, <1>6, <1>7, <1>8, ReaderKept DEF TxsSound

\* COMMIT, heard or not, and what follows it.
LEMMA StageKeeps ==
    ASSUME StoreInv, NEW t \in Txs, NEW new \in TxStages \ {"idle", "open", "failed"},
           \/ stage[t] = "open" /\ todo[t] = << >>
           \/ stage[t] = "committed",
           stage' = [stage EXCEPT ![t] = new],
           UNCHANGED <<items, todo, drawn, table, lastId, reader>>
    PROVE  StoreInv' /\ Visible \subseteq Visible'
<1> USE DEF StoreInv
<1>1. StoreTypeOK' /\ stage'[t] = new /\ \A u \in Txs \ {t} : stage'[u] = stage[u]
  BY DEF StoreTypeOK
<1>2. Visible \subseteq Visible'
  BY <1>1 DEF Visible, StoreTypeOK, Row, TxStages
<1>3. \A u \in Txs \ {t} : TxSound(u)'
  <2> TAKE u \in Txs \ {t}
  <2>1. RowsOf(u)' = RowsOf(u)
    BY DEF RowsOf
  <2> QED
    BY <1>1, <1>2, <2>1, OthersKept DEF TxsSound
<1>4. TxSound(t)'
  <2>1. TxSound(t)
    BY DEF TxsSound
  <2>2. drawn[t] = 0 /\ items[t] # << >>
    BY <2>1 DEF TxSound
  <2>3. Kept(t)'
    <3>1. CASE stage[t] = "committed"
      BY <1>2, <2>1, <3>1 DEF TxSound, Kept
    <3>2. CASE stage[t] = "open" /\ todo[t] = << >>
      <4>1. OpenSound(t) /\ DOMAIN todo[t] = {}
        BY <2>1, <3>2 DEF TxSound
      <4>2. ASSUME NEW i \in DOMAIN items[t]
            PROVE  \E r \in Visible' : Norm[r.email] = Norm[items[t][i]]
        <5>1. PICK r \in table : /\ Norm[r.email] = Norm[items[t][i]]
                                 /\ r.tx = t \/ stage[r.tx] # "open"
          BY <4>1 DEF OpenSound, Covered
        <5>2. stage'[r.tx] # "open"
          BY <1>1, <5>1 DEF StoreTypeOK, Row
        <5>3. r \in Visible'
          BY <5>2 DEF Visible
        <5> QED
          BY <5>1, <5>3
      <4> QED
        BY <4>2 DEF Kept
    <3> QED
      BY <3>1, <3>2
  <2> QED
    BY <1>1, <2>1, <2>2, <2>3 DEF TxSound
<1>5. IdsUnique' /\ KeysUnique' /\ IsFiniteSet(table')
  BY IdsKept
<1> QED
  BY <1>1, <1>2, <1>3, <1>4, <1>5, ReaderKept DEF TxsSound

\* A rollback takes the rows of its own transaction, which nobody has seen.
LEMMA RollbackKeeps ==
    ASSUME StoreInv, NEW t \in Txs, Rollback(t)
    PROVE  StoreInv' /\ Visible' = Visible
<1> USE DEF StoreInv
<1>1. /\ stage[t] \in {"idle", "open"} /\ items[t] # << >>
      /\ stage' = [stage EXCEPT ![t] = "failed"] /\ table' = {r \in table : r.tx # t}
      /\ todo' = [todo EXCEPT ![t] = << >>] /\ drawn' = [drawn EXCEPT ![t] = 0]
      /\ UNCHANGED <<items, lastId, reader>>
  BY DEF Rollback
<1>2. StoreTypeOK' /\ stage'[t] = "failed" /\ drawn'[t] = 0
  BY <1>1 DEF StoreTypeOK, TxStages
<1>3. \A u \in Txs \ {t} : stage'[u] = stage[u] /\ todo'[u] = todo[u] /\ drawn'[u] = drawn[u]
  BY <1>1 DEF StoreTypeOK
<1>4. table' \in SUBSET table /\ \A r \in table' : r.tx # t
  BY <1>1
<1>5. IsFiniteSet(table')
  BY <1>4, FS_Subset
<1>6. \A r \in table : r.tx = t => stage[t] = "open"
  BY <1>1 DEF TxsSound, TxSound
<1>7. Visible' = Visible
  BY <1>1, <1>2, <1>3, <1>6 DEF Visible, StoreTypeOK, Row
<1>8. KeysUnique'
  BY <1>4 DEF KeysUnique
<1>9. IdsUnique'
  <2>1. \A r \in table : r.id # 0
    BY DEF StoreTypeOK, Row
  <2>2. 0 <= lastId
    BY DEF StoreTypeOK
  <2> QED
    BY <1>1, <1>2, <1>3, <1>4, <2>1, <2>2 DEF IdsUnique
<1>10. \A u \in Txs \ {t} : TxSound(u)'
  <2> TAKE u \in Txs \ {t}
  <2>1. RowsOf(u)' = RowsOf(u)
    BY <1>1 DEF RowsOf
  <2> QED
    BY <1>1, <1>3, <1>7, <2>1, OthersKept DEF TxsSound
<1>11. TxSound(t)'
  BY <1>1, <1>2, <1>4 DEF TxSound
<1> QED
  BY <1>1, <1>2, <1>5, <1>7, <1>8, <1>9, <1>10, <1>11, ReaderKept DEF TxsSound

\* A row is placed above all earlier keys of its transaction, or its key is there.
LEMMA PlaceRowKeeps ==
    ASSUME StoreInv, NEW t \in Txs, PlaceRow(t)
    PROVE  StoreInv' /\ Visible' = Visible
<1> USE DEF StoreInv
<1> DEFINE head == Head(todo[t])
<1> DEFINE new == [id |-> drawn[t], email |-> head, tx |-> t]
<1>1. /\ stage[t] = "open" /\ drawn[t] # 0 /\ ~\E u \in Txs : WaitsFor(t, u)
      /\ table' = IF \E r \in table : SameKey(head, r) THEN table ELSE table \cup {new}
      /\ todo' = [todo EXCEPT ![t] = Tail(@)] /\ drawn' = [drawn EXCEPT ![t] = 0]
      /\ UNCHANGED <<items, stage, lastId, reader>>
  BY DEF PlaceRow
<1>2. TxSound(t) /\ OpenSound(t) /\ todo[t] # << >> /\ todo[t] \in Seq(Emails)
  BY <1>1 DEF TxsSound, TxSound, StoreTypeOK
<1>3. /\ head = todo[t][1] /\ head \in Emails /\ DOMAIN todo[t] = 1..Len(todo[t])
      /\ Len(todo[t]) \in Nat \ {0} /\ Tail(todo[t]) \in Seq(Emails)
      /\ DOMAIN Tail(todo[t]) = 1..(Len(todo[t]) - 1)
      /\ \A j \in DOMAIN Tail(todo[t]) : Tail(todo[t])[j] = todo[t][j + 1]
  <2>1. Len(todo[t]) \in Nat \ {0} /\ DOMAIN todo[t] = 1..Len(todo[t])
    BY <1>2, EmptySeq, LenProperties
  <2>2. /\ head \in Emails /\ Tail(todo[t]) \in Seq(Emails)
        /\ Len(Tail(todo[t])) = Len(todo[t]) - 1
        /\ \A i \in 1..Len(Tail(todo[t])) : Tail(todo[t])[i] = todo[t][i + 1]
    BY <1>2, HeadTailProperties
  <2>3. DOMAIN Tail(todo[t]) = 1..Len(Tail(todo[t]))
    BY <2>2, LenProperties
  <2> QED
    BY <1>2, <2>1, <2>2, <2>3
<1>4. new \in Row /\ new.tx = t /\ new.id = drawn[t] /\ new.email = head
  BY <1>1, <1>3 DEF StoreTypeOK, Row
<1>5. /\ todo'[t] = Tail(todo[t]) /\ drawn'[t] = 0
      /\ \A u \in Txs \ {t} : todo'[u] = todo[u] /\ drawn'[u] = drawn[u]
  BY <1>1 DEF StoreTypeOK
<1>6. StoreTypeOK'
  <2>1. todo' \in [Txs -> Seq(Emails)] /\ drawn' \in [Txs -> Nat]
    BY <1>1, <1>3 DEF StoreTypeOK
  <2>2. table' \subseteq Row
    BY <1>1, <1>4 DEF StoreTypeOK
  <2> QED
    BY <1>1, <2>1, <2>2 DEF StoreTypeOK
<1>7. \/ table' = table /\ \E r \in table : Norm[r.email] = Norm[head]
      \/ table' = table \cup {new} /\ \A r \in table : Norm[r.email] # Norm[head]
  BY <1>1 DEF SameKey
<1> HIDE DEF new, head
<1>8. IsFiniteSet(table')
  BY <1>7, FS_AddElement
<1>9. Visible' = Visible
  BY <1>1, <1>4, <1>7 DEF Visible
<1>10. KeysUnique'
  BY <1>4, <1>7 DEF KeysUnique
<1>11. IdsUnique'
  <2>1. \A r \in table : r.id # 0
    BY DEF StoreTypeOK, Row
  <2>2. 0 <= lastId
    BY DEF StoreTypeOK
  <2>3. \A r \in table' : r = new \/ r \in table
    BY <1>7
  <2>4. \A r \in table' : r.id <= lastId /\ r.id # 0
    BY <1>1, <1>4, <2>1, <2>3 DEF IdsUnique
  <2>5. \A r, s \in table' : r.id = s.id => r = s
    BY <1>4, <2>3 DEF IdsUnique
  <2>6. ASSUME NEW u \in Txs PROVE drawn'[u] <= lastId /\ \A r \in table' : r.id # drawn'[u]
    <3>1. CASE u = t
      BY <1>5, <2>2, <2>4, <3>1
    <3>2. CASE u # t
      BY <1>1, <1>4, <1>5, <2>3, <3>2 DEF IdsUnique
    <3> QED
      BY <3>1, <3>2
  <2>7. \A u, v \in Txs : drawn'[u] = drawn'[v] => u = v \/ drawn'[u] = 0
    BY <1>5 DEF IdsUnique
  <2> QED
    BY <1>1, <2>4, <2>5, <2>6, <2>7 DEF IdsUnique
<1>12. \A u \in Txs \ {t} : TxSound(u)'
  <2> TAKE u \in Txs \ {t}
  <2>1. RowsOf(u)' = RowsOf(u)
    BY <1>4, <1>7 DEF RowsOf
  <2> QED
    BY <1>1, <1>5, <1>9, <2>1, OthersKept DEF TxsSound
<1>13. OpenSound(t)'
  <2>1. ASSUME NEW j \in DOMAIN todo'[t]
        PROVE  j + 1 \in DOMAIN todo[t] /\ todo'[t][j] = todo[t][j + 1] /\ j \in Nat \ {0}
    BY <1>3, <1>5
  <2>2. Ascending(todo[t])'
    <3>1. ASSUME NEW i \in DOMAIN todo'[t], NEW j \in DOMAIN todo'[t], i < j
          PROVE  Norm[todo'[t][i]] < Norm[todo'[t][j]]
      <4>1. i + 1 < j + 1
        BY <2>1, <3>1
      <4> QED
        BY <1>2, <2>1, <4>1 DEF OpenSound, Ascending
    <3> QED
      BY <3>1 DEF Ascending
  <2>3. \A j \in DOMAIN todo'[t] : \E i \in DOMAIN items'[t] : items'[t][i] = todo'[t][j]
    BY <1>1, <1>2, <2>1 DEF OpenSound
  <2>4. ASSUME NEW r \in table', r.tx = t, NEW j \in DOMAIN todo'[t]
        PROVE  Norm[r.email] < Norm[todo'[t][j]]
    <3>1. CASE r \in table
      BY <1>2, <2>1, <2>4, <3>1 DEF OpenSound
    <3>2. CASE r = new
      <4>1. 1 \in DOMAIN todo[t] /\ 1 < j + 1
        BY <1>3, <2>1
      <4>2. Norm[todo[t][1]] < Norm[todo[t][j + 1]]
        <5>1. Ascending(todo[t]) /\ j + 1 \in DOMAIN todo[t]
          BY <1>2, <2>1 DEF OpenSound
        <5> QED
          BY <4>1, <5>1 DEF Ascending
      <4> QED
        BY <1>3, <1>4, <2>1, <3>2, <4>2
    <3> QED
      BY <1>7, <3>1, <3>2
  <2>5. ASSUME NEW k, Covered(t, k) PROVE Covered(t, k)'
    <3>1. CASE \E r \in table : Norm[r.email] = k /\ (r.tx = t \/ stage[r.tx] # "open")
      BY <1>1, <1>7, <3>1 DEF Covered
    <3>2. CASE k = Norm[head]
      <4>1. CASE table' = table \cup {new}
        BY <1>4, <3>2, <4>1 DEF Covered
      <4>2. CASE \E r \in table : Norm[r.email] = Norm[head]
        <5>1. PICK r \in table : Norm[r.email] = Norm[head]
          BY <4>2
        <5>2. r.tx = t \/ stage[r.tx] # "open"
          <6>1. r.tx \in Txs
            BY DEF StoreTypeOK, Row
          <6> QED
            BY <1>1, <5>1, <6>1 DEF WaitsFor, SameKey, head
        <5> QED
          BY <1>1, <1>7, <3>2, <5>1, <5>2 DEF Covered
      <4> QED
        BY <1>7, <4>1, <4>2
    <3>3. CASE \E j \in DOMAIN todo[t] : j # 1 /\ Norm[todo[t][j]] = k
      <4>1. PICK j \in DOMAIN todo[t] : j # 1 /\ Norm[todo[t][j]] = k
        BY <3>3
      <4>2. j - 1 \in DOMAIN todo'[t] /\ todo'[t][j - 1] = todo[t][j]
        BY <1>3, <1>5, <4>1
      <4> QED
        BY <4>1, <4>2 DEF Covered
    <3> QED
      BY <1>3, <2>5, <3>1, <3>2, <3>3 DEF Covered
  <2>6. items'[t] # << >> /\ \A i \in DOMAIN items'[t] : Covered(t, Norm[items[t][i]])'
    BY <1>1, <1>2, <2>5 DEF OpenSound
  <2> QED
    BY <1>1, <2>2, <2>3, <2>4, <2>6 DEF OpenSound
<1>14. TxSound(t)'
  <2>1. ASSUME NEW r \in table', r.tx = t
        PROVE  \E i \in DOMAIN items[t] : items[t][i] = r.email
    <3>1. 1 \in DOMAIN todo[t]
      BY <1>3
    <3> QED
      BY <1>2, <1>3, <1>4, <1>7, <2>1, <3>1 DEF TxSound, OpenSound
  <2>2. items[t] # << >>
    BY <1>2 DEF OpenSound
  <2> QED
    BY <1>1, <1>5, <1>13, <2>1, <2>2 DEF TxSound
<1> QED
  BY <1>1, <1>6, <1>8, <1>9, <1>10, <1>11, <1>12, <1>14, ReaderKept DEF TxsSound

\* A worker comes with a batch.
LEMMA CallKeeps ==
    ASSUME StoreInv, NEW t \in Txs, NEW list \in Seq(Emails), items[t] = << >>,
           items' = [items EXCEPT ![t] = list], UNCHANGED <<txVars, reader>>
    PROVE  StoreInv' /\ Visible' = Visible
<1> USE DEF StoreInv
<1>1. StoreTypeOK' /\ items'[t] = list /\ \A u \in Txs \ {t} : items'[u] = items[u]
  BY DEF StoreTypeOK, txVars
<1>2. Visible' = Visible
  BY DEF Visible, txVars
<1>3. \A u \in Txs \ {t} : TxSound(u)'
  <2> TAKE u \in Txs \ {t}
  <2>1. RowsOf(u)' = RowsOf(u)
    BY DEF RowsOf, txVars
  <2> QED
    BY <1>1, <1>2, <2>1, OthersKept DEF TxsSound, txVars
<1>4. TxSound(t)'
  <2>1. TxSound(t)
    BY DEF TxsSound
  <2>2. stage[t] = "idle" /\ \A r \in table : r.tx # t
    BY <2>1, EmptySeq DEF TxSound, OpenSound
  <2> QED
    BY <2>1, <2>2 DEF TxSound, txVars
<1>5. IdsUnique' /\ KeysUnique' /\ IsFiniteSet(table')
  BY IdsKept DEF txVars
<1> QED
  BY <1>1, <1>2, <1>3, <1>4, <1>5, ReaderKept DEF TxsSound

-----------------------------------------------------------------------------
(* The readers *)

\* A reader starts before the first id, with what is committed as its base.
LEMMA StartReaderKeeps ==
    ASSUME StoreInv, NEW kind \in {"export", "client"},
           NEW filter \in Filters \cup {AnyStatus}, StartReader(kind, filter)
    PROVE  StoreInv' /\ Visible' = Visible
<1> USE DEF StoreInv
<1>1. /\ reader'.state = "reading" /\ reader'.filter = filter /\ reader'.cursor = 0
      /\ reader'.out = << >> /\ reader'.base = Matching(filter)
      /\ UNCHANGED <<items, stage, todo, drawn, table, lastId>>
  BY DEF StartReader, NoReader, txVars
<1>2. Visible' = Visible /\ Matching(filter)' = Matching(filter)
  BY <1>1 DEF Visible, Matching
<1>3. StoreTypeOK'
  <2>1. Matching(filter) \subseteq Row
    BY DEF Matching, Visible, StoreTypeOK
  <2>2. << >> \in Seq(Row)
    BY EmptySeq
  <2>3. reader' \in [state : {"none", "reading", "done", "failed"},
                     kind : {"export", "client"}, filter : Filters \cup {AnyStatus},
                     cursor : Nat, out : Seq(Row), base : SUBSET Row]
    BY <2>1, <2>2 DEF StartReader, NoReader
  <2> QED
    BY <1>1, <2>3 DEF StoreTypeOK
<1>4. TxsSound'
  BY <1>1 DEF TxsSound, TxSound, OpenSound, Covered, Ascending, Kept, Visible
<1>5. ReaderSound'
  <2>1. DOMAIN reader'.out = {} /\ Seen' = {}
    BY <1>1 DEF Seen
  <2>2. \A r \in Matching(filter) : ~(r.id <= 0)
    BY DEF Matching, Visible, StoreTypeOK, Row
  <2> QED
    BY <1>1, <1>2, <2>1, <2>2 DEF ReaderSound
<1>6. IdsUnique' /\ KeysUnique' /\ IsFiniteSet(table')
  BY <1>1, IdsKept
<1> QED
  BY <1>2, <1>3, <1>4, <1>5, <1>6

\* The rows before the cursor are those of the earlier pages, and a page brings the
\* next ones; rows committed meanwhile with ids below the cursor are never seen, and
\* were not there when the reader started.
LEMMA TurnKeeps ==
    ASSUME StoreInv, reader.state = "reading", NEW filter, NEW end \in Nat,
           reader.base \subseteq Matching(filter),
           Turn(ListByJob(filter, reader.cursor, PageSize), end),
           UNCHANGED <<items, txVars>>
    PROVE  StoreInv' /\ Visible' = Visible
<1> USE DEF StoreInv
<1> DEFINE page == ListByJob(filter, reader.cursor, PageSize)
<1>1. /\ reader.cursor \in Nat /\ reader.out \in Seq(Row) /\ reader.base \subseteq Row
      /\ reader \in [state : {"none", "reading", "done", "failed"},
                     kind : {"export", "client"}, filter : Filters \cup {AnyStatus},
                     cursor : Nat, out : Seq(Row), base : SUBSET Row]
  BY DEF StoreTypeOK
<1>2. /\ page \in Seq(Row)
      /\ \A i \in DOMAIN page : page[i] \in Matching(filter) /\ page[i].id > reader.cursor
      /\ \A i, j \in DOMAIN page : i < j => page[i].id < page[j].id
      /\ page = << >> => \A r \in Matching(filter) : r.id <= reader.cursor
      /\ page # << >> =>
            /\ Len(page) \in DOMAIN page
            /\ \A r \in Matching(filter) :
                  reader.cursor < r.id /\ r.id <= page[Len(page)].id =>
                     \E i \in DOMAIN page : page[i] = r
  BY <1>1, Page
<1>3. reader' = IF page = << >> THEN [reader EXCEPT !.state = "done", !.cursor = end]
                ELSE [reader EXCEPT !.out = @ \o page, !.cursor = page[Len(page)].id]
  BY DEF Turn
<1> HIDE DEF page
<1>4. Visible' = Visible /\ \A f : Matching(f)' = Matching(f)
  BY DEF Visible, Matching, txVars
<1>5. TxsSound'
  BY DEF TxsSound, TxSound, OpenSound, Covered, Ascending, Kept, Visible, txVars
<1>6. IdsUnique' /\ KeysUnique' /\ IsFiniteSet(table')
  BY IdsKept DEF txVars
<1>7. CASE page = << >>
  <2>1. /\ reader'.out = reader.out /\ reader'.base = reader.base
        /\ reader'.filter = reader.filter /\ reader'.state = "done"
    BY <1>1, <1>3, <1>7
  <2>2. Seen' = Seen
    BY <2>1 DEF Seen
  <2>3. ReaderSound'
    <3>1. reader.base \subseteq Seen
      BY <1>2, <1>7 DEF ReaderSound
    <3> QED
      BY <1>4, <2>1, <2>2, <3>1 DEF ReaderSound
  <2>4. StoreTypeOK'
    BY <1>1, <1>3, <1>7 DEF StoreTypeOK, txVars
  <2> QED
    BY <1>4, <1>5, <1>6, <2>3, <2>4
<1>8. CASE page # << >>
  <2> DEFINE out == reader.out
  <2> DEFINE last == page[Len(page)].id
  <2>1. /\ reader'.out = out \o page /\ reader'.base = reader.base
        /\ reader'.filter = reader.filter /\ reader'.state = "reading" /\ reader'.cursor = last
    BY <1>1, <1>3, <1>8
  <2>2. /\ Len(out) \in Nat /\ Len(page) \in Nat
        /\ DOMAIN out = 1..Len(out) /\ DOMAIN page = 1..Len(page)
    BY <1>1, <1>2, LenProperties
  <2>3. /\ out \o page \in Seq(Row) /\ DOMAIN (out \o page) = 1..(Len(out) + Len(page))
        /\ \A i \in 1..(Len(out) + Len(page)) :
              (out \o page)[i] = IF i <= Len(out) THEN out[i] ELSE page[i - Len(out)]
    BY <1>1, <1>2, ConcatProperties, LenProperties
  <2>4. /\ \A i \in DOMAIN out : out[i] \in Row /\ out[i].id \in Nat /\ out[i] \in Seen
        /\ \A i \in DOMAIN page : page[i] \in Row /\ page[i].id \in Nat
    <3>1. \A i \in DOMAIN out : out[i] \in Row /\ out[i] \in Seen
      BY <1>1, <2>2 DEF Seen
    <3>2. \A i \in DOMAIN page : page[i] \in Row
      BY <1>2, <2>2
    <3>3. \A r \in Row : r.id \in Nat
      BY DEF Row
    <3> QED
      BY <3>1, <3>2, <3>3
  <2>5. last \in Nat /\ \A i \in DOMAIN page : page[i].id <= last
    <3>1. Len(page) \in DOMAIN page
      BY <1>2, <1>8
    <3>2. \A i \in DOMAIN page : i < Len(page) \/ i = Len(page)
      BY <2>2
    <3> QED
      BY <1>2, <2>4, <3>1, <3>2
  <2>6. last > reader.cursor
    BY <1>2, <1>8
  <2> HIDE DEF last
  <2>7. Seen' = Seen \cup {page[i] : i \in DOMAIN page}
    <3>1. Seen' = {(out \o page)[i] : i \in 1..(Len(out) + Len(page))}
      BY <2>1, <2>3 DEF Seen
    <3>2. \A i \in DOMAIN out : i \in 1..(Len(out) + Len(page)) /\ (out \o page)[i] = out[i]
      BY <2>2, <2>3
    <3>3. \A i \in DOMAIN page : /\ Len(out) + i \in 1..(Len(out) + Len(page))
                                 /\ (out \o page)[Len(out) + i] = page[i]
      BY <2>2, <2>3
    <3>4. \A i \in 1..(Len(out) + Len(page)) :
             \/ i \in DOMAIN out /\ (out \o page)[i] = out[i]
             \/ i - Len(out) \in DOMAIN page /\ (out \o page)[i] = page[i - Len(out)]
      BY <2>2, <2>3
    <3>5. Seen = {out[i] : i \in DOMAIN out}
      BY DEF Seen
    <3> DEFINE new == {page[i] : i \in DOMAIN page}
    <3>6. ASSUME NEW r \in Seen \cup new PROVE r \in Seen'
      BY <3>1, <3>2, <3>3, <3>5
    <3>7. ASSUME NEW r \in Seen' PROVE r \in Seen \cup new
      <4>1. PICK i \in 1..(Len(out) + Len(page)) : r = (out \o page)[i]
        BY <3>1
      <4> QED
        BY <3>4, <3>5, <4>1
    <3> QED
      BY <3>6, <3>7
  <2>8. ASSUME NEW i \in DOMAIN (out \o page), NEW k \in DOMAIN (out \o page), i < k
        PROVE  (out \o page)[i].id < (out \o page)[k].id
    <3>1. CASE k <= Len(out)
      <4>1. i \in DOMAIN out /\ k \in DOMAIN out /\ out[i].id < out[k].id
        BY <2>2, <2>3, <2>8, <3>1 DEF ReaderSound
      <4> QED
        BY <2>2, <2>3, <3>1, <4>1
    <3>2. CASE i > Len(out)
      <4>1. /\ i - Len(out) \in DOMAIN page /\ k - Len(out) \in DOMAIN page
            /\ i - Len(out) < k - Len(out)
        BY <2>2, <2>3, <2>8, <3>2
      <4>2. page[i - Len(out)].id < page[k - Len(out)].id
        BY <1>2, <4>1
      <4> QED
        BY <2>2, <2>3, <2>8, <3>2, <4>2
    <3>3. CASE i <= Len(out) /\ k > Len(out)
      <4>1. i \in DOMAIN out /\ k - Len(out) \in DOMAIN page
        BY <2>2, <2>3, <3>3
      <4>2. out[i].id <= reader.cursor /\ page[k - Len(out)].id > reader.cursor
        BY <1>2, <2>4, <4>1 DEF ReaderSound
      <4>3. out[i].id < page[k - Len(out)].id
        BY <1>1, <2>4, <4>1, <4>2
      <4> QED
        BY <2>2, <2>3, <3>3, <4>3
    <3> QED
      BY <2>2, <2>3, <3>1, <3>2, <3>3
  <2>9. Seen' \subseteq Visible /\ \A r \in Seen' : r.id <= last
    <3>1. \A r \in Seen : r \in Visible /\ r.id <= reader.cursor /\ r.id \in Nat
      BY DEF ReaderSound, Visible, StoreTypeOK, Row
    <3>2. \A i \in DOMAIN page : page[i] \in Visible
      BY <1>2 DEF Matching
    <3> QED
      BY <1>1, <2>5, <2>6, <2>7, <3>1, <3>2
  <2>10. ASSUME NEW r \in reader.base, r.id <= last PROVE r \in Seen'
    <3>1. CASE r.id <= reader.cursor
      BY <2>7, <3>1 DEF ReaderSound
    <3>2. CASE r.id > reader.cursor
      BY <1>2, <1>8, <2>7, <2>10, <3>2 DEF last
    <3>3. r.id \in Nat
      BY <1>1 DEF Row
    <3> QED
      BY <1>1, <3>1, <3>2, <3>3
  <2>11. ReaderSound'
    BY <1>4, <2>1, <2>8, <2>9, <2>10 DEF ReaderSound
  <2>12. StoreTypeOK'
    <3>1. reader' \in [state : {"none", "reading", "done", "failed"},
                     kind : {"export", "client"}, filter : Filters \cup {AnyStatus},
                     cursor : Nat, out : Seq(Row), base : SUBSET Row]
      BY <1>1, <1>3, <1>8, <2>3, <2>5 DEF last
    <3> QED
      BY <3>1 DEF StoreTypeOK, txVars
  <2> QED
    BY <1>4, <1>5, <1>6, <2>11, <2>12
<1> QED
  BY <1>7, <1>8

\* A page, of the export or of a client, passes over nothing the reader must see.
LEMMA ReaderStepKeeps ==
    ASSUME StoreInv, ReaderStep \/ ExportFails
    PROVE  StoreInv' /\ Visible' = Visible
<1> USE DEF StoreInv
<1>1. CASE ExportPage
  <2>1. reader.base \subseteq Matching(AnyStatus)
    BY DEF ReaderSound, Matching
  <2>2. reader.cursor \in Nat
    BY DEF StoreTypeOK
  <2> QED
    BY <1>1, <2>1, <2>2, TurnKeeps DEF ExportPage
<1>2. CASE Results
  <2>1. reader.base \subseteq Matching(reader.filter)
    BY DEF ReaderSound
  <2> QED
    BY <1>2, <2>1, TurnKeeps DEF Results
<1>3. CASE ExportFails
  <2>1. /\ reader' = [reader EXCEPT !.state = "failed"]
        /\ UNCHANGED <<items, stage, todo, drawn, table, lastId>>
    BY <1>3 DEF ExportFails, txVars
  <2>2. StoreTypeOK'
    BY <2>1 DEF StoreTypeOK
  <2>3. /\ reader'.state = "failed" /\ reader'.out = reader.out
        /\ reader'.base = reader.base /\ reader'.filter = reader.filter
    BY <2>1 DEF StoreTypeOK
  <2>4. Visible' = Visible /\ \A f : Matching(f)' = Matching(f)
    BY <2>1 DEF Visible, Matching
  <2>5. ReaderSound'
    BY <2>3, <2>4 DEF ReaderSound, Seen
  <2>6. TxsSound'
    BY <2>1 DEF TxsSound, TxSound, OpenSound, Covered, Ascending, Kept, Visible
  <2> QED
    BY <2>1, <2>2, <2>4, <2>5, <2>6, IdsKept
<1> QED
  BY <1>1, <1>2, <1>3 DEF ReaderStep

-----------------------------------------------------------------------------
(* What follows from the invariant *)

\* Of transactions that all wait, the one whose next key is greatest waits for a row
\* whose owner has gone past that key.
LEMMA NoCircle == ASSUME StoreInv PROVE NoCircularWait
<1> USE DEF StoreInv
<1> SUFFICES ASSUME NEW S \in SUBSET Txs, S # {}, \A t \in S : \E u \in S : WaitsFor(t, u)
             PROVE  FALSE
  BY DEF NoCircularWait
<1> DEFINE key == [t \in S |-> Norm[Head(todo[t])]]
<1>1. ASSUME NEW t \in S
      PROVE  /\ OpenSound(t) /\ 1 \in DOMAIN todo[t]
             /\ key[t] = Norm[todo[t][1]] /\ key[t] \in Nat
  <2>1. stage[t] = "open" /\ drawn[t] # 0
    BY DEF WaitsFor
  <2>2. OpenSound(t) /\ todo[t] # << >> /\ todo[t] \in Seq(Emails)
    BY <2>1 DEF TxsSound, TxSound, StoreTypeOK
  <2>3. Len(todo[t]) \in Nat \ {0} /\ DOMAIN todo[t] = 1..Len(todo[t]) /\ Head(todo[t]) \in Emails
    BY <2>2, EmptySeq, LenProperties, HeadTailProperties
  <2> QED
    BY <2>2, <2>3, NormAssumption
<1>2. IsFiniteSet(S)
  BY TxsAssumption, FS_Subset
<1>3. PICK t \in S : \A u \in S : key[u] <= key[t]
  <2>1. \A u \in S : key[u] \in Nat
    BY <1>1
  <2> HIDE DEF key
  <2> QED
    BY <1>2, <2>1, Greatest
<1>4. PICK u \in S : WaitsFor(t, u)
  OBVIOUS
<1>5. PICK r \in table : r.tx = u /\ Norm[r.email] = key[t]
  BY <1>4 DEF WaitsFor, SameKey
<1>6. Norm[r.email] < key[u]
  BY <1>1, <1>5 DEF OpenSound
<1> QED
  BY <1>1, <1>3, <1>5, <1>6

\* A reader at the end has seen all of its base, and nothing twice.
LEMMA PagesComplete == ASSUME StoreInv PROVE OldRowsExported
<1> USE DEF StoreInv
<1>1. \A i \in DOMAIN reader.out : reader.out[i] \in table /\ reader.out[i].id \in Nat
  BY DEF ReaderSound, Seen, Visible, StoreTypeOK, Row
<1>2. ASSUME NEW i \in DOMAIN reader.out, NEW k \in DOMAIN reader.out, i < k
      PROVE  /\ reader.out[i].id < reader.out[k].id
             /\ Norm[reader.out[i].email] # Norm[reader.out[k].email]
  <2>1. reader.out[i].id < reader.out[k].id
    BY <1>2 DEF ReaderSound
  <2> QED
    BY <1>1, <2>1 DEF KeysUnique
<1> QED
  BY <1>2 DEF OldRowsExported, ReaderSound, Seen

\* What BulkInsert answers changes with the stage.
LEMMA AnswersAre ==
    /\ \A s \in {"idle", "open"} : AnswerIn(s) = "none"
    /\ \A s \in {"committed", "counted", "uncounted"} : AnswerIn(s) = "ok"
    /\ \A s \in {"lost", "failed"} : AnswerIn(s) = "error"
<1>1. \A s \in {"idle", "open"} : AnswerIn(s) = "none"
  BY DEF AnswerIn
<1>2. \A s \in {"committed", "counted", "uncounted"} : AnswerIn(s) = "ok"
  BY DEF AnswerIn
<1>3. \A s \in {"lost", "failed"} : AnswerIn(s) = "error"
  BY DEF AnswerIn
<1> QED
  BY <1>1, <1>2, <1>3

\* A step of one transaction gives an answer to its own call only.
LEMMA AnswerAt ==
    ASSUME NEW t \in Txs, \A u \in Txs \ {t} : stage'[u] = stage[u]
    PROVE  /\ Answers' = [Answers EXCEPT ![t] = AnswerIn(stage'[t])]
           /\ Answers[t] = AnswerIn(stage[t])
BY DEF Answers

\* The empty table satisfies the invariant and is the empty ResultTable.
LEMMA StoreStarts == ASSUME StoreInit PROVE StoreInv /\ Table!Init
<1> USE DEF StoreInit
<1>1. reader.out = << >> /\ reader.base = {} /\ reader.state = "none" /\ Seen = {}
  BY DEF NoReader, Seen
<1>2. << >> \in Seq(Emails) /\ << >> \in Seq(Row)
  BY EmptySeq
<1>3. StoreTypeOK
  BY <1>2 DEF StoreTypeOK, TxStages, NoReader
<1>4. KeysUnique /\ IdsUnique /\ TxsSound
  BY DEF KeysUnique, IdsUnique, TxsSound, TxSound
<1>5. ReaderSound
  BY <1>1 DEF ReaderSound
<1>6. IsFiniteSet(table)
  BY FS_EmptySet
<1>7. Table!Init
  BY AnswersAre DEF Table!Init, Stored, Visible, Answers
<1> QED
  BY <1>3, <1>4, <1>5, <1>6, <1>7 DEF StoreInv

-----------------------------------------------------------------------------
(* BulkInsert implements ResultTable *)

tableVars == <<items, Stored, Answers>>

\* COMMIT makes the rows of the transaction visible, one for each key that had none.
LEMMA CommitInserts ==
    ASSUME StoreInv, NEW t \in Txs, stage[t] = "open", todo[t] = << >>,
           NEW new \in {"committed", "lost"}, stage' = [stage EXCEPT ![t] = new],
           UNCHANGED <<items, table>>
    PROVE  Table!Insert(t)
<1> USE DEF StoreInv
<1> DEFINE R == {r.email : r \in RowsOf(t)}
<1> DEFINE A == Table!Addresses(items[t])
<1>1. stage'[t] = new /\ \A u \in Txs \ {t} : stage'[u] = stage[u]
  BY DEF StoreTypeOK
<1>2. TxSound(t) /\ OpenSound(t)
  BY DEF TxsSound, TxSound
<1>3. Visible' = Visible \cup RowsOf(t)
  BY <1>1 DEF Visible, RowsOf, StoreTypeOK, Row
<1>4. Stored' = Stored \cup R
  BY <1>3 DEF Stored
<1>5. R \in SUBSET A
  BY <1>2 DEF TxSound, RowsOf, Table!Addresses
<1>6. \A a, b \in R : Norm[a] = Norm[b] => a = b
  BY DEF KeysUnique, RowsOf
<1>7. ASSUME NEW k \in Table!Forms(R) PROVE k \in Table!Forms(A) \ Table!Forms(Stored)
  <2>1. PICK r \in table : r.tx = t /\ k = Norm[r.email]
    BY <1>7 DEF Table!Forms, RowsOf
  <2>2. k \in Table!Forms(A)
    BY <1>5, <1>7 DEF Table!Forms
  <2>3. ASSUME NEW s \in Visible, Norm[s.email] = k PROVE FALSE
    BY <2>1, <2>3 DEF Visible, KeysUnique
  <2> QED
    BY <2>2, <2>3 DEF Table!Forms, Stored
<1>8. ASSUME NEW k \in Table!Forms(A) \ Table!Forms(Stored) PROVE k \in Table!Forms(R)
  <2>1. PICK i \in DOMAIN items[t] : k = Norm[items[t][i]]
    BY <1>8 DEF Table!Forms, Table!Addresses
  <2>2. Covered(t, k) /\ DOMAIN todo[t] = {}
    BY <1>2, <2>1 DEF OpenSound
  <2>3. PICK r \in table : Norm[r.email] = k /\ (r.tx = t \/ stage[r.tx] # "open")
    BY <2>2 DEF Covered
  <2>4. r \notin Visible
    BY <1>8, <2>3 DEF Table!Forms, Stored
  <2> QED
    BY <2>3, <2>4 DEF Visible, Table!Forms, RowsOf
<1>9. R \in Table!NewRows(A)
  <2>1. Table!Forms(R) = Table!Forms(A) \ Table!Forms(Stored)
    BY <1>7, <1>8
  <2> HIDE DEF R, A
  <2> QED
    BY <1>5, <1>6, <2>1 DEF Table!NewRows
<1>10. items[t] # << >> /\ Answers[t] = "none"
  BY <1>2, AnswersAre DEF OpenSound, Answers
<1>11. \E a \in {"ok", "error"} : Answers' = [Answers EXCEPT ![t] = a]
  <2>1. Answers' = [Answers EXCEPT ![t] = AnswerIn(stage'[t])]
    BY <1>1, AnswerAt
  <2>2. AnswerIn(stage'[t]) \in {"ok", "error"}
    BY <1>1, AnswersAre
  <2> QED
    BY <2>1, <2>2
<1> HIDE DEF R
<1> QED
  BY <1>4, <1>9, <1>10, <1>11 DEF Table!Insert

\* A step of a transaction keeps the invariant, and is a step of ResultTable.
LEMMA TxRefines ==
    ASSUME StoreInv, NEW t \in Txs,
           TxStep(t) \/ Rollback(t) \/ CommitUnheard(t) \/ CountFails(t)
    PROVE  StoreInv' /\ Visible \subseteq Visible' /\ [Table!Next]_tableVars
<1>1. ASSUME items' = items, Visible' = Visible, Answers' = Answers
      PROVE  [Table!Next]_tableVars
  BY <1>1 DEF tableVars, Stored
<1>2. stage \in [Txs -> TxStages]
  BY DEF StoreInv, StoreTypeOK
<1>3. CASE Begin(t)
  <2>1. Answers' = Answers
    <3>1. stage[t] = "idle" /\ stage' = [stage EXCEPT ![t] = "open"]
      BY <1>3 DEF Begin
    <3>2. stage'[t] = "open" /\ \A u \in Txs \ {t} : stage'[u] = stage[u]
      BY <1>2, <3>1
    <3>3. AnswerIn(stage'[t]) = "none" /\ AnswerIn(stage[t]) = "none"
      BY <3>1, <3>2, AnswersAre
    <3>4. Answers' = [Answers EXCEPT ![t] = "none"] /\ Answers[t] = "none"
      BY <3>2, <3>3, AnswerAt
    <3> QED
      BY <3>4 DEF Answers
  <2> QED
    BY <1>1, <1>3, <2>1, BeginKeeps DEF Begin
<1>4. CASE DrawId(t)
  <2>1. items' = items /\ Answers' = Answers
    BY <1>4 DEF DrawId, Answers
  <2> QED
    BY <1>1, <1>4, <2>1, DrawIdKeeps
<1>5. CASE PlaceRow(t)
  <2>1. items' = items /\ Answers' = Answers
    BY <1>5 DEF PlaceRow, Answers
  <2> QED
    BY <1>1, <1>5, <2>1, PlaceRowKeeps
<1>6. CASE Commit(t)
  <2>1. StoreInv' /\ Visible \subseteq Visible'
    BY <1>6, StageKeeps DEF Commit, TxStages
  <2>2. Table!Insert(t)
    BY <1>6, CommitInserts DEF Commit
  <2> QED
    BY <2>1, <2>2 DEF Table!Next
<1>7. CASE CommitUnheard(t)
  <2>1. StoreInv' /\ Visible \subseteq Visible'
    BY <1>7, StageKeeps DEF CommitUnheard, TxStages
  <2>2. Table!Insert(t)
    BY <1>7, CommitInserts DEF CommitUnheard
  <2> QED
    BY <2>1, <2>2 DEF Table!Next
<1>8. ASSUME NEW new \in {"counted", "uncounted"}, stage[t] = "committed",
             stage' = [stage EXCEPT ![t] = new],
             UNCHANGED <<items, todo, drawn, table, lastId, reader>>
      PROVE  StoreInv' /\ Visible \subseteq Visible' /\ [Table!Next]_tableVars
  <2>1. StoreInv' /\ Visible \subseteq Visible'
    BY <1>8, StageKeeps DEF TxStages
  <2>2. Visible' = Visible /\ Answers' = Answers
    <3>1. stage'[t] = new /\ \A u \in Txs \ {t} : stage'[u] = stage[u]
      BY <1>2, <1>8
    <3>2. Answers' = [Answers EXCEPT ![t] = "ok"] /\ Answers[t] = "ok"
      <4>1. AnswerIn(stage'[t]) = "ok" /\ AnswerIn(stage[t]) = "ok"
        BY <1>8, <3>1, AnswersAre
      <4> QED
        BY <3>1, <4>1, AnswerAt
    <3>3. Answers' = Answers
      BY <3>2 DEF Answers
    <3> QED
      BY <1>8, <3>1, <3>3 DEF Visible, StoreInv, StoreTypeOK, Row
  <2> QED
    BY <1>1, <1>8, <2>1, <2>2
<1>9. CASE Count(t)
  BY <1>8, <1>9 DEF Count
<1>10. CASE CountFails(t)
  BY <1>8, <1>10 DEF CountFails
<1>11. CASE Rollback(t)
  <2>1. StoreInv' /\ Visible' = Visible
    BY <1>11, RollbackKeeps
  <2>2. Answers' = [Answers EXCEPT ![t] = "error"] /\ Answers[t] = "none"
    <3>1. /\ stage[t] \in {"idle", "open"} /\ stage'[t] = "failed"
          /\ \A u \in Txs \ {t} : stage'[u] = stage[u]
      BY <1>2, <1>11 DEF Rollback
    <3>2. AnswerIn(stage'[t]) = "error" /\ AnswerIn(stage[t]) = "none"
      BY <3>1, AnswersAre
    <3> QED
      BY <3>1, <3>2, AnswerAt
  <2>3. Table!Fail(t)
    BY <1>11, <2>1, <2>2 DEF Table!Fail, Rollback, Stored
  <2> QED
    BY <2>1, <2>3 DEF Table!Next
<1> QED
  BY <1>3, <1>4, <1>5, <1>6, <1>7, <1>9, <1>10, <1>11 DEF TxStep

\* A new call of BulkInsert is one of ResultTable.
LEMMA CallRefines ==
    ASSUME StoreInv, NEW t \in Txs, NEW list \in Seq(Emails), items[t] = << >>,
           items' = [items EXCEPT ![t] = list], UNCHANGED <<txVars, reader>>
    PROVE  StoreInv' /\ Visible' = Visible /\ [Table!Next]_tableVars
<1>1. StoreInv' /\ Visible' = Visible
  BY CallKeeps
<1>2. Answers' = Answers
  BY DEF Answers, txVars
<1>3. items'[t] = list
  BY DEF StoreInv, StoreTypeOK
<1>4. Table!Call(t)
  BY <1>1, <1>2, <1>3 DEF Table!Call, Stored
<1> QED
  BY <1>1, <1>4 DEF Table!Next

\* A reader does not show in ResultTable.
LEMMA ReaderRefines ==
    ASSUME StoreInv, UNCHANGED <<items, txVars>>, Visible' = Visible
    PROVE  [Table!Next]_tableVars
BY DEF tableVars, Stored, Answers, txVars
=============================================================================
