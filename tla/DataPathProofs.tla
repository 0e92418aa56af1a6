---------------------------- MODULE DataPathProofs ----------------------------
(***************************************************************************)
(* From the upload to the export, for every file, every batch size, every  *)
(* number of workers and connections and every page size: the job holds    *)
(* the file, BulkInsert is atomic to those who see its rows, and an export *)
(* of a completed job is the upload.                                       *)
(***************************************************************************)
EXTENDS DataPath, ResultStoreProofs

-----------------------------------------------------------------------------
(* The invariant *)

Column == FileColumn(file)
Address(k) == CellAt(file.rows[k], Column)

\* The first rows among the first n.
Upto(n) == {k \in FirstRows(file, Column) : k <= n}

\* Reader and Dedup after some rows: the set has the addresses kept, they are those of
\* the rows read, none of these is missing, and each has the place of its first row.
ImportInv ==
    /\ ImportTypeOK /\ collected \in Seq(Emails)
    /\ emailColumn = IF line = 0 THEN 0 ELSE Column
    /\ seen = {Lower[collected[i]] : i \in DOMAIN collected}
    /\ \A i \in DOMAIN collected :
          \E k \in AddressRows(file, Column) : k <= line /\ collected[i] = Address(k)
    /\ \A k \in AddressRows(file, Column) : k <= line => Lower[Address(k)] \in seen
    /\ Len(collected) = Cardinality(Upto(line))
    /\ \A k \in Upto(line) : collected[Cardinality(Upto(k))] = Address(k)

\* The request goes on only with the file read or the client gone; the job exists
\* only in the first case, and batches only of a job.
RequestSound ==
    /\ pc \in RequestStates /\ next \in 0..Len(collected)
    /\ job \in {"absent", "pending", "running", "completed", "failed"}
    /\ pc # "reading" => EachReturns
    /\ job # "absent" =>
          line = Len(file.rows) /\ ~file.broken /\ pc \notin {"reading", "creating"}
    /\ pc \in {"created", "submitting", "answered"} => job # "absent"
    /\ pc = "answered" => next = Len(collected)
    /\ \A t \in Txs : items[t] # << >> => job # "absent"

\* Where each batch begins in the list: batches do not overlap.
Offsets(off) ==
    \A t \in Handed :
        /\ off[t] + Len(items[t]) <= next
        /\ \A i \in DOMAIN items[t] : items[t][i] = collected[off[t] + i]
        /\ \A u \in Handed : u < t => off[u] + Len(items[u]) <= off[t]

BatchesSound ==
    /\ \E h \in Nat : Handed = 1..h
    /\ \E off \in [Txs -> Nat] : Offsets(off)

\* Every address of the job has a row that everybody sees.
AllStored == \A i \in DOMAIN collected : \E r \in Visible : Norm[r.email] = Norm[collected[i]]

PathInv ==
    /\ ImportInv /\ StoreInv /\ RequestSound /\ BatchesSound
    /\ job = "completed" => AllStored

-----------------------------------------------------------------------------
(* Columns and cells *)

\* pickEmailColumn gives a column for every row that has a cell.
LEMMA ColumnExists ==
    ASSUME NEW row \in Seq(Cells) \ {<< >>}
    PROVE  pickEmailColumn(row) \in Nat \ {0}
<1> DEFINE found == {i \in 1..Len(row) : row[i] \in WithAt}
<1>1. CASE found = {}
  BY <1>1 DEF pickEmailColumn
<1>2. CASE found # {}
  <2>1. found \in SUBSET Nat /\ found \in SUBSET (1..Len(row)) /\ Len(row) \in Nat
    BY LenProperties
  <2>2. IsFiniteSet(found)
    <3> HIDE DEF found
    <3>1. IsFiniteSet(1..Len(row))
      BY <2>1, FS_Interval
    <3> QED
      BY <2>1, <3>1, FS_Subset
  <2>3. \E x \in found : \A y \in found : x <= y
    <3> HIDE DEF found
    <3> QED
      BY <1>2, <2>1, <2>2, Least
  <2>4. First(found) \in found
    <3> HIDE DEF found
    <3> QED
      BY <2>3 DEF First
  <2>5. pickEmailColumn(row) = First(found)
    BY <1>2 DEF pickEmailColumn
  <2> QED
    BY <2>1, <2>4, <2>5
<1> QED
  BY <1>1, <1>2

\* The cell that the reader takes of a row is blank or an address of the job.
LEMMA CellIsAddress ==
    ASSUME NEW row \in Seq(Cells) \ {<< >>}, NEW col \in Nat \ {0}
    PROVE  CellAt(row, col) \in Cells /\ (CellAt(row, col) # Blank => CellAt(row, col) \in Emails)
<1> DEFINE i == IF col > Len(row) THEN 1 ELSE col
<1>1. Len(row) \in Nat \ {0} /\ row \in [1..Len(row) -> Cells]
  BY EmptySeq, LenProperties
<1>2. i \in 1..Len(row)
  BY <1>1
<1>3. row[i] \in Cells
  BY <1>1, <1>2
<1>4. CellAt(row, col) = Trimmed[row[i]]
  BY DEF CellAt
<1> QED
  BY <1>3, <1>4, CellsAssumption, AddressesAssumption

\* What is known of a file before it is read.
LEMMA FileFacts ==
    ASSUME file \in Files
    PROVE  /\ Len(file.rows) \in Nat /\ Column \in Nat \ {0}
           /\ \A k \in 1..Len(file.rows) :
                 /\ file.rows[k] \in Seq(Cells) \ {<< >>} /\ Address(k) \in Cells
                 /\ Address(k) # Blank => Address(k) \in Emails
           /\ AddressRows(file, Column) \subseteq 1..Len(file.rows)
           /\ \A k \in AddressRows(file, Column) : Address(k) \in Emails
           /\ Len(file.rows) > 0 => Column = pickEmailColumn(file.rows[1])
<1>1. file.rows \in Seq(Seq(Cells) \ {<< >>})
  BY FilesAssumption
<1>2. Len(file.rows) \in Nat /\ file.rows \in [1..Len(file.rows) -> Seq(Cells) \ {<< >>}]
  BY <1>1, LenProperties
<1>3. Len(file.rows) > 0 <=> file.rows # << >>
  BY <1>1, EmptySeq
<1>4. Column \in Nat \ {0} /\ (Len(file.rows) > 0 => Column = pickEmailColumn(file.rows[1]))
  <2>1. CASE file.rows = << >>
    BY <1>3, <2>1 DEF Column, FileColumn
  <2>2. CASE file.rows # << >>
    <3>1. file.rows[1] \in Seq(Cells) \ {<< >>}
      BY <1>2, <1>3, <2>2
    <3> QED
      BY <1>3, <2>2, <3>1, ColumnExists DEF Column, FileColumn
  <2> QED
    BY <2>1, <2>2
<1>5. ASSUME NEW k \in 1..Len(file.rows)
      PROVE  /\ file.rows[k] \in Seq(Cells) \ {<< >>} /\ Address(k) \in Cells
             /\ Address(k) # Blank => Address(k) \in Emails
  <2>1. file.rows[k] \in Seq(Cells) \ {<< >>}
    BY <1>2
  <2> QED
    BY <1>4, <2>1, CellIsAddress DEF Address
<1>6. /\ AddressRows(file, Column) \subseteq 1..Len(file.rows)
      /\ \A k \in AddressRows(file, Column) : Address(k) # Blank
  BY DEF AddressRows, Address
<1> QED
  BY <1>2, <1>4, <1>5, <1>6

\* The first rows among those read are finitely many, and their number grows by one
\* with each.
LEMMA UptoFacts ==
    ASSUME file \in Files, NEW n \in Nat
    PROVE  /\ Upto(n) \subseteq AddressRows(file, Column)
           /\ IsFiniteSet(Upto(n)) /\ Cardinality(Upto(n)) \in Nat
           /\ Upto(n + 1) = IF n + 1 \in FirstRows(file, Column) THEN Upto(n) \cup {n + 1} ELSE Upto(n)
           /\ Cardinality(Upto(n + 1)) =
                 IF n + 1 \in FirstRows(file, Column) THEN Cardinality(Upto(n)) + 1
                 ELSE Cardinality(Upto(n))
           /\ \A k \in Upto(n) :
                 /\ Upto(k) \subseteq Upto(n) /\ k \in Upto(k)
                 /\ Cardinality(Upto(k)) \in 1..Cardinality(Upto(n))
<1>1. FirstRows(file, Column) \subseteq AddressRows(file, Column)
  BY DEF FirstRows
<1>2. Len(file.rows) \in Nat /\ AddressRows(file, Column) \subseteq 1..Len(file.rows)
  BY FileFacts
<1>3. FirstRows(file, Column) \subseteq 1..Len(file.rows)
  BY <1>1, <1>2
<1>4. ASSUME NEW m PROVE IsFiniteSet(Upto(m)) /\ Cardinality(Upto(m)) \in Nat
  <2>1. Upto(m) \in SUBSET (1..Len(file.rows))
    BY <1>3 DEF Upto
  <2>2. IsFiniteSet(1..Len(file.rows))
    BY <1>2, FS_Interval
  <2>3. IsFiniteSet(Upto(m))
    BY <2>1, <2>2, FS_Subset
  <2> QED
    BY <2>3, FS_CardinalityType
<1>5. Upto(n + 1) = IF n + 1 \in FirstRows(file, Column) THEN Upto(n) \cup {n + 1} ELSE Upto(n)
  BY <1>3 DEF Upto
<1>6. n + 1 \notin Upto(n)
  BY DEF Upto
<1>7. Cardinality(Upto(n + 1)) =
         IF n + 1 \in FirstRows(file, Column) THEN Cardinality(Upto(n)) + 1
         ELSE Cardinality(Upto(n))
  BY <1>4, <1>5, <1>6, FS_AddElement
<1>8. ASSUME NEW k \in Upto(n)
      PROVE  /\ Upto(k) \subseteq Upto(n) /\ k \in Upto(k)
             /\ Cardinality(Upto(k)) \in 1..Cardinality(Upto(n))
  <2>1. Upto(k) \in SUBSET Upto(n) /\ k \in Upto(k)
    BY <1>3 DEF Upto
  <2>2. Cardinality(Upto(k)) <= Cardinality(Upto(n))
    BY <1>4, <2>1, FS_Subset
  <2>3. Cardinality(Upto(k)) # 0
    BY <1>4, <2>1, FS_EmptySet
  <2> QED
    BY <1>4, <2>1, <2>2, <2>3
<1> QED
  BY <1>1, <1>4, <1>5, <1>7, <1>8 DEF Upto

-----------------------------------------------------------------------------
(* Reading *)

\* Nothing is read and nothing collected at first.
LEMMA ImportStarts == ASSUME ImportInit PROVE ImportInv
<1> USE DEF ImportInit
<1>1. Len(file.rows) \in Nat /\ AddressRows(file, Column) \subseteq 1..Len(file.rows)
  BY FileFacts
<1>2. collected \in Seq(Emails) /\ collected \in Seq(Cells) /\ Len(collected) = 0 /\ DOMAIN collected = {}
  BY EmptySeq
<1>3. ImportTypeOK
  <2>1. line \in 0..Len(file.rows)
    BY <1>1
  <2> QED
    BY <1>2, <2>1 DEF ImportTypeOK
<1>4. Upto(0) = {}
  <2>1. Upto(0) \subseteq AddressRows(file, Column) /\ \A k \in Upto(0) : k <= 0
    BY UptoFacts DEF Upto
  <2> QED
    BY <1>1, <2>1
<1>5. Cardinality(Upto(0)) = 0
  BY <1>4, FS_EmptySet
<1>6. \A k \in AddressRows(file, Column) : ~(k <= line)
  BY <1>1
<1> QED
  BY <1>2, <1>3, <1>4, <1>5, <1>6 DEF ImportInv

\* One turn of the loop.
LEMMA ReadRowKeeps == ASSUME ImportInv, ReadRow PROVE ImportInv'
<1> DEFINE k == line + 1
<1> DEFINE row == file.rows[k]
<1> DEFINE A == AddressRows(file, Column)
<1> DEFINE email == Address(k)
<1>1. /\ file \in Files /\ line \in 0..Len(file.rows) /\ Len(file.rows) \in Nat
      /\ seen \subseteq Cells /\ collected \in Seq(Cells) /\ collected \in Seq(Emails)
  BY FileFacts DEF ImportInv, ImportTypeOK
<1>2. line < Len(file.rows) /\ line' = k /\ file' = file /\ gone' = gone
  BY DEF ReadRow
<1>3. k \in 1..Len(file.rows) /\ k \in Nat /\ line \in Nat
  BY <1>1, <1>2
<1>4. /\ Column \in Nat \ {0} /\ A \subseteq 1..Len(file.rows)
      /\ Address(k) \in Cells /\ (Address(k) # Blank => Address(k) \in Emails)
      /\ Column = pickEmailColumn(file.rows[1])
  BY <1>1, <1>2, <1>3, FileFacts
<1>5. /\ emailColumn = 0 <=> k = 1
      /\ (IF emailColumn = 0 THEN pickEmailColumn(row) ELSE emailColumn) = Column
  BY <1>3, <1>4 DEF ImportInv
<1>6. /\ emailColumn' = Column
      /\ IF (k = 1 /\ isHeader(row)) \/ email = Blank
         THEN UNCHANGED <<seen, collected>>
         ELSE SeenOrAdd(email)
  BY <1>5 DEF ReadRow, Address
<1>7. k \in A <=> ~((k = 1 /\ isHeader(row)) \/ email = Blank)
  BY <1>3 DEF AddressRows, Address
<1>8. /\ Column' = Column /\ A' = A /\ \A n : Upto(n)' = Upto(n)
      /\ \A n : Address(n)' = Address(n)
  BY <1>2 DEF Column, Address, Upto
<1> HIDE DEF k, row, A, email
<1>9. k \in FirstRows(file, Column) <=> k \in A /\ Lower[email] \notin seen
  <2>1. k \in FirstRows(file, Column) <=>
           k \in A /\ ~\E m \in A : m < k /\ Lower[Address(m)] = Lower[email]
    BY DEF FirstRows, Address, A, email
  <2>2. ASSUME NEW m \in A PROVE m < k <=> m <= line
    BY <1>3, <1>4, <2>2 DEF k
  <2>3. Lower[email] \in seen <=> \E m \in A : m <= line /\ Lower[Address(m)] = Lower[email]
    <3>1. ASSUME NEW m \in A, m <= line PROVE Lower[Address(m)] \in seen
      BY <3>1 DEF ImportInv, A
    <3>2. ASSUME Lower[email] \in seen
          PROVE  \E m \in A : m <= line /\ Lower[Address(m)] = Lower[email]
      BY <3>2 DEF ImportInv, A
    <3> QED
      BY <3>1, <3>2
  <2> QED
    BY <2>1, <2>2, <2>3
<1>10. /\ Upto(k) = IF k \in FirstRows(file, Column) THEN Upto(line) \cup {k} ELSE Upto(line)
       /\ Cardinality(Upto(k)) =
             IF k \in FirstRows(file, Column) THEN Cardinality(Upto(line)) + 1
             ELSE Cardinality(Upto(line))
       /\ \A n \in Upto(line) : Cardinality(Upto(n)) \in 1..Cardinality(Upto(line))
  BY <1>1, <1>3, UptoFacts DEF k
<1>11. \A m \in A : m <= k <=> m <= line \/ m = k
  BY <1>3, <1>4 DEF k
<1>12. CASE k \notin FirstRows(file, Column)
  <2>1. collected' = collected /\ seen' = seen /\ (k \in A => Lower[email] \in seen)
    <3>1. CASE k \notin A
      BY <1>6, <1>7, <3>1
    <3>2. CASE k \in A
      BY <1>6, <1>7, <1>9, <1>12, <3>2 DEF SeenOrAdd
    <3> QED
      BY <3>1, <3>2
  <2>2. ImportTypeOK'
    BY <1>1, <1>2, <1>3, <1>4, <1>6, <2>1 DEF ImportTypeOK, ImportInv
  <2>3. emailColumn' = IF line' = 0 THEN 0 ELSE Column'
    BY <1>2, <1>3, <1>6, <1>8 DEF k
  <2>4. \A i \in DOMAIN collected' : \E m \in A : m <= k /\ collected'[i] = Address(m)
    BY <1>11, <2>1 DEF ImportInv, A
  <2>5. \A m \in A : m <= k => Lower[Address(m)] \in seen'
    BY <1>11, <2>1 DEF ImportInv, A, email
  <2>6. Len(collected') = Cardinality(Upto(k))
    BY <1>10, <1>12, <2>1 DEF ImportInv
  <2>7. \A m \in Upto(k) : collected'[Cardinality(Upto(m))] = Address(m)
    BY <1>10, <1>12, <2>1 DEF ImportInv
  <2>8. seen' = {Lower[collected'[i]] : i \in DOMAIN collected'} /\ collected' \in Seq(Emails)
    BY <2>1 DEF ImportInv
  <2> QED
    BY <1>2, <1>8, <2>2, <2>3, <2>4, <2>5, <2>6, <2>7, <2>8 DEF ImportInv, A
<1>13. CASE k \in FirstRows(file, Column)
  <2> DEFINE n == Len(collected)
  <2>1. k \in A /\ email \in Emails /\ email \in Cells /\ email = Address(k)
    BY <1>4, <1>7, <1>9, <1>13 DEF email
  <2>2. collected' = Append(collected, email) /\ seen' = seen \cup {Lower[email]}
    BY <1>6, <1>7, <1>9, <1>13 DEF SeenOrAdd
  <2>3. n \in Nat /\ DOMAIN collected = 1..n
    BY <1>1, LenProperties
  <2>4. /\ collected' \in Seq(Emails) /\ collected' \in Seq(Cells) /\ Len(collected') = n + 1
        /\ \A i \in 1..n : collected'[i] = collected[i]
        /\ collected'[n + 1] = email
    BY <1>1, <2>1, <2>2, AppendProperties
  <2>5. DOMAIN collected' = 1..(n + 1)
    BY <2>4, LenProperties
  <2>6. \A i \in 1..(n + 1) : i \in 1..n \/ i = n + 1
    BY <2>3
  <2>7. 1..n \subseteq 1..(n + 1) /\ n + 1 \in 1..(n + 1)
    BY <2>3
  <2> HIDE DEF n
  <2>8. ImportTypeOK'
    <3>1. Lower[email] \in Cells
      BY <2>1, CellsAssumption
    <3> QED
      BY <1>1, <1>2, <1>3, <1>4, <1>6, <2>2, <2>4, <3>1 DEF ImportTypeOK, ImportInv
  <2>9. emailColumn' = IF line' = 0 THEN 0 ELSE Column'
    BY <1>2, <1>3, <1>6, <1>8 DEF k
  <2>10. seen' = {Lower[collected'[i]] : i \in DOMAIN collected'}
    <3>1. seen = {Lower[collected[i]] : i \in 1..n}
      BY <2>3 DEF ImportInv
    <3>2. ASSUME NEW x \in seen' PROVE x \in {Lower[collected'[i]] : i \in DOMAIN collected'}
      BY <2>2, <2>4, <2>5, <2>7, <3>1, <3>2
    <3>3. ASSUME NEW i \in DOMAIN collected' PROVE Lower[collected'[i]] \in seen'
      BY <2>2, <2>4, <2>5, <2>6, <3>1
    <3> QED
      BY <3>2, <3>3
  <2>11. \A i \in DOMAIN collected' : \E m \in A : m <= k /\ collected'[i] = Address(m)
    <3>1. ASSUME NEW i \in 1..n PROVE \E m \in A : m <= k /\ collected'[i] = Address(m)
      BY <1>11, <2>3, <2>4 DEF ImportInv, A
    <3>2. \E m \in A : m <= k /\ collected'[n + 1] = Address(m)
      BY <1>11, <2>1, <2>4
    <3> QED
      BY <2>5, <2>6, <3>1, <3>2
  <2>12. \A m \in A : m <= k => Lower[Address(m)] \in seen'
    BY <1>11, <2>1, <2>2 DEF ImportInv, A
  <2>13. Len(collected') = Cardinality(Upto(k))
    BY <1>10, <1>13, <2>4 DEF ImportInv, n
  <2>14. ASSUME NEW m \in Upto(k) PROVE collected'[Cardinality(Upto(m))] = Address(m)
    <3>1. CASE m = k
      BY <2>1, <2>4, <2>13, <3>1
    <3>2. CASE m \in Upto(line)
      <4>1. Cardinality(Upto(m)) \in 1..n /\ collected[Cardinality(Upto(m))] = Address(m)
        BY <1>10, <3>2 DEF ImportInv, n
      <4> QED
        BY <2>4, <4>1
    <3> QED
      BY <1>10, <1>13, <2>14, <3>1, <3>2
  <2> QED
    BY <1>2, <1>8, <2>4, <2>8, <2>9, <2>10, <2>11, <2>12, <2>13, <2>14 DEF ImportInv, A
<1> QED
  BY <1>12, <1>13

\* What the import keeps while others work, and when the client leaves.
LEMMA ImportKept ==
    ASSUME ImportInv, UNCHANGED <<file, line, emailColumn, seen, collected>>, gone' \in BOOLEAN
    PROVE  ImportInv'
<1>1. Column' = Column /\ (\A k : Address(k)' = Address(k)) /\ (\A n : Upto(n)' = Upto(n))
  BY DEF Column, Address, Upto
<1>2. ImportTypeOK'
  BY DEF ImportInv, ImportTypeOK
<1> QED
  BY <1>1, <1>2 DEF ImportInv

\* Reading a row takes no address away.
LEMMA ReadRowGrows == ASSUME ImportInv, ReadRow PROVE Len(collected) <= Len(collected')
<1>1. file \in Files /\ line \in Nat
  BY FileFacts DEF ImportInv, ImportTypeOK
<1>2. line' = line + 1 /\ file' = file
  BY DEF ReadRow
<1>3. \A n : Upto(n)' = Upto(n)
  BY <1>2 DEF Upto, Column
<1>4. Len(collected) = Cardinality(Upto(line)) /\ Len(collected') = Cardinality(Upto(line + 1))
  BY <1>2, <1>3, ReadRowKeeps DEF ImportInv
<1>5. /\ Cardinality(Upto(line)) \in Nat
      /\ Cardinality(Upto(line + 1)) =
            IF line + 1 \in FirstRows(file, Column) THEN Cardinality(Upto(line)) + 1
            ELSE Cardinality(Upto(line))
  BY <1>1, UptoFacts
<1> QED
  BY <1>4, <1>5

\* The invariant of the table speaks of its own variables only.
LEMMA StoreKept ==
    ASSUME StoreInv, UNCHANGED storeVars
    PROVE  StoreInv' /\ Visible' = Visible /\ UNCHANGED tableVars
<1>1. /\ items' = items /\ stage' = stage /\ todo' = todo /\ drawn' = drawn
      /\ table' = table /\ lastId' = lastId /\ reader' = reader
  BY DEF storeVars, txVars
<1>2. Visible' = Visible
  BY <1>1 DEF Visible
<1>3. IdsUnique' /\ KeysUnique'
  BY <1>1, IdsKept DEF StoreInv
<1>4. ReaderSound'
  BY <1>1, <1>2, ReaderKept DEF StoreInv
<1>5. StoreTypeOK' /\ IsFiniteSet(table')
  BY <1>1 DEF StoreInv, StoreTypeOK
<1>6. TxsSound'
  <2>1. ASSUME NEW u \in Txs PROVE TxSound(u)'
    <3>1. RowsOf(u)' = RowsOf(u)
      BY <1>1 DEF RowsOf
    <3> QED
      BY <1>1, <1>2, <3>1, OthersKept DEF StoreInv, TxsSound
  <2> QED
    BY <2>1 DEF TxsSound
<1> QED
  BY <1>1, <1>2, <1>3, <1>4, <1>5, <1>6 DEF StoreInv, tableVars, Stored, Answers

\* Batches stay where they are while the request and the list do not move.
LEMMA BatchesKept ==
    ASSUME BatchesSound, items' = items, next' = next, collected' = collected
    PROVE  BatchesSound'
<1>1. Handed' = Handed
  BY DEF Handed
<1>2. \A off : Offsets(off)' <=> Offsets(off)
  BY <1>1 DEF Offsets
<1> QED
  BY <1>1, <1>2 DEF BatchesSound

\* Committed rows stay, and with them the rows of every address.
LEMMA StoredKept ==
    ASSUME AllStored, Visible \subseteq Visible', collected' = collected
    PROVE  AllStored'
BY DEF AllStored

\* A step of the transactions or of the readers.
LEMMA PathKept ==
    ASSUME PathInv, StoreInv', Visible \subseteq Visible', items' = items,
           UNCHANGED <<importVars, pc, next>>,
           \/ job' = job
           \/ job' = "failed" /\ \E t \in Txs : items[t] # << >>
    PROVE  PathInv'
<1>1. UNCHANGED <<file, gone, line, emailColumn, seen, collected>> /\ gone' \in BOOLEAN
  BY DEF importVars, PathInv, ImportInv, ImportTypeOK
<1>2. ImportInv' /\ BatchesSound'
  BY <1>1, ImportKept, BatchesKept DEF PathInv
<1>3. RequestSound'
  BY <1>1 DEF PathInv, RequestSound, EachReturns
<1>4. job' = "completed" => AllStored'
  BY <1>1, StoredKept DEF PathInv
<1> QED
  BY <1>2, <1>3, <1>4 DEF PathInv

-----------------------------------------------------------------------------
(* The request *)

\* A batch is handed over: it begins where the ones before it end.
LEMMA SubmitBatchKeeps ==
    ASSUME PathInv, SubmitBatch
    PROVE  PathInv' /\ [Table!Next]_tableVars
<1> DEFINE n == Len(collected)
<1> DEFINE end == IF next + BatchSize > n THEN n ELSE next + BatchSize
<1> DEFINE batch == Slice(next, end)
<1>1. /\ pc = "submitting" /\ next < n /\ next' = end
      /\ items' = [items EXCEPT ![Cardinality(Handed) + 1] = batch]
      /\ UNCHANGED <<importVars, txVars, reader, pc, job>>
  BY DEF SubmitBatch
<1>2. /\ collected \in Seq(Emails) /\ n \in Nat /\ next \in Nat /\ DOMAIN collected = 1..n
      /\ collected \in [1..n -> Emails]
  BY LenProperties DEF PathInv, ImportInv, RequestSound
<1>3. end \in Nat /\ next < end /\ end <= n
  BY <1>1, <1>2, BatchSizeAssumption
<1> HIDE DEF end
<1>4. /\ batch \in Seq(Emails) /\ Len(batch) = end - next /\ DOMAIN batch = 1..(end - next)
      /\ \A i \in 1..(end - next) : batch[i] = collected[next + i]
      /\ batch # << >>
  <2>1. \A i \in next + 1 .. end : collected[i] \in Emails
    BY <1>2, <1>3
  <2>2. /\ batch \in Seq(Emails)
        /\ Len(batch) = IF next + 1 <= end THEN end - (next + 1) + 1 ELSE 0
        /\ \A i \in 1..(end - (next + 1) + 1) : batch[i] = collected[next + 1 + i - 1]
    BY <1>2, <1>3, <2>1, SubSeqProperties DEF Slice
  <2>3. Len(batch) = end - next /\ \A i \in 1..(end - next) : batch[i] = collected[next + i]
    BY <1>2, <1>3, <2>2
  <2>4. DOMAIN batch = 1..Len(batch)
    BY <2>2, LenProperties
  <2>5. batch # << >>
    BY <1>2, <1>3, <2>3, EmptySeq
  <2> QED
    BY <2>2, <2>3, <2>4, <2>5
<1> HIDE DEF batch
<1>5. PICK h \in Nat : Handed = 1..h
  BY DEF PathInv, BatchesSound
<1>6. Cardinality(Handed) = h
  BY <1>5, FS_Interval
<1>7. PICK off \in [Txs -> Nat] : Offsets(off)
  BY DEF PathInv, BatchesSound
<1>8. items \in [Txs -> Seq(Emails)] /\ job # "absent" /\ \A t \in Txs : Len(items[t]) \in Nat
  BY <1>1, LenProperties DEF PathInv, StoreInv, StoreTypeOK, RequestSound
<1>9. UNCHANGED <<file, gone, line, emailColumn, seen, collected>> /\ gone' \in BOOLEAN
  BY <1>1 DEF importVars, PathInv, ImportInv, ImportTypeOK
<1>10. ImportInv'
  BY <1>9, ImportKept DEF PathInv
<1>11. StoreInv' /\ Visible' = Visible /\ [Table!Next]_tableVars
  <2>1. CASE h + 1 \in Txs
    <3>1. items[h + 1] = << >>
      BY <1>5, <2>1 DEF Handed
    <3> QED
      BY <1>1, <1>4, <1>6, <2>1, <3>1, CallRefines DEF PathInv
  <2>2. CASE h + 1 \notin Txs
    <3>1. UNCHANGED storeVars
      BY <1>1, <1>6, <1>8, <2>2 DEF storeVars
    <3> QED
      BY <3>1, StoreKept DEF PathInv
  <2> QED
    BY <2>1, <2>2
<1>12. RequestSound'
  <2>1. next' \in 0..Len(collected')
    BY <1>1, <1>2, <1>3, <1>9
  <2> QED
    BY <1>1, <1>8, <1>9, <2>1 DEF PathInv, RequestSound, EachReturns
<1>13. BatchesSound'
  <2>1. CASE h + 1 \notin Txs
    <3>1. items' = items
      BY <1>1, <1>6, <1>8, <2>1
    <3>2. Handed' = Handed
      BY <3>1 DEF Handed
    <3>3. Offsets(off)'
      <4>1. \A t \in Handed : off[t] + Len(items[t]) <= next => off[t] + Len(items[t]) <= next'
        BY <1>1, <1>2, <1>3, <1>7, <1>8 DEF Handed
      <4> QED
        BY <1>7, <1>9, <3>1, <3>2, <4>1 DEF Offsets
    <3> QED
      BY <1>5, <1>7, <3>2, <3>3 DEF BatchesSound
  <2>2. CASE h + 1 \in Txs
    <3>1. /\ items'[h + 1] = batch
          /\ \A t \in Txs : t # h + 1 => items'[t] = items[t]
      BY <1>1, <1>6, <1>8, <2>2
    <3>2. Handed' = 1..(h + 1)
      <4>1. Handed' = Handed \cup {h + 1}
        BY <1>4, <2>2, <3>1 DEF Handed
      <4> QED
        BY <1>5, <4>1
    <3>3. PICK new \in [Txs -> Nat] :
             new[h + 1] = next /\ \A t \in Txs : t # h + 1 => new[t] = off[t]
      <4>1. [off EXCEPT ![h + 1] = next] \in [Txs -> Nat]
        BY <1>2, <1>7
      <4> QED
        BY <1>7, <2>2, <4>1
    <3>4. ASSUME NEW t \in Handed
          PROVE  /\ t \in Txs /\ t \in 1..h /\ t # h + 1 /\ t < h + 1
                 /\ new[t] = off[t] /\ items'[t] = items[t]
                 /\ off[t] \in Nat /\ Len(items[t]) \in Nat
                 /\ off[t] + Len(items[t]) <= next
      <4>1. t \in Txs /\ t \in 1..h /\ t # h + 1 /\ t < h + 1
        BY <1>5 DEF Handed
      <4> QED
        BY <1>7, <1>8, <3>1, <3>3, <4>1 DEF Offsets
    <3>5. ASSUME NEW t \in 1..(h + 1)
          PROVE  /\ new[t] + Len(items'[t]) <= next'
                 /\ \A i \in DOMAIN items'[t] : items'[t][i] = collected[new[t] + i]
                 /\ \A u \in 1..(h + 1) : u < t => new[u] + Len(items'[u]) <= new[t]
      <4>1. CASE t = h + 1
        <5>1. new[t] + Len(items'[t]) <= next'
          BY <1>1, <1>2, <1>3, <1>4, <3>1, <3>3, <4>1
        <5>2. \A i \in DOMAIN items'[t] : items'[t][i] = collected[new[t] + i]
          BY <1>4, <3>1, <3>3, <4>1
        <5>3. \A u \in 1..(h + 1) : u < t => u \in Handed
          BY <1>5, <4>1
        <5>4. \A u \in 1..(h + 1) : u < t => new[u] + Len(items'[u]) <= new[t]
          BY <3>3, <3>4, <4>1, <5>3
        <5> QED
          BY <5>1, <5>2, <5>4
      <4>2. CASE t # h + 1
        <5>1. t \in Handed
          BY <1>5, <4>2
        <5>2. new[t] + Len(items'[t]) <= next'
          BY <1>1, <1>2, <1>3, <3>4, <5>1
        <5>3. \A i \in DOMAIN items'[t] : items'[t][i] = collected[new[t] + i]
          BY <1>7, <3>4, <5>1 DEF Offsets
        <5>4. \A u \in 1..(h + 1) : u < t => u \in Handed
          BY <1>5, <4>2
        <5>5. \A u \in Handed : u < t => new[u] + Len(items'[u]) <= new[t]
          BY <1>7, <3>4, <5>1 DEF Offsets
        <5> QED
          BY <5>2, <5>3, <5>4, <5>5
      <4> QED
        BY <4>1, <4>2
    <3>6. Offsets(new)'
      BY <1>9, <3>2, <3>5 DEF Offsets
    <3> QED
      BY <3>2, <3>3, <3>6 DEF BatchesSound
  <2> QED
    BY <2>1, <2>2
<1>14. job' = "completed" => AllStored'
  BY <1>1, <1>9, <1>11, StoredKept DEF PathInv
<1> QED
  BY <1>10, <1>11, <1>12, <1>13, <1>14 DEF PathInv

\* The other steps of the request touch no row.
LEMMA RequestKeeps ==
    ASSUME PathInv, RequestStep \/ Leave
    PROVE  PathInv' /\ [Table!Next]_tableVars
<1>1. CASE SubmitBatch
  BY <1>1, SubmitBatchKeeps
<1>2. CASE ReadFile
  <2>1. /\ pc = "reading" /\ ReadRow /\ UNCHANGED <<storeVars, pc, next, job>>
        /\ job = "absent" /\ items' = items
    BY <1>2 DEF ReadFile, PathInv, RequestSound, storeVars
  <2>2. StoreInv' /\ UNCHANGED tableVars
    BY <2>1, StoreKept DEF PathInv
  <2>3. ImportInv' /\ Len(collected) <= Len(collected')
    BY <2>1, ReadRowKeeps, ReadRowGrows DEF PathInv
  <2>4. next \in Nat /\ Len(collected') \in Nat /\ Len(collected) \in Nat /\ next <= Len(collected)
    BY <2>3, LenProperties DEF PathInv, RequestSound, ImportInv
  <2>5. RequestSound'
    <3>1. next' \in 0..Len(collected')
      BY <2>1, <2>3, <2>4
    <3> QED
      BY <2>1, <3>1 DEF PathInv, RequestSound
  <2>6. BatchesSound'
    <3>1. Handed = {} /\ Handed' = {}
      BY <2>1 DEF PathInv, RequestSound, Handed
    <3>2. PICK off \in [Txs -> Nat] : Offsets(off)
      BY DEF PathInv, BatchesSound
    <3>3. Offsets(off)' /\ \E h \in Nat : Handed' = 1..h
      BY <3>1 DEF Offsets, PathInv, BatchesSound
    <3> QED
      BY <3>2, <3>3 DEF BatchesSound
  <2> QED
    BY <2>1, <2>2, <2>3, <2>5, <2>6 DEF PathInv
<1>3. ASSUME UNCHANGED <<file, line, emailColumn, seen, collected, storeVars, next>>,
             gone' \in BOOLEAN, RequestSound', job' = "completed" => job = "completed"
      PROVE  PathInv' /\ [Table!Next]_tableVars
  <2>1. ImportInv'
    BY <1>3, ImportKept DEF PathInv
  <2>2. StoreInv' /\ Visible' = Visible /\ UNCHANGED tableVars
    BY <1>3, StoreKept DEF PathInv
  <2>3. items' = items
    BY <1>3 DEF storeVars
  <2>4. BatchesSound'
    BY <1>3, <2>3, BatchesKept DEF PathInv
  <2>5. job' = "completed" => AllStored'
    BY <1>3, <2>2, StoredKept DEF PathInv
  <2> QED
    BY <1>3, <2>1, <2>2, <2>4, <2>5 DEF PathInv
<1>4. gone \in BOOLEAN /\ file.broken \in BOOLEAN /\ RequestSound
  BY FilesAssumption DEF PathInv, ImportInv, ImportTypeOK
<1>5. ASSUME FileRead \/ Create \/ StartJob \/ SubmitFails \/ SubmitDone
      PROVE  PathInv' /\ [Table!Next]_tableVars
  <2>1. UNCHANGED <<file, gone, line, emailColumn, seen, collected, storeVars, next, items>>
    BY <1>5 DEF FileRead, Create, StartJob, SubmitFails, SubmitDone, importVars, storeVars
  <2>2. RequestSound'
    <3>1. CASE FileRead
      BY <1>4, <2>1, <3>1 DEF FileRead, RequestSound, RequestStates, EachReturns
    <3>2. CASE Create
      BY <1>4, <2>1, <3>2 DEF Create, RequestSound, RequestStates, EachReturns
    <3>3. CASE StartJob
      BY <1>4, <2>1, <3>3 DEF StartJob, RequestSound, RequestStates, EachReturns
    <3>4. CASE SubmitFails
      BY <1>4, <2>1, <3>4 DEF SubmitFails, RequestSound, RequestStates, EachReturns
    <3>5. CASE SubmitDone
      BY <1>4, <2>1, <3>5 DEF SubmitDone, RequestSound, RequestStates, EachReturns
    <3> QED
      BY <1>5, <3>1, <3>2, <3>3, <3>4, <3>5
  <2>3. job' = "completed" => job = "completed"
    BY <1>5 DEF FileRead, Create, StartJob, SubmitFails, SubmitDone
  <2> QED
    BY <1>3, <1>4, <2>1, <2>2, <2>3
<1>6. CASE Leave
  <2>1. /\ UNCHANGED <<file, line, emailColumn, seen, collected, storeVars, next, items, pc, job>>
        /\ gone' = TRUE
    BY <1>6 DEF Leave, ClientLeaves, storeVars
  <2>2. RequestSound'
    BY <1>4, <2>1 DEF RequestSound, EachReturns
  <2> QED
    BY <1>3, <2>1, <2>2
<1> QED
  BY <1>1, <1>2, <1>5, <1>6 DEF RequestStep

-----------------------------------------------------------------------------
(* The tracker *)

\* A place in a batch stands for a place in the list, and no two for the same; so when
\* as many are counted as the list has, each address is in a batch that was counted.
LEMMA CountedIsStored ==
    ASSUME PathInv, pc = "answered", Processed >= Len(collected)
    PROVE  AllStored
<1> DEFINE n == Len(collected)
<1> DEFINE C == {t \in Txs : stage[t] = "counted"}
<1> DEFINE P == UNION {{t} \X DOMAIN items[t] : t \in C}
<1>1. PICK off \in [Txs -> Nat] : Offsets(off)
  BY DEF PathInv, BatchesSound
<1>2. /\ n \in Nat /\ DOMAIN collected = 1..n /\ next = n
      /\ Txs \subseteq Nat /\ items \in [Txs -> Seq(Emails)]
  <2>1. collected \in Seq(Emails) /\ next = n /\ items \in [Txs -> Seq(Emails)]
    BY DEF PathInv, ImportInv, RequestSound, StoreInv, StoreTypeOK
  <2>2. Txs \subseteq Nat
    BY AddressesAssumption
  <2> QED
    BY <2>1, <2>2, LenProperties
<1>3. ASSUME NEW t \in C
      PROVE  /\ t \in Handed /\ t \in Nat /\ Kept(t) /\ Len(items[t]) \in Nat
             /\ DOMAIN items[t] = 1..Len(items[t]) /\ off[t] \in Nat
  <2>1. t \in Txs /\ TxSound(t) /\ stage[t] = "counted"
    BY DEF PathInv, StoreInv, TxsSound
  <2>2. items[t] # << >> /\ Kept(t)
    BY <2>1 DEF TxSound
  <2> QED
    BY <1>1, <1>2, <2>1, <2>2, LenProperties DEF Handed
<1>4. ASSUME NEW p \in P
      PROVE  /\ p[1] \in C /\ p[2] \in 1..Len(items[p[1]]) /\ p = <<p[1], p[2]>>
  <2>1. PICK t \in C : p \in {t} \X DOMAIN items[t]
    OBVIOUS
  <2> QED
    BY <1>3, <2>1
<1> HIDE DEF C, P
<1> DEFINE pos == [p \in P |-> off[p[1]] + p[2]]
<1>5. ASSUME NEW p \in P
      PROVE  /\ pos[p] = off[p[1]] + p[2] /\ pos[p] \in 1..n
             /\ items[p[1]][p[2]] = collected[pos[p]]
  <2>1. /\ p[1] \in C /\ p[1] \in Handed /\ Len(items[p[1]]) \in Nat /\ off[p[1]] \in Nat
        /\ p[2] \in 1..Len(items[p[1]]) /\ p[2] \in DOMAIN items[p[1]]
    BY <1>3, <1>4
  <2>2. /\ off[p[1]] + Len(items[p[1]]) <= n
        /\ items[p[1]][p[2]] = collected[off[p[1]] + p[2]]
    BY <1>1, <1>2, <2>1 DEF Offsets
  <2> QED
    BY <1>2, <2>1, <2>2
<1>6. ASSUME NEW p \in P, NEW q \in P, pos[p] = pos[q] PROVE p = q
  <2>1. ASSUME NEW x \in P, NEW y \in P, x[1] < y[1] PROVE pos[x] < pos[y]
    <3>1. /\ x[1] \in Handed /\ y[1] \in Handed
          /\ x[2] \in 1..Len(items[x[1]]) /\ y[2] \in 1..Len(items[y[1]])
          /\ Len(items[x[1]]) \in Nat /\ Len(items[y[1]]) \in Nat
          /\ off[x[1]] \in Nat /\ off[y[1]] \in Nat
      BY <1>3, <1>4
    <3>2. off[x[1]] + Len(items[x[1]]) <= off[y[1]]
      BY <1>1, <2>1, <3>1 DEF Offsets
    <3>3. pos[x] = off[x[1]] + x[2] /\ pos[y] = off[y[1]] + y[2]
      BY <1>5
    <3> HIDE DEF pos
    <3> QED
      BY <3>1, <3>2, <3>3
  <2>2. p[1] \in Nat /\ q[1] \in Nat /\ pos[p] \in Nat /\ pos[q] \in Nat
    BY <1>2, <1>3, <1>4, <1>5
  <2>3. p[1] = q[1]
    BY <1>6, <2>1, <2>2
  <2>4. p[2] = q[2]
    <3>1. off[p[1]] \in Nat /\ p[2] \in Nat /\ q[2] \in Nat
      BY <1>3, <1>4
    <3> QED
      BY <1>5, <1>6, <2>3, <3>1
  <2> QED
    BY <1>4, <2>3, <2>4
<1>7. pos \in Injection(P, 1..n)
  <2>1. pos \in [P -> 1..n]
    BY <1>5
  <2> HIDE DEF pos
  <2> QED
    BY <1>6, <2>1 DEF Injection, IsInjective
<1>8. IsFiniteSet(1..n) /\ Cardinality(1..n) = n
  <2>1. n \in Nat
    BY <1>2
  <2> HIDE DEF n
  <2> QED
    BY <2>1, FS_Interval
<1> HIDE DEF pos
<1>9. IsFiniteSet(P) /\ Cardinality(P) \in Nat /\ Cardinality(P) <= n
  BY <1>7, <1>8, FS_Injection, FS_CardinalityType
<1>10. Cardinality(P) >= n
  BY DEF Processed, P, C
<1>11. Cardinality(P) = Cardinality(1..n)
  BY <1>2, <1>8, <1>9, <1>10
<1>12. pos \in Surjection(P, 1..n)
  BY <1>7, <1>8, <1>11, FS_Injection
<1>13. ASSUME NEW j \in 1..n PROVE \E r \in Visible : Norm[r.email] = Norm[collected[j]]
  <2>1. PICK p \in P : pos[p] = j
    BY <1>12 DEF Surjection
  <2>2. p[1] \in C /\ p[2] \in DOMAIN items[p[1]] /\ Kept(p[1])
    BY <1>3, <1>4
  <2>3. items[p[1]][p[2]] = collected[j]
    BY <1>5, <2>1
  <2> QED
    BY <2>2, <2>3 DEF Kept
<1> QED
  BY <1>2, <1>13 DEF AllStored

\* The tracker completes a job whose addresses are all counted, so all stored.
LEMMA CompleteKeeps == ASSUME PathInv, Complete PROVE PathInv' /\ UNCHANGED tableVars
<1>1. /\ pc = "answered" /\ job = "running" /\ Processed >= Len(collected)
      /\ job' = "completed" /\ UNCHANGED <<importVars, storeVars, pc, next>>
  BY DEF Complete
<1>2. UNCHANGED <<file, gone, line, emailColumn, seen, collected, items>> /\ gone' \in BOOLEAN
  BY <1>1 DEF importVars, storeVars, PathInv, ImportInv, ImportTypeOK
<1>3. ImportInv' /\ BatchesSound'
  BY <1>1, <1>2, ImportKept, BatchesKept DEF PathInv
<1>4. StoreInv' /\ Visible' = Visible /\ UNCHANGED tableVars
  BY <1>1, StoreKept DEF PathInv
<1>5. AllStored'
  BY <1>1, <1>2, <1>4, CountedIsStored, StoredKept
<1>6. RequestSound'
  BY <1>1, <1>2 DEF PathInv, RequestSound, EachReturns
<1> QED
  BY <1>3, <1>4, <1>5, <1>6 DEF PathInv

-----------------------------------------------------------------------------
(* Every step *)

\* Before the first row is read there is no job, no batch and no row.
LEMMA PathStarts == ASSUME Init PROVE PathInv /\ Table!Init
<1>1. ImportInv
  BY ImportStarts DEF Init
<1>2. StoreInv /\ Table!Init
  BY StoreStarts DEF Init
<1>3. \A t \in Txs : items[t] = << >>
  BY DEF Init, StoreInit
<1>4. RequestSound
  BY <1>3, EmptySeq DEF Init, ImportInit, RequestSound, RequestStates
<1>5. Handed = {}
  BY <1>3 DEF Handed
<1>6. BatchesSound
  <2>1. [t \in Txs |-> 0] \in [Txs -> Nat] /\ Offsets([t \in Txs |-> 0])
    BY <1>5 DEF Offsets
  <2>2. 0 \in Nat /\ Handed = 1..0
    BY <1>5
  <2> QED
    BY <2>1, <2>2 DEF BatchesSound
<1> QED
  BY <1>1, <1>2, <1>4, <1>6 DEF PathInv, Init

\* What the steps of the workers and of the readers leave alone.
LEMMA StoreSteps ==
    ASSUME PathInv, NEW t \in Txs, Work(t) \/ WorkFails(t)
    PROVE  PathInv' /\ Visible \subseteq Visible' /\ reader' = reader /\ [Table!Next]_tableVars
<1>1. StoreInv' /\ Visible \subseteq Visible' /\ [Table!Next]_tableVars
  BY TxRefines DEF PathInv, Work, WorkFails
<1>2. items' = items /\ reader' = reader
  BY DEF Work, WorkFails, TxStep, Begin, DrawId, PlaceRow, Commit, Count, Rollback,
         CommitUnheard, CountFails
<1>3. UNCHANGED <<importVars, pc, next>>
  BY DEF Work, WorkFails
<1>4. job' = job \/ (job' = "failed" /\ items[t] # << >>)
  <2>1. CASE Work(t)
    BY <2>1 DEF Work
  <2>2. CASE WorkFails(t)
    <3>1. Rollback(t) \/ stage[t] # "idle"
      BY <2>2 DEF WorkFails, CommitUnheard, CountFails
    <3>2. items[t] # << >>
      BY <3>1 DEF Rollback, PathInv, StoreInv, TxsSound, TxSound
    <3> QED
      BY <2>2, <3>2 DEF WorkFails
  <2> QED
    BY <2>1, <2>2
<1> QED
  BY <1>1, <1>2, <1>3, <1>4, PathKept

\* A reader changes nothing but itself.
LEMMA ReaderSteps ==
    ASSUME PathInv,
           \/ \E kind \in {"export", "client"}, filter \in Filters \cup {AnyStatus} :
                 Look(kind, filter)
           \/ Follow \/ LookFails
    PROVE  PathInv' /\ Visible' = Visible /\ [Table!Next]_tableVars
<1>1. StoreInv' /\ Visible' = Visible
  BY StartReaderKeeps, ReaderStepKeeps DEF PathInv, Look, Follow, LookFails
<1>2. /\ UNCHANGED <<items, txVars>> /\ UNCHANGED <<importVars, pc, next, job>>
  BY DEF Look, Follow, LookFails, StartReader, ReaderStep, ExportPage, Results, ExportFails
<1>3. [Table!Next]_tableVars
  BY <1>1, <1>2, ReaderRefines DEF PathInv
<1> QED
  BY <1>1, <1>2, <1>3, PathKept

\* Every step keeps the invariant, and is a step of ResultTable or changes no row.
LEMMA PathStep ==
    ASSUME PathInv, [Next]_vars
    PROVE  PathInv' /\ [Table!Next]_tableVars
<1>1. CASE RequestStep \/ Leave
  BY <1>1, RequestKeeps
<1>2. CASE \E t \in Txs : Work(t) \/ WorkFails(t)
  BY <1>2, StoreSteps
<1>3. CASE Complete
  BY <1>3, CompleteKeeps
<1>4. CASE \/ \E kind \in {"export", "client"}, filter \in Filters \cup {AnyStatus} :
                 Look(kind, filter)
           \/ Follow \/ LookFails
  BY <1>4, ReaderSteps
<1>5. CASE UNCHANGED vars
  <2>1. UNCHANGED <<importVars, storeVars, pc, next, job>> /\ items' = items
    BY <1>5 DEF vars, storeVars
  <2>2. StoreInv' /\ Visible' = Visible /\ UNCHANGED tableVars
    BY <2>1, StoreKept DEF PathInv
  <2> QED
    BY <2>1, <2>2, PathKept
<1> QED
  BY <1>1, <1>2, <1>3, <1>4, <1>5 DEF Next

-----------------------------------------------------------------------------
(* Theorems *)

\* The invariant of the upload, the batches, the table and the readers.
THEOREM PathInvariant == Spec => []PathInv
<1>1. Init => PathInv
  BY PathStarts
<1>2. PathInv /\ [Next]_vars => PathInv'
  BY PathStep
<1> QED
  BY <1>1, <1>2, PTL DEF Spec

\* Every variable of the path keeps its type, whatever the files, batches and readers:
\* in particular the cursor, the list and next stay within their bounds.
THEOREM DataTypes == Spec => []DataTypeOK
<1>1. PathInv => DataTypeOK
  BY DEF PathInv, ImportInv, StoreInv, RequestSound, DataTypeOK
<1> QED
  BY <1>1, PathInvariant, PTL

\* However many batches of a job are inserted at once, they never wait for each other's
\* rows in a circle, because DISTINCT ON hands each its keys in ascending order.
THEOREM InsertsNeverDeadlock == Spec => []NoCircularWait
<1>1. PathInv => NoCircularWait
  BY NoCircle DEF PathInv
<1> QED
  BY <1>1, PathInvariant, PTL

\* Paging by id returns nothing twice, and misses none of the rows that were committed
\* when the reader started, for every page size and every order of commits.
THEOREM PagingComplete == Spec => []OldRowsExported
<1>1. PathInv => OldRowsExported
  BY PagesComplete DEF PathInv
<1> QED
  BY <1>1, PathInvariant, PTL

\* BulkInsert, row by row and with waits, rollbacks and lost answers, implements the
\* atomic insert of ResultTable.
THEOREM BulkInsertIsAtomic == Spec => ImplementsResultTable
<1>1. Init => Table!Init
  BY PathStarts
<1>2. PathInv /\ [Next]_vars => [Table!Next]_<<items, Stored, Answers>>
  BY PathStep DEF tableVars
<1> QED
  BY <1>1, <1>2, PathInvariant, PTL DEF Spec, ImplementsResultTable, Table!Spec

\* A job exists only for a file that was read to its end, and it has the first of each
\* of the file's addresses in the file's order, although the client may leave at any
\* point of the loop.
THEOREM JobIsTheFile == Spec => []JobHoldsTheFile
<1>1. PathInv => JobHoldsTheFile
  <2> SUFFICES ASSUME PathInv, job # "absent"
               PROVE  ~file.broken /\ IsContentOf(collected, file)
    BY DEF JobHoldsTheFile
  <2>1. /\ ImportInv /\ file \in Files /\ line = Len(file.rows) /\ ~file.broken
    BY DEF PathInv, RequestSound, ImportInv, ImportTypeOK
  <2>2. Len(file.rows) \in Nat /\ AddressRows(file, Column) \subseteq 1..Len(file.rows)
    BY <2>1, FileFacts
  <2>3. FirstRows(file, Column) = Upto(line)
    BY <2>1, <2>2 DEF FirstRows, Upto
  <2>4. \A k : Upto(k) = {m \in FirstRows(file, Column) : m <= k}
    BY DEF Upto
  <2>5. /\ Len(collected) = Cardinality(FirstRows(file, Column))
        /\ \A k \in FirstRows(file, Column) :
              collected[Cardinality({m \in FirstRows(file, Column) : m <= k})] = Address(k)
    BY <2>1, <2>3, <2>4 DEF ImportInv
  <2> QED
    BY <2>1, <2>5 DEF IsContentOf, Column, Address
<1> QED
  BY <1>1, PathInvariant, PTL

-----------------------------------------------------------------------------
(* The export of a completed job *)

\* From the completion on: every address has its row, and whoever started to read
\* since then, without a filter, started with all of them.
Arrived ==
    /\ job # "absent" /\ AllStored
    /\ reader.state # "none" /\ reader.filter = AnyStatus =>
          \A i \in DOMAIN collected : \E r \in reader.base : Norm[r.email] = Norm[collected[i]]

\* Once every address has its row, no step takes one away or lets a reader miss it.
LEMMA ArrivedStays == ASSUME PathInv, Arrived, [Next]_vars PROVE Arrived'
<1>1. ASSUME job' # "absent", collected' = collected, reader' = reader, Visible \subseteq Visible'
      PROVE  Arrived'
  BY <1>1, StoredKept DEF Arrived
<1>2. CASE RequestStep \/ Leave \/ Complete \/ UNCHANGED vars
  <2>1. pc # "reading" /\ job # "absent"
    BY DEF Arrived, PathInv, RequestSound
  <2>2. collected' = collected /\ reader' = reader /\ table' = table /\ stage' = stage
    BY <1>2, <2>1
    DEF RequestStep, ReadFile, FileRead, Create, StartJob, SubmitBatch, SubmitFails,
        SubmitDone, Leave, ClientLeaves, Complete, vars, importVars, storeVars, txVars
  <2>3. job' # "absent"
    BY <1>2, <2>1
    DEF RequestStep, ReadFile, FileRead, Create, StartJob, SubmitBatch, SubmitFails,
        SubmitDone, Leave, Complete, vars
  <2>4. Visible' = Visible
    BY <2>2 DEF Visible
  <2> QED
    BY <1>1, <2>2, <2>3, <2>4
<1>3. CASE \E t \in Txs : Work(t) \/ WorkFails(t)
  <2>1. PICK t \in Txs : Work(t) \/ WorkFails(t)
    BY <1>3
  <2>2. Visible \subseteq Visible' /\ reader' = reader
    BY <2>1, StoreSteps
  <2>3. collected' = collected /\ job' # "absent"
    BY <2>1 DEF Work, WorkFails, importVars, Arrived
  <2> QED
    BY <1>1, <2>2, <2>3
<1>4. CASE \E kind \in {"export", "client"}, filter \in Filters \cup {AnyStatus} :
              Look(kind, filter)
  <2>1. PICK kind \in {"export", "client"}, filter \in Filters \cup {AnyStatus} :
           Look(kind, filter)
    BY <1>4
  <2>2. /\ reader'.filter = filter /\ reader'.base = Matching(filter)
        /\ collected' = collected /\ job' = job
    BY <2>1 DEF Look, StartReader, NoReader, importVars
  <2>3. Visible' = Visible
    BY <1>4, ReaderSteps
  <2>4. AllStored'
    BY <2>2, <2>3, StoredKept DEF Arrived
  <2>5. ASSUME reader'.filter = AnyStatus
        PROVE  \A i \in DOMAIN collected : \E r \in reader'.base : Norm[r.email] = Norm[collected[i]]
    <3>1. reader'.base = Visible
      BY <2>2, <2>5 DEF Matching
    <3> QED
      BY <3>1 DEF Arrived, AllStored
  <2> QED
    BY <2>2, <2>4, <2>5 DEF Arrived
<1>5. CASE Follow \/ LookFails
  <2>1. /\ reader.state = "reading" /\ collected' = collected /\ job' = job
        /\ reader'.filter = reader.filter /\ reader'.base = reader.base
    <3>1. reader \in [state : {"none", "reading", "done", "failed"},
                      kind : {"export", "client"}, filter : Filters \cup {AnyStatus},
                      cursor : Nat, out : Seq(Row), base : SUBSET Row]
      BY DEF PathInv, StoreInv, StoreTypeOK
    <3> QED
      BY <1>5, <3>1
      DEF Follow, LookFails, ReaderStep, ExportPage, Results, ExportFails, Turn, importVars
  <2>2. Visible' = Visible
    BY <1>5, ReaderSteps
  <2>3. AllStored'
    BY <2>1, <2>2, StoredKept DEF Arrived
  <2> QED
    BY <2>1, <2>3 DEF Arrived
<1> QED
  BY <1>2, <1>3, <1>4, <1>5 DEF Next

\* A row comes from a batch, a batch from the list, and the list from the file.
LEMMA RowsFromTheFile ==
    ASSUME PathInv, NEW r \in table
    PROVE  \E k \in AddressRows(file, Column) : r.email = Address(k)
<1>1. r.tx \in Txs
  BY DEF PathInv, StoreInv, StoreTypeOK, Row
<1>2. PICK i \in DOMAIN items[r.tx] : items[r.tx][i] = r.email
  BY <1>1 DEF PathInv, StoreInv, TxsSound, TxSound
<1>3. items[r.tx] \in Seq(Emails) /\ items[r.tx] # << >>
  BY <1>1, <1>2 DEF PathInv, StoreInv, StoreTypeOK
<1>4. r.tx \in Handed /\ Len(items[r.tx]) \in Nat /\ i \in 1..Len(items[r.tx])
  BY <1>1, <1>2, <1>3, LenProperties DEF Handed
<1>5. PICK off \in [Txs -> Nat] : Offsets(off)
  BY DEF PathInv, BatchesSound
<1>6. /\ off[r.tx] + Len(items[r.tx]) <= next /\ off[r.tx] \in Nat
      /\ r.email = collected[off[r.tx] + i]
  BY <1>1, <1>2, <1>4, <1>5 DEF Offsets
<1>7. next \in 0..Len(collected) /\ collected \in Seq(Emails)
  BY DEF PathInv, RequestSound, ImportInv
<1>8. Len(collected) \in Nat /\ DOMAIN collected = 1..Len(collected)
  BY <1>7, LenProperties
<1>9. off[r.tx] + i \in DOMAIN collected
  BY <1>4, <1>6, <1>7, <1>8
<1> QED
  BY <1>6, <1>9 DEF PathInv, ImportInv

\* A reader that has come to the end has the keys of the file and no others.
LEMMA ExportComplete ==
    ASSUME PathInv, Arrived, reader.state = "done", reader.filter = AnyStatus
    PROVE  {Norm[reader.out[i].email] : i \in DOMAIN reader.out}
              = {Norm[CellAt(file.rows[k], FileColumn(file))] :
                    k \in AddressRows(file, FileColumn(file))}
<1>1. Seen \subseteq table /\ reader.base \subseteq Seen
  BY DEF PathInv, StoreInv, ReaderSound, Visible
<1>2. ASSUME NEW i \in DOMAIN reader.out
      PROVE  \E k \in AddressRows(file, Column) : Norm[reader.out[i].email] = Norm[Address(k)]
  <2>1. reader.out[i] \in table
    BY <1>1 DEF Seen
  <2> QED
    BY <2>1, RowsFromTheFile
<1>3. ASSUME NEW k \in AddressRows(file, Column)
      PROVE  \E i \in DOMAIN reader.out : Norm[reader.out[i].email] = Norm[Address(k)]
  <2>1. file \in Files /\ line = Len(file.rows) /\ collected \in Seq(Emails)
    BY DEF Arrived, PathInv, RequestSound, ImportInv, ImportTypeOK
  <2>2. k \in 1..Len(file.rows) /\ Len(file.rows) \in Nat /\ Address(k) \in Emails
    BY <2>1, FileFacts
  <2>3. k <= line
    BY <2>1, <2>2
  <2>4. Lower[Address(k)] \in seen
    BY <2>3 DEF PathInv, ImportInv
  <2>5. PICK j \in DOMAIN collected : Lower[collected[j]] = Lower[Address(k)]
    BY <2>4 DEF PathInv, ImportInv
  <2>6. collected[j] \in Emails
    BY <2>1, <2>5, LenProperties
  <2>7. Norm[collected[j]] = Norm[Address(k)]
    BY <2>2, <2>5, <2>6, AddressesAssumption
  <2>8. PICK r \in reader.base : Norm[r.email] = Norm[collected[j]]
    BY DEF Arrived
  <2>9. r \in Seen
    BY <1>1
  <2>10. PICK i \in DOMAIN reader.out : reader.out[i] = r
    BY <2>9 DEF Seen
  <2> QED
    BY <2>7, <2>8, <2>10
<1> QED
  BY <1>2, <1>3 DEF Column, Address

\* Whoever exports a completed job gets one row for every address of the file's column,
\* up to normalization, and no other, for every file, batch size and page size and
\* every order in which the batches were stored.
THEOREM ExportIsExact == Spec => ExportIsTheUpload
<1>1. PathInv /\ job = "completed" /\ reader.state = "none" => Arrived
  BY DEF PathInv, Arrived
<1>2. PathInv /\ Arrived /\ [Next]_vars => Arrived'
  BY ArrivedStays
<1>3. PathInv /\ Arrived =>
         (reader.state = "done" /\ reader.filter = AnyStatus =>
            {Norm[reader.out[i].email] : i \in DOMAIN reader.out}
                = {Norm[CellAt(file.rows[k], FileColumn(file))] :
                      k \in AddressRows(file, FileColumn(file))})
  BY ExportComplete
<1> QED
  BY <1>1, <1>2, <1>3, PathInvariant, PTL DEF Spec, ExportIsTheUpload
=============================================================================
