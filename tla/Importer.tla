------------------------------- MODULE Importer -------------------------------
(***************************************************************************)
(* POST /import/csv up to the job (handlers/import.go, importer/csv.go,    *)
(* importer/dedup.go): one request reads the uploaded file row by row,     *)
(* keeps the first occurrence of every address, and only then creates the  *)
(* job, with the total it counted.  The client may go away at any moment,  *)
(* and the file may stop being readable.                                   *)
(*                                                                         *)
(* A cell of the file is what the code tells apart: whether it has an @,   *)
(* whether it is one of the words of a header, and what TrimSpace and      *)
(* ToLower make of it.                                                     *)
(***************************************************************************)
EXTENDS Integers, Sequences, FiniteSets

CONSTANTS
    Cells,         \* texts between two separators
    WithAt,        \* the cells with an @
    HeaderWords,   \* the cells that read email, e-mail, mail or address
    Blank,         \* the empty text
    Trimmed,       \* Trimmed[c]: strings.TrimSpace
    Lower,         \* Lower[c]: strings.ToLower
    Files          \* [rows, broken]: the uploads of the instance

ASSUME CellsAssumption ==
    /\ Blank \in Cells /\ WithAt \subseteq Cells \ {Blank} /\ HeaderWords \subseteq Cells
    /\ Trimmed \in [Cells -> Cells] /\ Lower \in [Cells -> Cells]
    /\ \A c \in Cells : Trimmed[Trimmed[c]] = Trimmed[c] /\ (Lower[c] = Blank => c = Blank)

\* encoding/csv skips empty lines itself, and with LazyQuotes and a free number of
\* fields no line is refused: its only errors are those of the file underneath.
ASSUME FilesAssumption ==
    \A f \in Files :
        /\ f.rows \in Seq(Seq(Cells) \ {<< >>})
        /\ f.broken \in BOOLEAN     \* reading past the last row fails, and goes on failing

VARIABLES
    file,          \* the upload
    gone,          \* r.Context() is done
    line,          \* rows read
    emailColumn,   \* Reader.emailColumn, 0 before the first row (-1 in the code)
    seen,          \* Dedup.m
    collected      \* the addresses kept

importVars == <<file, gone, line, emailColumn, seen, collected>>

ImportTypeOK ==
    /\ file \in Files /\ gone \in BOOLEAN
    /\ line \in 0..Len(file.rows) /\ emailColumn \in Nat
    /\ seen \subseteq Cells /\ collected \in Seq(Cells)

ImportInit ==
    /\ file \in Files /\ gone = FALSE
    /\ line = 0 /\ emailColumn = 0 /\ seen = {} /\ collected = << >>

\* The client closes the connection.
ClientLeaves ==
    /\ ~gone /\ gone' = TRUE
    /\ UNCHANGED <<file, line, emailColumn, seen, collected>>

-----------------------------------------------------------------------------
(* Reader.Each *)

First(S) == CHOOSE i \in S : \A k \in S : i <= k

\* Columns count from 1 here.
pickEmailColumn(row) ==
    LET found == {i \in 1..Len(row) : row[i] \in WithAt}
    IN  IF found = {} THEN 1 ELSE First(found)

isHeader(row) == \E i \in 1..Len(row) : Lower[Trimmed[row[i]]] \in HeaderWords

\* The cell that column col stands for: a row that is too short gives its first.
CellAt(row, col) == Trimmed[row[IF col > Len(row) THEN 1 ELSE col]]

\* Dedup.SeenOrAdd, and what the handler does with its answer.
SeenOrAdd(email) ==
    /\ seen' = seen \cup {Lower[email]}
    /\ collected' = IF Lower[email] \in seen THEN collected ELSE Append(collected, email)

\* One turn of the loop that gets a row.
ReadRow ==
    /\ ~gone /\ line < Len(file.rows)
    /\ LET row   == file.rows[line + 1]
           first == emailColumn = 0
           col   == IF first THEN pickEmailColumn(row) ELSE emailColumn
           email == CellAt(row, col)
       IN  /\ emailColumn' = col
           /\ IF (first /\ isHeader(row)) \/ email = Blank
              THEN UNCHANGED <<seen, collected>>
              ELSE SeenOrAdd(email)
    /\ line' = line + 1
    /\ UNCHANGED <<file, gone>>

\* Each returns: at the end of the file, or because the context is done.  A file
\* that fails to read is neither: the loop takes the error for a line to skip.
EachReturns == gone \/ (line = Len(file.rows) /\ ~file.broken)

-----------------------------------------------------------------------------
(* What a file holds, without the loop. *)

\* The rows that hold an address.
AddressRows(f, col) ==
    {k \in 1..Len(f.rows) :
        CellAt(f.rows[k], col) # Blank /\ ~(k = 1 /\ isHeader(f.rows[1]))}

\* Of the rows whose addresses differ only in their case, the first one counts.
FirstRows(f, col) ==
    LET key(k) == Lower[CellAt(f.rows[k], col)]
    IN  {k \in AddressRows(f, col) :
            ~\E m \in AddressRows(f, col) : m < k /\ key(m) = key(k)}

FileColumn(f) == IF f.rows = << >> THEN 1 ELSE pickEmailColumn(f.rows[1])

\* The address of every first row, in the order of the rows.
IsContentOf(list, f) ==
    LET K == FirstRows(f, FileColumn(f))
    IN  /\ Len(list) = Cardinality(K)
        /\ \A k \in K :
              list[Cardinality({m \in K : m <= k})] = CellAt(f.rows[k], FileColumn(f))
=============================================================================
