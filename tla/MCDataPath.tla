------------------------------ MODULE MCDataPath ------------------------------
(***************************************************************************)
(* An instance of DataPath for TLC.  addr_A is addr_a in capitals and      *)
(* addr_sp_a is addr_a after a space; addr_a2 is another address that      *)
(* normalizes like addr_a (a dot in a Gmail name), addr_b2 like addr_b.    *)
(***************************************************************************)
EXTENDS DataPath

CONSTANTS addr_a, addr_A, addr_sp_a, addr_a2, addr_b, addr_b2,
          plain_text, header_word, cell_space

MCWithAt == {addr_a, addr_A, addr_sp_a, addr_a2, addr_b, addr_b2}
MCCells == MCWithAt \cup {plain_text, header_word, cell_space, Blank}
MCTrimmed == [c \in Cells |-> CASE c = addr_sp_a -> addr_a [] c = cell_space -> Blank [] OTHER -> c]
MCLower == [c \in Cells |-> IF c = addr_A THEN addr_a ELSE c]
MCEmails == {addr_a, addr_A, addr_a2, addr_b, addr_b2, plain_text, header_word}
MCNorm == [e \in Emails |-> CASE e \in {addr_a, addr_A, addr_a2} -> 1 [] e \in {addr_b, addr_b2} -> 2
                               [] e = plain_text -> 3 [] e = header_word -> 4]
MCVerdict == [e \in Emails |-> IF e \in {addr_b, addr_b2} THEN "invalid" ELSE "risky"]

Whole(rows) == [rows |-> rows, broken |-> FALSE]

\* Two batches whose keys cross; a header and spaces; a header whose first column is
\* not the address; the column of the first row, and a shorter row; a file that
\* breaks off; no address at all.
MCFiles ==
    {Whole(<<<<addr_a>>, <<addr_b>>, <<addr_A>>, <<addr_b2>>, <<addr_a2>>>>),
     Whole(<<<<header_word>>, <<addr_sp_a>>, <<cell_space>>, <<addr_b>>, <<addr_a>>>>),
     Whole(<<<<plain_text, header_word>>, <<plain_text, addr_a>>>>),
     Whole(<<<<plain_text, addr_b>>, <<addr_a>>, <<plain_text, addr_a>>>>),
     [rows |-> <<<<addr_a>>, <<addr_b>>>>, broken |-> TRUE],
     Whole(<<<<cell_space>>>>)}
=============================================================================
