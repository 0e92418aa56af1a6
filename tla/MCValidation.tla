----------------------------- MODULE MCValidation -----------------------------
(***************************************************************************)
(* Instances of Validation for TLC.                                        *)
(***************************************************************************)
EXTENDS Validation, TLC

CONSTANTS good, near, badtld, spaced

\* config/defaults.go
MCWeights == [syntax |-> 30, tld |-> 10, mx |-> 35, aFallback |-> 15,
              disposable |-> -60, role |-> -15, typo |-> -10]

MCTrim == [d \in {good, near, badtld, spaced} |-> IF d = spaced THEN good ELSE d]

\* The forms Syntax refuses never come to a stage that looks at the rest; an address
\* for ParseAddress, with quotes or a space before the domain, goes the way of a plain
\* one, but for the space.
MCShapes ==
    {sh \in AllShapes :
        /\ sh.form \in {"blank", "no_at", "malformed", "display"} =>
              sh.domain = good /\ ~sh.role
        /\ sh.form = "plain" => sh.domain # spaced
        /\ sh.form = "parsed" => sh.domain \in {good, spaced} /\ ~sh.role}

\* Two letters are enough to insert, drop, replace, keep and swap.
MCWords == UNION {[1..n -> {1, 2}] : n \in 0..4}
MCCommonDomains == <<<<1, 2, 1, 2, 1>>, <<2, 2>>, <<1, 1, 1>>, <<2, 1, 2, 1>>>>
MCSpelling == (good :> <<1, 2, 1, 2, 1>>) @@ (near :> <<1, 2, 2, 1, 1>>)
              @@ (badtld :> <<3, 3, 3, 3, 3, 3>>) @@ (spaced :> <<3, 1, 2, 1, 2, 1>>)

\* good is known to every source but an empty table.
MCBodies == {{good}}
MCTables == {{}, {good}}
MCSeedChunks == <<{near}>>
=============================================================================
