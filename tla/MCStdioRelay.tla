---------------------------- MODULE MCStdioRelay ----------------------------
(***************************************************************************)
(* StdioRelay on a small instance for TLC: one client sends three lines,   *)
(* the others none.                                                        *)
(***************************************************************************)
EXTENDS StdioRelay

CONSTANT s1

MCMaxLines == [s \in Sessions |-> IF s = s1 THEN 3 ELSE 0]

=============================================================================
