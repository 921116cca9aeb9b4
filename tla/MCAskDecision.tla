--------------------------- MODULE MCAskDecision ----------------------------
(***************************************************************************)
(* AskDecision on small instances for TLC.  Flows are interchangeable: the *)
(* flow of one ask can be fixed.                                           *)
(***************************************************************************)
EXTENDS AskDecision

CONSTANTS a1, f1

MCInit == Init /\ flowOf[a1] = f1

MCSpec == MCInit /\ [][Next]_vars /\ Fairness

=============================================================================
