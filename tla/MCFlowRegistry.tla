--------------------------- MODULE MCFlowRegistry ---------------------------
(***************************************************************************)
(* FlowRegistry on small instances for TLC.  The flows are interchangeable *)
(* model values, so permuting them is a symmetry; it is used for           *)
(* invariants only.                                                        *)
(***************************************************************************)
EXTENDS FlowRegistry, TLC

FlowSymmetry == Permutations(Flows)

=============================================================================
