--------------------------- MODULE MCTagCoherence ---------------------------
(***************************************************************************)
(* A small instance of TagCoherence for TLC.                               *)
(***************************************************************************)
EXTENDS TagCoherence, TLC

CONSTANTS b1, b2, id

MCMessageIDOf == [b \in Bodies |-> id]
MCOneRule == [g \in {"inbox"} |-> <<"r1">>]

Symmetry == Permutations(Conns)
=============================================================================
