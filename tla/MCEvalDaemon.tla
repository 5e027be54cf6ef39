---------------------------- MODULE MCEvalDaemon ----------------------------
(***************************************************************************)
(* Small instances of EvalDaemon and of its refinement for TLC.            *)
(***************************************************************************)
EXTENDS EvalRefinement, TLC

CONSTANTS b1, b2, b3, id

(* b1 and b2 are two texts with one Message-ID, b3 has none.               *)
MCMessageIDOf == [b \in Bodies |-> IF b \in {b1, b2} THEN id ELSE None]

(* "inbox" has rules, "empty" has none, "gone" is not configured.          *)
MCGroups(inbox) == [g \in GroupNames \ {"gone"} |->
                      IF g = "inbox" THEN inbox ELSE <<>>]
MCOneRule  == MCGroups(<<"r1">>)
MCTwoRules == MCGroups(<<"r1", "r2">>)

Symmetry == Permutations(Conns)
=============================================================================
