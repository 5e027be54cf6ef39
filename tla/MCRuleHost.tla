----------------------------- MODULE MCRuleHost -----------------------------
(***************************************************************************)
(* Small instances of RuleHost for TLC.                                    *)
(***************************************************************************)
EXTENDS RuleHost

CONSTANTS b1, b2, b3, b4

(* Three of the texts are too many for the cache, the fourth is too big.   *)
MCSizeOf == [b \in Keys |-> CASE b \in {b1, b2} -> 1 [] b = b3 -> 2 [] b = b4 -> 5]

(* The fourth text has the Message-ID of the first.                        *)
MCstoreID == [b \in Keys |-> IF b = b4 THEN b1 ELSE b]

(* One group: a rule that may call addRules, two rules of two scripts that *)
(* are sent all texts, a rule with no function.                            *)
MCWorkloads == {
  [texts |-> {b2}, runtimes |-> {1},    rules |-> <<<<<<1, "function">>>>>>],
  [texts |-> Keys,     runtimes |-> {1, 2}, rules |-> <<<<<<1, "function">>, <<2, "function">>>>>>],
  [texts |-> {b1},     runtimes |-> {2},    rules |-> <<<<<<2, "missing">>>>>>]}

Names == Permutations(RuleNames)
=============================================================================
