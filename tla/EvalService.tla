---------------------------- MODULE EvalService ----------------------------
(***************************************************************************)
(* What the eval command promises, whatever its handlers do in between:    *)
(*   - whether a message is sampled is decided once, and for good;         *)
(*   - the evaluation of a message that has been decided on is journaled   *)
(*     at most once for each request, and the journal is never rewritten;  *)
(*   - a request is answered at most once, and with a success only after   *)
(*     its evaluation is journaled, with the very result journaled.        *)
(* An error answer promises nothing: the evaluation may be journaled.      *)
(***************************************************************************)
CONSTANTS Conns, Messages, Results, Failure, None

VARIABLES
  decision, (* message -> its sampling decision, or None                   *)
  journal,  (* request -> the message evaluated and the result, or None    *)
  answer    (* request -> the result the client was told, or None          *)

vars == <<decision, journal, answer>>

Init == /\ decision = [m \in Messages |-> None]
        /\ journal  = [c \in Conns |-> None]
        /\ answer   = [c \in Conns |-> None]

Decide(m) == /\ decision[m] = None
             /\ \E sampled \in BOOLEAN :
                  decision' = [decision EXCEPT ![m] = sampled]
             /\ UNCHANGED <<journal, answer>>

Journal(c) == /\ journal[c] = None
              /\ answer[c] = None
              /\ \E m \in Messages, r \in Results :
                   /\ decision[m] # None
                   /\ journal' = [journal EXCEPT
                                    ![c] = [message |-> m, result |-> r]]
              /\ UNCHANGED <<decision, answer>>

Succeed(c) == /\ answer[c] = None
              /\ journal[c] # None
              /\ answer' = [answer EXCEPT ![c] = journal[c].result]
              /\ UNCHANGED <<decision, journal>>

Fail(c) == /\ answer[c] = None
           /\ answer' = [answer EXCEPT ![c] = Failure]
           /\ UNCHANGED <<decision, journal>>

Next == \/ \E m \in Messages : Decide(m)
        \/ \E c \in Conns : Journal(c) \/ Succeed(c) \/ Fail(c)

Spec == Init /\ [][Next]_vars
=============================================================================
