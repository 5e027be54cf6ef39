---------------------------- MODULE MessageView ----------------------------
(***************************************************************************)
(* What a rule reads from the message it is given: the getters that        *)
(* jsMessagePrototype (cmd/reeed/rule/message.go) defines.  A value is     *)
(* named by where it comes from, the text and the header or part of it;    *)
(* what that is converted to is left out.                                  *)
(***************************************************************************)
EXTENDS Sequences

stringHeaderProps == <<[prop |-> "id", header |-> "Message-Id"],
                       [prop |-> "subject", header |-> "Subject"]>>

(* The getters of the string headers share the variable of the loop that   *)
(* defines them: when they run it has the last header of the table.        *)
loopHeader == stringHeaderProps[Len(stringHeaderProps)].header

Part(p) == IF \E i \in DOMAIN stringHeaderProps : stringHeaderProps[i].prop = p
           THEN loopHeader
           ELSE p

(* The value of property p of a message with text b.                       *)
Get(b, p) == [text |-> b, part |-> Part(p)]
=============================================================================
