---------------------------- MODULE TagCoherence ----------------------------
(***************************************************************************)
(* Tags live twice: in the Message object, where rules read and change     *)
(* them, and in table tag, where RecordEval writes the changes after the   *)
(* rules have run.  Nothing locks the two together.  This module adds to   *)
(* EvalDaemon a history variable that remembers the messages whose copies  *)
(* the design lets drift apart, and states that no other message's do.     *)
(***************************************************************************)
EXTENDS EvalDaemon

VARIABLE tainted (* store IDs whose cached tags need not match the stored  *)

(* The Message objects of a store ID that are cached or in a handler's     *)
(* hands.                                                                  *)
Objects(s) == {cache[b] : b \in {x \in Bodies : cache[x] # None /\ toStoreID(x) = s}}
              \cup {msg[c] : c \in {x \in Conns : Loaded(x) /\ storeID(x) = s}}

InFlight(s) == {c \in Conns : Loaded(c) /\ storeID(c) = s}

(* Two handlers evaluate the message at once: they change the object in    *)
(* one order and may write the table in another.                           *)
Overlaps(s) == \E c, d \in InFlight(s) : c # d

(* Two objects for one message: two texts carry its Message-ID, or it was  *)
(* evicted under a handler and loaded again.                               *)
Forked(s) == \E o, p \in Objects(s) : o # p

(* The object kept changes that RecordEval failed to store.                *)
Unsaved(s) == \E c \in Conns : /\ pc[c] = "done"
                               /\ storeID(c) = s
                               /\ \E i \in DOMAIN recs[c] : recs[c][i].changes # <<>>
                               /\ ~ FullyRecorded(c)

Drifting == {s \in StoreIDs : Overlaps(s) \/ Forked(s) \/ Unsaved(s)}

TagInit == Init /\ tainted = {}
TagNext == Next /\ tainted' = tainted \cup Drifting'
TagSpec == TagInit /\ [][TagNext]_<<vars, tainted>>

(* For any other message nobody is evaluating, the cached Message has      *)
(* exactly the tags a reload from the database would give it: evicting it  *)
(* or restarting the daemon changes no rule's view of it.                  *)
TagsCoherent ==
  \A b \in Bodies :
    LET s == toStoreID(b) IN
    cache[b] # None /\ s \notin tainted /\ InFlight(s) = {}
      => object[cache[b]].tags = tag[s]
=============================================================================
