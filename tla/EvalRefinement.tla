--------------------------- MODULE EvalRefinement ---------------------------
(***************************************************************************)
(* EvalDaemon implements EvalService.  The decisions are the rows of table *)
(* message; an evaluation is journaled from the moment its last row is in  *)
(* the database, whether or not the handler lives to say so.               *)
(***************************************************************************)
EXTENDS EvalDaemon

journaled ==
  [c \in Conns |-> IF FullyRecorded(c)
                   THEN [message |-> storeID(c), result |-> result(recs[c])]
                   ELSE None]

(* An evaluation that is journaled is not one that is not.                 *)
ASSUME JournalAssumption == None \notin [message : StoreIDs, result : Reply]

Service == INSTANCE EvalService WITH
             Messages <- StoreIDs,
             Results  <- Reply,
             Failure  <- Error,
             decision <- message,
             journal  <- journaled,
             answer   <- reply

(* Every step of the handlers, the store and a crash is a step of the      *)
(* promised service or leaves it alone.                                    *)
ImplementsService == Service!Spec
=============================================================================
