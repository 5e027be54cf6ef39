------------------------- MODULE EvalDaemon_proofs -------------------------
(***************************************************************************)
(* What holds of the eval command for every set of connections, texts,     *)
(* groups, rules and tags: the type invariant, the three properties the    *)
(* cache and the lock of the daemon are there for, and that the command    *)
(* implements the service of EvalService: every step of the handlers, the  *)
(* store and a crash is one of the service's steps or changes nothing of   *)
(* it.                                                                     *)
(***************************************************************************)
EXTENDS EvalRefinement, SequenceTheorems, TLAPS

(* Stages in which the handler has no Message yet.                         *)
Unloaded == {"idle", "input", "lookup", "prepare", "meta", "put"}

(* Stages that follow the check of the group's name.                       *)
Admitted == {"lookup", "prepare", "meta", "put", "eval", "begin", "group",
             "rows"}

(* The request is there once it is received, and names a group once the    *)
(* arguments are checked.                                                  *)
Requested ==
  \A c \in Conns : /\ pc[c] # "idle" => req[c] \in Requests
                   /\ pc[c] \in Admitted => req[c].group \in DOMAIN Groups

(* The loop over the rules starts with no record, and has a rule left to   *)
(* run for as long as it goes on.                                          *)
RuleIsLeft ==
  \A c \in Conns : /\ pc[c] \in Unloaded => recs[c] = <<>>
                   /\ pc[c] = "eval" => Len(recs[c]) < Len(rules(c))

(* The rows written are those of the first rules, and of the last of them  *)
(* no more tag changes are stored than there are.                          *)
Written ==
  \A c \in Conns :
    /\ pc[c] \in Unloaded \cup {"eval", "begin", "group"} => ruleEval[c] = <<>>
    /\ Len(ruleEval[c]) <= Len(recs[c])
    /\ ruleEval[c] # <<>> =>
         tagDone[c] <= Len(recs[c][Len(ruleEval[c])].changes)

(* A handler allocates its Message when it loads the message, not before.  *)
Allocated == \A c \in Conns : pc[c] \in Unloaded => object[c] = None

(* The lookup in the store and the insert hold the lock, and while they do *)
(* the text stays out of the cache.                                        *)
HoldsLock ==
  \A c \in Conns : pc[c] \in {"meta", "put"} =>
    lock = c /\ cache[req[c].body] = None

(* The Messages handlers work on and the cache holds are allocated.        *)
Valid ==
  /\ \A c \in Conns : Loaded(c) => msg[c] # None /\ object[msg[c]] # None
  /\ \A b \in Bodies : cache[b] # None => object[cache[b]] # None

Support == Requested /\ RuleIsLeft /\ Written /\ Allocated /\ Valid

IInv == TypeOK /\ Support /\ HoldsLock /\ SampledAgrees

-----------------------------------------------------------------------------
(* Facts about the operators                                               *)

(* A request runs rules the configuration knows.                           *)
LEMMA RulesType ==
  ASSUME NEW c \in Conns, req[c] \in Requests, req[c].group \in DOMAIN Groups
  PROVE  rules(c) \in Seq(RuleNames)
<1> DEFINE all == Groups[req[c].group]
<1>1. all \in Seq(RuleNames)
  BY ConstantsAssumption
<1>2. ASSUME NEW i \in DOMAIN all, all[i] = req[c].rule
      PROVE  <<req[c].rule>> \in Seq(RuleNames)
  BY <1>1, <1>2
<1> QED
  BY <1>1, <1>2 DEF rules

(* An error reply is a reply.                                              *)
LEMMA ErrorType == Error \in Reply
BY DEF Error, Reply

(* What a handler that moves on to another stage changes keeps its type.   *)
LEMMA GotoType ==
  ASSUME TypeOK, NEW c \in Conns, NEW l \in Stages, Goto(c, l)
  PROVE  pc' \in [Conns -> Stages]
BY DEF TypeOK, Goto

(* So does what one changes that replies and leaves.                       *)
LEMMA FinishType ==
  ASSUME TypeOK, NEW c \in Conns, NEW r \in Reply, Finish(c, r)
  PROVE  /\ pc' \in [Conns -> Stages]
         /\ reply' \in [Conns -> Reply \cup {None}]
<1>1. pc' \in [Conns -> Stages]
  BY GotoType DEF Finish, Stages
<1>2. reply' \in [Conns -> Reply \cup {None}]
  BY DEF TypeOK, Finish
<1> QED
  BY <1>1, <1>2

(* So does what one changes that starts on the rules of its group.         *)
LEMMA StartRulesType ==
  ASSUME TypeOK, NEW c \in Conns, NEW m \in Conns, StartRules(c, m)
  PROVE  /\ pc' \in [Conns -> Stages]
         /\ msg' \in [Conns -> Conns \cup {None}]
<1>1. pc' \in [Conns -> Stages]
  BY GotoType DEF StartRules, Stages
<1>2. msg' \in [Conns -> Conns \cup {None}]
  BY DEF TypeOK, StartRules
<1> QED
  BY <1>1, <1>2

(* So does what one changes that puts a Message in the cache.              *)
LEMMA CacheMessageType ==
  ASSUME TypeOK, NEW c \in Conns, NEW m \in Message, CacheMessage(c, m)
  PROVE  /\ pc' \in [Conns -> Stages]
         /\ msg' \in [Conns -> Conns \cup {None}]
         /\ lock' \in Conns \cup {None}
         /\ cache' \in [Bodies -> Conns \cup {None}]
         /\ object' \in [Conns -> Message \cup {None}]
<1>1. /\ pc' \in [Conns -> Stages]
      /\ msg' \in [Conns -> Conns \cup {None}]
  BY StartRulesType DEF CacheMessage
<1>2. cache' \in [Bodies -> Conns \cup {None}]
  BY DEF TypeOK, CacheMessage
<1>3. object' \in [Conns -> Message \cup {None}]
  BY DEF TypeOK, CacheMessage
<1>4. lock' \in Conns \cup {None}
  BY DEF CacheMessage
<1> QED
  BY <1>1, <1>2, <1>3, <1>4

(* What a rule does to a tag leaves every other part of every Message as   *)
(* it was.                                                                 *)
LEMMA ChangeTagObject ==
  ASSUME TypeOK, Valid, NEW c \in Conns, NEW k \in TagKeys,
         NEW v \in TagValues \cup {None}, ChangeTag(c, k, v)
  PROVE  /\ object' \in [Conns -> Message \cup {None}]
         /\ \A o \in Conns : /\ object'[o] = None <=> object[o] = None
                             /\ object[o] # None =>
                                  object'[o].sampled = object[o].sampled
<1> DEFINE m == msg[c]
<1>1. m \in Conns /\ object[m] \in Message
  BY DEF TypeOK, Valid, Loaded, ChangeTag
<1> DEFINE new == [object[m] EXCEPT !.tags[k] = v]
<1>2. new \in Message /\ new.sampled = object[m].sampled
  BY <1>1 DEF Message, Tags
<1>3. object' = [object EXCEPT ![m] = new]
  BY DEF ChangeTag
<1>4. new # None
  BY <1>2, NoneAssumption DEF Message, Tags
<1> HIDE DEF new, m
<1>5. object'[m] = new /\ \A o \in Conns \ {m} : object'[o] = object[o]
  BY <1>1, <1>3 DEF TypeOK
<1>6. object[m] # None
  BY <1>1, NoneAssumption DEF Message, Tags
<1>7. object' \in [Conns -> Message \cup {None}]
  BY <1>2, <1>3 DEF TypeOK
<1> QED
  BY <1>2, <1>4, <1>5, <1>6, <1>7

(* So do the changes of a rule when it changes a tag once more.            *)
LEMMA ChangesType ==
  ASSUME TypeOK, NEW c \in Conns, NEW k \in TagKeys,
         NEW v \in TagValues \cup {None}, ChangeTag(c, k, v)
  PROVE  changes' \in [Conns -> Seq(TagChange)]
<1> DEFINE tc == [key |-> k, value |-> v]
<1>1. tc \in TagChange
  BY DEF TagChange
<1>2. Append(changes[c], tc) \in Seq(TagChange)
  BY <1>1 DEF TypeOK
<1> QED
  BY <1>2 DEF TypeOK, ChangeTag

-----------------------------------------------------------------------------
(* Type correctness                                                        *)

(* The first state has the types.                                          *)
LEMMA TypeInit == Init => TypeOK
BY ConstantsAssumption, NoneAssumption DEF Init, TypeOK, Stages, Tags

(* A handler that loads a message allocates it with the sampling flag the  *)
(* store then holds.                                                       *)
LEMMA LoadedMessage ==
  ASSUME TypeOK, Requested, NEW c \in Conns, GetMetadata(c) \/ PutMessage(c)
  PROVE  \E m \in Message : /\ CacheMessage(c, m)
                            /\ m.sampled = message'[storeID(c)]
<1>1. storeID(c) \in StoreIDs
  BY DEF GetMetadata, PutMessage, Requested, Requests, storeID, StoreIDs
<1>2. CASE GetMetadata(c)
  <2>1. PICK read \in Yielded(TagKeys) :
          CacheMessage(c, [sampled |-> message[storeID(c)],
                           tags    |-> [k \in TagKeys |->
                                          IF k \in read THEN tag[storeID(c)][k]
                                          ELSE None]])
    BY <1>2 DEF GetMetadata
  <2> DEFINE m == [sampled |-> message[storeID(c)],
                   tags    |-> [k \in TagKeys |->
                                  IF k \in read THEN tag[storeID(c)][k]
                                  ELSE None]]
  <2>2. m \in Message
    BY <1>1, <1>2 DEF GetMetadata, TypeOK, Message, Tags
  <2>3. m.sampled = message'[storeID(c)]
    BY <1>2 DEF GetMetadata, tables
  <2> QED
    BY <2>1, <2>2, <2>3
<1>3. CASE PutMessage(c)
  <2>1. PICK sampled \in BOOLEAN :
          /\ message' = [message EXCEPT ![storeID(c)] = sampled]
          /\ CacheMessage(c, [sampled |-> sampled,
                              tags    |-> [k \in TagKeys |-> None]])
    BY <1>3 DEF PutMessage
  <2> DEFINE m == [sampled |-> sampled, tags |-> [k \in TagKeys |-> None]]
  <2>2. m \in Message
    BY DEF Message, Tags
  <2>3. m.sampled = message'[storeID(c)]
    BY <1>1, <2>1 DEF TypeOK
  <2> QED
    BY <2>1, <2>2, <2>3
<1> QED
  BY <1>2, <1>3

(* None is no Message.                                                     *)
LEMMA MessageIsNotNone == \A m \in Message : m # None
BY NoneAssumption DEF Message, Tags

(* The error reply of a handler that changes nothing else.                 *)
LEMMA FailType ==
  ASSUME TypeOK, NEW c \in Conns, Finish(c, Error), lock' \in {lock, None},
         UNCHANGED <<req, msg, changes, recs, tagDone, cache, object, tables,
                     crashes>>
  PROVE  TypeOK'
<1>1. /\ pc' \in [Conns -> Stages]
      /\ reply' \in [Conns -> Reply \cup {None}]
  BY FinishType, ErrorType
<1> QED
  BY <1>1 DEF TypeOK, tables

(* A rule that returns keeps the type invariant.                           *)
LEMMA RuleReturnsType ==
  ASSUME TypeOK, Requested, RuleIsLeft, NEW c \in Conns,
         NEW match \in BOOLEAN, NEW err \in BOOLEAN, RuleReturns(c, match, err)
  PROVE  TypeOK'
<1> DEFINE i == Len(recs[c]) + 1
           r == [rule |-> rules(c)[i], match |-> match, err |-> err,
                 changes |-> changes[c]]
<1>1. rules(c) \in Seq(RuleNames)
  BY RulesType DEF Requested, RuleReturns, Admitted
<1>2. i \in 1..Len(rules(c))
  BY <1>1 DEF TypeOK, RuleIsLeft, RuleReturns
<1>3. rules(c)[i] \in RuleNames
  BY <1>1, <1>2
<1>4. r \in RuleRecord
  BY <1>3 DEF TypeOK, RuleRecord
<1>5. Append(recs[c], r) \in Seq(RuleRecord)
  BY <1>4 DEF TypeOK
<1>6. recs' \in [Conns -> Seq(RuleRecord)]
  BY <1>5 DEF TypeOK, RuleReturns
<1>7. changes' \in [Conns -> Seq(TagChange)]
  BY DEF TypeOK, RuleReturns
<1>8. pc' \in [Conns -> Stages]
  BY GotoType DEF RuleReturns, Stages
<1> QED
  BY <1>6, <1>7, <1>8 DEF TypeOK, RuleReturns, memory, tables

(* The row of a group has its type, for any rules' records.                *)
LEMMA GroupRowType ==
  ASSUME NEW rs \in Seq(RuleRecord)
  PROVE  groupRow(rs) \in GroupRow
<1>1. CASE rs = <<>>
  BY <1>1 DEF groupRow, GroupRow
<1>2. CASE rs # <<>>
  <2>1. Last(rs) \in RuleRecord
    BY <1>2 DEF Last
  <2> QED
    BY <1>2, <2>1 DEF groupRow, GroupRow, RuleRecord
<1> QED
  BY <1>1, <1>2

(* So does the reply that gives a group's result.                          *)
LEMMA ResultType ==
  ASSUME NEW rs \in Seq(RuleRecord)
  PROVE  result(rs) \in Reply
<1>1. CASE rs = <<>>
  BY <1>1 DEF result, Reply
<1>2. CASE rs # <<>>
  <2>1. Last(rs) \in RuleRecord
    BY <1>2 DEF Last
  <2> QED
    BY <1>2, <2>1, ErrorType DEF result, Reply, RuleRecord
<1> QED
  BY <1>1, <1>2

(* A tag change still to be stored is one of the last rule's changes.      *)
LEMMA NextTagChange ==
  ASSUME TypeOK, Written, NEW c \in Conns, ~ TagsStored(c)
  PROVE  LET last == recs[c][Len(ruleEval[c])] IN
         /\ last \in RuleRecord
         /\ tagDone[c] + 1 \in 1..Len(last.changes)
         /\ last.changes[tagDone[c] + 1] \in TagChange
<1> DEFINE n == Len(ruleEval[c])
           last == recs[c][n]
<1>1. ruleEval[c] # <<>> /\ tagDone[c] # Len(last.changes)
  BY DEF TagsStored
<1>2. n \in 1..Len(recs[c])
  BY <1>1 DEF TypeOK, Written
<1>3. last \in RuleRecord
  BY <1>2 DEF TypeOK
<1>4. last.changes \in Seq(TagChange)
  BY <1>3 DEF RuleRecord
<1>5. tagDone[c] \in Nat /\ tagDone[c] <= Len(last.changes)
  BY <1>1 DEF TypeOK, Written
<1> HIDE DEF last
<1>6. tagDone[c] + 1 \in 1..Len(last.changes)
  BY <1>1, <1>4, <1>5
<1>7. last.changes[tagDone[c] + 1] \in TagChange
  BY <1>4, <1>6
<1> QED
  BY <1>3, <1>6, <1>7 DEF last

(* No step breaks the type invariant.                                      *)
LEMMA TypeStep ==
  ASSUME TypeOK, Support, Next
  PROVE  TypeOK'
<1>1. ASSUME NEW c \in Conns, Receive(c)
      PROVE  TypeOK'
  <2>1. pc' \in [Conns -> Stages]
    BY <1>1, GotoType DEF Receive, Stages
  <2> QED
    BY <1>1, <2>1 DEF Receive, TypeOK, memory, tables
<1>2. ASSUME NEW c \in Conns, ReadInput(c)
      PROVE  TypeOK'
  <2>1. CASE Goto(c, "lookup") /\ UNCHANGED reply
    <3>1. pc' \in [Conns -> Stages]
      BY <2>1, GotoType DEF Stages
    <3> QED
      BY <1>2, <2>1, <3>1 DEF ReadInput, TypeOK, memory, tables
  <2>2. CASE Finish(c, Error)
    BY <1>2, <2>2, FailType DEF ReadInput, memory
  <2> QED
    BY <1>2, <2>1, <2>2 DEF ReadInput
<1>3. ASSUME NEW c \in Conns, Lookup(c)
      PROVE  TypeOK'
  <2> DEFINE b == req[c].body
  <2>1. CASE cache[b] # None /\ StartRules(c, cache[b]) /\ UNCHANGED reply
    <3>1. b \in Bodies
      BY <1>3 DEF Lookup, Support, Requested, Requests
    <3>2. cache[b] \in Conns
      BY <2>1, <3>1 DEF TypeOK
    <3>3. /\ pc' \in [Conns -> Stages]
          /\ msg' \in [Conns -> Conns \cup {None}]
      BY <2>1, <3>2, StartRulesType
    <3> QED
      BY <1>3, <2>1, <3>3 DEF Lookup, TypeOK, memory, tables
  <2>2. CASE Finish(c, Error) /\ UNCHANGED msg
    BY <1>3, <2>2, FailType DEF Lookup, memory
  <2>3. CASE Goto(c, "prepare") /\ UNCHANGED <<msg, reply>>
    <3>1. pc' \in [Conns -> Stages]
      BY <2>3, GotoType DEF Stages
    <3> QED
      BY <1>3, <2>3, <3>1 DEF Lookup, TypeOK, memory, tables
  <2> QED
    BY <1>3, <2>1, <2>2, <2>3 DEF Lookup
<1>4. ASSUME NEW c \in Conns, Prepare(c)
      PROVE  TypeOK'
  <2> DEFINE b == req[c].body
  <2>1. CASE cache[b] # None /\ StartRules(c, cache[b]) /\ UNCHANGED lock
    <3>1. b \in Bodies
      BY <1>4 DEF Prepare, Support, Requested, Requests
    <3>2. cache[b] \in Conns
      BY <2>1, <3>1 DEF TypeOK
    <3>3. /\ pc' \in [Conns -> Stages]
          /\ msg' \in [Conns -> Conns \cup {None}]
      BY <2>1, <3>2, StartRulesType
    <3> QED
      BY <1>4, <2>1, <3>3 DEF Prepare, TypeOK, tables
  <2>2. CASE lock' = c /\ Goto(c, "meta") /\ UNCHANGED msg
    <3>1. pc' \in [Conns -> Stages]
      BY <2>2, GotoType DEF Stages
    <3> QED
      BY <1>4, <2>2, <3>1 DEF Prepare, TypeOK, tables
  <2> QED
    BY <1>4, <2>1, <2>2 DEF Prepare
<1>5. ASSUME NEW c \in Conns, PrepareFails(c)
      PROVE  TypeOK'
  BY <1>5, FailType DEF PrepareFails
<1>6. ASSUME NEW c \in Conns, GetMetadata(c)
      PROVE  TypeOK'
  <2>1. PICK m \in Message : CacheMessage(c, m)
    BY <1>6, LoadedMessage DEF Support
  <2> QED
    BY <1>6, <2>1, CacheMessageType DEF GetMetadata, TypeOK, tables
<1>7. ASSUME NEW c \in Conns, GetMetadataMisses(c)
      PROVE  TypeOK'
  <2>1. pc' \in [Conns -> Stages]
    BY <1>7, GotoType DEF GetMetadataMisses, Stages
  <2> QED
    BY <1>7, <2>1 DEF GetMetadataMisses, TypeOK, handler, memory, tables
<1>8. ASSUME NEW c \in Conns, PutMessage(c)
      PROVE  TypeOK'
  <2>1. PICK m \in Message : CacheMessage(c, m)
    BY <1>8, LoadedMessage DEF Support
  <2>2. message' \in [StoreIDs -> BOOLEAN \cup {None}]
    BY <1>8 DEF PutMessage, TypeOK
  <2> QED
    BY <1>8, <2>1, <2>2, CacheMessageType DEF PutMessage, TypeOK
<1>9. ASSUME NEW c \in Conns, NEW k \in TagKeys,
             NEW v \in TagValues \cup {None}, ChangeTag(c, k, v)
      PROVE  TypeOK'
  BY <1>9, ChangeTagObject, ChangesType
     DEF ChangeTag, TypeOK, Support, tables
<1>10. ASSUME NEW c \in Conns, NEW match \in BOOLEAN, NEW err \in BOOLEAN,
              RuleReturns(c, match, err)
       PROVE  TypeOK'
  BY <1>10, RuleReturnsType DEF Support
<1>11. ASSUME NEW c \in Conns, Begin(c)
       PROVE  TypeOK'
  <2>1. pc' \in [Conns -> Stages]
    BY <1>11, GotoType DEF Begin, Stages
  <2> QED
    BY <1>11, <2>1 DEF Begin, TypeOK, handler, memory, tables
<1>12. ASSUME NEW c \in Conns, InsertGroupEval(c)
       PROVE  TypeOK'
  <2>1. pc' \in [Conns -> Stages]
    BY <1>12, GotoType DEF InsertGroupEval, Stages
  <2>2. groupRow(recs[c]) \in GroupRow
    BY GroupRowType DEF TypeOK
  <2> QED
    BY <1>12, <2>1, <2>2 DEF InsertGroupEval, TypeOK, handler, memory
<1>13. ASSUME NEW c \in Conns, InsertRuleEval(c)
       PROVE  TypeOK'
  <2> DEFINE n == Len(ruleEval[c]) + 1
  <2>1. n \in 1..Len(recs[c])
    BY <1>13 DEF InsertRuleEval, TypeOK
  <2>2. ruleRow(recs[c][n]) \in RuleRow
    <3>1. recs[c][n] \in RuleRecord
      BY <2>1 DEF TypeOK
    <3> QED
      BY <3>1 DEF RuleRecord, ruleRow, RuleRow
  <2>3. Append(ruleEval[c], ruleRow(recs[c][n])) \in Seq(RuleRow)
    BY <2>2 DEF TypeOK
  <2>4. ruleEval' \in [Conns -> Seq(RuleRow)]
    BY <1>13, <2>3 DEF InsertRuleEval, TypeOK
  <2>5. tagDone' \in [Conns -> Nat]
    BY <1>13 DEF InsertRuleEval, TypeOK
  <2> QED
    BY <1>13, <2>4, <2>5 DEF InsertRuleEval, TypeOK, memory
<1>14. ASSUME NEW c \in Conns, PutTagChange(c)
       PROVE  TypeOK'
  <2> DEFINE tc == recs[c][Len(ruleEval[c])].changes[tagDone[c] + 1]
  <2>1. tc \in TagChange
    BY <1>14, NextTagChange DEF PutTagChange, Support
  <2>2. tag' = [tag EXCEPT ![storeID(c)][tc.key] = tc.value]
    BY <1>14 DEF PutTagChange
  <2>3. tc.key \in TagKeys /\ tc.value \in TagValues \cup {None}
    BY <2>1 DEF TagChange
  <2> HIDE DEF tc
  <2>4. tag' \in [StoreIDs -> Tags]
    BY <2>2, <2>3 DEF TypeOK, Tags
  <2>5. tagDone' \in [Conns -> Nat]
    BY <1>14 DEF PutTagChange, TypeOK
  <2> QED
    BY <1>14, <2>4, <2>5 DEF PutTagChange, TypeOK, memory
<1>15. ASSUME NEW c \in Conns, Commit(c)
       PROVE  TypeOK'
  <2>1. result(recs[c]) \in Reply
    BY ResultType DEF TypeOK
  <2>2. /\ pc' \in [Conns -> Stages]
        /\ reply' \in [Conns -> Reply \cup {None}]
    BY <1>15, <2>1, FinishType DEF Commit
  <2> QED
    BY <1>15, <2>2 DEF Commit, TypeOK, memory, tables
<1>16. ASSUME NEW c \in Conns, RecordFails(c)
       PROVE  TypeOK'
  BY <1>16, FailType DEF RecordFails, memory
<1>17. CASE Crash
  BY <1>17, ConstantsAssumption DEF Crash, TypeOK, Stages, tables
<1> QED
  BY <1>1, <1>2, <1>3, <1>4, <1>5, <1>6, <1>7, <1>8, <1>9, <1>10, <1>11,
     <1>12, <1>13, <1>14, <1>15, <1>16, <1>17
     DEF Next, handleEval, Prepared, Evaluated, Recorded, SetTag, DeleteTag,
         RuleMatches, RuleDeclines, RuleThrows

-----------------------------------------------------------------------------
(* The rest of the invariant.  Each part is preserved because a handler    *)
(* moves nobody but itself, and because of what it does when it moves.     *)

(* The stage of one handler changes, from one it has been in.              *)
LEMMA StageMoves ==
  ASSUME TypeOK, NEW c \in Conns, handleEval(c)
  PROVE  /\ req' = req
         /\ pc[c] # "idle"
         /\ \A d \in Conns \ {c} : pc'[d] = pc[d]
         /\ pc'[c] \in Admitted => \/ pc[c] \in Admitted
                                   \/ req[c].group \in DOMAIN Groups
         /\ pc'[c] \in Unloaded => pc[c] \in Unloaded
         /\ pc'[c] \in Unloaded \cup {"eval", "begin", "group"} =>
              pc[c] \in Unloaded \cup {"eval", "begin", "group"}
<1> USE DEF TypeOK, Goto, Finish, StartRules, Admitted, Unloaded
<1>1. CASE ReadInput(c)
  BY <1>1 DEF ReadInput
<1>2. CASE Lookup(c)
  BY <1>2 DEF Lookup
<1>3. CASE Prepare(c)
  BY <1>3 DEF Prepare
<1>4. CASE PrepareFails(c)
  BY <1>4 DEF PrepareFails
<1>5. CASE GetMetadata(c)
  BY <1>5 DEF GetMetadata, CacheMessage
<1>6. CASE GetMetadataMisses(c)
  BY <1>6 DEF GetMetadataMisses, handler
<1>7. CASE PutMessage(c)
  BY <1>7 DEF PutMessage, CacheMessage
<1>8. CASE Evaluated(c)
  BY <1>8 DEF Evaluated, SetTag, DeleteTag, ChangeTag, RuleMatches,
              RuleDeclines, RuleThrows, RuleReturns
<1>9. CASE Recorded(c)
  BY <1>9 DEF Recorded, Begin, InsertGroupEval, InsertRuleEval, PutTagChange,
              Commit, RecordFails, handler
<1> QED
  BY <1>1, <1>2, <1>3, <1>4, <1>5, <1>6, <1>7, <1>8, <1>9
     DEF handleEval, Prepared

(* No step breaks Requested.                                               *)
LEMMA RequestedStep ==
  ASSUME TypeOK, Requested, Next
  PROVE  Requested'
<1>1. ASSUME NEW c \in Conns, Receive(c)
      PROVE  Requested'
  BY <1>1 DEF Receive, Goto, TypeOK, Requested, Admitted
<1>2. ASSUME NEW c \in Conns, handleEval(c)
      PROVE  Requested'
  BY <1>2, StageMoves DEF Requested
<1>3. CASE Crash
  BY <1>3 DEF Crash, TypeOK, Requested, Admitted
<1> QED
  BY <1>1, <1>2, <1>3 DEF Next

(* No step breaks RuleIsLeft.                                              *)
LEMMA RuleIsLeftStep ==
  ASSUME TypeOK, Support, Next
  PROVE  RuleIsLeft'
<1> DEFINE Left(c) == /\ pc[c] \in Unloaded => recs[c] = <<>>
                      /\ pc[c] = "eval" => Len(recs[c]) < Len(rules(c))
<1>1. ASSUME NEW c \in Conns, Receive(c) PROVE RuleIsLeft'
  <2>1. pc'[c] = "input" /\ pc[c] = "idle" /\ recs' = recs
    BY <1>1 DEF Receive, Goto, TypeOK
  <2>2. \A d \in Conns \ {c} : pc'[d] = pc[d] /\ req'[d] = req[d]
    BY <1>1 DEF Receive, Goto, TypeOK
  <2>3. \A d \in Conns \ {c} : rules(d)' = rules(d)
    BY <2>2 DEF rules
  <2>4. Left(c)'
    BY <2>1 DEF Support, RuleIsLeft, Unloaded
  <2>5. \A d \in Conns \ {c} : Left(d)'
    BY <2>1, <2>2, <2>3 DEF Support, RuleIsLeft
  <2> QED
    BY <2>4, <2>5 DEF RuleIsLeft
<1>2. ASSUME NEW c \in Conns, handleEval(c) PROVE RuleIsLeft'
  <2>1. /\ req' = req
        /\ \A d \in Conns \ {c} : pc'[d] = pc[d]
        /\ pc'[c] \in Unloaded => pc[c] \in Unloaded
    BY <1>2, StageMoves
  <2>2. \A d \in Conns : rules(d)' = rules(d)
    BY <2>1 DEF rules
  <2>3. CASE Evaluated(c)
    <3>1. ASSUME NEW k \in TagKeys, NEW v \in TagValues \cup {None},
                 ChangeTag(c, k, v)
          PROVE  RuleIsLeft'
      BY <2>2, <3>1 DEF ChangeTag, Support, RuleIsLeft
    <3>2. ASSUME NEW match \in BOOLEAN, NEW err \in BOOLEAN,
                 RuleReturns(c, match, err)
          PROVE  RuleIsLeft'
      <4> DEFINE r == [rule |-> rules(c)[Len(recs[c]) + 1], match |-> match,
                       err |-> err, changes |-> changes[c]]
      <4>1. recs' = [recs EXCEPT ![c] = Append(recs[c], r)]
        BY <3>2 DEF RuleReturns
      <4>2. pc'[c] = "eval" => Len(recs[c]) + 1 # Len(rules(c))
        BY <3>2 DEF RuleReturns, Goto, TypeOK
      <4>3. Len(recs[c]) < Len(rules(c)) /\ rules(c) \in Seq(RuleNames)
        BY <3>2, RulesType
           DEF RuleReturns, Support, Requested, RuleIsLeft, Admitted
      <4> HIDE DEF r
      <4>4. Len(recs'[c]) = Len(recs[c]) + 1
        BY <4>1 DEF TypeOK
      <4>5. pc[c] = "eval"
        BY <3>2 DEF RuleReturns
      <4>6. Left(c)'
        BY <2>1, <2>2, <4>2, <4>3, <4>4, <4>5 DEF TypeOK, Unloaded
      <4>7. \A d \in Conns \ {c} : recs'[d] = recs[d]
        BY <4>1 DEF TypeOK
      <4> QED
        BY <2>1, <2>2, <4>6, <4>7 DEF Support, RuleIsLeft
    <3> QED
      BY <2>3, <3>1, <3>2 DEF Evaluated, SetTag, DeleteTag, RuleMatches,
                              RuleDeclines, RuleThrows
  <2>4. CASE ~ Evaluated(c)
    <3>1. recs' = recs
      BY <1>2, <2>4 DEF handleEval, ReadInput, Lookup, Prepared, Prepare,
           PrepareFails, GetMetadata, GetMetadataMisses, PutMessage, Recorded,
           Begin, InsertGroupEval, InsertRuleEval, PutTagChange, Commit,
           RecordFails, handler
    <3>2. pc'[c] = "eval" => pc[c] \in Unloaded /\ rules(c) # <<>>
      BY <1>2, <2>4 DEF handleEval, ReadInput, Lookup, Prepared, Prepare,
           PrepareFails, GetMetadata, GetMetadataMisses, PutMessage, Recorded,
           Begin, InsertGroupEval, InsertRuleEval, PutTagChange, Commit,
           RecordFails, CacheMessage, StartRules, Goto, Finish, TypeOK, Unloaded
    <3>3. pc'[c] = "eval" => rules(c) \in Seq(RuleNames)
      BY <1>2, <2>1, StageMoves, RequestedStep, RulesType, <3>2
         DEF Support, Requested, Admitted, Next
    <3>4. Left(c)'
      BY <2>1, <2>2, <3>1, <3>2, <3>3 DEF Support, RuleIsLeft
    <3> QED
      BY <2>1, <2>2, <3>1, <3>4 DEF Support, RuleIsLeft
  <2> QED
    BY <2>3, <2>4
<1>3. CASE Crash
  BY <1>3 DEF Crash, TypeOK, Support, RuleIsLeft, Unloaded
<1> QED
  BY <1>1, <1>2, <1>3 DEF Next

(* No step breaks Written.                                                 *)
LEMMA WrittenStep ==
  ASSUME TypeOK, Support, Next
  PROVE  Written'
<1>1. ASSUME NEW c \in Conns, Receive(c) PROVE Written'
  BY <1>1 DEF Receive, Goto, TypeOK, Support, Written, Unloaded, tables
<1>2. ASSUME NEW c \in Conns, handleEval(c) PROVE Written'
  <2>1. /\ \A d \in Conns \ {c} : pc'[d] = pc[d]
        /\ pc'[c] \in Unloaded \cup {"eval", "begin", "group"} =>
             pc[c] \in Unloaded \cup {"eval", "begin", "group"}
    BY <1>2, StageMoves
  <2>2. ASSUME NEW match \in BOOLEAN, NEW err \in BOOLEAN,
               RuleReturns(c, match, err)
        PROVE  Written'
    <3> DEFINE r == [rule |-> rules(c)[Len(recs[c]) + 1], match |-> match,
                     err |-> err, changes |-> changes[c]]
    <3>1. recs' = [recs EXCEPT ![c] = Append(recs[c], r)]
      BY <2>2 DEF RuleReturns
    <3>2. ruleEval[c] = <<>>
      BY <2>2 DEF RuleReturns, Support, Written
    <3>3. ruleEval' = ruleEval /\ tagDone' = tagDone
      BY <2>2 DEF RuleReturns, tables
    <3> HIDE DEF r
    <3>4. Len(recs'[c]) \in Nat /\ \A d \in Conns \ {c} : recs'[d] = recs[d]
      BY <3>1 DEF TypeOK
    <3> QED
      BY <2>1, <3>2, <3>3, <3>4 DEF Support, Written
  <2>3. CASE InsertRuleEval(c)
    <3> DEFINE n == Len(ruleEval[c]) + 1
    <3>1. /\ ruleEval' = [ruleEval EXCEPT
                            ![c] = Append(ruleEval[c], ruleRow(recs[c][n]))]
          /\ tagDone' = [tagDone EXCEPT ![c] = 0]
          /\ n <= Len(recs[c])
          /\ recs' = recs /\ pc' = pc /\ pc[c] = "rows"
      BY <2>3 DEF InsertRuleEval, TypeOK
    <3>2. Len(ruleEval'[c]) = n /\ tagDone'[c] = 0
      BY <3>1 DEF TypeOK
    <3>3. n \in 1..Len(recs[c])
      BY <3>1 DEF TypeOK
    <3>4. recs[c][n].changes \in Seq(TagChange)
      <4>1. recs[c][n] \in RuleRecord
        BY <3>3 DEF TypeOK
      <4> QED
        BY <4>1 DEF RuleRecord
    <3>5. \A d \in Conns \ {c} : ruleEval'[d] = ruleEval[d] /\ tagDone'[d] = tagDone[d]
      BY <3>1 DEF TypeOK
    <3> QED
      BY <3>1, <3>2, <3>3, <3>4, <3>5 DEF Support, Written, Unloaded
  <2>4. CASE PutTagChange(c)
    <3> DEFINE last == recs[c][Len(ruleEval[c])]
    <3>1. tagDone[c] + 1 \in 1..Len(last.changes)
      BY <2>4, NextTagChange DEF PutTagChange, Support
    <3>2. /\ tagDone' = [tagDone EXCEPT ![c] = tagDone[c] + 1]
          /\ ruleEval' = ruleEval /\ recs' = recs /\ pc' = pc
      BY <2>4 DEF PutTagChange
    <3>3. tagDone'[c] = tagDone[c] + 1 /\ \A d \in Conns \ {c} : tagDone'[d] = tagDone[d]
      BY <3>2 DEF TypeOK
    <3>4. tagDone'[c] <= Len(last.changes)
      BY <3>1, <3>3
    <3> QED
      BY <3>2, <3>3, <3>4 DEF Support, Written
  <2>5. CASE \/ ReadInput(c) \/ Lookup(c) \/ Prepared(c) \/ SetTag(c)
             \/ DeleteTag(c) \/ Begin(c) \/ InsertGroupEval(c) \/ Commit(c)
             \/ RecordFails(c)
    <3>1. UNCHANGED <<recs, ruleEval, tagDone>>
      BY <2>5 DEF ReadInput, Lookup, Prepared, Prepare, PrepareFails,
           GetMetadata, GetMetadataMisses, PutMessage, SetTag, DeleteTag,
           ChangeTag, Begin, InsertGroupEval, Commit, RecordFails, handler,
           tables
    <3> QED
      BY <2>1, <3>1 DEF Support, Written
  <2> QED
    BY <1>2, <2>2, <2>3, <2>4, <2>5
       DEF handleEval, Evaluated, Recorded, RuleMatches, RuleDeclines, RuleThrows
<1>3. CASE Crash
  BY <1>3 DEF Crash, TypeOK, Support, Written, Unloaded, tables
<1> QED
  BY <1>1, <1>2, <1>3 DEF Next

(* What a handler does to the Messages: it changes the tags of one of      *)
(* them, or puts one in the place it had none.                             *)
LEMMA ObjectMoves ==
  ASSUME TypeOK, Support, NEW c \in Conns, handleEval(c)
  PROVE  \/ /\ pc[c] = "eval"
            /\ \A o \in Conns : /\ object'[o] = None <=> object[o] = None
                                /\ object[o] # None =>
                                     object'[o].sampled = object[o].sampled
         \/ object' = object
         \/ /\ pc[c] \in {"meta", "put"}
            /\ pc'[c] \notin Unloaded
            /\ object'[c] # None
            /\ \A o \in Conns \ {c} : object'[o] = object[o]
<1>1. CASE SetTag(c) \/ DeleteTag(c)
  BY <1>1, ChangeTagObject DEF SetTag, DeleteTag, ChangeTag, Support
<1>2. CASE GetMetadata(c) \/ PutMessage(c)
  <2>1. PICK m \in Message : CacheMessage(c, m)
    BY <1>2, LoadedMessage DEF Support
  <2>2. object' = [object EXCEPT ![c] = m] /\ m # None
    BY <2>1, MessageIsNotNone DEF CacheMessage
  <2>3. pc'[c] \notin Unloaded
    BY <2>1 DEF CacheMessage, StartRules, Goto, TypeOK, Unloaded
  <2>4. pc[c] \in {"meta", "put"}
    BY <1>2 DEF GetMetadata, PutMessage
  <2>5. object'[c] # None /\ \A o \in Conns \ {c} : object'[o] = object[o]
    BY <2>2 DEF TypeOK
  <2> QED
    BY <2>3, <2>4, <2>5
<1>3. CASE \/ ReadInput(c) \/ Lookup(c) \/ Prepare(c) \/ PrepareFails(c)
           \/ GetMetadataMisses(c) \/ RuleMatches(c) \/ RuleDeclines(c)
           \/ RuleThrows(c) \/ Recorded(c)
  BY <1>3 DEF ReadInput, Lookup, Prepare, PrepareFails, GetMetadataMisses,
       RuleMatches, RuleDeclines, RuleThrows, RuleReturns, Recorded, Begin,
       InsertGroupEval, InsertRuleEval, PutTagChange, Commit, RecordFails, memory
<1> QED
  BY <1>1, <1>2, <1>3 DEF handleEval, Prepared, Evaluated

(* No step breaks Allocated.                                               *)
LEMMA AllocatedStep ==
  ASSUME TypeOK, Support, Next
  PROVE  Allocated'
<1>1. ASSUME NEW c \in Conns, Receive(c) PROVE Allocated'
  BY <1>1 DEF Receive, Goto, TypeOK, Support, Allocated, Unloaded, memory
<1>2. ASSUME NEW c \in Conns, handleEval(c) PROVE Allocated'
  <2>1. /\ \A d \in Conns \ {c} : pc'[d] = pc[d]
        /\ pc'[c] \in Unloaded => pc[c] \in Unloaded
    BY <1>2, StageMoves
  <2>2. pc'[c] \in Unloaded => object'[c] = None
    BY <1>2, <2>1, ObjectMoves DEF Support, Allocated, Unloaded
  <2>3. ASSUME NEW d \in Conns \ {c}, object[d] = None
        PROVE  object'[d] = None
    <3>1. d \in Conns /\ d # c
      OBVIOUS
    <3> QED
      BY <1>2, <2>3, <3>1, ObjectMoves
  <2> QED
    BY <2>1, <2>2, <2>3 DEF Support, Allocated
<1>3. CASE Crash
  BY <1>3 DEF Crash, Allocated
<1> QED
  BY <1>1, <1>2, <1>3 DEF Next

(* A Message in use stays allocated, and its sampling flag stays.          *)
LEMMA ObjectStays ==
  ASSUME TypeOK, Support, NEW c \in Conns, handleEval(c),
         NEW o \in Conns, object[o] # None
  PROVE  object'[o] # None /\ object'[o].sampled = object[o].sampled
<1>1. pc[c] \in {"meta", "put"} => object[c] = None
  BY DEF Support, Allocated, Unloaded
<1>2. \/ \A p \in Conns : /\ object'[p] = None <=> object[p] = None
                          /\ object[p] # None =>
                               object'[p].sampled = object[p].sampled
      \/ object' = object
      \/ /\ pc[c] \in {"meta", "put"}
         /\ \A p \in Conns \ {c} : object'[p] = object[p]
  BY ObjectMoves
<1> QED
  BY <1>1, <1>2

(* What a handler that loads no message does to the cache and to its own   *)
(* msg: nothing, or it takes the Message the cache holds.                  *)
LEMMA CacheMoves ==
  ASSUME TypeOK, NEW c \in Conns, handleEval(c),
         ~ GetMetadata(c), ~ PutMessage(c)
  PROVE  /\ cache' = cache
         /\ \A d \in Conns \ {c} : msg'[d] = msg[d]
         /\ \/ msg' = msg /\ (Loaded(c)' => Loaded(c))
            \/ /\ pc[c] \in {"lookup", "prepare"}
               /\ cache[req[c].body] # None
               /\ msg'[c] = cache[req[c].body]
<1> USE DEF TypeOK, StartRules
<1>1. CASE ReadInput(c)
  BY <1>1 DEF ReadInput, memory, Loaded, Goto, Finish
<1>2. CASE Lookup(c)
  <2>1. CASE cache[req[c].body] # None /\ StartRules(c, cache[req[c].body])
    BY <1>2, <2>1 DEF Lookup, memory
  <2>2. CASE UNCHANGED msg /\ (Finish(c, Error) \/ Goto(c, "prepare"))
    BY <1>2, <2>2 DEF Lookup, memory, Loaded, Goto, Finish
  <2> QED
    BY <1>2, <2>1, <2>2 DEF Lookup
<1>3. CASE Prepare(c)
  <2>1. CASE cache[req[c].body] # None /\ StartRules(c, cache[req[c].body])
    BY <1>3, <2>1 DEF Prepare
  <2>2. CASE Goto(c, "meta") /\ UNCHANGED msg
    BY <1>3, <2>2 DEF Prepare, Loaded, Goto
  <2> QED
    BY <1>3, <2>1, <2>2 DEF Prepare
<1>4. CASE PrepareFails(c)
  BY <1>4 DEF PrepareFails, Loaded, Goto, Finish
<1>5. CASE GetMetadataMisses(c)
  BY <1>5 DEF GetMetadataMisses, handler, memory, Loaded, Goto
<1>6. CASE Evaluated(c)
  BY <1>6 DEF Evaluated, SetTag, DeleteTag, ChangeTag, RuleMatches,
              RuleDeclines, RuleThrows, RuleReturns, memory, Loaded
<1>7. CASE Recorded(c)
  BY <1>7 DEF Recorded, Begin, InsertGroupEval, InsertRuleEval, PutTagChange,
              Commit, RecordFails, handler, memory, Loaded
<1> QED
  BY <1>1, <1>2, <1>3, <1>4, <1>5, <1>6, <1>7 DEF handleEval, Prepared

(* What loading a message does to the cache and to the handler's own msg.  *)
LEMMA LoadMoves ==
  ASSUME TypeOK, Requested, NEW c \in Conns, GetMetadata(c) \/ PutMessage(c)
  PROVE  /\ pc[c] \in {"meta", "put"}
         /\ lock' = None
         /\ msg'[c] = c
         /\ \A d \in Conns \ {c} : msg'[d] = msg[d]
         /\ \A b \in Bodies : \/ cache'[b] \in {None, cache[b]}
                              \/ b = req[c].body /\ cache'[b] = c
         /\ object'[c] # None
         /\ object'[c].sampled = message'[storeID(c)]
         /\ \A o \in Conns \ {c} : object'[o] = object[o]
<1>1. PICK m \in Message : /\ CacheMessage(c, m)
                           /\ m.sampled = message'[storeID(c)]
  BY LoadedMessage
<1>2. object'[c] = m /\ \A o \in Conns \ {c} : object'[o] = object[o]
  BY <1>1 DEF CacheMessage, TypeOK
<1>3. m # None
  BY MessageIsNotNone
<1>4. /\ lock' = None
      /\ msg'[c] = c
      /\ \A d \in Conns \ {c} : msg'[d] = msg[d]
      /\ \A b \in Bodies : \/ cache'[b] \in {None, cache[b]}
                           \/ b = req[c].body /\ cache'[b] = c
  BY <1>1 DEF CacheMessage, StartRules, TypeOK
<1>5. pc[c] \in {"meta", "put"}
  BY DEF GetMetadata, PutMessage
<1> QED
  BY <1>1, <1>2, <1>3, <1>4, <1>5

(* No step breaks Valid.                                                   *)
LEMMA ValidStep ==
  ASSUME TypeOK, Support, Next
  PROVE  Valid'
<1>1. ASSUME NEW c \in Conns, Receive(c)
      PROVE  Valid'
  BY <1>1 DEF Receive, Goto, TypeOK, Support, Valid, Loaded, memory
<1>2. ASSUME NEW c \in Conns, handleEval(c)
      PROVE  Valid'
  <2>1. \A o \in Conns : object[o] # None => object'[o] # None
    BY <1>2, ObjectStays
  <2>2. \A d \in Conns \ {c} : Loaded(d)' = Loaded(d)
    BY <1>2, StageMoves DEF Loaded
  <2>3. /\ req[c].body \in Bodies
        /\ None \notin Conns
    BY <1>2, StageMoves, NoneAssumption DEF Support, Requested, Requests
  <2>4. /\ \A d \in Conns : Loaded(d) => /\ msg[d] \in Conns
                                        /\ msg[d] # None
                                        /\ object'[msg[d]] # None
        /\ \A b \in Bodies : cache[b] # None => /\ cache[b] \in Conns
                                              /\ object'[cache[b]] # None
    BY <2>1 DEF Support, Valid, TypeOK
  <2>5. CASE GetMetadata(c) \/ PutMessage(c)
    <3>1. /\ msg'[c] = c
          /\ \A d \in Conns \ {c} : msg'[d] = msg[d]
          /\ \A b \in Bodies : cache'[b] \in {None, cache[b], c}
          /\ object'[c] # None
      BY <2>5, LoadMoves DEF Support
    <3>2. \A d \in Conns : Loaded(d)' => msg'[d] # None /\ object'[msg'[d]] # None
      BY <2>2, <2>3, <2>4, <3>1
    <3>3. \A b \in Bodies : cache'[b] # None => object'[cache'[b]] # None
      BY <2>4, <3>1
    <3> QED
      BY <3>2, <3>3 DEF Valid
  <2>6. CASE ~ GetMetadata(c) /\ ~ PutMessage(c)
    <3>1. /\ cache' = cache
          /\ \A d \in Conns \ {c} : msg'[d] = msg[d]
          /\ \/ msg' = msg /\ (Loaded(c)' => Loaded(c))
             \/ /\ cache[req[c].body] # None
                /\ msg'[c] = cache[req[c].body]
      BY <1>2, <2>6, CacheMoves
    <3>2. \A d \in Conns : Loaded(d)' => msg'[d] # None /\ object'[msg'[d]] # None
      BY <2>2, <2>3, <2>4, <3>1
    <3>3. \A b \in Bodies : cache'[b] # None => object'[cache'[b]] # None
      BY <2>4, <3>1
    <3> QED
      BY <3>2, <3>3 DEF Valid
  <2> QED
    BY <2>5, <2>6
<1>3. CASE Crash
  BY <1>3 DEF Crash, TypeOK, Valid, Loaded
<1> QED
  BY <1>1, <1>2, <1>3 DEF Next

(* No step breaks the parts the other invariants lean on.                  *)
LEMMA SupportStep ==
  ASSUME TypeOK, Support, Next
  PROVE  Support'
<1>1. Requested'
  BY RequestedStep DEF Support
<1> QED
  BY <1>1, RuleIsLeftStep, WrittenStep, AllocatedStep, ValidStep DEF Support

-----------------------------------------------------------------------------
(* The lock, the cache and the sampling decision                           *)

(* No step breaks HoldsLock.                                               *)
LEMMA HoldsLockStep ==
  ASSUME TypeOK, Support, HoldsLock, Next
  PROVE  HoldsLock'
<1>1. ASSUME NEW c \in Conns, Receive(c)
      PROVE  HoldsLock'
  BY <1>1 DEF Receive, Goto, TypeOK, HoldsLock, memory
<1>2. ASSUME NEW c \in Conns, handleEval(c)
      PROVE  HoldsLock'
  <2>1. req' = req /\ \A d \in Conns \ {c} : pc'[d] = pc[d]
    BY <1>2, StageMoves
  <2>2. CASE GetMetadata(c) \/ PutMessage(c)
    <3>1. pc[c] \in {"meta", "put"} /\ pc'[c] \notin {"meta", "put"}
      <4>1. PICK m \in Message : CacheMessage(c, m)
        BY <2>2, LoadedMessage DEF Support
      <4> QED
        BY <2>2, <4>1 DEF GetMetadata, PutMessage, CacheMessage, StartRules,
                          Goto, TypeOK
    <3> QED
      BY <2>1, <3>1 DEF HoldsLock
  <2>3. CASE PrepareFails(c)
    <3>1. pc[c] \in {"meta", "put"} /\ pc'[c] \notin {"meta", "put"}
      BY <2>3 DEF PrepareFails, Finish, Goto, TypeOK
    <3> QED
      BY <2>1, <3>1 DEF HoldsLock
  <2>4. CASE Prepare(c)
    <3>1. cache' = cache /\ lock = None
      BY <2>4 DEF Prepare
    <3>2. \A d \in Conns : pc[d] \notin {"meta", "put"}
      BY <3>1, NoneAssumption DEF HoldsLock
    <3>3. pc'[c] \in {"meta", "put"} => lock' = c /\ cache[req[c].body] = None
      BY <2>4 DEF Prepare, StartRules, Goto, TypeOK
    <3> QED
      BY <2>1, <3>1, <3>2, <3>3 DEF HoldsLock
  <2>5. CASE GetMetadataMisses(c)
    BY <2>1, <2>5 DEF GetMetadataMisses, memory, HoldsLock
  <2>6. CASE ReadInput(c) \/ Lookup(c) \/ Evaluated(c) \/ Recorded(c)
    <3>1. lock' = lock /\ cache' = cache
      BY <2>6 DEF ReadInput, Lookup, Evaluated, SetTag, DeleteTag, ChangeTag,
           RuleMatches, RuleDeclines, RuleThrows, RuleReturns, Recorded, Begin,
           InsertGroupEval, InsertRuleEval, PutTagChange, Commit, RecordFails,
           memory
    <3>2. pc'[c] \notin {"meta", "put"}
      BY <2>6 DEF ReadInput, Lookup, Evaluated, SetTag, DeleteTag, ChangeTag,
           RuleMatches, RuleDeclines, RuleThrows, RuleReturns, Recorded, Begin,
           InsertGroupEval, InsertRuleEval, PutTagChange, Commit, RecordFails,
           StartRules, Finish, Goto, TypeOK
    <3> QED
      BY <2>1, <3>1, <3>2 DEF HoldsLock
  <2> QED
    BY <1>2, <2>2, <2>3, <2>4, <2>5, <2>6 DEF handleEval, Prepared
<1>3. CASE Crash
  BY <1>3 DEF Crash, TypeOK, HoldsLock
<1> QED
  BY <1>1, <1>2, <1>3 DEF Next

(* The sampling decision stored for a message is final.                    *)
LEMMA DecisionStays ==
  ASSUME TypeOK, Next, NEW s \in StoreIDs, message[s] # None
  PROVE  message'[s] = message[s]
<1>1. ASSUME NEW c \in Conns, PutMessage(c)
      PROVE  message'[s] = message[s]
  BY <1>1 DEF PutMessage, TypeOK
<1>2. ASSUME NEW c \in Conns, handleEval(c), ~ PutMessage(c)
      PROVE  message' = message
  BY <1>2 DEF handleEval, ReadInput, Lookup, Prepared, Prepare, PrepareFails,
       GetMetadata, GetMetadataMisses, Evaluated, SetTag, DeleteTag, ChangeTag,
       RuleMatches, RuleDeclines, RuleThrows, RuleReturns, Recorded, Begin,
       InsertGroupEval, InsertRuleEval, PutTagChange, Commit, RecordFails, tables
<1>3. ASSUME NEW c \in Conns, Receive(c)
      PROVE  message' = message
  BY <1>3 DEF Receive, tables
<1>4. CASE Crash
  BY <1>4 DEF Crash, tables
<1> QED
  BY <1>1, <1>2, <1>3, <1>4 DEF Next

(* No step breaks the agreement with the sampling decision.                *)
LEMMA SampledStep ==
  ASSUME TypeOK, Support, SampledAgrees, Next
  PROVE  SampledAgrees'
<1>1. ASSUME NEW o \in Conns, NEW s \in StoreIDs, DecisionAgrees(o, s),
             object'[o] # None /\ object'[o].sampled = object[o].sampled
      PROVE  DecisionAgrees(o, s)'
  <2>1. message[s] # None
    <3>1. object[o] \in Message
      BY <1>1 DEF DecisionAgrees, TypeOK
    <3> QED
      BY <1>1, <3>1, NoneAssumption DEF DecisionAgrees, Message
  <2> QED
    BY <1>1, <2>1, DecisionStays DEF DecisionAgrees
<1>2. \A b \in Bodies : toStoreID(b) \in StoreIDs
  BY DEF StoreIDs
<1>3. \A d \in Conns : Loaded(d) => storeID(d) \in StoreIDs /\ msg[d] \in Conns
  BY <1>2 DEF Support, Requested, Requests, Valid, Loaded, TypeOK, storeID
<1>4. ASSUME NEW c \in Conns, Receive(c)
      PROVE  SampledAgrees'
  <2>1. \A d \in Conns : Loaded(d)' => Loaded(d) /\ req'[d] = req[d]
    BY <1>4 DEF Receive, Goto, TypeOK, Loaded
  <2>2. UNCHANGED <<msg, cache, object, message>>
    BY <1>4 DEF Receive, memory, tables
  <2> QED
    BY <2>1, <2>2 DEF SampledAgrees, DecisionAgrees, storeID
<1>5. ASSUME NEW c \in Conns, handleEval(c)
      PROVE  SampledAgrees'
  <2>1. \A o \in Conns : object[o] # None =>
          object'[o] # None /\ object'[o].sampled = object[o].sampled
    BY <1>5, ObjectStays
  <2>2. \A o \in Conns, s \in StoreIDs :
          DecisionAgrees(o, s) => DecisionAgrees(o, s)'
    BY <1>1, <2>1 DEF DecisionAgrees
  <2>3. \A d \in Conns \ {c} : Loaded(d)' = Loaded(d)
    BY <1>5, StageMoves DEF Loaded
  <2>4. \A d \in Conns : storeID(d)' = storeID(d)
    BY <1>5, StageMoves DEF storeID
  <2>5. req[c].body \in Bodies /\ storeID(c) \in StoreIDs
    BY <1>2, <1>5, StageMoves DEF Support, Requested, Requests, storeID
  <2>6. CASE GetMetadata(c) \/ PutMessage(c)
    <3>1. /\ msg'[c] = c
          /\ \A d \in Conns \ {c} : msg'[d] = msg[d]
          /\ \A b \in Bodies : \/ cache'[b] \in {None, cache[b]}
                               \/ b = req[c].body /\ cache'[b] = c
          /\ object'[c] # None /\ object'[c].sampled = message'[storeID(c)]
      BY <2>6, LoadMoves DEF Support
    <3>2. ASSUME NEW d \in Conns, Loaded(d)'
          PROVE  DecisionAgrees(msg[d], storeID(d))'
      <4>1. CASE d = c
        BY <2>4, <3>1, <4>1 DEF DecisionAgrees
      <4>2. CASE d # c
        <5>1. DecisionAgrees(msg[d], storeID(d)) /\ msg'[d] = msg[d]
          BY <2>3, <3>1, <3>2, <4>2 DEF SampledAgrees
        <5>2. msg[d] \in Conns /\ storeID(d) \in StoreIDs
          BY <1>3, <2>3, <3>2, <4>2
        <5> QED
          BY <2>2, <2>4, <5>1, <5>2 DEF DecisionAgrees
      <4> QED
        BY <4>1, <4>2
    <3>3. ASSUME NEW b \in Bodies, cache'[b] # None
          PROVE  DecisionAgrees(cache[b], toStoreID(b))'
      <4>1. CASE cache'[b] = cache[b]
        <5>1. DecisionAgrees(cache[b], toStoreID(b)) /\ cache[b] \in Conns
          BY <3>3, <4>1 DEF SampledAgrees, TypeOK
        <5> QED
          BY <1>2, <2>2, <4>1, <5>1 DEF DecisionAgrees
      <4>2. CASE b = req[c].body /\ cache'[b] = c
        BY <3>1, <4>2 DEF DecisionAgrees, storeID
      <4> QED
        BY <3>1, <3>3, <4>1, <4>2
    <3> QED
      BY <3>2, <3>3 DEF SampledAgrees
  <2>7. CASE ~ GetMetadata(c) /\ ~ PutMessage(c)
    <3>1. /\ cache' = cache
          /\ \A d \in Conns \ {c} : msg'[d] = msg[d]
          /\ \/ msg' = msg /\ (Loaded(c)' => Loaded(c))
             \/ /\ cache[req[c].body] # None
                /\ msg'[c] = cache[req[c].body]
      BY <1>5, <2>7, CacheMoves
    <3>2. ASSUME NEW b \in Bodies, cache[b] # None
          PROVE  DecisionAgrees(cache[b], toStoreID(b))'
      <4>1. DecisionAgrees(cache[b], toStoreID(b)) /\ cache[b] \in Conns
        BY <3>2 DEF SampledAgrees, TypeOK
      <4> QED
        BY <1>2, <2>2, <3>1, <4>1 DEF DecisionAgrees
    <3>3. ASSUME NEW d \in Conns, Loaded(d)'
          PROVE  DecisionAgrees(msg[d], storeID(d))'
      <4>1. CASE Loaded(d) /\ msg'[d] = msg[d]
        <5>1. DecisionAgrees(msg[d], storeID(d))
          BY <4>1 DEF SampledAgrees
        <5>2. msg[d] \in Conns /\ storeID(d) \in StoreIDs
          BY <1>3, <4>1
        <5> QED
          BY <2>2, <2>4, <4>1, <5>1, <5>2 DEF DecisionAgrees
      <4>2. CASE /\ d = c
                 /\ cache[req[c].body] # None
                 /\ msg'[c] = cache[req[c].body]
        <5> DEFINE b == req[c].body
        <5>1. b \in Bodies /\ cache[b] # None /\ storeID(c) = toStoreID(b)
          BY <2>5, <4>2 DEF storeID
        <5>2. DecisionAgrees(cache[b], toStoreID(b)) /\ cache[b] \in Conns
          BY <5>1 DEF SampledAgrees, TypeOK
        <5>3. DecisionAgrees(msg[c], storeID(c))'
          <6>1. /\ object'[cache[b]] # None
                /\ object'[cache[b]].sampled = message'[storeID(c)]
            BY <1>2, <2>2, <5>1, <5>2 DEF DecisionAgrees
          <6> QED
            BY <2>4, <4>2, <6>1 DEF DecisionAgrees
        <5> QED
          BY <4>2, <5>3
      <4> QED
        BY <2>3, <3>1, <3>3, <4>1, <4>2
    <3> QED
      BY <3>1, <3>2, <3>3 DEF SampledAgrees
  <2> QED
    BY <2>6, <2>7
<1>6. CASE Crash
  BY <1>6 DEF Crash, TypeOK, SampledAgrees, Loaded
<1> QED
  BY <1>4, <1>5, <1>6 DEF Next

(* A row that is about to be inserted is still missing: only the holder of *)
(* the lock inserts.                                                       *)
LEMMA InsertIsFreshStep ==
  ASSUME TypeOK, Support, HoldsLock, InsertIsFresh, ~ ReadsMayFail, Next
  PROVE  InsertIsFresh'
<1>1. ASSUME NEW c \in Conns, Receive(c)
      PROVE  InsertIsFresh'
  <2>1. \A d \in Conns : pc'[d] = "put" => pc[d] = "put" /\ req'[d] = req[d]
    BY <1>1 DEF Receive, Goto, TypeOK
  <2> QED
    BY <1>1, <2>1 DEF Receive, InsertIsFresh, storeID, tables
<1>2. ASSUME NEW c \in Conns, handleEval(c)
      PROVE  InsertIsFresh'
  <2>1. req' = req /\ \A d \in Conns \ {c} : pc'[d] = pc[d]
    BY <1>2, StageMoves
  <2>2. \A d \in Conns : storeID(d)' = storeID(d)
    BY <2>1 DEF storeID
  <2>3. CASE PutMessage(c)
    <3>1. \A d \in Conns \ {c} : pc[d] # "put"
      BY <2>3 DEF PutMessage, HoldsLock
    <3>2. pc'[c] # "put"
      BY <2>3 DEF PutMessage, CacheMessage, StartRules, Goto, TypeOK
    <3> QED
      BY <2>1, <3>1, <3>2 DEF InsertIsFresh
  <2>4. CASE ~ PutMessage(c)
    <3>1. message' = message
      BY <1>2, <2>4 DEF handleEval, ReadInput, Lookup, Prepared, Prepare,
           PrepareFails, GetMetadata, GetMetadataMisses, Evaluated, SetTag,
           DeleteTag, ChangeTag, RuleMatches, RuleDeclines, RuleThrows,
           RuleReturns, Recorded, Begin, InsertGroupEval, InsertRuleEval,
           PutTagChange, Commit, RecordFails, tables
    <3>2. pc'[c] = "put" => message[storeID(c)] = None
      <4>1. CASE GetMetadataMisses(c)
        BY <4>1 DEF GetMetadataMisses
      <4>2. CASE ~ GetMetadataMisses(c)
        BY <1>2, <2>4, <4>2 DEF handleEval, ReadInput, Lookup, Prepared,
             Prepare, PrepareFails, GetMetadata, Evaluated, SetTag, DeleteTag,
             ChangeTag, RuleMatches, RuleDeclines, RuleThrows, RuleReturns,
             Recorded, Begin, InsertGroupEval, InsertRuleEval, PutTagChange,
             Commit, RecordFails, CacheMessage, StartRules, Finish, Goto, TypeOK
      <4> QED
        BY <4>1, <4>2
    <3> QED
      BY <2>1, <2>2, <3>1, <3>2 DEF InsertIsFresh
  <2> QED
    BY <2>3, <2>4
<1>3. CASE Crash
  BY <1>3 DEF Crash, TypeOK, InsertIsFresh
<1> QED
  BY <1>1, <1>2, <1>3 DEF Next

-----------------------------------------------------------------------------
(* The theorems                                                            *)

(* The first state satisfies the inductive invariant.                      *)
LEMMA IInvInit == Init => IInv
<1> SUFFICES ASSUME Init PROVE IInv
  OBVIOUS
<1>1. TypeOK
  BY TypeInit
<1>2. Support
  BY DEF Init, Support, Requested, RuleIsLeft, Written, Allocated, Valid,
         Admitted, Unloaded, Loaded
<1>3. HoldsLock /\ SampledAgrees
  BY DEF Init, HoldsLock, SampledAgrees, Loaded
<1> QED
  BY <1>1, <1>2, <1>3 DEF IInv

(* Every step keeps the inductive invariant.                               *)
LEMMA IInvStep == IInv /\ [Next]_vars => IInv'
<1>1. ASSUME IInv, Next
      PROVE  IInv'
  BY <1>1, TypeStep, SupportStep, HoldsLockStep, SampledStep DEF IInv
<1>2. ASSUME IInv, UNCHANGED vars
      PROVE  IInv'
  BY <1>2 DEF IInv, TypeOK, Support, Requested, RuleIsLeft, Written, Allocated,
       Valid, HoldsLock, SampledAgrees, Loaded, DecisionAgrees, storeID, rules,
       vars, handler, memory, tables
<1> QED
  BY <1>1, <1>2

(* The inductive invariant holds throughout.                               *)
LEMMA Invariance == Spec => []IInv
BY IInvInit, IInvStep, PTL DEF Spec

(* No handler reads or stores a value that is not of its kind, whatever    *)
(* the interleaving and wherever the daemon crashes: no nil Message is     *)
(* used, no rule or tag change beyond the last one is looked for.          *)
THEOREM TypeCorrect == Spec => []TypeOK
<1>1. IInv => TypeOK
  BY DEF IInv
<1> QED
  BY <1>1, Invariance, PTL

(* The Messages in use and in the cache agree with the store on whether    *)
(* the message is sampled: the decision is made once for a store ID.       *)
THEOREM SampledOnce == Spec => []SampledAgrees
<1>1. IInv => SampledAgrees
  BY DEF IInv
<1> QED
  BY <1>1, Invariance, PTL

(* A text whose Message is cached is not loaded a second time: the cache   *)
(* is looked into again under the lock that covers the whole load.         *)
THEOREM LoadedOnce == Spec => NoDuplicateLoad
<1> DEFINE P(c) == object[c] = None /\ object'[c] # None
                     => cache[req[c].body] = None
<1>1. ASSUME IInv, NEW d \in Conns, handleEval(d), NEW c \in Conns
      PROVE  P(c)
  <2>1. CASE pc[d] \in {"meta", "put"}
    <3>1. cache[req[d].body] = None
      BY <1>1, <2>1 DEF IInv, HoldsLock
    <3>2. \A o \in Conns \ {d} : object'[o] = object[o]
      BY <1>1, <2>1, ObjectMoves DEF IInv
    <3> QED
      BY <3>1, <3>2
  <2>2. CASE pc[d] \notin {"meta", "put"}
    BY <1>1, <2>2, ObjectMoves DEF IInv
  <2> QED
    BY <2>1, <2>2
<1>2. ASSUME IInv, NEW d \in Conns, Receive(d)
      PROVE  object' = object
  BY <1>2 DEF Receive, memory
<1>3. ASSUME IInv, Crash, NEW c \in Conns
      PROVE  object'[c] = None
  BY <1>3 DEF Crash
<1>4. IInv /\ Next => \A c \in Conns : P(c)
  BY <1>1, <1>2, <1>3 DEF Next
<1>5. IInv /\ [Next]_vars => [\A c \in Conns : P(c)]_vars
  BY <1>4
<1> QED
  BY <1>5, Invariance, PTL DEF Spec, NoDuplicateLoad

(* Where the rows of a query can always be read, a message is looked up    *)
(* and inserted in one critical section, for any number of handlers and    *)
(* any texts that share a Message-ID: no insert meets a row of its ID.     *)
THEOREM InsertsAreFresh ==
  ASSUME ~ ReadsMayFail
  PROVE  Spec => []InsertIsFresh
<1>1. Init => InsertIsFresh
  BY DEF Init, InsertIsFresh
<1>2. IInv /\ InsertIsFresh /\ [Next]_vars => InsertIsFresh'
  <2>1. ASSUME IInv, InsertIsFresh, Next
        PROVE  InsertIsFresh'
    BY <2>1, InsertIsFreshStep DEF IInv
  <2>2. ASSUME InsertIsFresh, UNCHANGED vars
        PROVE  InsertIsFresh'
    BY <2>2 DEF InsertIsFresh, storeID, vars, handler, tables
  <2> QED
    BY <2>1, <2>2
<1> QED
  BY <1>1, <1>2, Invariance, PTL DEF Spec

-----------------------------------------------------------------------------
(* The record behind a reply                                               *)

(* A reply is final, and the group's row is there while the rules' rows    *)
(* are written.                                                            *)
RowsInv ==
  /\ \A c \in Conns : /\ reply[c] # None => pc[c] = "done"
                      /\ pc[c] = "rows" => groupEval[c] = groupRow(recs[c])
  /\ SuccessIsRecorded

(* What a success reply asks of the record of its own connection.          *)
RecordedReply(c) ==
  reply[c] # None /\ reply[c].ok =>
    /\ FullyRecorded(c)
    /\ groupEval[c].err = FALSE
    /\ (reply[c].match # None) <=> (groupEval[c].match = TRUE)

(* A handler leaves the record and the reply of every other one alone.     *)
LEMMA OthersRecord ==
  ASSUME TypeOK, NEW c \in Conns, handleEval(c), NEW d \in Conns \ {c}
  PROVE  /\ reply'[d] = reply[d]
         /\ recs'[d] = recs[d]
         /\ tagDone'[d] = tagDone[d]
         /\ groupEval'[d] = groupEval[d]
         /\ ruleEval'[d] = ruleEval[d]
<1> USE DEF TypeOK, Finish, handler, tables
<1>1. CASE ReadInput(c) \/ Lookup(c)
  BY <1>1 DEF ReadInput, Lookup
<1>2. CASE Prepared(c)
  BY <1>2 DEF Prepared, Prepare, PrepareFails, GetMetadata, GetMetadataMisses,
              PutMessage
<1>3. CASE Evaluated(c)
  BY <1>3 DEF Evaluated, SetTag, DeleteTag, ChangeTag, RuleMatches,
              RuleDeclines, RuleThrows, RuleReturns
<1>4. CASE Recorded(c)
  BY <1>4 DEF Recorded, Begin, InsertGroupEval, InsertRuleEval, PutTagChange,
              Commit, RecordFails
<1> QED
  BY <1>1, <1>2, <1>3, <1>4 DEF handleEval

(* The reply that follows a commit says what the record says.              *)
LEMMA CommitReply ==
  ASSUME TypeOK, RowsInv, NEW c \in Conns, Commit(c)
  PROVE  RecordedReply(c)'
<1>1. /\ FullyRecorded(c)
      /\ pc[c] = "rows"
      /\ UNCHANGED <<recs, tagDone, groupEval, ruleEval>>
      /\ reply'[c] = result(recs[c])
  BY DEF Commit, Finish, TypeOK, tables
<1>2. FullyRecorded(c)'
  BY <1>1 DEF FullyRecorded, TagsStored
<1>3. groupEval[c] = groupRow(recs[c])
  BY <1>1 DEF RowsInv
<1>4. CASE recs[c] = <<>>
  <2>1. groupEval'[c] = [match |-> None, err |-> FALSE]
    BY <1>1, <1>3, <1>4 DEF groupRow
  <2>2. reply'[c] = [ok |-> TRUE, match |-> None]
    BY <1>1, <1>4 DEF result
  <2>3. None # TRUE
    BY NoneAssumption
  <2>4. groupEval'[c].match = None
    BY <2>1
  <2>5. groupEval'[c].err = FALSE
    BY <2>1
  <2>6. reply'[c].match = None
    BY <2>2
  <2> QED
    BY <1>2, <2>3, <2>4, <2>5, <2>6 DEF RecordedReply
<1>5. CASE recs[c] # <<>>
  <2>1. Last(recs[c]) \in RuleRecord
    BY <1>5 DEF Last, TypeOK
  <2>2. /\ Last(recs[c]).match \in BOOLEAN
        /\ Last(recs[c]).rule # None
    BY <2>1, NoneAssumption DEF RuleRecord
  <2>3. CASE Last(recs[c]).err
    BY <1>1, <1>5, <2>3 DEF RecordedReply, result, Error
  <2>4. CASE ~ Last(recs[c]).err
    <3>1. groupEval'[c] = [match |-> Last(recs[c]).match, err |-> FALSE]
      BY <1>1, <1>3, <1>5, <2>4 DEF groupRow
    <3>2. reply'[c] = [ok |-> TRUE, match |-> IF Last(recs[c]).match
                                              THEN Last(recs[c]).rule ELSE None]
      BY <1>1, <1>5, <2>4 DEF result
    <3> QED
      BY <1>2, <2>2, <3>1, <3>2 DEF RecordedReply
  <2> QED
    BY <2>3, <2>4
<1> QED
  BY <1>4, <1>5

(* No step breaks what the rows of a handler say of its reply.             *)
LEMMA RowsStep ==
  ASSUME TypeOK, RowsInv, Next
  PROVE  RowsInv'
<1> DEFINE Part(c) == /\ reply[c] # None => pc[c] = "done"
                      /\ pc[c] = "rows" => groupEval[c] = groupRow(recs[c])
<1>1. \A c \in Conns : Part(c) /\ RecordedReply(c)
  BY DEF RowsInv, SuccessIsRecorded, RecordedReply
<1>2. SUFFICES \A c \in Conns : Part(c)' /\ RecordedReply(c)'
  BY DEF RowsInv, SuccessIsRecorded, RecordedReply
<1>3. ASSUME NEW c \in Conns, Receive(c), NEW d \in Conns
      PROVE  Part(d)' /\ RecordedReply(d)'
  BY <1>1, <1>3 DEF Receive, Goto, TypeOK, tables, RecordedReply,
                    FullyRecorded, TagsStored
<1>4. ASSUME NEW c \in Conns, handleEval(c), NEW d \in Conns \ {c}
      PROVE  Part(d)' /\ RecordedReply(d)'
  <2>1. /\ reply'[d] = reply[d] /\ recs'[d] = recs[d]
        /\ tagDone'[d] = tagDone[d] /\ groupEval'[d] = groupEval[d]
        /\ ruleEval'[d] = ruleEval[d]
    BY <1>4, OthersRecord
  <2>2. pc'[d] = pc[d]
    BY <1>4, StageMoves
  <2> QED
    BY <1>1, <2>1, <2>2 DEF RecordedReply, FullyRecorded, TagsStored
<1>5. ASSUME NEW c \in Conns, handleEval(c)
      PROVE  Part(c)' /\ RecordedReply(c)'
  <2>1. reply[c] = None
    BY <1>1, <1>5
       DEF handleEval, ReadInput, Lookup, Prepared, Prepare, PrepareFails,
           GetMetadata, GetMetadataMisses, PutMessage, Evaluated, SetTag,
           DeleteTag, ChangeTag, RuleMatches, RuleDeclines, RuleThrows,
           RuleReturns, Recorded, Begin, InsertGroupEval, InsertRuleEval,
           PutTagChange, Commit, RecordFails
  <2>2. CASE Commit(c)
    <3>1. RecordedReply(c)'
      BY <2>2, CommitReply
    <3>2. pc'[c] = "done"
      BY <2>2 DEF Commit, Finish, Goto, TypeOK
    <3> QED
      BY <3>1, <3>2
  <2>3. CASE InsertGroupEval(c) \/ InsertRuleEval(c) \/ PutTagChange(c)
    <3>1. reply' = reply /\ recs' = recs
      BY <2>3 DEF InsertGroupEval, InsertRuleEval, PutTagChange, handler
    <3>2. groupEval'[c] = groupRow(recs[c])
      BY <1>1, <2>3 DEF InsertGroupEval, InsertRuleEval, PutTagChange, TypeOK
    <3> QED
      BY <2>1, <3>1, <3>2 DEF RecordedReply
  <2>4. CASE \/ ReadInput(c) \/ Lookup(c) \/ Prepared(c) \/ Evaluated(c)
             \/ Begin(c) \/ RecordFails(c)
    <3>1. \/ reply' = reply /\ pc'[c] # "rows"
          \/ Finish(c, Error)
      BY <2>4 DEF ReadInput, Lookup, Prepared, Prepare, PrepareFails,
           GetMetadata, GetMetadataMisses, PutMessage, CacheMessage, Evaluated,
           SetTag, DeleteTag, ChangeTag, RuleMatches, RuleDeclines, RuleThrows,
           RuleReturns, Begin, RecordFails, StartRules, Goto, handler, TypeOK
    <3>2. CASE reply' = reply /\ pc'[c] # "rows"
      BY <2>1, <3>2 DEF RecordedReply
    <3>3. CASE Finish(c, Error)
      BY <3>3 DEF Finish, Goto, Error, TypeOK, RecordedReply
    <3> QED
      BY <3>1, <3>2, <3>3
  <2> QED
    BY <1>5, <2>2, <2>3, <2>4 DEF handleEval, Recorded
<1>6. ASSUME Crash, NEW d \in Conns
      PROVE  Part(d)' /\ RecordedReply(d)'
  BY <1>1, <1>6 DEF Crash, TypeOK, tables, RecordedReply, FullyRecorded,
                    TagsStored
<1> QED
  BY <1>3, <1>4, <1>5, <1>6 DEF Next

(* RowsInv holds throughout.                                               *)
LEMMA RowsInvariance == Spec => []RowsInv
<1>1. Init => RowsInv
  BY DEF Init, RowsInv, SuccessIsRecorded
<1>2. IInv /\ RowsInv /\ [Next]_vars => RowsInv'
  <2>1. ASSUME IInv, RowsInv, Next
        PROVE  RowsInv'
    BY <2>1, RowsStep DEF IInv
  <2>2. ASSUME RowsInv, UNCHANGED vars
        PROVE  RowsInv'
    BY <2>2 DEF RowsInv, SuccessIsRecorded, FullyRecorded, TagsStored, vars,
                handler, tables
  <2> QED
    BY <2>1, <2>2
<1> QED
  BY <1>1, <1>2, Invariance, PTL DEF Spec

(* A client that is told a result finds it recorded: whatever statement    *)
(* fails and wherever the daemon crashes, the success reply is sent after  *)
(* the last row and the last tag change, and agrees with the group's row.  *)
THEOREM SuccessRecorded == Spec => []SuccessIsRecorded
<1>1. RowsInv => SuccessIsRecorded
  BY DEF RowsInv
<1> QED
  BY <1>1, RowsInvariance, PTL

-----------------------------------------------------------------------------
(* The first match                                                         *)

(* The loop over the rules has come to its end: there is no rule left, or  *)
(* the last one matched or threw.                                          *)
Ended(c) == \/ Len(recs[c]) = Len(rules(c))
            \/ /\ recs[c] # <<>>
               /\ Last(recs[c]).match \/ Last(recs[c]).err

(* The records are of the first rules in their order; all but the last one *)
(* declined, and while the loop goes on that one did too.                  *)
InOrder(c) ==
  /\ \A i \in 1..Len(recs[c]) : recs[c][i].rule = rules(c)[i]
  /\ \A i \in 1..Len(recs[c]) :
       i < Len(recs[c]) \/ pc[c] = "eval" => ~ recs[c][i].match /\ ~ recs[c][i].err
  /\ pc[c] \in {"begin", "group", "rows"} => Ended(c)
  /\ reply[c] # None /\ reply[c].ok => reply[c] = result(recs[c]) /\ Ended(c)

RulesInOrder == \A c \in Conns : InOrder(c)

(* A handler whose part of the state changes as follows stays in order.    *)
LEMMA InOrderStays ==
  ASSUME NEW c \in Conns, InOrder(c), req'[c] = req[c], recs'[c] = recs[c],
         pc'[c] = "eval" => pc[c] = "eval",
         pc'[c] \in {"begin", "group", "rows"} =>
           pc[c] \in {"begin", "group", "rows"},
         reply'[c] = reply[c] \/ reply'[c] = Error
  PROVE  InOrder(c)'
<1>1. rules(c)' = rules(c)
  BY DEF rules
<1>2. Ended(c)' <=> Ended(c)
  BY <1>1 DEF Ended
<1> QED
  BY <1>1, <1>2 DEF InOrder, Error

(* A handler that has no record yet is in order, wherever it goes on to.   *)
LEMMA InOrderEmpty ==
  ASSUME NEW c \in Conns, recs'[c] = <<>>,
         pc'[c] \in {"begin", "group", "rows"} => rules(c)' = <<>>,
         reply'[c] = None \/ reply'[c] = Error
  PROVE  InOrder(c)'
BY DEF InOrder, Ended, Error

(* A rule that returns leaves its handler in order.                        *)
LEMMA RuleInOrder ==
  ASSUME TypeOK, Requested, RuleIsLeft, NEW c \in Conns, InOrder(c),
         reply[c] = None, NEW match \in BOOLEAN, NEW err \in BOOLEAN,
         RuleReturns(c, match, err)
  PROVE  InOrder(c)'
<1> DEFINE n == Len(recs[c])
           r == [rule |-> rules(c)[n + 1], match |-> match, err |-> err,
                 changes |-> changes[c]]
<1>1. /\ pc[c] = "eval" /\ n \in Nat /\ n < Len(rules(c))
      /\ recs[c] \in Seq(RuleRecord)
  BY DEF RuleReturns, RuleIsLeft, TypeOK
<1>2. recs'[c] = Append(recs[c], r)
  BY DEF RuleReturns, TypeOK
<1>3. /\ rules(c)' = rules(c)
      /\ reply'[c] = None
      /\ pc'[c] = IF err \/ match \/ n + 1 = Len(rules(c)) THEN "begin" ELSE "eval"
  BY DEF RuleReturns, Goto, rules, TypeOK
<1>4. /\ Len(recs'[c]) = n + 1
      /\ \A i \in 1..n : recs'[c][i] = recs[c][i]
      /\ recs'[c][n + 1] = r
  <2> HIDE DEF r
  <2> QED
    BY <1>1, <1>2
<1>5. \A i \in 1..(n + 1) : recs'[c][i].rule = rules(c)[i]
  BY <1>1, <1>4 DEF InOrder
<1>6. \A i \in 1..n : ~ recs'[c][i].match /\ ~ recs'[c][i].err
  BY <1>1, <1>4 DEF InOrder
<1>7. recs'[c][n + 1].match = match /\ recs'[c][n + 1].err = err
  BY <1>4
<1>8. Last(recs'[c]) = recs'[c][n + 1] /\ recs'[c] # <<>>
  BY <1>1, <1>4 DEF Last
<1>9. pc'[c] = "begin" => Ended(c)'
  BY <1>3, <1>4, <1>7, <1>8 DEF Ended
<1>10. pc'[c] = "eval" => ~ match /\ ~ err
  BY <1>3
<1>11. pc'[c] \in {"begin", "eval"}
  BY <1>3
<1>12. \A i \in 1..(n + 1) :
         i < n + 1 \/ pc'[c] = "eval" => ~ recs'[c][i].match /\ ~ recs'[c][i].err
  BY <1>1, <1>6, <1>7, <1>10
<1> QED
  BY <1>3, <1>4, <1>5, <1>9, <1>11, <1>12 DEF InOrder

(* No step breaks the order.                                               *)
LEMMA InOrderStep ==
  ASSUME TypeOK, Support, RowsInv, RulesInOrder, Next
  PROVE  RulesInOrder'
<1>1. SUFFICES \A c \in Conns : InOrder(c)'
  BY DEF RulesInOrder
<1>2. ASSUME NEW c \in Conns, Receive(c)
      PROVE  \A d \in Conns : InOrder(d)'
  <2>1. /\ recs'[c] = <<>> /\ reply'[c] = None /\ pc'[c] = "input"
    BY <1>2 DEF Receive, Goto, TypeOK, Support, RuleIsLeft, Unloaded, RowsInv
  <2>2. ASSUME NEW d \in Conns \ {c}
        PROVE  /\ req'[d] = req[d] /\ recs'[d] = recs[d] /\ pc'[d] = pc[d]
               /\ reply'[d] = reply[d] /\ InOrder(d)
    BY <1>2, <2>2 DEF Receive, Goto, TypeOK, RulesInOrder
  <2> QED
    BY <2>1, <2>2, InOrderEmpty, InOrderStays
<1>3. ASSUME NEW c \in Conns, handleEval(c), NEW d \in Conns \ {c}
      PROVE  InOrder(d)'
  <2>1. /\ req' = req /\ recs'[d] = recs[d] /\ pc'[d] = pc[d]
        /\ reply'[d] = reply[d] /\ InOrder(d)
    BY <1>3, StageMoves, OthersRecord DEF RulesInOrder
  <2> QED
    BY <2>1, InOrderStays
<1>4. ASSUME NEW c \in Conns, ReadInput(c) \/ Lookup(c) \/ Prepared(c)
      PROVE  InOrder(c)'
  <2>1. /\ recs[c] = <<>> /\ reply[c] = None
        /\ req' = req /\ recs' = recs
        /\ pc'[c] \in {"begin", "group", "rows"} => rules(c) = <<>>
        /\ reply' = reply \/ reply'[c] = Error
    BY <1>4 DEF ReadInput, Lookup, Prepared, Prepare, PrepareFails, GetMetadata,
       GetMetadataMisses, PutMessage, CacheMessage, StartRules, Finish, Goto,
       handler, TypeOK, Support, RuleIsLeft, Unloaded, RowsInv
  <2>2. rules(c)' = rules(c)
    BY <2>1 DEF rules
  <2> QED
    BY <2>1, <2>2, InOrderEmpty
<1>5. ASSUME NEW c \in Conns, Evaluated(c)
      PROVE  InOrder(c)'
  <2>1. CASE SetTag(c) \/ DeleteTag(c)
    BY <2>1, InOrderStays DEF SetTag, DeleteTag, ChangeTag, RulesInOrder
  <2>2. CASE RuleMatches(c) \/ RuleDeclines(c) \/ RuleThrows(c)
    <3>1. PICK match \in BOOLEAN, err \in BOOLEAN : RuleReturns(c, match, err)
      BY <2>2 DEF RuleMatches, RuleDeclines, RuleThrows
    <3>2. reply[c] = None
      BY <3>1 DEF RuleReturns, RowsInv
    <3> QED
      BY <3>1, <3>2, RuleInOrder DEF Support, RulesInOrder
  <2> QED
    BY <1>5, <2>1, <2>2 DEF Evaluated
<1>6. ASSUME NEW c \in Conns, Recorded(c)
      PROVE  InOrder(c)'
  <2>1. /\ pc[c] \in {"begin", "group", "rows"} /\ req' = req /\ recs' = recs
        /\ InOrder(c)
        /\ pc'[c] # "eval"
    BY <1>6 DEF Recorded, Begin, InsertGroupEval, InsertRuleEval, PutTagChange,
                Commit, RecordFails, Finish, Goto, handler, TypeOK, RulesInOrder
  <2>2. CASE Commit(c)
    <3>1. pc'[c] = "done" /\ reply'[c] = result(recs[c])
      BY <2>2 DEF Commit, Finish, Goto, TypeOK
    <3>2. rules(c)' = rules(c)
      BY <2>1 DEF rules
    <3>3. Ended(c)'
      BY <2>1, <3>2 DEF InOrder, Ended
    <3> QED
      BY <2>1, <3>1, <3>2, <3>3 DEF InOrder
  <2>3. CASE ~ Commit(c)
    <3>1. reply'[c] = reply[c] \/ reply'[c] = Error
      BY <1>6, <2>3 DEF Recorded, Begin, InsertGroupEval, InsertRuleEval,
                PutTagChange, RecordFails, Finish, handler, TypeOK
    <3> QED
      BY <2>1, <3>1, InOrderStays
  <2> QED
    BY <2>2, <2>3
<1>7. ASSUME Crash, NEW d \in Conns
      PROVE  InOrder(d)'
  BY <1>7, InOrderStays DEF Crash, TypeOK, RulesInOrder
<1> QED
  BY <1>2, <1>3, <1>4, <1>5, <1>6, <1>7 DEF Next, handleEval

(* A reply that says what the records in order say names the first match.  *)
LEMMA FirstMatch ==
  ASSUME TypeOK, NEW c \in Conns, InOrder(c), reply[c] # None, reply[c].ok
  PROVE  LET n == Len(recs[c]) IN
         /\ \A i \in 1..n : recs[c][i].rule = rules(c)[i] /\ ~ recs[c][i].err
         /\ \A i \in 1..n : recs[c][i].match <=> (i = n /\ reply[c].match # None)
         /\ IF reply[c].match = None THEN n = Len(rules(c))
            ELSE reply[c].match = rules(c)[n]
<1> DEFINE n == Len(recs[c])
<1>1. reply[c] = result(recs[c]) /\ Ended(c)
  BY DEF InOrder
<1>2. CASE recs[c] = <<>>
  BY <1>1, <1>2 DEF Ended, result
<1>3. CASE recs[c] # <<>>
  <2>1. /\ recs[c] \in Seq(RuleRecord) /\ n \in Nat \ {0}
        /\ Last(recs[c]) = recs[c][n] /\ recs[c][n] \in RuleRecord
    BY <1>3 DEF TypeOK, Last
  <2>2. ~ recs[c][n].err
    BY <1>1, <1>3, <2>1 DEF result, Error
  <2>3. reply[c].match = IF recs[c][n].match THEN recs[c][n].rule ELSE None
    BY <1>1, <1>3, <2>1, <2>2 DEF result
  <2>4. recs[c][n].rule # None /\ recs[c][n].rule = rules(c)[n]
    BY <2>1, NoneAssumption DEF RuleRecord, InOrder
  <2>5. recs[c][n].match <=> reply[c].match # None
    BY <2>1, <2>3, <2>4 DEF RuleRecord
  <2>6. \A i \in 1..n : i < n => ~ recs[c][i].match /\ ~ recs[c][i].err
    BY DEF InOrder
  <2>7. reply[c].match = None => n = Len(rules(c))
    BY <1>1, <2>1, <2>2, <2>5 DEF Ended
  <2>8. \A i \in 1..n : recs[c][i].rule = rules(c)[i] /\ ~ recs[c][i].err
    BY <2>1, <2>2, <2>6 DEF InOrder
  <2>9. \A i \in 1..n : recs[c][i].match <=> (i = n /\ reply[c].match # None)
    BY <2>1, <2>5, <2>6
  <2> QED
    BY <2>3, <2>4, <2>5, <2>7, <2>8, <2>9
<1> QED
  BY <1>2, <1>3

(* For every group of rules, whatever else is going on: a reply that names *)
(* a rule names the first that matched, after all before it ran and        *)
(* declined, and "no match" is said only after all of them did.            *)
THEOREM FirstMatchAnswered == Spec => []AnswerIsFirstMatch
<1>1. Init => RulesInOrder
  <2> SUFFICES ASSUME Init, NEW c \in Conns
               PROVE  InOrder(c)
    BY DEF RulesInOrder
  <2>1. recs[c] = <<>> /\ pc[c] = "idle" /\ reply[c] = None
    BY DEF Init
  <2> QED
    BY <2>1 DEF InOrder
<1>2. IInv /\ RowsInv /\ RulesInOrder /\ [Next]_vars => RulesInOrder'
  <2>1. ASSUME IInv, RowsInv, RulesInOrder, Next
        PROVE  RulesInOrder'
    BY <2>1, InOrderStep DEF IInv
  <2>2. ASSUME RulesInOrder, UNCHANGED vars
        PROVE  RulesInOrder'
    BY <2>2 DEF RulesInOrder, InOrder, Ended, rules, vars, handler
  <2> QED
    BY <2>1, <2>2
<1>3. IInv /\ RulesInOrder => AnswerIsFirstMatch
  <2> SUFFICES ASSUME IInv, RulesInOrder
               PROVE  AnswerIsFirstMatch
    OBVIOUS
  <2> QED
    BY FirstMatch DEF IInv, RulesInOrder, AnswerIsFirstMatch
<1> QED
  BY <1>1, <1>2, <1>3, Invariance, RowsInvariance, PTL DEF Spec

-----------------------------------------------------------------------------
(* The service                                                             *)

(* Before its row for the group is inserted a handler has none, and before *)
(* it is done it has no reply.                                             *)
Unwritten ==
  \A c \in Conns :
    /\ pc[c] \in Unloaded \cup {"eval", "begin", "group"} => groupEval[c] = None
    /\ reply[c] # None => pc[c] = "done"

(* What a handler does to the record of its own evaluation: nothing while  *)
(* its record is still open.                                               *)
LEMMA OwnRecord ==
  ASSUME TypeOK, NEW c \in Conns, handleEval(c)
  PROVE  /\ \/ UNCHANGED <<tagDone, groupEval, ruleEval>>
            \/ InsertGroupEval(c) \/ InsertRuleEval(c) \/ PutTagChange(c)
         /\ recs' = recs \/ pc[c] = "eval"
         /\ message' = message \/ PutMessage(c)
         /\ pc[c] # "done"
         /\ \/ reply' = reply
            \/ Finish(c, Error)
            \/ Commit(c)
<1> USE DEF handler, tables
<1>1. CASE ReadInput(c) \/ Lookup(c)
  BY <1>1 DEF ReadInput, Lookup
<1>2. CASE Prepared(c)
  BY <1>2 DEF Prepared, Prepare, PrepareFails, GetMetadata, GetMetadataMisses,
              PutMessage
<1>3. CASE Evaluated(c)
  BY <1>3 DEF Evaluated, SetTag, DeleteTag, ChangeTag, RuleMatches,
              RuleDeclines, RuleThrows, RuleReturns
<1>4. CASE Recorded(c)
  BY <1>4 DEF Recorded, Begin, InsertGroupEval, InsertRuleEval, PutTagChange,
              Commit, RecordFails
<1> QED
  BY <1>1, <1>2, <1>3, <1>4 DEF handleEval

(* No step breaks Unwritten.                                               *)
LEMMA UnwrittenStep ==
  ASSUME TypeOK, Unwritten, Next
  PROVE  Unwritten'
<1> DEFINE Part(c) ==
      /\ pc[c] \in Unloaded \cup {"eval", "begin", "group"} => groupEval[c] = None
      /\ reply[c] # None => pc[c] = "done"
<1>1. \A c \in Conns : Part(c)
  BY DEF Unwritten
<1>2. SUFFICES \A c \in Conns : Part(c)'
  BY DEF Unwritten
<1>3. ASSUME NEW c \in Conns, Receive(c), NEW d \in Conns
      PROVE  Part(d)'
  BY <1>1, <1>3 DEF Receive, Goto, TypeOK, tables, Unloaded
<1>4. ASSUME NEW c \in Conns, handleEval(c), NEW d \in Conns \ {c}
      PROVE  Part(d)'
  <2>1. /\ reply'[d] = reply[d] /\ groupEval'[d] = groupEval[d]
        /\ pc'[d] = pc[d]
    BY <1>4, OthersRecord, StageMoves
  <2> QED
    BY <1>1, <2>1
<1>5. ASSUME NEW c \in Conns, handleEval(c)
      PROVE  Part(c)'
  <2>1. ASSUME pc'[c] \in Unloaded \cup {"eval", "begin", "group"}
        PROVE  groupEval'[c] = None
    <3>1. pc[c] \in Unloaded \cup {"eval", "begin", "group"}
      BY <1>5, <2>1, StageMoves
    <3>2. ~ InsertGroupEval(c)
      BY <2>1 DEF InsertGroupEval, Goto, TypeOK, Unloaded
    <3>3. ~ InsertRuleEval(c) /\ ~ PutTagChange(c)
      BY <3>1 DEF InsertRuleEval, PutTagChange, Unloaded
    <3> QED
      BY <1>1, <1>5, <3>1, <3>2, <3>3, OwnRecord
  <2>2. reply[c] = None
    BY <1>1, <1>5, OwnRecord
  <2>3. reply' = reply \/ pc'[c] = "done"
    BY <1>5, OwnRecord DEF Finish, Commit, Goto, TypeOK
  <2> QED
    BY <2>1, <2>2, <2>3
<1>6. ASSUME Crash, NEW d \in Conns
      PROVE  Part(d)'
  BY <1>1, <1>6 DEF Crash, TypeOK, tables, Unloaded
<1> QED
  BY <1>3, <1>4, <1>5, <1>6 DEF Next

(* Unwritten holds throughout.                                             *)
LEMMA UnwrittenInvariance == Spec => []Unwritten
<1>1. Init => Unwritten
  BY DEF Init, Unwritten
<1>2. IInv /\ Unwritten /\ [Next]_vars => Unwritten'
  <2>1. ASSUME IInv, Unwritten, Next
        PROVE  Unwritten'
    BY <2>1, UnwrittenStep DEF IInv
  <2>2. ASSUME Unwritten, UNCHANGED vars
        PROVE  Unwritten'
    BY <2>2 DEF Unwritten, vars, handler, tables
  <2> QED
    BY <2>1, <2>2
<1> QED
  BY <1>1, <1>2, Invariance, PTL DEF Spec

-----------------------------------------------------------------------------
(* The journal                                                             *)

(* The journal is a function of the record of the evaluations.             *)
LEMMA JournalStays ==
  ASSUME UNCHANGED <<req, recs, tagDone, groupEval, ruleEval>>
  PROVE  journaled' = journaled
BY DEF journaled, FullyRecorded, TagsStored, storeID

(* A step that changes the record of one connection only, whose record was *)
(* not full before, journals its evaluation or nothing.                    *)
LEMMA JournalMoves ==
  ASSUME NEW c \in Conns, ~ FullyRecorded(c),
         \A d \in Conns \ {c} : /\ req'[d] = req[d] /\ recs'[d] = recs[d]
                                /\ tagDone'[d] = tagDone[d]
                                /\ groupEval'[d] = groupEval[d]
                                /\ ruleEval'[d] = ruleEval[d]
  PROVE  journaled' = IF FullyRecorded(c)'
                      THEN [journaled EXCEPT ![c] = [message |-> storeID(c)',
                                                     result |-> result(recs'[c])]]
                      ELSE journaled
<1> DEFINE entry(d) == [message |-> storeID(d), result |-> result(recs[d])]
<1>1. \A d \in Conns \ {c} : journaled'[d] = journaled[d]
  BY DEF journaled, FullyRecorded, TagsStored, storeID
<1>2. journaled[c] = None
  BY DEF journaled
<1>3. journaled'[c] = IF FullyRecorded(c)' THEN entry(c)' ELSE None
  BY DEF journaled
<1>4. /\ journaled  = [d \in Conns |-> journaled[d]]
      /\ journaled' = [d \in Conns |-> journaled'[d]]
  BY DEF journaled
<1> QED
  BY <1>1, <1>2, <1>3, <1>4

-----------------------------------------------------------------------------
(* The steps                                                               *)

(* A handler past its rules has a message that is decided on.              *)
LEMMA DecidedOn ==
  ASSUME TypeOK, Requested, Valid, SampledAgrees, NEW c \in Conns, Loaded(c)
  PROVE  storeID(c) \in StoreIDs /\ message[storeID(c)] # None
<1>1. storeID(c) \in StoreIDs
  BY DEF Loaded, Requested, Requests, storeID, StoreIDs
<1>2. /\ msg[c] \in Conns /\ object[msg[c]] \in Message
      /\ object[msg[c]].sampled = message[storeID(c)]
  BY DEF Valid, SampledAgrees, DecisionAgrees, TypeOK
<1>3. message[storeID(c)] \in BOOLEAN
  BY <1>2 DEF Message
<1> QED
  BY <1>1, <1>3, NoneAssumption

(* A row of the record is written: the evaluation is journaled with the    *)
(* last one, and before that nothing changes.                              *)
LEMMA RowStep ==
  ASSUME IInv, Unwritten, NEW c \in Conns,
         InsertGroupEval(c) \/ InsertRuleEval(c) \/ PutTagChange(c)
  PROVE  Service!Journal(c) \/ UNCHANGED Service!vars
<1>1. /\ pc[c] \in {"group", "rows"}
      /\ req' = req /\ recs' = recs /\ reply' = reply /\ message' = message
  BY DEF InsertGroupEval, InsertRuleEval, PutTagChange, handler, tables
<1>2. ~ FullyRecorded(c)
  <2>1. CASE InsertGroupEval(c)
    BY <2>1 DEF InsertGroupEval, Unwritten, FullyRecorded
  <2>2. CASE InsertRuleEval(c)
    BY <2>2 DEF InsertRuleEval, Unwritten, FullyRecorded
  <2>3. CASE PutTagChange(c)
    BY <2>3 DEF PutTagChange, Unwritten, FullyRecorded
  <2> QED
    BY <2>1, <2>2, <2>3
<1>3. handleEval(c)
  BY DEF handleEval, Recorded
<1>4. journaled' = IF FullyRecorded(c)'
                   THEN [journaled EXCEPT ![c] = [message |-> storeID(c)',
                                                  result |-> result(recs'[c])]]
                   ELSE journaled
  BY <1>1, <1>2, <1>3, JournalMoves, OthersRecord DEF IInv
<1>5. journaled[c] = None /\ reply[c] = None
  BY <1>1, <1>2 DEF journaled, Unwritten
<1>6. storeID(c)' = storeID(c)
  BY <1>1 DEF storeID
<1>7. storeID(c) \in StoreIDs /\ message[storeID(c)] # None
  BY <1>1, DecidedOn DEF Loaded, IInv, Support
<1>8. result(recs[c]) \in Reply
  BY ResultType DEF IInv, TypeOK
<1> QED
  BY <1>1, <1>4, <1>5, <1>6, <1>7, <1>8 DEF Service!Journal, Service!vars

(* The insert of a message decides on it.                                  *)
LEMMA PutStep ==
  ASSUME IInv, NEW c \in Conns, PutMessage(c)
  PROVE  \E s \in StoreIDs : Service!Decide(s)
<1>1. storeID(c) \in StoreIDs
  BY DEF PutMessage, IInv, Support, Requested, Requests, storeID, StoreIDs
<1>2. UNCHANGED <<req, recs, tagDone, groupEval, ruleEval, reply>>
  BY DEF PutMessage
<1>3. journaled' = journaled
  BY <1>2, JournalStays
<1>4. /\ message[storeID(c)] = None
      /\ \E sampled \in BOOLEAN :
           message' = [message EXCEPT ![storeID(c)] = sampled]
  BY DEF PutMessage
<1> QED
  BY <1>1, <1>2, <1>3, <1>4 DEF Service!Decide

(* A reply is an error, or the result that is journaled.                   *)
LEMMA ReplyStep ==
  ASSUME IInv, Unwritten, NEW c \in Conns, handleEval(c),
         Finish(c, Error) \/ Commit(c),
         UNCHANGED <<req, recs, tagDone, groupEval, ruleEval, message>>
  PROVE  Service!Fail(c) \/ Service!Succeed(c)
<1>1. journaled' = journaled
  BY JournalStays
<1>2. reply[c] = None
  BY OwnRecord DEF Unwritten, IInv
<1>3. CASE Finish(c, Error)
  BY <1>1, <1>2, <1>3 DEF Finish, Service!Fail
<1>4. CASE Commit(c)
  <2>1. /\ FullyRecorded(c)
        /\ reply' = [reply EXCEPT ![c] = result(recs[c])]
    BY <1>4 DEF Commit, Finish
  <2>2. journaled[c] = [message |-> storeID(c), result |-> result(recs[c])]
    BY <2>1 DEF journaled
  <2>3. storeID(c) \in StoreIDs /\ result(recs[c]) \in Reply
    BY <1>4, DecidedOn, ResultType DEF Commit, Loaded, IInv, Support, TypeOK
  <2>4. journaled[c] # None
    BY <2>2, <2>3, JournalAssumption
  <2> QED
    BY <1>1, <1>2, <2>1, <2>2, <2>4 DEF Service!Succeed
<1> QED
  BY <1>3, <1>4

(* Every step of a handler is a step of the service, or none.              *)
LEMMA HandlerStep ==
  ASSUME IInv, Unwritten, NEW c \in Conns, handleEval(c)
  PROVE  Service!Next \/ UNCHANGED Service!vars
<1> DEFINE rows == <<req, recs, tagDone, groupEval, ruleEval, message>>
<1>1. ASSUME UNCHANGED rows, reply' = reply \/ Finish(c, Error) \/ Commit(c)
      PROVE  Service!Next \/ UNCHANGED Service!vars
  <2>1. CASE reply' = reply
    BY <1>1, <2>1, JournalStays DEF Service!vars
  <2>2. CASE Finish(c, Error) \/ Commit(c)
    BY <1>1, <2>2, ReplyStep DEF Service!Next
  <2> QED
    BY <1>1, <2>1, <2>2
<1>2. CASE \/ ReadInput(c) \/ Lookup(c) \/ Prepare(c) \/ PrepareFails(c)
           \/ GetMetadata(c) \/ GetMetadataMisses(c)
  BY <1>1, <1>2 DEF ReadInput, Lookup, Prepare, PrepareFails, GetMetadata,
                    GetMetadataMisses, handler, tables
<1>3. CASE PutMessage(c)
  BY <1>3, PutStep DEF Service!Next
<1>4. CASE Evaluated(c)
  <2>1. /\ pc[c] = "eval"
        /\ UNCHANGED <<req, tagDone, groupEval, ruleEval, message, reply>>
    BY <1>4 DEF Evaluated, SetTag, DeleteTag, ChangeTag, RuleMatches,
                RuleDeclines, RuleThrows, RuleReturns, tables
  <2>2. ~ FullyRecorded(c) /\ ~ FullyRecorded(c)'
    BY <2>1 DEF Unwritten, FullyRecorded
  <2>3. journaled' = journaled
    BY <1>4, <2>1, <2>2, JournalMoves, OthersRecord DEF IInv
  <2> QED
    BY <2>1, <2>3 DEF Service!vars
<1>5. CASE Begin(c) \/ Commit(c) \/ RecordFails(c)
  BY <1>1, <1>5 DEF Begin, Commit, RecordFails, handler, tables
<1>6. CASE InsertGroupEval(c) \/ InsertRuleEval(c) \/ PutTagChange(c)
  BY <1>6, RowStep DEF Service!Next
<1> QED
  BY <1>2, <1>3, <1>4, <1>5, <1>6 DEF handleEval, Prepared, Recorded

(* So is every other step.                                                 *)
LEMMA ServiceStep ==
  ASSUME IInv, Unwritten, [Next]_vars
  PROVE  [Service!Next]_(Service!vars)
<1>1. ASSUME NEW c \in Conns, Receive(c)
      PROVE  UNCHANGED Service!vars
  <2>1. /\ pc[c] = "idle"
        /\ req' \in [Conns -> Requests \cup {None}]
        /\ \A d \in Conns \ {c} : req'[d] = req[d]
        /\ UNCHANGED <<recs, tagDone, groupEval, ruleEval, message, reply>>
    BY <1>1 DEF Receive, tables, IInv, TypeOK
  <2>2. ~ FullyRecorded(c) /\ ~ FullyRecorded(c)'
    BY <2>1 DEF Unwritten, Unloaded, FullyRecorded
  <2>3. journaled' = journaled
    BY <2>1, <2>2, JournalMoves
  <2> QED
    BY <2>1, <2>3 DEF Service!vars
<1>2. ASSUME Crash
      PROVE  UNCHANGED Service!vars
  BY <1>2, JournalStays DEF Crash, tables, Service!vars
<1>3. ASSUME UNCHANGED vars
      PROVE  UNCHANGED Service!vars
  BY <1>3, JournalStays DEF vars, handler, tables, Service!vars
<1> QED
  BY <1>1, <1>2, <1>3, HandlerStep DEF Next

(* Whatever its handlers, the store and a crash do, the eval command keeps *)
(* the promises of the service: one decision for each message, an          *)
(* evaluation journaled at most once and for good, and no success reply    *)
(* but with the result that is journaled.                                  *)
THEOREM Implementation == Spec => ImplementsService
<1>1. Init => Service!Init
  BY DEF Init, Service!Init, journaled, FullyRecorded
<1>2. IInv /\ Unwritten /\ [Next]_vars => [Service!Next]_(Service!vars)
  BY ServiceStep
<1> QED
  BY <1>1, <1>2, Invariance, UnwrittenInvariance, PTL
     DEF Spec, ImplementsService, Service!Spec
=============================================================================
