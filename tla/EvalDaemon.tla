----------------------------- MODULE EvalDaemon -----------------------------
(***************************************************************************)
(* The eval command inside the daemon: daemon/daemon.go (handleEval,       *)
(* prepareMsg), daemon/message.go (messages, tags, evaluation records) and *)
(* the SQLite store behind them (cmd/reeed/store/sqlite3_store.go).        *)
(*                                                                         *)
(* Every connection is served by a goroutine of its own, so the handlers   *)
(* interleave.  What they share is                                         *)
(*   - the message cache, touched only under Daemon.lock,                  *)
(*   - the Message objects, whose tags are touched only under Message.lock,*)
(*   - the database, written by statements that run one at a time.         *)
(* A step of the model is one critical section or one SQL statement.       *)
(* Everything between two steps is local to one handler.                   *)
(*                                                                         *)
(* Definitions headed "Slip:" are what a plausible mistake would make of   *)
(* the definition that follows; they test the properties and are not part  *)
(* of the specification.                                                   *)
(***************************************************************************)
EXTENDS Naturals, Sequences

CONSTANTS
  Conns,        (* connections; each one carries a single eval command      *)
  Bodies,       (* message texts; a text stands for its MD5 sum as well     *)
  Malformed,    (* the texts the MIME parser rejects                        *)
  MessageIDs,   (* addresses found in Message-ID headers                    *)
  MessageIDOf,  (* the address in the header of each text, or None          *)
  GroupNames,   (* group names a client may ask for                         *)
  Groups,       (* Daemon.Groups: configured group -> its rules in order    *)
  RuleNames,    (* rule names a client may ask for, or a group may hold     *)
  TagKeys,
  TagValues,
  MaxTagOps,    (* bound: tag changes made by one run of one rule           *)
  MaxCrashes,   (* bound: daemon crashes followed by a restart              *)
  ReadsMayFail, (* whether stepping through a query's rows may fail         *)
  None

ASSUME ConstantsAssumption ==
  /\ Malformed \subseteq Bodies
  /\ MessageIDOf \in [Bodies -> MessageIDs \cup {None}]
  /\ DOMAIN Groups \subseteq GroupNames
  /\ \A g \in DOMAIN Groups : Groups[g] \in Seq(RuleNames)
  /\ MaxTagOps \in Nat
  /\ MaxCrashes \in Nat
  /\ ReadsMayFail \in BOOLEAN

(* None stands for nil, for a missing row and for an absent tag.           *)
ASSUME NoneAssumption ==
  /\ None \notin Conns
  /\ None \notin BOOLEAN
  /\ None \notin RuleNames
  /\ None \notin TagValues
  /\ None \notin [ok : BOOLEAN, match : RuleNames \cup {None}]
  /\ None \notin [sampled : BOOLEAN, tags : [TagKeys -> TagValues \cup {None}]]
  /\ None \notin [match : BOOLEAN \cup {None}, err : BOOLEAN]

VARIABLES
  pc,        (* where each handler is                                      *)
  req,       (* the eval request each connection carries                   *)
  msg,       (* handler's *Message: the handler that allocated it, or None *)
  changes,   (* tag changes of the rule now running                        *)
  recs,      (* EvalRecord.rules: one record per finished rule             *)
  tagDone,   (* tag changes stored so far for the last rule row written    *)
  reply,     (* result sent back to the client                             *)
  lock,      (* holder of Daemon.lock in write mode                        *)
  cache,     (* MessageCache: text -> Message, or None                     *)
  object,    (* the Message allocated by each handler                      *)
  message,   (* table message: store ID -> is_sampled, or None             *)
  tag,       (* table tag: store ID, key -> value; None is absent or NULL  *)
  groupEval, (* table group_eval: the row written for each connection      *)
  ruleEval,  (* table rule_eval: the rows written for each connection      *)
  crashes

handler == <<req, msg, changes, recs, tagDone, reply>>
memory  == <<lock, cache, object>>
tables  == <<message, tag, groupEval, ruleEval>>
vars    == <<pc, handler, memory, tables, crashes>>

-----------------------------------------------------------------------------
(* Values                                                                  *)

Requests   == [body : Bodies, group : GroupNames, rule : RuleNames \cup {None}]
Tags       == [TagKeys -> TagValues \cup {None}]
Message    == [sampled : BOOLEAN, tags : Tags]
TagChange  == [key : TagKeys, value : TagValues \cup {None}]
RuleRecord == [rule : RuleNames, match : BOOLEAN, err : BOOLEAN,
               changes : Seq(TagChange)]
GroupRow   == {r \in [match : BOOLEAN \cup {None}, err : BOOLEAN] :
                 r.err => r.match = None}
RuleRow    == [rule : RuleNames, match : BOOLEAN, err : BOOLEAN]
Reply      == [ok : BOOLEAN, match : RuleNames \cup {None}]

Error == [ok |-> FALSE, match |-> None]

(* A message is stored under its Message-ID, or else under its MD5 sum.    *)
toStoreID(b) == IF MessageIDOf[b] # None
                THEN <<"Message-ID", MessageIDOf[b]>>
                ELSE <<"MD5-Sum", b>>

StoreIDs   == {toStoreID(b) : b \in Bodies}
storeID(c) == toStoreID(req[c].body)

(* The rules an eval request runs: the one it names if the group has it,   *)
(* and otherwise every rule of the group.                                  *)
rules(c) == LET all == Groups[req[c].group]
            IN IF \E i \in DOMAIN all : all[i] = req[c].rule
               THEN <<req[c].rule>> ELSE all

Last(s) == s[Len(s)]

-----------------------------------------------------------------------------
(* Handler control                                                         *)

Goto(c, l) == pc' = [pc EXCEPT ![c] = l]

Finish(c, r) == /\ Goto(c, "done")
                /\ reply' = [reply EXCEPT ![c] = r]

(* The handler has its Message: run the rules, if there are any.           *)
StartRules(c, m) == /\ msg' = [msg EXCEPT ![c] = m]
                    /\ Goto(c, IF rules(c) = <<>> THEN "begin" ELSE "eval")

(* The connection is accepted and the command line read.                   *)
Receive(c) ==
  /\ pc[c] = "idle"
  /\ \E r \in Requests : req' = [req EXCEPT ![c] = r]
  /\ Goto(c, "input")
  /\ UNCHANGED <<msg, changes, recs, tagDone, reply, memory, tables, crashes>>

(* The arguments are split and the message text read.  Bad arguments, an   *)
(* unknown group, a short or failed input end in an error reply.           *)
ReadInput(c) ==
  /\ pc[c] = "input"
  /\ \/ /\ req[c].group \in DOMAIN Groups
        /\ Goto(c, "lookup")
        /\ UNCHANGED reply
     \/ Finish(c, Error)
  /\ UNCHANGED <<req, msg, changes, recs, tagDone, memory, tables, crashes>>

(* getCachedMsg under the read lock; on a miss, parse the MIME envelope.   *)
Lookup(c) ==
  LET b == req[c].body IN
  /\ pc[c] = "lookup"
  /\ lock = None
  /\ \/ /\ cache[b] # None
        /\ StartRules(c, cache[b])
        /\ UNCHANGED reply
     \/ /\ cache[b] = None
        /\ b \in Malformed
        /\ Finish(c, Error)
        /\ UNCHANGED msg
     \/ /\ cache[b] = None
        /\ b \notin Malformed
        /\ Goto(c, "prepare")
        /\ UNCHANGED <<msg, reply>>
  /\ UNCHANGED <<req, changes, recs, tagDone, memory, tables, crashes>>

-----------------------------------------------------------------------------
(* prepareMsg: all of it holds Daemon.lock in write mode                   *)

(* Slip: the second look into the cache is forgotten.                      *)
PrepareUnchecked(c) ==
  /\ pc[c] = "prepare"
  /\ lock = None
  /\ lock' = c
  /\ Goto(c, "meta")
  /\ UNCHANGED <<handler, cache, object, tables, crashes>>

(* Take the lock and look into the cache a second time.                    *)
Prepare(c) ==
  LET b == req[c].body IN
  /\ pc[c] = "prepare"
  /\ lock = None
  /\ \/ /\ cache[b] # None
        /\ StartRules(c, cache[b])
        /\ UNCHANGED lock
     \/ /\ cache[b] = None
        /\ lock' = c
        /\ Goto(c, "meta")
        /\ UNCHANGED msg
  /\ UNCHANGED <<req, changes, recs, tagDone, reply, cache, object, tables,
                 crashes>>

(* Allocate the Message and add it to the cache, which evicts what its     *)
(* policy says, the new entry included; then release the lock.             *)
CacheMessage(c, m) ==
  /\ object' = [object EXCEPT ![c] = m]
  /\ \E evicted \in SUBSET Bodies :
       cache' = [b \in Bodies |-> IF b \in evicted THEN None
                                  ELSE IF b = req[c].body THEN c ELSE cache[b]]
  /\ lock' = None
  /\ StartRules(c, c)

(* Slip: the lock is not released on an error.                             *)
PrepareFailsLocked(c) ==
  /\ pc[c] \in {"meta", "put"}
  /\ Finish(c, Error)
  /\ UNCHANGED <<req, msg, changes, recs, tagDone, memory, tables, crashes>>

(* The store returns an error and the deferred unlock runs.                *)
PrepareFails(c) ==
  /\ pc[c] \in {"meta", "put"}
  /\ lock' = None
  /\ Finish(c, Error)
  /\ UNCHANGED <<req, msg, changes, recs, tagDone, cache, object, tables,
                 crashes>>

(* The rows a query yields: all of them, or those before a failed step,    *)
(* which the code does not tell from the end of the rows.                  *)
Yielded(K) == IF ReadsMayFail THEN SUBSET K ELSE {K}

(* The message is in the store: take its sampling flag and its tags.       *)
GetMetadata(c) ==
  /\ pc[c] = "meta"
  /\ message[storeID(c)] # None
  /\ \E read \in Yielded(TagKeys) :
       CacheMessage(c, [sampled |-> message[storeID(c)],
                        tags    |-> [k \in TagKeys |->
                                       IF k \in read THEN tag[storeID(c)][k]
                                       ELSE None]])
  /\ UNCHANGED <<req, changes, recs, tagDone, reply, tables, crashes>>

(* Slip: the lock is given up between the lookup and the insert.           *)
GetMetadataMissesUnlocked(c) ==
  /\ pc[c] = "meta"
  /\ message[storeID(c)] = None
  /\ Goto(c, "put")
  /\ lock' = None
  /\ UNCHANGED <<handler, cache, object, tables, crashes>>

(* No row for the message, or none could be read.                          *)
GetMetadataMisses(c) ==
  /\ pc[c] = "meta"
  /\ message[storeID(c)] = None \/ ReadsMayFail
  /\ Goto(c, "put")
  /\ UNCHANGED <<handler, memory, tables, crashes>>

(* Slip: the insert ignores a conflict (INSERT OR IGNORE).                 *)
PutMessageIgnored(c) ==
  /\ pc[c] = "put"
  /\ \E sampled \in BOOLEAN :
       /\ message' = [message EXCEPT ![storeID(c)] = IF @ = None THEN sampled
                                                     ELSE @]
       /\ CacheMessage(c, [sampled |-> sampled,
                           tags    |-> [k \in TagKeys |-> None]])
  /\ UNCHANGED <<req, changes, recs, tagDone, reply, tag, groupEval, ruleEval,
                 crashes>>

(* Decide whether the message is sampled and insert its row.  The store ID *)
(* is the primary key: the insert of an ID that is there only fails.       *)
PutMessage(c) ==
  /\ pc[c] = "put"
  /\ message[storeID(c)] = None
  /\ \E sampled \in BOOLEAN :
       /\ message' = [message EXCEPT ![storeID(c)] = sampled]
       /\ CacheMessage(c, [sampled |-> sampled,
                           tags    |-> [k \in TagKeys |-> None]])
  /\ UNCHANGED <<req, changes, recs, tagDone, reply, tag, groupEval, ruleEval,
                 crashes>>

-----------------------------------------------------------------------------
(* Rule evaluation                                                         *)

(* The rule now running sets a tag, or deletes it (value None): the tag    *)
(* changes in the shared Message, and the rule's record notes the change.  *)
ChangeTag(c, k, v) ==
  /\ pc[c] = "eval"
  /\ Len(changes[c]) < MaxTagOps
  /\ object'  = [object EXCEPT ![msg[c]].tags[k] = v]
  /\ changes' = [changes EXCEPT ![c] = Append(@, [key |-> k, value |-> v])]
  /\ UNCHANGED <<pc, req, msg, recs, tagDone, reply, lock, cache, tables,
                 crashes>>

SetTag(c)    == \E k \in TagKeys, v \in TagValues : ChangeTag(c, k, v)

(* Slip: a deletion is not noted in the rule's record.                     *)
DeleteTagUnrecorded(c) ==
  /\ pc[c] = "eval"
  /\ \E k \in TagKeys : object' = [object EXCEPT ![msg[c]].tags[k] = None]
  /\ UNCHANGED <<pc, handler, lock, cache, tables, crashes>>

DeleteTag(c) == \E k \in TagKeys : ChangeTag(c, k, None)

(* Slip: a match does not end the loop.                                    *)
RuleReturnsOn(c, match, err) ==
  LET i == Len(recs[c]) + 1 IN
  /\ pc[c] = "eval"
  /\ recs' = [recs EXCEPT ![c] =
                Append(@, [rule |-> rules(c)[i], match |-> match, err |-> err,
                           changes |-> changes[c]])]
  /\ changes' = [changes EXCEPT ![c] = <<>>]
  /\ Goto(c, IF err \/ i = Len(rules(c)) THEN "begin" ELSE "eval")
  /\ UNCHANGED <<req, msg, tagDone, reply, memory, tables, crashes>>

(* The rule returns.  The loop ends at an error, at a match and after the  *)
(* last rule.                                                              *)
RuleReturns(c, match, err) ==
  LET i == Len(recs[c]) + 1 IN
  /\ pc[c] = "eval"
  /\ recs' = [recs EXCEPT ![c] =
                Append(@, [rule |-> rules(c)[i], match |-> match, err |-> err,
                           changes |-> changes[c]])]
  /\ changes' = [changes EXCEPT ![c] = <<>>]
  /\ Goto(c, IF err \/ match \/ i = Len(rules(c)) THEN "begin" ELSE "eval")
  /\ UNCHANGED <<req, msg, tagDone, reply, memory, tables, crashes>>

RuleMatches(c) == RuleReturns(c, TRUE, FALSE)
RuleDeclines(c) == RuleReturns(c, FALSE, FALSE)
RuleThrows(c) == RuleReturns(c, FALSE, TRUE)

-----------------------------------------------------------------------------
(* RecordEval.  The inserts go through the statements prepared on the      *)
(* database handle and not through the transaction RecordEval begins: each *)
(* one commits by itself, and the rollback has nothing to undo.            *)

Begin(c) ==
  /\ pc[c] = "begin"
  /\ Goto(c, "group")
  /\ UNCHANGED <<handler, memory, tables, crashes>>

(* Slip: the match of a rule that threw is not taken back.                 *)
groupRowOfMatch(rs) ==
  IF rs = <<>> THEN [match |-> None, err |-> FALSE]
  ELSE [match |-> Last(rs).match, err |-> Last(rs).err]

(* The row for the group: the outcome of the last rule, if any rule ran.   *)
groupRow(rs) ==
  IF rs = <<>> THEN [match |-> None, err |-> FALSE]
  ELSE IF Last(rs).err THEN [match |-> None, err |-> TRUE]
  ELSE [match |-> Last(rs).match, err |-> FALSE]

InsertGroupEval(c) ==
  /\ pc[c] = "group"
  /\ groupEval' = [groupEval EXCEPT ![c] = groupRow(recs[c])]
  /\ Goto(c, "rows")
  /\ UNCHANGED <<handler, memory, message, tag, ruleEval, crashes>>

(* The row for a rule.  The code tests the error of the previous statement *)
(* instead of the rule's, so the column err is never set.                  *)
ruleRow(r) == [rule |-> r.rule, match |-> r.match, err |-> FALSE]

(* All tag changes of the last rule row written are stored.                *)
TagsStored(c) ==
  ruleEval[c] # <<>> => tagDone[c] = Len(recs[c][Len(ruleEval[c])].changes)

InsertRuleEval(c) ==
  /\ pc[c] = "rows"
  /\ TagsStored(c)
  /\ Len(ruleEval[c]) < Len(recs[c])
  /\ ruleEval' = [ruleEval EXCEPT ![c] =
                    Append(@, ruleRow(recs[c][Len(@) + 1]))]
  /\ tagDone' = [tagDone EXCEPT ![c] = 0]
  /\ UNCHANGED <<pc, req, msg, changes, recs, reply, memory, message, tag,
                 groupEval, crashes>>

PutTagChange(c) ==
  /\ pc[c] = "rows"
  /\ ~ TagsStored(c)
  /\ LET tc == recs[c][Len(ruleEval[c])].changes[tagDone[c] + 1]
     IN tag' = [tag EXCEPT ![storeID(c)][tc.key] = tc.value]
  /\ tagDone' = [tagDone EXCEPT ![c] = @ + 1]
  /\ UNCHANGED <<pc, req, msg, changes, recs, reply, memory, message,
                 groupEval, ruleEval, crashes>>

(* Every row the evaluation calls for is in the database.                  *)
FullyRecorded(c) == /\ groupEval[c] # None
                    /\ Len(ruleEval[c]) = Len(recs[c])
                    /\ TagsStored(c)

(* What the client is told once the evaluation is recorded.                *)
result(rs) ==
  IF rs = <<>> THEN [ok |-> TRUE, match |-> None]
  ELSE IF Last(rs).err THEN Error
  ELSE [ok |-> TRUE, match |-> IF Last(rs).match THEN Last(rs).rule ELSE None]

(* Slip: the last rule's tag changes are not waited for.                   *)
CommitEarly(c) ==
  /\ pc[c] = "rows"
  /\ Len(ruleEval[c]) = Len(recs[c])
  /\ Finish(c, result(recs[c]))
  /\ UNCHANGED <<req, msg, changes, recs, tagDone, memory, tables, crashes>>

(* The transaction is committed and the outcome sent.                      *)
Commit(c) ==
  /\ pc[c] = "rows"
  /\ FullyRecorded(c)
  /\ Finish(c, result(recs[c]))
  /\ UNCHANGED <<req, msg, changes, recs, tagDone, memory, tables, crashes>>

(* Slip: the client is told the outcome whether or not it was recorded.    *)
RecordFailsUnnoticed(c) ==
  /\ pc[c] \in {"begin", "group", "rows"}
  /\ Finish(c, result(recs[c]))
  /\ UNCHANGED <<req, msg, changes, recs, tagDone, memory, tables, crashes>>

(* Begin, one of the inserts or Commit fails: what is written stays.       *)
RecordFails(c) ==
  /\ pc[c] \in {"begin", "group", "rows"}
  /\ Finish(c, Error)
  /\ UNCHANGED <<req, msg, changes, recs, tagDone, memory, tables, crashes>>

-----------------------------------------------------------------------------
(* The daemon dies, in a rule's panic for one, and is started again.  The  *)
(* handlers and everything in memory are gone, the database stays.         *)
Crash ==
  /\ crashes < MaxCrashes
  /\ crashes' = crashes + 1
  /\ pc' = [c \in Conns |-> IF pc[c] \in {"idle", "done"} THEN pc[c] ELSE "dead"]
  /\ lock' = None
  /\ cache' = [b \in Bodies |-> None]
  /\ object' = [c \in Conns |-> None]
  /\ msg' = [c \in Conns |-> None]
  /\ UNCHANGED <<req, changes, recs, tagDone, reply, tables>>

Prepared(c) == \/ Prepare(c) \/ PrepareFails(c) \/ GetMetadata(c)
               \/ GetMetadataMisses(c) \/ PutMessage(c)

Recorded(c) == \/ Begin(c) \/ InsertGroupEval(c) \/ InsertRuleEval(c)
               \/ PutTagChange(c) \/ Commit(c) \/ RecordFails(c)

Evaluated(c) == \/ SetTag(c) \/ DeleteTag(c)
                \/ RuleMatches(c) \/ RuleDeclines(c) \/ RuleThrows(c)

handleEval(c) == \/ ReadInput(c) \/ Lookup(c) \/ Prepared(c)
                 \/ Evaluated(c) \/ Recorded(c)

Init ==
  /\ pc        = [c \in Conns |-> "idle"]
  /\ req       = [c \in Conns |-> None]
  /\ msg       = [c \in Conns |-> None]
  /\ changes   = [c \in Conns |-> <<>>]
  /\ recs      = [c \in Conns |-> <<>>]
  /\ tagDone   = [c \in Conns |-> 0]
  /\ reply     = [c \in Conns |-> None]
  /\ lock      = None
  /\ cache     = [b \in Bodies |-> None]
  /\ object    = [c \in Conns |-> None]
  /\ message   = [s \in StoreIDs |-> None]
  /\ tag       = [s \in StoreIDs |-> [k \in TagKeys |-> None]]
  /\ groupEval = [c \in Conns |-> None]
  /\ ruleEval  = [c \in Conns |-> <<>>]
  /\ crashes   = 0

Next == \/ \E c \in Conns : Receive(c) \/ handleEval(c)
        \/ Crash

Spec == Init /\ [][Next]_vars

(* Goroutines are scheduled, statements return and a free mutex is         *)
(* obtained.  Nothing is assumed of the rules and of the clients: a rule   *)
(* may run for ever, a client may never send its input.                    *)
Fairness == \A c \in Conns : /\ WF_vars(Lookup(c))
                             /\ WF_vars(Prepared(c))
                             /\ WF_vars(Recorded(c))

FairSpec == Spec /\ Fairness

-----------------------------------------------------------------------------
(* Properties                                                              *)

Stages == {"idle", "input", "lookup", "prepare", "meta", "put", "eval",
           "begin", "group", "rows", "done", "dead"}

(* Type invariant of the daemon's state and of the tables; the row of a    *)
(* group holds a match or an error, not both.                              *)
TypeOK ==
  /\ pc \in [Conns -> Stages]
  /\ req \in [Conns -> Requests \cup {None}]
  /\ msg \in [Conns -> Conns \cup {None}]
  /\ changes \in [Conns -> Seq(TagChange)]
  /\ recs \in [Conns -> Seq(RuleRecord)]
  /\ tagDone \in [Conns -> Nat]
  /\ reply \in [Conns -> Reply \cup {None}]
  /\ lock \in Conns \cup {None}
  /\ cache \in [Bodies -> Conns \cup {None}]
  /\ object \in [Conns -> Message \cup {None}]
  /\ message \in [StoreIDs -> BOOLEAN \cup {None}]
  /\ tag \in [StoreIDs -> Tags]
  /\ groupEval \in [Conns -> GroupRow \cup {None}]
  /\ ruleEval \in [Conns -> Seq(RuleRow)]
  /\ crashes \in 0..MaxCrashes

(* A handler about to insert a message finds no row with its store ID: the *)
(* lookup in the store and the insert are one critical section, whatever   *)
(* other handlers, with the same text or with another text of the same     *)
(* Message-ID, do in between (daemon.go:377, "At this point we know the    *)
(* message isn't in the store").  It needs reads that do not fail.         *)
InsertIsFresh == \A c \in Conns : pc[c] = "put" => message[storeID(c)] = None

(* A second Message is never built for a text whose Message is cached: the *)
(* cache is looked into again under the write lock, and stays as it was    *)
(* found until the new Message is added.                                   *)
NoDuplicateLoad ==
  [][\A c \in Conns : object[c] = None /\ object'[c] # None
                        => cache[req[c].body] = None]_vars

(* The sampling decision is made once for a store ID.  Every Message a     *)
(* handler works on or the cache holds carries the decision in the store,  *)
(* through evictions, crashes and texts that share a Message-ID.           *)
Loaded(c) == pc[c] \in {"eval", "begin", "group", "rows"}

DecisionAgrees(o, s) == /\ object[o] # None
                        /\ object[o].sampled = message[s]

SampledAgrees ==
  /\ \A c \in Conns : Loaded(c) => DecisionAgrees(msg[c], storeID(c))
  /\ \A b \in Bodies : cache[b] # None => DecisionAgrees(cache[b], toStoreID(b))

(* A client that is told the result of an evaluation can rely on its       *)
(* record: the success reply is sent after every row was written, and says *)
(* what the group's row says.                                              *)
SuccessIsRecorded ==
  \A c \in Conns : reply[c] # None /\ reply[c].ok =>
    /\ FullyRecorded(c)
    /\ groupEval[c].err = FALSE
    /\ (reply[c].match # None) <=> (groupEval[c].match = TRUE)

(* The reply names the first rule that matches: every rule before it ran   *)
(* and declined, and "no match" means that all rules of the request ran.   *)
AnswerIsFirstMatch ==
  \A c \in Conns : reply[c] # None /\ reply[c].ok =>
    LET n == Len(recs[c]) IN
    /\ \A i \in 1..n : recs[c][i].rule = rules(c)[i] /\ ~ recs[c][i].err
    /\ \A i \in 1..n : recs[c][i].match <=> (i = n /\ reply[c].match # None)
    /\ IF reply[c].match = None THEN n = Len(rules(c))
       ELSE reply[c].match = rules(c)[n]

(* The record of an evaluation is written as a whole or not at all: it is  *)
(* made in a transaction (sqlite3_store.go:205, 276).                      *)
RecordAllOrNothing ==
  \A c \in Conns : pc[c] \in {"done", "dead"} /\ groupEval[c] # None
                      => FullyRecorded(c)

(* A rule that never returns holds up its own request and nobody else's:  *)
(* every other request gets to its rules or is answered, and once its      *)
(* rules are done it is answered.  No path through prepareMsg keeps the    *)
(* lock, and the lock is never held while a rule runs.                     *)
Answered ==
  \A c \in Conns : /\ pc[c] = "lookup" ~> pc[c] \in {"eval", "done", "dead"}
                   /\ pc[c] = "begin" ~> pc[c] \in {"done", "dead"}

=============================================================================
