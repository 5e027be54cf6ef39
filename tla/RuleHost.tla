------------------------------ MODULE RuleHost ------------------------------
(***************************************************************************)
(* The daemon's side of the rules, composed: the scripts that were loaded  *)
(* (RuleLoad), the cache that holds messages between requests              *)
(* (MessageCache), what a rule reads of a message (MessageView), and the   *)
(* store, which is SQLite or, with --no-db, the NullStore.                 *)
(*                                                                         *)
(* EvalDaemon is about many handlers at once and any set of evictions;     *)
(* here one request for a whole group follows the other, a failing         *)
(* statement is a request that does not come about, and the rules are      *)
(* those that scripts have registered.  Definitions headed "Slip:" are     *)
(* plausible mistakes in the definition that follows.                      *)
(***************************************************************************)
EXTENDS RuleLoad, MessageCache, MessageView

CONSTANTS
  storeID,   (* text -> its Message-ID, or its MD5 sum if it has none      *)
  SizeOf,    (* text -> its size; a text stands for its MD5 sum, a key     *)
  Props,     (* the properties rules read                                  *)
  TagKeys,   (* a tag is there or not; its value is left out               *)
  MaxTagOps, (* bound: tag changes of one evaluation                       *)
  Workloads  (* bound: texts of the requests, and registered rules         *)

StoreIDs == {storeID[b] : b \in Keys}

Change == [key : TagKeys, set : BOOLEAN]

(* EvalRecord, with the rule that is run and the tag changes so far.       *)
Eval == [text : Keys, group : Groups, obj : Objects, at : Nat, changes : Seq(Change)]

ASSUME HostAssumption ==
  /\ DOMAIN storeID = Keys /\ SizeOf \in [Keys -> Sizes]
  /\ MaxTagOps \in Nat
  /\ None \notin Eval /\ \A s \in SUBSET TagKeys : s # None

VARIABLES
  noDB,    (* the argument --no-db                                         *)
  stored,  (* tables message and tag: store ID -> its tags, or None        *)
  message, (* the Message objects: their text and their tags               *)
  eval,    (* EvalRecord of the request, or None                           *)
  view,    (* jsMessage: property -> its value once it has been read       *)
  tags     (* history: text -> its tags as the rules have left them        *)

hostVars == <<noDB, stored, message, eval, view, tags>>
allVars  == <<loadVars, cacheVars, hostVars>>

Unread == [p \in Props |-> None]

HostInit ==
  /\ LoadInit /\ CacheInit
  /\ noDB \in BOOLEAN
  /\ stored = [i \in StoreIDs |-> None]
  /\ message = [o \in Objects |-> None]
  /\ eval = None /\ view = Unread
  /\ tags = [b \in Keys |-> {}]

-----------------------------------------------------------------------------
(* A request                                                               *)

Ready(b, g) ==
  /\ phase = "serving" /\ eval = None
  /\ g \in DOMAIN served
  /\ \E w \in Workloads :
       /\ b \in w.texts /\ runtimes = w.runtimes
       /\ w.rules = [h \in DOMAIN served |->
            [i \in DOMAIN served[h] |-> <<served[h][i].script, served[h][i].f>>]]

EvalRecord(b, g, o) == [text |-> b, group |-> g, obj |-> o, at |-> 1, changes |-> <<>>]

(* The message is cached.                                                  *)
Hit(b, g) ==
  /\ Ready(b, g)
  /\ CacheGet(b)
  /\ eval' = EvalRecord(b, g, lru[Position(b)].obj)
  /\ UNCHANGED <<loadVars, noDB, stored, message, view, tags>>

(* The store once the tags of store ID i are t.  The NullStore keeps       *)
(* nothing.                                                                *)
Saved(i, t) == IF noDB THEN stored ELSE [stored EXCEPT ![i] = t]

(* The message is not cached: it is built from the store's metadata, or it *)
(* is new and inserted.  The NullStore finds nothing and inserts nothing.  *)
(* If that fails, as for a date that cannot be parsed, the request ends    *)
(* and leaves nothing.  An object that is no longer cached is garbage, and *)
(* may be the new one (the instance must have one object more than the     *)
(* cache can hold).  The NullStore loses the tags here, which the history  *)
(* says too.                                                               *)
Prepare(b, g) ==
  /\ Ready(b, g)
  /\ b \notin Cached
  /\ LET used == {lru[i].obj : i \in DOMAIN lru}
         o == CHOOSE o \in Objects : o \notin used
         t == IF stored[storeID[b]] = None THEN {} ELSE stored[storeID[b]]
     IN /\ used # Objects
        /\ message' = [x \in Objects |-> IF x = o THEN [text |-> b, tags |-> t]
                                         ELSE IF x \in used THEN message[x]
                                         ELSE None]
        /\ stored' = Saved(storeID[b], t)
        /\ tags' = [tags EXCEPT ![b] = IF noDB THEN {} ELSE @]
        /\ CachePut(b, o, SizeOf[b])
        /\ eval' = EvalRecord(b, g, o)
  /\ UNCHANGED <<loadVars, noDB, view>>

-----------------------------------------------------------------------------
(* A rule                                                                  *)

rules     == served[eval.group]
Pending   == phase = "serving" /\ eval # None /\ eval.at <= Len(rules)
Running(f) == Pending /\ caller = 0 /\ rules[eval.at].f = f

(* A rule registered without a function: the call of a nil function        *)
(* panics, and the daemon dies.                                            *)
NoFunction ==
  /\ Running("missing")
  /\ phase' = "panic"
  /\ UNCHANGED <<scriptVars, callVars, groups, served, history, cacheVars, hostVars>>

(* The first read of a property converts it; later ones find the value.    *)
ReadProp(p) ==
  /\ Running("function")
  /\ view[p] = None
  /\ view' = [view EXCEPT ![p] = Get(message[eval.obj].text, p)]
  /\ UNCHANGED <<loadVars, cacheVars, noDB, stored, message, eval, tags>>

With(s, c) == IF c.set THEN s \cup {c.key} ELSE s \ {c.key}

ChangeTag(c) ==
  /\ Running("function")
  /\ Len(eval.changes) < MaxTagOps
  /\ message' = [message EXCEPT ![eval.obj].tags = With(@, c)]
  /\ eval' = [eval EXCEPT !.changes = Append(@, c)]
  /\ tags' = [tags EXCEPT ![eval.text] = With(@, c)]
  /\ UNCHANGED <<loadVars, cacheVars, noDB, stored, view>>

(* The rule calls addRules.                                                *)
AddRulesLate ==
  /\ Pending /\ rules[eval.at].f = "function"
  /\ AddRulesStep
  /\ caller' \in {0, rules[eval.at].script}
  /\ UNCHANGED <<cacheVars, hostVars>>

(* Slip: the view made for a rule is used for the rules after it, and for  *)
(* the requests that follow.                                               *)
RuleReturnsKeepingView ==
  /\ Running("function")
  /\ eval' \in {[eval EXCEPT !.at = @ + 1], [eval EXCEPT !.at = Len(rules) + 1]}
  /\ UNCHANGED <<loadVars, cacheVars, noDB, stored, message, view, tags>>

(* The rule declines and the next one gets a view of its own, or it        *)
(* matches or throws and is the last one.                                  *)
RuleReturns ==
  /\ Running("function")
  /\ eval' \in {[eval EXCEPT !.at = @ + 1], [eval EXCEPT !.at = Len(rules) + 1]}
  /\ view' = Unread
  /\ UNCHANGED <<loadVars, cacheVars, noDB, stored, message, tags>>

(* Tags s after each of the changes cs.                                    *)
TagsAfter(s, cs) == LET after[n \in 0..Len(cs)] ==
                          IF n = 0 THEN s ELSE With(after[n - 1], cs[n])
                    IN after

Stored(cs) == LET i == storeID[eval.text]
              IN Saved(i, TagsAfter(stored[i], cs)[Len(cs)])

(* Slip: the changes are stored last one first.                            *)
RecordEvalBackwards ==
  /\ phase = "serving" /\ eval # None /\ ~ Pending
  /\ stored' = Stored(Reverse(eval.changes))
  /\ eval' = None
  /\ UNCHANGED <<loadVars, cacheVars, noDB, message, view, tags>>

(* The changes are stored in the order they were made.                     *)
RecordEval ==
  /\ phase = "serving" /\ eval # None /\ ~ Pending
  /\ stored' = Stored(eval.changes)
  /\ eval' = None
  /\ UNCHANGED <<loadVars, cacheVars, noDB, message, view, tags>>

-----------------------------------------------------------------------------
Load  == phase = "load" /\ LoadNext /\ UNCHANGED <<cacheVars, hostVars>>
Age   == eval = None /\ lru # <<>> /\ CacheTick /\ UNCHANGED <<loadVars, hostVars>>

HostNext ==
  \/ Load
  \/ \E b \in Keys, g \in Groups : Hit(b, g) \/ Prepare(b, g)
  \/ \E p \in Props : ReadProp(p)
  \/ \E c \in Change : ChangeTag(c)
  \/ NoFunction \/ AddRulesLate \/ RuleReturns \/ RecordEval
  \/ Age

HostSpec == HostInit /\ [][HostNext]_allVars

-----------------------------------------------------------------------------
(* Properties                                                              *)

Read(p) == eval # None /\ view[p] # None

(* Whatever has been cached and evicted, and whichever rules have read it  *)
(* before, a rule reads the message of the request.                        *)
ReadsOwnMessage == \A p \in Props : Read(p) => view[p].text = eval.text

Unshared(b) == \A c \in Keys : storeID[c] = storeID[b] => c = b

(* Tags survive: with a database, however often a message is evicted and   *)
(* loaded again, the rules find the tags that rules have left.  Without    *)
(* one they do as long as the message is cached; what is evicted is lost.  *)
(* Texts with the same Message-ID share a row but not a cache entry, and   *)
(* see each other's tags or not depending on the cache: they are left out. *)
TagsSurvive ==
  eval # None /\ (noDB \/ Unshared(eval.text)) =>
    message[eval.obj].tags = tags[eval.text]

(* The property id is the message's Message-Id (message.go:53).            *)
IdIsMessageID == "id" \in Props /\ Read("id") => view["id"].part = "Message-Id"
=============================================================================
