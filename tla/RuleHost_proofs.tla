-------------------------- MODULE RuleHost_proofs --------------------------
(***************************************************************************)
(* Proofs about the loading of rules, for any number of scripts, groups    *)
(* and calls of addRules, and about the composition: the loader and the    *)
(* cache keep what is proved of them when requests, rules and the passing  *)
(* of time drive them; a rule reads the message it is run for, and finds   *)
(* the tags that rules have left on it if its row is its own.              *)
(*                                                                         *)
(* The properties of the loader are about the rules served, which are a    *)
(* copy of those registered.  The invariant says the same of the           *)
(* registered rules as long as they may still be copied, with an exception *)
(* for the call in progress, and that no call is in progress when the copy *)
(* is made.                                                                *)
(***************************************************************************)
EXTENDS RuleHost, MessageCache_proofs

-----------------------------------------------------------------------------
(* The loader                                                              *)

InOneCall ==
  /\ caller # 0 => calls > 0
  /\ group # 0 => group \in DOMAIN groups
  /\ phase = "load" /\ caller # 0 => running /\ caller = script

Distinct(m) == \A g \in DOMAIN m : Unique(m[g])

(* No rule of m is of a call that an uncaught exception has ended.         *)
Settled(m, pending) ==
  \A g \in DOMAIN m : \A i \in DOMAIN m[g] :
    m[g][i].call \in returned \cup caught \cup pending

InProgress == IF caller # 0 THEN {calls} ELSE {}

Registered ==
  /\ InOneCall
  /\ Distinct(groups) /\ Distinct(served)
  /\ phase = "load" => Settled(groups, InProgress)
  /\ Settled(served, {})

LoadInv == LoadTypeOK /\ Registered

(* A step of any kind keeps the types of the loader's state: addRules      *)
(* makes lists of well-formed rules out of whatever a script offers.       *)
LEMMA LoadTypes == LoadTypeOK /\ InOneCall /\ [LoadNext]_loadVars => LoadTypeOK'
<1> SUFFICES ASSUME LoadTypeOK, InOneCall, [LoadNext]_loadVars PROVE LoadTypeOK'
  OBVIOUS
<1> USE LoadAssumption DEF LoadTypeOK, Scripts, Groups
<1>1. CASE UNCHANGED loadVars
  BY <1>1 DEF loadVars, scriptVars, callVars, history, IsRuleMap
<1>2. CASE MissingPath \/ NextFile \/ ScriptEnds \/ ToMap
  <2>1. IsRuleMap(groups)' /\ IsRuleMap(served)'
    BY <1>2 DEF MissingPath, NextFile, ScriptEnds, ToMap, IsRuleMap
  <2>2. CASE NextFile
    <3>1. script' \in 1..NumScripts /\ phase' \in {"load", "failed"}
      BY <2>2 DEF NextFile
    <3>2. running' \in BOOLEAN /\ runtimes' \subseteq Scripts
      BY <2>2, <3>1 DEF NextFile
    <3> QED
      BY <2>1, <2>2, <3>1, <3>2 DEF NextFile, callVars, history
  <2>3. CASE MissingPath \/ ScriptEnds \/ ToMap
    BY <2>1, <2>3 DEF MissingPath, ScriptEnds, ToMap, scriptVars, callVars, history
  <2> QED
    BY <1>2, <2>2, <2>3
<1>3. ASSUME NEW s \in Scripts, AddRules(s) PROVE LoadTypeOK'
  BY <1>3 DEF AddRules, scriptVars, history, IsRuleMap
<1>4. ASSUME NEW g \in Groups, NextGroup(g) PROVE LoadTypeOK'
  <2>1. IsRuleMap(groups)'
    BY <1>4 DEF NextGroup, IsRuleMap
  <2> QED
    BY <1>4, <2>1 DEF NextGroup, scriptVars, history, IsRuleMap
<1>5. ASSUME NEW c \in Candidate, Register(c) PROVE LoadTypeOK'
  <2>1. NewRule(c) \in Rule
    BY <1>5 DEF Register, Acceptable, Candidate, NewRule, Rule, InOneCall
  <2>2. group \in DOMAIN groups /\ groups[group] \in Seq(Rule)
    BY <1>5 DEF Register, InOneCall, IsRuleMap
  <2>3. Append(groups[group], NewRule(c)) \in Seq(Rule)
    BY <2>1, <2>2
  <2>4. IsRuleMap(groups)'
    BY <1>5, <2>2, <2>3 DEF Register, IsRuleMap
  <2> QED
    BY <1>5, <2>4 DEF Register, scriptVars, callVars, history, IsRuleMap
<1>6. CASE Return
  BY <1>6 DEF Return, scriptVars, IsRuleMap, InOneCall
<1>7. ASSUME caller # 0, Throw PROVE LoadTypeOK'
  <2>1. IsRuleMap(groups)' /\ IsRuleMap(served)'
    BY <1>7 DEF Throw, IsRuleMap
  <2>2. /\ caller' = 0 /\ group' = 0
        /\ phase' \in {phase, "failed"}
        /\ caught' \subseteq caught \cup {calls}
        /\ UNCHANGED <<script, runtimes, calls, returned>>
    BY <1>7 DEF Throw
  <2>3. calls \in 1..MaxCalls
    BY <1>7 DEF InOneCall
  <2>4. running' \in BOOLEAN
    BY <1>7 DEF Throw
  <2> QED
    BY <2>1, <2>2, <2>3, <2>4
<1> QED
  BY <1>1, <1>2, <1>3, <1>4, <1>5, <1>6, <1>7
     DEF LoadNext, AddRulesStep, BadArgument, Refuse

(* The rules registered, and those served, stay sound: a call adds to a    *)
(* list only what is new in it, and the lists are copied between calls.    *)
LEMMA LoadStep == LoadInv /\ [LoadNext]_loadVars => Registered'
<1> SUFFICES ASSUME LoadInv, [LoadNext]_loadVars PROVE Registered'
  OBVIOUS
<1> USE LoadAssumption DEF LoadInv, Registered, InOneCall, InProgress
<1>1. CASE UNCHANGED loadVars
  BY <1>1 DEF loadVars, scriptVars, callVars, history, Distinct, Settled
<1>2. CASE MissingPath \/ NextFile \/ ScriptEnds
  BY <1>2 DEF MissingPath, NextFile, ScriptEnds, scriptVars, callVars, history,
              Distinct, Settled
<1>3. CASE ToMap
  <2>1. caller = 0
    BY <1>3 DEF ToMap
  <2> QED
    BY <1>3, <2>1 DEF ToMap, scriptVars, callVars, history, Distinct, Settled
<1>4. ASSUME NEW s \in Scripts, AddRules(s) PROVE Registered'
  BY <1>4 DEF AddRules, scriptVars, history, Distinct, Settled,
              LoadTypeOK, Scripts
<1>5. ASSUME NEW g \in Groups, NextGroup(g) PROVE Registered'
  BY <1>5 DEF NextGroup, scriptVars, history, Distinct, Unique, Settled
<1>6. ASSUME NEW c \in Candidate, Register(c) PROVE Registered'
  <2> DEFINE r == NewRule(c)
             l == groups[group]
  <2>1. group \in DOMAIN groups /\ l \in Seq(Rule) /\ caller # 0
    BY <1>6 DEF Register, LoadTypeOK, IsRuleMap
  <2>2. /\ DOMAIN groups' = DOMAIN groups
        /\ groups'[group] = Append(l, r)
        /\ \A g \in DOMAIN groups : g # group => groups'[g] = groups[g]
        /\ UNCHANGED <<phase, scriptVars, callVars, served, history>>
    BY <1>6, <2>1 DEF Register
  <2>3. /\ DOMAIN Append(l, r) = 1..Len(l) + 1 /\ DOMAIN l = 1..Len(l)
        /\ Append(l, r)[Len(l) + 1] = r
        /\ \A i \in DOMAIN l : Append(l, r)[i] = l[i]
    BY <2>1
  <2>4. /\ r.name = c.name /\ r.call = calls
        /\ \A i \in DOMAIN l : l[i].name # c.name
    BY <1>6 DEF NewRule, Register, Acceptable
  <2>5. Len(l) \in Nat
    BY <2>1
  <2>6. Distinct(groups')
    <3>1. Unique(l)
      BY <2>1 DEF Distinct
    <3>2. Unique(Append(l, r))
      BY <2>3, <2>4, <2>5, <3>1 DEF Unique
    <3> QED
      BY <2>2, <3>2 DEF Distinct
  <2>7. ASSUME phase = "load"
        PROVE  Settled(groups, InProgress)'
    <3>1. \A i \in DOMAIN Append(l, r) :
            Append(l, r)[i].call \in returned \cup caught \cup InProgress
      <4>1. r.call \in InProgress
        BY <2>1, <2>4
      <4>2. \A i \in DOMAIN l : l[i].call \in returned \cup caught \cup InProgress
        BY <2>1, <2>7 DEF Settled
      <4>3. \A i \in DOMAIN Append(l, r) : i \in DOMAIN l \/ i = Len(l) + 1
        BY <2>3, <2>5
      <4> HIDE DEF r, l, InProgress
      <4> QED
        BY <2>3, <4>1, <4>2, <4>3
    <3> QED
      BY <2>2, <2>7, <3>1 DEF Settled, callVars, history
  <2> QED
    BY <2>1, <2>2, <2>6, <2>7 DEF scriptVars, callVars, history, Settled
<1>7. CASE Return
  BY <1>7 DEF Return, scriptVars, Distinct, Settled
<1>8. ASSUME caller # 0, Throw PROVE Registered'
  BY <1>8 DEF Throw, Distinct, Settled
<1> QED
  BY <1>1, <1>2, <1>3, <1>4, <1>5, <1>6, <1>7, <1>8
     DEF LoadNext, AddRulesStep, BadArgument, Refuse

(* LoadInv holds at the start.                                             *)
LEMMA LoadStart == LoadInit => LoadInv
<1> SUFFICES ASSUME LoadInit PROVE LoadInv
  OBVIOUS
<1>1. groups = <<>> /\ served = <<>> /\ DOMAIN <<>> = {}
  BY DEF LoadInit
<1>2. IsRuleMap(groups) /\ IsRuleMap(served)
  BY <1>1 DEF IsRuleMap
<1>3. LoadTypeOK
  <2>1. running \in BOOLEAN
    BY DEF LoadInit
  <2>2. /\ phase = "load" /\ script = 0 /\ caller = 0 /\ calls = 0 /\ group = 0
        /\ runtimes = {} /\ returned = {} /\ caught = {}
    BY DEF LoadInit
  <2> QED
    BY <1>2, <2>1, <2>2, LoadAssumption DEF LoadTypeOK
<1>4. Registered
  BY <1>1 DEF LoadInit, Registered, InOneCall, Distinct, Settled
<1> QED
  BY <1>3, <1>4 DEF LoadInv

(* LoadInv holds in every reachable state of the loader.                   *)
LEMMA LoadInvariance == LoadSpec => []LoadInv
<1>1. LoadInit => LoadInv
  BY LoadStart
<1>2. LoadInv /\ [LoadNext]_loadVars => LoadInv'
  BY LoadTypes, LoadStep DEF LoadInv, Registered
<1> QED
  BY <1>1, <1>2, PTL DEF LoadSpec

(* The loader's state has its type, for any files and any arguments of     *)
(* addRules.                                                               *)
THEOREM LoaderTypeCorrect == LoadSpec => []LoadTypeOK
<1>1. LoadInv => LoadTypeOK
  BY DEF LoadInv
<1> QED
  BY <1>1, LoadInvariance, PTL

(* The names of the rules served differ within each group.                 *)
THEOREM ServedNamesUnique == LoadSpec => []NamesUnique
<1>1. LoadInv => NamesUnique
  BY DEF LoadInv, Registered, Distinct, NamesUnique
<1> QED
  BY <1>1, LoadInvariance, PTL

(* A call of addRules whose exception nobody catches leaves nothing that   *)
(* is served.                                                              *)
THEOREM ServedWhole == LoadSpec => []WholeUnlessCaught
<1>1. LoadInv => WholeUnlessCaught
  BY DEF LoadInv, Registered, Settled, WholeUnlessCaught
<1> QED
  BY <1>1, LoadInvariance, PTL

-----------------------------------------------------------------------------
(* The loader, the cache and the rules together                            *)

(* Every step is a step of the loader, or one that stops the daemon.       *)
LEMMA HostLoads ==
  ASSUME [HostNext]_allVars
  PROVE  \/ [LoadNext]_loadVars
         \/ phase' = "panic" /\ UNCHANGED <<scriptVars, callVars, groups, served, history>>
<1>1. CASE UNCHANGED allVars
  BY <1>1 DEF allVars
<1>2. CASE Load
  BY <1>2 DEF Load
<1>3. ASSUME NEW b \in Keys, NEW g \in Groups, Hit(b, g) \/ Prepare(b, g)
      PROVE  UNCHANGED loadVars
  BY <1>3 DEF Hit, Prepare
<1>4. ASSUME NEW p \in Props, ReadProp(p) PROVE UNCHANGED loadVars
  BY <1>4 DEF ReadProp
<1>5. ASSUME NEW c \in Change, ChangeTag(c)
      PROVE  UNCHANGED loadVars
  BY <1>5 DEF ChangeTag
<1>6. CASE NoFunction
  BY <1>6 DEF NoFunction
<1>7. CASE AddRulesLate
  BY <1>7 DEF AddRulesLate, LoadNext
<1>8. CASE RuleReturns \/ RecordEval \/ Age
  BY <1>8 DEF RuleReturns, RecordEval, Age
<1> QED
  BY <1>1, <1>2, <1>3, <1>4, <1>5, <1>6, <1>7, <1>8 DEF HostNext

(* Requests, rules and the end of the daemon leave the loader's invariant. *)
LEMMA HostLoadInvariance == HostSpec => []LoadInv
<1>1. HostInit => LoadInv
  BY LoadStart DEF HostInit
<1>2. LoadInv /\ [HostNext]_allVars => LoadInv'
  <2> SUFFICES ASSUME LoadInv, [HostNext]_allVars PROVE LoadInv'
    OBVIOUS
  <2>1. CASE [LoadNext]_loadVars
    BY <2>1, LoadTypes, LoadStep DEF LoadInv, Registered
  <2>2. CASE /\ phase' = "panic"
             /\ UNCHANGED <<scriptVars, callVars, groups, served, history>>
    <3>1. LoadTypeOK'
      BY <2>2 DEF LoadInv, LoadTypeOK, scriptVars, callVars, history, IsRuleMap
    <3>2. Registered'
      BY <2>2 DEF LoadInv, Registered, InOneCall, Distinct, Settled,
                  InProgress, scriptVars, callVars, history
    <3> QED
      BY <3>1, <3>2 DEF LoadInv
  <2> QED
    BY <2>1, <2>2, HostLoads
<1> QED
  BY <1>1, <1>2, PTL DEF HostSpec

(* The rules served to requests have names of their own in each group and  *)
(* belong to no call of addRules that an uncaught exception ended,         *)
(* whatever rules do while the daemon serves.                              *)
THEOREM HostServesLoaded ==
  HostSpec => [](NamesUnique /\ WholeUnlessCaught)
<1>1. LoadInv => NamesUnique /\ WholeUnlessCaught
  BY DEF LoadInv, Registered, Distinct, Settled, NamesUnique,
         WholeUnlessCaught
<1> QED
  BY <1>1, HostLoadInvariance, PTL

(* What the store says of a text, if it keeps anything.                    *)
Known(b) == IF stored[storeID[b]] = None THEN {} ELSE stored[storeID[b]]

(* The object of a new message is one that is not cached.                  *)
LEMMA FreshObject ==
  ASSUME Entries, NEW b \in Keys, NEW g \in Groups, Prepare(b, g)
  PROVE  \E o \in Objects :
           /\ \A i \in DOMAIN lru : lru[i].obj # o
           /\ message' = [x \in Objects |->
                IF x = o THEN [text |-> b, tags |-> Known(b)]
                ELSE IF x \in {lru[i].obj : i \in DOMAIN lru} THEN message[x] ELSE None]
           /\ CachePut(b, o, SizeOf[b])
           /\ eval' = EvalRecord(b, g, o)
<1> DEFINE used == {lru[i].obj : i \in DOMAIN lru}
           o == CHOOSE x \in Objects : x \notin used
<1>1. used \subseteq Objects
  BY EntryIs DEF Entries
<1>2. used # Objects
  BY DEF Prepare
<1>3. o \in Objects /\ o \notin used
  BY <1>1, <1>2
<1> QED
  BY <1>3 DEF Prepare, Known

(* Every step is a step of the cache.                                      *)
LEMMA HostCaches ==
  ASSUME Entries, [HostNext]_allVars
  PROVE  [CacheNext]_cacheVars
<1>1. CASE UNCHANGED allVars
  BY <1>1 DEF allVars
<1>2. CASE Load
  BY <1>2 DEF Load
<1>3. ASSUME NEW b \in Keys, NEW g \in Groups, Hit(b, g)
      PROVE  CacheNext
  BY <1>3 DEF Hit, CacheNext
<1>4. ASSUME NEW b \in Keys, NEW g \in Groups, Prepare(b, g)
      PROVE  CacheNext
  <2>1. SizeOf[b] \in Sizes
    BY HostAssumption
  <2> QED
    BY <1>4, <2>1, FreshObject DEF CacheNext
<1>5. ASSUME NEW p \in Props, ReadProp(p) PROVE UNCHANGED cacheVars
  BY <1>5 DEF ReadProp
<1>6. ASSUME NEW c \in Change, ChangeTag(c)
      PROVE  UNCHANGED cacheVars
  BY <1>6 DEF ChangeTag
<1>7. CASE NoFunction \/ AddRulesLate \/ RuleReturns \/ RecordEval
  BY <1>7 DEF NoFunction, AddRulesLate, RuleReturns, RecordEval
<1>8. CASE Age
  BY <1>8 DEF Age, CacheNext
<1> QED
  BY <1>1, <1>2, <1>3, <1>4, <1>5, <1>6, <1>7, <1>8 DEF HostNext

(* The cache the handlers share behaves as the abstract cache.             *)
THEOREM HostCacheImplemented == HostSpec => ImplementsObjectCache
<1>1. HostInit => Entries /\ ObjectCache!Init
  BY CacheStart DEF HostInit
<1>2. Entries /\ [HostNext]_allVars => Entries' /\ [ObjectCache!Next]_found
  BY HostCaches, CacheSteps
<1> QED
  BY <1>1, <1>2, PTL DEF HostSpec, ImplementsObjectCache, ObjectCache!Spec

Holds(o, b) == message[o] = [text |-> b, tags |-> message[o].tags]

Evaluates ==
  /\ eval \in Eval /\ eval.group \in DOMAIN served
  /\ Holds(eval.obj, eval.text)
  /\ phase # "load"

(* Whoever has the object of a message, cached or in a request, has the    *)
(* text it was made for.                                                   *)
Objective ==
  /\ message = [o \in Objects |-> message[o]]
  /\ \A i \in DOMAIN lru : Holds(lru[i].obj, lru[i].key)
  /\ eval # None => Evaluates

(* What a rule has read is of its request's message; nothing is kept.      *)
Viewed ==
  /\ view = [p \in Props |-> view[p]]
  /\ \A p \in Props : view[p] # None =>
       eval # None /\ eval.at <= Len(rules) /\ view[p] = Get(eval.text, p)

HostInv == Entries /\ Objective /\ Viewed

(* What the cache holds after a step is what it held, and what was put.    *)
LEMMA HitHolds ==
  ASSUME Entries, NEW b \in Keys, CacheGet(b)
  PROVE  /\ \A j \in DOMAIN lru' : \E i \in DOMAIN lru : lru'[j] = lru[i]
         /\ \E i \in DOMAIN lru : lru[i].key = b /\ lru[Position(b)] = lru[i]
<1>1. PICK i \in DOMAIN lru : lru[i].key = b
  BY DEF CacheGet, Cached
<1>2. Position(b) = i /\ lru[i] \in Entry
  BY <1>1, PositionIs DEF Entries
<1> DEFINE e == lru[i]
           l == <<e>> \o Without(e.key)
<1>3. lru' = l
  BY <1>1, <1>2 DEF CacheGet
<1>4. /\ l[1] = e
      /\ \A j \in DOMAIN l : j # 1 => \E n \in DOMAIN lru : l[j] = lru[n]
  BY <1>2, InFront
<1> HIDE DEF l
<1>5. \A j \in DOMAIN lru' : \E n \in DOMAIN lru : lru'[j] = lru[n]
  BY <1>3, <1>4
<1> QED
  BY <1>1, <1>2, <1>5

(* A message that was put is in front, if it was kept.                     *)
LEMMA PutHolds ==
  ASSUME Entries, NEW k \in Keys, NEW o \in Objects, NEW n \in Sizes,
         CachePut(k, o, n)
  PROVE  \A j \in DOMAIN lru' : \/ lru'[j].key = k /\ lru'[j].obj = o
                                \/ \E i \in DOMAIN lru : lru'[j] = lru[i]
<1> DEFINE e == [key |-> k, obj |-> o, size |-> n, age |-> 0]
           l == <<e>> \o Without(k)
           old == IF k \in Cached THEN lru[Position(k)].size ELSE 0
           m == Kept(l, Added(old, n))
<1>1. e \in Entry /\ e.key = k
  BY PolicyAssumption DEF Entry
<1>2. /\ l \in Seq(Entry) /\ l[1] = e
      /\ \A i \in DOMAIN l : i # 1 => \E j \in DOMAIN lru : l[i] = lru[j]
  <2> HIDE DEF e
  <2> QED
    BY <1>1, InFront
<1>3. lru' = SubSeq(l, 1, m)
  BY DEF CachePut
<1> HIDE DEF l
<1>4. m \in 0..Len(l)
  BY <1>2, KeptIs
<1> HIDE DEF m
<1>5. \A i \in DOMAIN lru' : i \in DOMAIN l /\ lru'[i] = l[i]
  BY <1>2, <1>3, <1>4
<1> QED
  BY <1>2, <1>5

(* The record of a new request.                                            *)
LEMMA RecordIs ==
  ASSUME NEW b \in Keys, NEW g \in Groups, NEW o \in Objects
  PROVE  LET e == EvalRecord(b, g, o)
         IN e \in Eval /\ e.text = b /\ e.group = g /\ e.obj = o
BY DEF EvalRecord, Eval

(* While the daemon serves, addRules changes neither that nor what is      *)
(* served.                                                                 *)
LEMMA LateCalls ==
  ASSUME AddRulesStep, phase # "load"
  PROVE  UNCHANGED <<phase, served>>
BY DEF AddRulesStep, AddRules, NextGroup, Register, Return, BadArgument, Refuse, Throw

(* No step breaks HostInv.                                                 *)
LEMMA HostStep ==
  ASSUME LoadTypeOK, HostInv, [HostNext]_allVars
  PROVE  HostInv'
<1>0. Entries'
  BY HostCaches, CacheSteps DEF HostInv
<1>1. CASE UNCHANGED allVars
  <2>1. UNCHANGED <<lru, hostVars, phase, served>>
    BY <1>1 DEF allVars, loadVars, cacheVars
  <2> QED
    BY <1>0, <2>1 DEF hostVars, HostInv, Objective, Evaluates, Holds, Viewed,
                      rules
<1>2. CASE Load
  <2>1. eval = None /\ UNCHANGED <<lru, hostVars>>
    BY <1>2 DEF Load, HostInv, Objective, Evaluates, cacheVars
  <2> QED
    BY <1>0, <2>1 DEF hostVars, HostInv, Objective, Holds, Viewed
<1>3. ASSUME NEW b \in Keys, NEW g \in Groups, Hit(b, g)
      PROVE  HostInv'
  <2>1. /\ eval = None /\ phase = "serving" /\ CacheGet(b)
        /\ UNCHANGED <<phase, served, noDB, stored, message, view>>
    BY <1>3 DEF Hit, Ready, loadVars
  <2>2. PICK i \in DOMAIN lru : lru[i].key = b /\ lru[Position(b)] = lru[i]
    BY <2>1, HitHolds DEF HostInv
  <2>3. eval' = EvalRecord(b, g, lru[i].obj)
    BY <1>3, <2>2 DEF Hit
  <2>4. lru[i].obj \in Objects /\ Holds(lru[i].obj, b)
    BY <2>2, EntryIs DEF HostInv, Entries, Objective
  <2> DEFINE o == lru[i].obj
  <2>9. eval' \in Eval /\ eval'.group \in DOMAIN served /\ eval'.text = b /\ eval'.obj = o
    BY <1>3, <2>3, <2>4, RecordIs DEF Hit, Ready
  <2>5. \A j \in DOMAIN lru' : \E n \in DOMAIN lru : lru'[j] = lru[n]
    BY <2>1, HitHolds DEF HostInv
  <2>6. Objective'
    BY <2>1, <2>4, <2>5, <2>9 DEF HostInv, Objective, Holds, Evaluates
  <2>7. Viewed'
    BY <2>1 DEF HostInv, Viewed
  <2> QED
    BY <1>0, <2>6, <2>7 DEF HostInv
<1>4. ASSUME NEW b \in Keys, NEW g \in Groups, Prepare(b, g)
      PROVE  HostInv'
  <2>1. /\ eval = None /\ phase = "serving"
        /\ UNCHANGED <<phase, served, noDB, view>>
    BY <1>4 DEF Prepare, Ready, loadVars
  <2>2. PICK o \in Objects :
           /\ \A i \in DOMAIN lru : lru[i].obj # o
           /\ message' = [x \in Objects |->
                IF x = o THEN [text |-> b, tags |-> Known(b)]
                ELSE IF x \in {lru[i].obj : i \in DOMAIN lru} THEN message[x] ELSE None]
           /\ CachePut(b, o, SizeOf[b])
           /\ eval' = EvalRecord(b, g, o)
    BY <1>4, FreshObject DEF HostInv
  <2>3. \A j \in DOMAIN lru' : \/ lru'[j].key = b /\ lru'[j].obj = o
                               \/ \E i \in DOMAIN lru : lru'[j] = lru[i]
    <3>1. SizeOf[b] \in Sizes
      BY HostAssumption
    <3> QED
      BY <2>2, <3>1, PutHolds DEF HostInv
  <2>4. Holds(o, b)'
    BY <2>2 DEF Holds
  <2>5. \A i \in DOMAIN lru : message'[lru[i].obj] = message[lru[i].obj]
    <3> SUFFICES ASSUME NEW i \in DOMAIN lru
                 PROVE  message'[lru[i].obj] = message[lru[i].obj]
      OBVIOUS
    <3>1. lru[i].obj \in Objects /\ lru[i].obj # o
      BY <2>2, EntryIs DEF HostInv, Entries
    <3> QED
      BY <2>2, <3>1
  <2>9. eval' \in Eval /\ eval'.group \in DOMAIN served /\ eval'.text = b /\ eval'.obj = o
    BY <1>4, <2>2, RecordIs DEF Prepare, Ready
  <2>6. Objective'
    <3>1. message' = [x \in Objects |-> message'[x]]
      BY <2>2
    <3>2. (\A i \in DOMAIN lru : Holds(lru[i].obj, lru[i].key))'
      <4> SUFFICES ASSUME NEW j \in DOMAIN lru'
                   PROVE  message'[lru'[j].obj] = [text |-> lru'[j].key,
                                                   tags |-> message'[lru'[j].obj].tags]
        BY DEF Holds
      <4>1. CASE lru'[j].key = b /\ lru'[j].obj = o
        BY <2>4, <4>1 DEF Holds
      <4>2. ASSUME NEW i \in DOMAIN lru, lru'[j] = lru[i]
            PROVE  message'[lru'[j].obj] = [text |-> lru'[j].key,
                                            tags |-> message'[lru'[j].obj].tags]
        <5>1. Holds(lru[i].obj, lru[i].key)
          BY DEF HostInv, Objective
        <5> QED
          BY <2>5, <4>2, <5>1 DEF Holds
      <4> QED
        BY <2>3, <4>1, <4>2
    <3>3. Evaluates'
      BY <2>1, <2>4, <2>9 DEF Evaluates, Holds
    <3> QED
      BY <3>1, <3>2, <3>3 DEF Objective
  <2>7. Viewed'
    BY <2>1 DEF HostInv, Viewed
  <2> QED
    BY <1>0, <2>6, <2>7 DEF HostInv
<1>5. ASSUME NEW p \in Props, ReadProp(p) PROVE HostInv'
  <2>1. /\ Pending /\ UNCHANGED <<phase, served, lru, noDB, stored, message, eval>>
        /\ view' = [view EXCEPT ![p] = Get(message[eval.obj].text, p)]
    BY <1>5 DEF ReadProp, Running, loadVars, cacheVars
  <2>2. message[eval.obj].text = eval.text
    BY <2>1 DEF HostInv, Objective, Evaluates, Holds, Pending
  <2>3. Viewed'
    BY <2>1, <2>2 DEF HostInv, Viewed, Pending, rules
  <2>4. Objective'
    BY <2>1 DEF HostInv, Objective, Evaluates, Holds
  <2> QED
    BY <1>0, <2>3, <2>4 DEF HostInv
<1>6. ASSUME NEW c \in Change, ChangeTag(c)
      PROVE  HostInv'
  <2>1. /\ Pending /\ UNCHANGED <<phase, served, lru, noDB, stored, view>>
        /\ message' = [message EXCEPT ![eval.obj].tags = With(@, c)]
        /\ eval' = [eval EXCEPT !.changes = Append(@, c)]
    BY <1>6 DEF ChangeTag, Running, loadVars, cacheVars
  <2>2. Evaluates
    BY <2>1 DEF HostInv, Objective, Pending
  <2>3. Append(eval.changes, c) \in Seq(Change)
    BY <1>6, <2>2 DEF Evaluates, Eval
  <2>4. /\ eval' \in Eval /\ eval'.text = eval.text /\ eval'.obj = eval.obj
        /\ eval'.group = eval.group /\ eval'.at = eval.at
    BY <2>1, <2>2, <2>3 DEF Evaluates, Eval
  <2>5. eval' # None
    BY <2>4, HostAssumption
  <2> DEFINE m == message[eval.obj]
             n == [m EXCEPT !.tags = With(m.tags, c)]
  <2>6. message' = [message EXCEPT ![eval.obj] = n]
    BY <2>1
  <2>7. m = [text |-> eval.text, tags |-> m.tags]
    BY <2>2 DEF Evaluates, Holds
  <2>8. n = [text |-> eval.text, tags |-> n.tags]
    BY <2>7
  <2> HIDE DEF n
  <2>9. message = [o \in Objects |-> message[o]]
    BY DEF HostInv, Objective
  <2>10. \A o \in Objects : \A b : Holds(o, b) => Holds(o, b)'
    BY <2>6, <2>7, <2>8, <2>9 DEF Holds
  <2>11. \A i \in DOMAIN lru : lru[i].obj \in Objects
    BY EntryIs DEF HostInv, Entries
  <2>12. Objective'
    <3>1. message' = [o \in Objects |-> message'[o]]
      BY <2>6, <2>9
    <3>2. \A i \in DOMAIN lru : Holds(lru[i].obj, lru[i].key)'
      BY <2>1, <2>10, <2>11 DEF HostInv, Objective
    <3>3. Evaluates'
      BY <2>1, <2>2, <2>4, <2>10 DEF Evaluates, Eval
    <3> QED
      BY <2>1, <3>1, <3>2, <3>3 DEF Objective
  <2>13. Viewed'
    BY <2>1, <2>4, <2>5 DEF HostInv, Viewed, Pending, rules
  <2> QED
    BY <1>0, <2>12, <2>13 DEF HostInv
<1>7. CASE NoFunction \/ AddRulesLate
  <2>1. Pending /\ UNCHANGED <<served, lru, hostVars>> /\ phase' # "load"
    BY <1>7, LateCalls DEF NoFunction, AddRulesLate, Running, Pending, cacheVars
  <2> QED
    BY <1>0, <2>1 DEF hostVars, HostInv, Objective, Evaluates, Holds, Viewed,
                      rules
<1>8. CASE RuleReturns
  <2>1. /\ Pending /\ view' = Unread
        /\ UNCHANGED <<phase, served, lru, noDB, stored, message>>
    BY <1>8 DEF RuleReturns, Running, loadVars, cacheVars
  <2>2. Evaluates
    BY <2>1 DEF HostInv, Objective, Pending
  <2>3. Len(rules) \in Nat
    BY <2>2 DEF Evaluates, LoadTypeOK, IsRuleMap, rules
  <2>4. /\ eval' \in Eval /\ eval'.text = eval.text /\ eval'.obj = eval.obj
        /\ eval'.group = eval.group
    BY <1>8, <2>2, <2>3 DEF RuleReturns, Evaluates, Eval
  <2>5. Objective'
    BY <2>1, <2>2, <2>4 DEF HostInv, Objective, Evaluates, Holds
  <2>6. Viewed'
    BY <2>1 DEF Viewed, Unread
  <2> QED
    BY <1>0, <2>5, <2>6 DEF HostInv
<1>9. CASE RecordEval
  <2>1. /\ phase = "serving" /\ eval # None /\ ~ Pending /\ eval' = None
        /\ UNCHANGED <<phase, served, lru, noDB, message, view>>
    BY <1>9 DEF RecordEval, loadVars, cacheVars
  <2>2. Objective'
    BY <2>1 DEF HostInv, Objective, Holds
  <2>3. Viewed'
    BY <2>1 DEF HostInv, Viewed, Pending
  <2> QED
    BY <1>0, <2>2, <2>3 DEF HostInv
<1>10. CASE Age
  <2>1. /\ CacheTick /\ eval = None /\ UNCHANGED <<phase, served, hostVars>>
    BY <1>10 DEF Age, loadVars
  <2>2. DOMAIN lru' = DOMAIN lru
    BY <2>1 DEF CacheTick
  <2>3. ASSUME NEW i \in DOMAIN lru
        PROVE  lru'[i].key = lru[i].key /\ lru'[i].obj = lru[i].obj
    <3>1. lru[i] \in Entry
      BY DEF HostInv, Entries
    <3> QED
      BY <2>1, <3>1 DEF CacheTick, Entry
  <2>4. Objective'
    BY <2>1, <2>2, <2>3 DEF hostVars, HostInv, Objective, Holds
  <2>5. Viewed'
    BY <2>1, <2>2, <2>3 DEF hostVars, HostInv, Viewed
  <2> QED
    BY <1>0, <2>4, <2>5 DEF HostInv
<1> QED
  BY <1>1, <1>2, <1>3, <1>4, <1>5, <1>6, <1>7, <1>8, <1>9, <1>10 DEF HostNext

(* HostInv holds of every state.                                           *)
LEMMA HostInvariance == HostSpec => []HostInv
<1>1. HostInit => HostInv
  <2> SUFFICES ASSUME HostInit PROVE HostInv
    OBVIOUS
  <2>1. Entries /\ lru = <<>>
    BY CacheStart DEF HostInit, CacheInit
  <2>2. Objective
    BY <2>1 DEF HostInit, Objective
  <2>3. Viewed
    BY DEF HostInit, Viewed, Unread
  <2> QED
    BY <2>1, <2>2, <2>3 DEF HostInv
<1>2. LoadTypeOK /\ HostInv /\ [HostNext]_allVars => HostInv'
  BY HostStep
<1>3. HostSpec => []LoadTypeOK
  <2>1. LoadInv => LoadTypeOK
    BY DEF LoadInv
  <2> QED
    BY <2>1, HostLoadInvariance, PTL
<1> QED
  BY <1>1, <1>2, <1>3, PTL DEF HostSpec

(* Whatever the cache has evicted and handed out again, and whichever      *)
(* rules have run before, a rule reads the message of its own request.     *)
THEOREM ReadsOwn == HostSpec => []ReadsOwnMessage
<1>1. HostInv => ReadsOwnMessage
  BY DEF HostInv, Viewed, ReadsOwnMessage, Read, Get
<1> QED
  BY <1>1, HostInvariance, PTL

-----------------------------------------------------------------------------
(* Tags                                                                    *)

(* A change of a tag leaves tags.                                          *)
LEMMA WithIs ==
  ASSUME NEW s \in SUBSET TagKeys, NEW c \in Change
  PROVE  With(s, c) \in SUBSET TagKeys
BY DEF With, Change

(* The tags after each change are those before it with that change made.   *)
LEMMA TagsAfterIs ==
  ASSUME NEW s \in SUBSET TagKeys, NEW cs \in Seq(Change)
  PROVE  /\ TagsAfter(s, cs)[0] = s
         /\ \A i \in 0..Len(cs) : TagsAfter(s, cs)[i] \in SUBSET TagKeys
         /\ \A i \in 1..Len(cs) : TagsAfter(s, cs)[i] = With(TagsAfter(s, cs)[i - 1], cs[i])
<1> DEFINE N == Len(cs)
           S == SUBSET TagKeys
           Makes(f) == f = [n \in 0..N |-> IF n = 0 THEN s ELSE With(f[n - 1], cs[n])]
           step == [i \in 1..N |-> [x \in S |-> With(x, cs[i])]]
<1>1. N \in Nat /\ \A i \in 1..N : cs[i] \in Change
  OBVIOUS
<1>2. \A i \in 1..N : \A x \in S : With(x, cs[i]) \in S
  BY <1>1, WithIs
<1>3. step \in Steps(N, S)
  <2> HIDE DEF S
  <2> QED
    BY <1>2 DEF Steps
<1>4. \A i \in 1..N : \A x \in S : step[i][x] = With(x, cs[i])
  OBVIOUS
<1> HIDE DEF step
<1>5. PICK f \in [0..N -> S] : Follows(f, N, s, step)
  <2>1. s \in S
    OBVIOUS
  <2> HIDE DEF S
  <2> QED
    BY <1>1, <1>3, <2>1, Recursive
<1> HIDE DEF S
<1>6. ASSUME NEW i \in 1..N PROVE f[i] = With(f[i - 1], cs[i])
  <2>1. f[i - 1] \in S
    <3>1. i - 1 \in 0..N
      BY <1>1
    <3> QED
      BY <1>5, <3>1
  <2> QED
    BY <1>4, <1>5, <2>1 DEF Follows
<1>7. Makes(f)
  <2> DEFINE g == [n \in 0..N |-> IF n = 0 THEN s ELSE With(f[n - 1], cs[n])]
  <2>1. \A n \in 0..N : g[n] = f[n]
    BY <1>1, <1>5, <1>6 DEF Follows
  <2> QED
    BY <1>5, <2>1
<1>8. TagsAfter(s, cs) = CHOOSE h : Makes(h)
  BY DEF TagsAfter
<1>9. Makes(TagsAfter(s, cs))
  <2> HIDE DEF Makes
  <2> QED
    BY <1>7, <1>8
<1> DEFINE h == TagsAfter(s, cs)
<1>10. h[0] = s /\ \A i \in 1..N : h[i] = With(h[i - 1], cs[i])
  BY <1>1, <1>9
<1> HIDE DEF h
<1>11. \A i \in 0..N : h[i] \in S
  <2> DEFINE T == {i \in 0..N : h[i] \in S}
  <2>1. 0 \in T
    <3>1. 0 \in 0..N
      BY <1>1
    <3>2. h[0] \in S
      BY <1>10 DEF S
    <3> QED
      BY <3>1, <3>2
  <2>2. ASSUME NEW i \in 1..N, i - 1 \in T PROVE i \in T
    BY <1>2, <1>10, <2>2
  <2>3. \A i \in 0..N : i \in T
    <3> HIDE DEF T
    <3> QED
      BY <1>1, <2>1, <2>2, Everywhere
  <2> QED
    BY <2>3
<1> QED
  BY <1>10, <1>11 DEF h, S

(* One more change is made after the others.                               *)
LEMMA ChangeMade ==
  ASSUME NEW s \in SUBSET TagKeys, NEW cs \in Seq(Change), NEW c \in Change
  PROVE  LET ds == Append(cs, c) IN
         TagsAfter(s, ds)[Len(ds)] = With(TagsAfter(s, cs)[Len(cs)], c)
<1> DEFINE ds == Append(cs, c)
           N == Len(cs)
           T == {i \in 0..N : TagsAfter(s, ds)[i] = TagsAfter(s, cs)[i]}
<1>1. /\ N \in Nat /\ ds \in Seq(Change) /\ Len(ds) = N + 1 /\ ds[N + 1] = c
      /\ \A i \in 1..N : ds[i] = cs[i]
  BY AppendProperties
<1> HIDE DEF ds
<1>2. 0 \in T
  <2>1. 0 \in 0..N
    BY <1>1
  <2>2. TagsAfter(s, ds)[0] = s /\ TagsAfter(s, cs)[0] = s
    BY <1>1, TagsAfterIs
  <2> QED
    BY <2>1, <2>2
<1>3. ASSUME NEW i \in 1..N, i - 1 \in T PROVE i \in T
  <2>1. i \in 1..Len(ds)
    BY <1>1
  <2>2. TagsAfter(s, ds)[i] = With(TagsAfter(s, ds)[i - 1], ds[i])
    BY <1>1, <2>1, TagsAfterIs
  <2>3. TagsAfter(s, cs)[i] = With(TagsAfter(s, cs)[i - 1], cs[i])
    BY TagsAfterIs
  <2> QED
    BY <1>1, <1>3, <2>2, <2>3
<1>4. \A i \in 0..N : i \in T
  <2> HIDE DEF T
  <2> QED
    BY <1>1, <1>2, <1>3, Everywhere
<1>5. TagsAfter(s, ds)[N] = TagsAfter(s, cs)[N]
  <2>1. N \in 0..N
    BY <1>1
  <2> QED
    BY <1>4, <2>1
<1>6. TagsAfter(s, ds)[N + 1] = With(TagsAfter(s, ds)[N], c)
  <2>1. N + 1 \in 1..Len(ds) /\ (N + 1) - 1 = N
    BY <1>1
  <2>2. TagsAfter(s, ds)[N + 1] = With(TagsAfter(s, ds)[(N + 1) - 1], ds[N + 1])
    BY <1>1, <2>1, TagsAfterIs
  <2> QED
    BY <1>1, <2>1, <2>2
<1> QED
  BY <1>1, <1>5, <1>6 DEF ds

TagTypes ==
  /\ tags \in [Keys -> SUBSET TagKeys] /\ stored = [i \in StoreIDs |-> stored[i]]
  /\ \A i \in StoreIDs : stored[i] # None => stored[i] \in SUBSET TagKeys

(* The messages whose tags are kept: in a row of their own, or nowhere.    *)
Private(b) == noDB \/ Unshared(b)

(* A cached message has the tags that rules left, is known to the store,   *)
(* and is the one in hand if it is the one the request is about.           *)
TagsCached ==
  \A i \in DOMAIN lru :
    /\ Private(lru[i].key) => message[lru[i].obj].tags = tags[lru[i].key]
    /\ noDB \/ stored[storeID[lru[i].key]] # None
    /\ eval # None /\ lru[i].key = eval.text => lru[i].obj = eval.obj

(* The tags of text b once the changes of eval are stored.                 *)
Coming(b) == TagsAfter(stored[storeID[b]], eval.changes)[Len(eval.changes)]

(* The store has the tags that rules left, but for the changes of the      *)
(* request in hand.                                                        *)
TagsStored ==
  IF noDB THEN \A i \in StoreIDs : stored[i] = None
  ELSE /\ eval # None =>
            /\ stored[storeID[eval.text]] # None
            /\ Unshared(eval.text) => tags[eval.text] = Coming(eval.text)
       /\ \A b \in Keys :
            Unshared(b) /\ (eval # None => b # eval.text) => tags[b] = Known(b)

TagInv == TagTypes /\ TagsSurvive /\ TagsCached /\ TagsStored

(* The row of a text.                                                      *)
LEMMA IDIs ==
  ASSUME NEW b \in Keys
  PROVE  /\ storeID[b] \in StoreIDs
         /\ \A c \in Keys : storeID[c] = storeID[b] /\ (Unshared(b) \/ Unshared(c)) => c = b
BY DEF StoreIDs, Unshared

(* A message comes from the cache with its tags.                           *)
LEMMA TagsHit ==
  ASSUME HostInv, TagInv, NEW b \in Keys, NEW g \in Groups, Hit(b, g)
  PROVE  TagInv'
<1>1. eval = None /\ CacheGet(b) /\ UNCHANGED <<noDB, stored, message, tags>>
  BY DEF Hit, Ready
<1>2. PICK i \in DOMAIN lru : lru[i].key = b /\ lru[Position(b)] = lru[i]
  BY <1>1, HitHolds DEF HostInv
<1> DEFINE o == lru[i].obj
<1>3. eval' = EvalRecord(b, g, o) /\ o \in Objects
  BY <1>2, EntryIs DEF Hit, HostInv, Entries
<1>4. eval' \in Eval /\ eval'.text = b /\ eval'.obj = o /\ eval'.changes = <<>>
  BY <1>3, RecordIs DEF EvalRecord
<1>5. \A j \in DOMAIN lru' : \E n \in DOMAIN lru : lru'[j] = lru[n]
  BY <1>1, HitHolds DEF HostInv
<1>6. TagTypes'
  BY <1>1 DEF TagInv, TagTypes
<1>7. TagsSurvive'
  BY <1>1, <1>2, <1>4 DEF TagInv, TagsCached, TagsSurvive, Private
<1>8. TagsCached'
  <2>1. \A n \in DOMAIN lru : lru[n].key = b => n = i
    BY <1>2 DEF HostInv, Entries, UniqueKeys
  <2> QED
    BY <1>1, <1>4, <1>5, <2>1 DEF TagInv, TagsCached, Private
<1>9. TagsStored'
  <2>1. CASE noDB
    BY <1>1, <2>1 DEF TagInv, TagsStored
  <2>2. CASE ~ noDB
    <3> DEFINE t == stored[storeID[b]]
    <3>1. t # None /\ t \in SUBSET TagKeys /\ (Unshared(b) => tags[b] = t)
      BY <1>1, <1>2, <2>2, IDIs DEF TagInv, TagsCached, TagsStored, TagTypes, Known
    <3>2. Coming(b)' = t
      <4>1. <<>> \in Seq(Change) /\ Len(<<>>) = 0
        OBVIOUS
      <4>2. TagsAfter(t, <<>>)[0] = t
        BY <3>1, <4>1, TagsAfterIs
      <4> QED
        BY <1>1, <1>4, <4>1, <4>2 DEF Coming
    <3>3. \A x \in Keys : Unshared(x) => tags'[x] = Known(x)'
      BY <1>1, <2>2 DEF TagInv, TagsStored, Known
    <3> QED
      BY <1>1, <1>4, <2>2, <3>1, <3>2, <3>3 DEF TagsStored
  <2> QED
    BY <2>1, <2>2
<1> QED
  BY <1>6, <1>7, <1>8, <1>9 DEF TagInv

(* A message that is not cached has the tags the store knows.              *)
LEMMA TagsPrepare ==
  ASSUME HostInv, TagInv, NEW b \in Keys, NEW g \in Groups, Prepare(b, g)
  PROVE  TagInv'
<1> DEFINE t == Known(b)
           d == storeID[b]
<1>1. /\ eval = None /\ b \notin Cached /\ UNCHANGED noDB
      /\ stored' = Saved(d, t)
      /\ tags' = [tags EXCEPT ![b] = IF noDB THEN {} ELSE @]
  BY DEF Prepare, Ready, Known
<1>2. PICK o \in Objects :
         /\ \A i \in DOMAIN lru : lru[i].obj # o
         /\ message' = [x \in Objects |->
              IF x = o THEN [text |-> b, tags |-> Known(b)]
              ELSE IF x \in {lru[i].obj : i \in DOMAIN lru} THEN message[x] ELSE None]
         /\ CachePut(b, o, SizeOf[b])
         /\ eval' = EvalRecord(b, g, o)
  BY FreshObject DEF HostInv
<1>3. \A j \in DOMAIN lru' : \/ lru'[j].key = b /\ lru'[j].obj = o
                             \/ \E i \in DOMAIN lru : lru'[j] = lru[i]
  <2>1. SizeOf[b] \in Sizes
    BY HostAssumption
  <2> QED
    BY <1>2, <2>1, PutHolds DEF HostInv
<1>4. eval' \in Eval /\ eval'.text = b /\ eval'.obj = o /\ eval'.changes = <<>>
  BY <1>2, RecordIs DEF EvalRecord
<1>5. message'[o].tags = t
  BY <1>2
<1>6. t \in SUBSET TagKeys /\ t # None /\ d \in StoreIDs
  BY IDIs, HostAssumption DEF TagInv, TagTypes, Known
<1>7. /\ Private(b) => tags'[b] = t
      /\ \A x \in Keys \ {b} : tags'[x] = tags[x]
      /\ tags' \in [Keys -> SUBSET TagKeys]
  <2>1. CASE noDB
    BY <1>1, <1>6, <2>1 DEF TagInv, TagTypes, TagsStored, Known
  <2>2. CASE ~ noDB
    BY <1>1, <2>2 DEF TagInv, TagTypes, TagsStored, Private
  <2> QED
    BY <2>1, <2>2
<1>8. /\ stored' = [x \in StoreIDs |-> stored'[x]]
      /\ \A x \in StoreIDs \ {d} : stored'[x] = stored[x]
      /\ IF noDB THEN stored' = stored ELSE stored'[d] = t
  BY <1>1, <1>6 DEF Saved, TagInv, TagTypes
<1>14. Known(b) = t /\ \A x \in Keys : storeID[x] \in StoreIDs
  BY IDIs
<1>15. ~ noDB => stored'[d] # None /\ \A x \in Keys : Known(x)' = Known(x)
  BY <1>6, <1>8, <1>14 DEF Known
<1> HIDE DEF t
<1>9. \A i \in DOMAIN lru : lru[i].key \in Keys \ {b} /\ message'[lru[i].obj] = message[lru[i].obj]
  <2> SUFFICES ASSUME NEW i \in DOMAIN lru
               PROVE  lru[i].key \in Keys \ {b} /\ message'[lru[i].obj] = message[lru[i].obj]
    OBVIOUS
  <2>1. lru[i].obj \in Objects /\ lru[i].obj # o /\ lru[i].key \in Keys
    BY <1>2, EntryIs DEF HostInv, Entries
  <2>2. lru[i].key # b
    BY <1>1 DEF Cached
  <2> QED
    BY <1>2, <2>1, <2>2
<1>10. TagTypes'
  <2>1. ASSUME NEW x \in StoreIDs, stored'[x] # None PROVE stored'[x] \in SUBSET TagKeys
    BY <1>6, <1>8, <2>1 DEF TagInv, TagTypes
  <2> QED
    BY <1>7, <1>8, <2>1 DEF TagTypes
<1>11. TagsSurvive'
  BY <1>1, <1>4, <1>5, <1>7 DEF TagsSurvive, Private
<1>12. TagsCached'
  <2> SUFFICES ASSUME NEW j \in DOMAIN lru'
               PROVE  /\ Private(lru'[j].key) =>
                           message'[lru'[j].obj].tags = tags'[lru'[j].key]
                      /\ noDB \/ stored'[storeID[lru'[j].key]] # None
                      /\ lru'[j].key = b => lru'[j].obj = o
    BY <1>1, <1>4 DEF TagsCached, Private
  <2>1. CASE lru'[j].key = b /\ lru'[j].obj = o
    BY <1>5, <1>7, <1>15, <2>1
  <2>2. ASSUME NEW i \in DOMAIN lru, lru'[j] = lru[i]
        PROVE  /\ Private(lru'[j].key) => message'[lru'[j].obj].tags = tags'[lru'[j].key]
               /\ noDB \/ stored'[storeID[lru'[j].key]] # None
               /\ lru'[j].key = b => lru'[j].obj = o
    <3>1. /\ Private(lru[i].key) => message[lru[i].obj].tags = tags[lru[i].key]
          /\ noDB \/ stored[storeID[lru[i].key]] # None
      BY DEF TagInv, TagsCached
    <3>2. ~ noDB => \A x \in StoreIDs : stored[x] # None => stored'[x] # None
      BY <1>8, <1>15
    <3> QED
      BY <1>7, <1>9, <1>14, <2>2, <3>1, <3>2
  <2> QED
    BY <1>3, <2>1, <2>2
<1>13. TagsStored'
  <2>1. CASE noDB
    BY <1>1, <1>8, <2>1 DEF TagInv, TagsStored
  <2>2. CASE ~ noDB
    <3>1. stored'[d] = t /\ t # None
      BY <1>6, <1>8, <2>2
    <3>2. Coming(b)' = t
      <4>1. <<>> \in Seq(Change) /\ Len(<<>>) = 0
        OBVIOUS
      <4>2. TagsAfter(t, <<>>)[0] = t
        BY <1>6, <4>1, TagsAfterIs
      <4> QED
        BY <1>4, <3>1, <4>1, <4>2 DEF Coming
    <3>3. \A x \in Keys \ {b} : Unshared(x) => tags'[x] = Known(x)'
      BY <1>1, <1>7, <1>15, <2>2 DEF TagInv, TagsStored
    <3>4. Unshared(b) => tags'[b] = t
      BY <1>7 DEF Private
    <3>5. eval' # None
      BY <1>4, HostAssumption
    <3> QED
      BY <1>1, <1>4, <2>2, <3>1, <3>2, <3>3, <3>4, <3>5 DEF TagsStored
  <2> QED
    BY <2>1, <2>2
<1> QED
  BY <1>10, <1>11, <1>12, <1>13 DEF TagInv

(* A rule changes a tag of the message in hand and of no other.            *)
LEMMA TagsChange ==
  ASSUME HostInv, TagInv, NEW c \in Change, ChangeTag(c)
  PROVE  TagInv'
<1>1. /\ eval # None /\ UNCHANGED <<lru, noDB, stored>>
      /\ message' = [message EXCEPT ![eval.obj].tags = With(@, c)]
      /\ eval' = [eval EXCEPT !.changes = Append(@, c)]
      /\ tags' = [tags EXCEPT ![eval.text] = With(@, c)]
  BY DEF ChangeTag, Running, Pending, cacheVars
<1>2. eval \in Eval /\ Holds(eval.obj, eval.text) /\ message = [o \in Objects |-> message[o]]
  BY <1>1 DEF HostInv, Objective, Evaluates
<1>3. eval.text \in Keys /\ eval.obj \in Objects /\ eval.changes \in Seq(Change)
  BY <1>2 DEF Eval
<1>4. /\ eval'.text = eval.text /\ eval'.obj = eval.obj
      /\ eval'.changes = Append(eval.changes, c) /\ eval' \in Eval
  <2>1. Append(eval.changes, c) \in Seq(Change)
    BY <1>3
  <2> QED
    BY <1>1, <1>2, <2>1 DEF Eval
<1>5. eval' # None
  BY <1>4, HostAssumption
<1>6. /\ \A o \in Objects \ {eval.obj} : message'[o] = message[o]
      /\ message'[eval.obj].tags = With(message[eval.obj].tags, c)
  <2> DEFINE m == message[eval.obj]
             n == [m EXCEPT !.tags = With(m.tags, c)]
  <2>1. message' = [message EXCEPT ![eval.obj] = n]
    BY <1>1
  <2>2. m = [text |-> eval.text, tags |-> m.tags]
    BY <1>2 DEF Holds
  <2>3. n.tags = With(m.tags, c)
    BY <2>2
  <2> HIDE DEF n
  <2> QED
    BY <1>2, <1>3, <2>1, <2>3
<1>7. /\ \A b \in Keys \ {eval.text} : tags'[b] = tags[b]
      /\ tags'[eval.text] = With(tags[eval.text], c)
  BY <1>1, <1>3 DEF TagInv, TagTypes
<1>8. With(tags[eval.text], c) \in SUBSET TagKeys
  BY <1>3, WithIs DEF TagInv, TagTypes
<1>9. TagTypes'
  BY <1>1, <1>8 DEF TagInv, TagTypes
<1>10. TagsSurvive'
  BY <1>1, <1>4, <1>6, <1>7 DEF TagInv, TagsSurvive
<1>11. TagsCached'
  <2> SUFFICES ASSUME NEW i \in DOMAIN lru, Private(lru[i].key)
               PROVE  message'[lru[i].obj].tags = tags'[lru[i].key]
    BY <1>1, <1>4 DEF TagInv, TagsCached, Private
  <2>1. lru[i].obj \in Objects /\ lru[i].key \in Keys /\ Holds(lru[i].obj, lru[i].key)
    BY EntryIs DEF HostInv, Entries, Objective
  <2>2. lru[i].obj = eval.obj <=> lru[i].key = eval.text
    <3>1. lru[i].obj = eval.obj => lru[i].key = eval.text
      BY <1>2, <2>1 DEF Holds
    <3> QED
      BY <1>1, <3>1 DEF TagInv, TagsCached
  <2>3. message[lru[i].obj].tags = tags[lru[i].key]
    BY DEF TagInv, TagsCached
  <2>4. CASE lru[i].obj = eval.obj
    BY <1>6, <1>7, <2>2, <2>3, <2>4
  <2>5. CASE lru[i].obj # eval.obj
    BY <1>6, <1>7, <2>1, <2>2, <2>3, <2>5
  <2> QED
    BY <2>4, <2>5
<1>12. TagsStored'
  <2>1. CASE noDB
    BY <1>1, <2>1 DEF TagInv, TagsStored
  <2>2. CASE ~ noDB
    <3> DEFINE t == stored[storeID[eval.text]]
    <3>1. /\ t # None /\ t \in SUBSET TagKeys
          /\ Unshared(eval.text) => tags[eval.text] = TagsAfter(t, eval.changes)[Len(eval.changes)]
      BY <1>1, <1>3, <2>2, IDIs DEF TagInv, TagsStored, TagTypes, Coming
    <3>2. Unshared(eval.text) =>
            tags'[eval'.text] = TagsAfter(t, eval'.changes)[Len(eval'.changes)]
      BY <1>3, <1>4, <1>7, <3>1, ChangeMade
    <3>3. \A b \in Keys : Unshared(b) /\ b # eval.text => tags'[b] = Known(b)
      BY <1>1, <1>7, <2>2 DEF TagInv, TagsStored
    <3>4. /\ stored'[storeID[eval'.text]] # None
          /\ Unshared(eval'.text) => tags'[eval'.text] = Coming(eval.text)'
      BY <1>1, <1>4, <3>1, <3>2 DEF Coming
    <3>5. \A b \in Keys :
            Unshared(b) /\ (eval' # None => b # eval'.text) => tags'[b] = Known(b)'
      BY <1>1, <1>4, <1>5, <3>3 DEF Known
    <3> QED
      BY <1>1, <2>2, <3>4, <3>5 DEF TagsStored
  <2> QED
    BY <2>1, <2>2
<1> QED
  BY <1>9, <1>10, <1>11, <1>12 DEF TagInv

(* The changes are stored, and the store knows what the rules left.        *)
LEMMA TagsRecord ==
  ASSUME HostInv, TagInv, RecordEval
  PROVE  TagInv'
<1> DEFINE b == eval.text
           d == storeID[b]
<1>1. /\ eval # None /\ eval' = None /\ UNCHANGED <<lru, noDB, message, tags>>
      /\ stored' = Saved(d, Coming(b))
  BY DEF RecordEval, Stored, Coming, cacheVars
<1>2. b \in Keys /\ d \in StoreIDs /\ eval.changes \in Seq(Change)
  BY <1>1, IDIs DEF HostInv, Objective, Evaluates, Eval
<1>3. CASE noDB
  <2>1. stored' = stored
    BY <1>1, <1>3 DEF Saved
  <2> QED
    BY <1>1, <1>3, <2>1 DEF TagInv, TagTypes, TagsSurvive, TagsCached, TagsStored, Private
<1>4. CASE ~ noDB
  <2>1. /\ stored[d] # None
        /\ Unshared(b) => tags[b] = Coming(b)
        /\ \A x \in Keys \ {b} : Unshared(x) => tags[x] = Known(x)
    BY <1>1, <1>4 DEF TagInv, TagsStored
  <2>2. Coming(b) \in SUBSET TagKeys /\ Coming(b) # None
    <3>1. stored[d] \in SUBSET TagKeys
      BY <1>2, <2>1 DEF TagInv, TagTypes
    <3>2. Len(eval.changes) \in 0..Len(eval.changes)
      BY <1>2
    <3>3. Coming(b) \in SUBSET TagKeys
      BY <1>2, <3>1, <3>2, TagsAfterIs DEF Coming
    <3> QED
      BY <3>3, HostAssumption
  <2>3. /\ stored' = [x \in StoreIDs |-> stored'[x]]
        /\ \A x \in StoreIDs : stored'[x] = IF x = d THEN Coming(b) ELSE stored[x]
    BY <1>1, <1>2, <1>4 DEF Saved, TagInv, TagTypes
  <2>4. TagTypes'
    BY <1>1, <2>2, <2>3 DEF TagInv, TagTypes
  <2>5. TagsCached'
    <3>1. \A i \in DOMAIN lru : storeID[lru[i].key] \in StoreIDs
      BY EntryIs, IDIs DEF HostInv, Entries
    <3> QED
      BY <1>1, <1>4, <2>2, <2>3, <3>1 DEF TagInv, TagsCached, Private
  <2>6. TagsStored'
    <3> SUFFICES ASSUME NEW x \in Keys, Unshared(x) PROVE tags[x] = Known(x)'
      BY <1>1, <1>4 DEF TagsStored
    <3>1. CASE x = b
      BY <1>2, <2>1, <2>2, <2>3, <3>1 DEF Known
    <3>2. CASE x # b
      <4>1. storeID[x] \in StoreIDs /\ storeID[x] # d
        BY <1>2, <3>2, IDIs
      <4> QED
        BY <2>1, <2>3, <3>2, <4>1 DEF Known
    <3> QED
      BY <3>1, <3>2
  <2> QED
    BY <1>1, <2>4, <2>5, <2>6 DEF TagInv, TagsSurvive
<1> QED
  BY <1>3, <1>4

(* Every step keeps the history, the cache and the store in agreement      *)
(* about tags.                                                             *)
LEMMA TagsStep ==
  ASSUME LoadTypeOK, HostInv, TagInv, [HostNext]_allVars
  PROVE  TagInv'
<1>1. ASSUME \A j \in DOMAIN lru' : \E i \in DOMAIN lru :
               lru'[j].key = lru[i].key /\ lru'[j].obj = lru[i].obj,
             UNCHANGED <<noDB, stored, message, tags>>,
             \/ eval' = eval
             \/ /\ eval # None /\ eval' # None /\ eval'.text = eval.text
                /\ eval'.obj = eval.obj /\ eval'.changes = eval.changes
      PROVE  TagInv'
  <2>1. TagTypes'
    BY <1>1 DEF TagInv, TagTypes
  <2>2. TagsSurvive'
    BY <1>1 DEF TagInv, TagsSurvive
  <2>3. TagsCached'
    BY <1>1 DEF TagInv, TagsCached, Private
  <2>4. TagsStored'
    BY <1>1 DEF TagInv, TagsStored, Known, Coming
  <2> QED
    BY <2>1, <2>2, <2>3, <2>4 DEF TagInv
<1>2. CASE UNCHANGED allVars \/ Load \/ NoFunction \/ AddRulesLate
  <2>1. UNCHANGED <<lru, hostVars>>
    BY <1>2 DEF allVars, Load, NoFunction, AddRulesLate, cacheVars
  <2> QED
    BY <1>1, <2>1 DEF hostVars
<1>3. ASSUME NEW b \in Keys, NEW g \in Groups, Hit(b, g) \/ Prepare(b, g)
      PROVE  TagInv'
  BY <1>3, TagsHit, TagsPrepare
<1>4. ASSUME NEW p \in Props, ReadProp(p) PROVE TagInv'
  <2>1. UNCHANGED <<lru, noDB, stored, message, eval, tags>>
    BY <1>4 DEF ReadProp, cacheVars
  <2> QED
    BY <1>1, <2>1
<1>5. ASSUME NEW c \in Change, ChangeTag(c) PROVE TagInv'
  BY <1>5, TagsChange
<1>6. CASE RuleReturns
  <2>1. eval # None /\ UNCHANGED <<lru, noDB, stored, message, tags>>
    BY <1>6 DEF RuleReturns, Running, Pending, cacheVars
  <2>2. eval \in Eval /\ Len(rules) \in Nat
    BY <2>1 DEF HostInv, Objective, Evaluates, LoadTypeOK, IsRuleMap, rules
  <2>3. /\ eval' \in Eval /\ eval'.text = eval.text /\ eval'.obj = eval.obj
        /\ eval'.changes = eval.changes
    BY <1>6, <2>2 DEF RuleReturns, Eval
  <2>4. eval' # None
    BY <2>3, HostAssumption
  <2> QED
    BY <1>1, <2>1, <2>3, <2>4
<1>7. CASE RecordEval
  BY <1>7, TagsRecord
<1>8. CASE Age
  <2>1. CacheTick /\ UNCHANGED hostVars
    BY <1>8 DEF Age
  <2>2. DOMAIN lru' = DOMAIN lru
    BY <2>1 DEF CacheTick
  <2>3. ASSUME NEW i \in DOMAIN lru
        PROVE  lru'[i].key = lru[i].key /\ lru'[i].obj = lru[i].obj
    <3>1. lru[i] \in Entry
      BY DEF HostInv, Entries
    <3> QED
      BY <2>1, <3>1 DEF CacheTick, Entry
  <2> QED
    BY <1>1, <2>1, <2>2, <2>3 DEF hostVars
<1> QED
  BY <1>2, <1>3, <1>4, <1>5, <1>6, <1>7, <1>8 DEF HostNext

(* With a database, however often a message is evicted and made again from *)
(* the store and whichever objects are reused, a rule finds the tags that  *)
(* rules left on a text whose row is its own.  Without one it finds them   *)
(* as long as the message stays cached.                                    *)
THEOREM TagsFound == HostSpec => []TagsSurvive
<1>1. HostInit => TagInv
  <2> SUFFICES ASSUME HostInit PROVE TagInv
    OBVIOUS
  <2>1. eval = None /\ lru = <<>> /\ DOMAIN <<>> = {}
    BY DEF HostInit, CacheInit
  <2>2. /\ stored = [i \in StoreIDs |-> None] /\ tags = [b \in Keys |-> {}]
    BY DEF HostInit
  <2>3. \A b \in Keys : storeID[b] \in StoreIDs
    BY IDIs
  <2>4. TagsStored
    BY <2>1, <2>2, <2>3 DEF TagsStored, Known
  <2> QED
    BY <2>1, <2>2, <2>4 DEF TagInv, TagTypes, TagsSurvive, TagsCached
<1>2. LoadTypeOK /\ HostInv /\ TagInv /\ [HostNext]_allVars => TagInv'
  BY TagsStep
<1>3. HostSpec => []LoadTypeOK
  <2>1. LoadInv => LoadTypeOK
    BY DEF LoadInv
  <2> QED
    BY <2>1, HostLoadInvariance, PTL
<1>4. TagInv => TagsSurvive
  BY DEF TagInv
<1> QED
  BY <1>1, <1>2, <1>3, <1>4, HostInvariance, PTL DEF HostSpec

-----------------------------------------------------------------------------
(* The cache's limits, with requests to fill it                            *)

(* Requests, rules and loading keep the accounts of the cache.             *)
LEMMA HostCacheInvariance == HostSpec => []CacheInv
<1>1. HostInit => CacheInv
  BY CacheInvInit DEF HostInit
<1>2. CacheInv /\ [HostNext]_allVars => CacheInv'
  BY HostCaches, CacheInvStep DEF CacheInv
<1> QED
  BY <1>1, <1>2, PTL DEF HostSpec

(* In the daemon the accounted size is that of the entries held.           *)
THEOREM HostSizeAccounted ==
  ASSUME NoWrap, MaxSize > 0
  PROVE  HostSpec => []SizeIsSum
<1>1. CacheInv => SizeIsSum
  BY DEF CacheInv, SizeIsSum
<1> QED
  BY <1>1, HostCacheInvariance, PTL

(* In the daemon the limits of the policy hold between two calls.          *)
THEOREM HostLimitsKept ==
  ASSUME NoWrap
  PROVE  HostSpec => []LimitsHold
<1>1. CacheInv => LimitsHold
  BY DEF CacheInv, LimitsHold
<1> QED
  BY <1>1, HostCacheInvariance, PTL
=============================================================================
