------------------------------ MODULE RuleLoad ------------------------------
(***************************************************************************)
(* The loading of rules: loadRuleGroups of cmd/reeed/main.go, and the      *)
(* scripts' calls of reee.addRules (cmd/reeed/rule/load.go, rule.go).      *)
(*                                                                         *)
(* Scripts run one after the other, each in a JavaScript runtime of its    *)
(* own.  A script may call addRules any number of times and may catch what *)
(* it throws.  The hook stays in the runtime: a rule can call addRules as  *)
(* well, when the daemon is serving.                                       *)
(*                                                                         *)
(* The argument of a call maps groups to candidates.  It is chosen piece   *)
(* by piece as addRules gets to it: its groups in sorted order (they are   *)
(* numbers here), the candidates of each group in theirs.  Definitions     *)
(* headed "Slip:" are plausible mistakes in the definition that follows.   *)
(***************************************************************************)
EXTENDS Naturals, Sequences

CONSTANTS
  NumScripts, (* the files *.js, numbered as WalkDir finds them            *)
  NumGroups,  (* group names, numbered as they sort                        *)
  RuleNames,
  MaxCalls,   (* bound: calls of addRules                                  *)
  MaxRules,   (* bound: rules of a group                                   *)
  Blank       (* a blank name                                              *)

ASSUME LoadAssumption ==
  /\ NumScripts \in Nat /\ NumGroups \in Nat
  /\ MaxCalls \in Nat /\ MaxRules \in Nat
  /\ Blank \notin RuleNames

Scripts == 1..NumScripts
Groups  == 1..NumGroups

(* What a script offers as a rule: its name may be blank or missing; its   *)
(* member "rule" may be a function, something else, or missing.            *)
Candidate == [name : RuleNames \cup {Blank}, f : {"function", "other", "missing"}]

(* A registered rule, with the script and the call it came from.           *)
Rule == [script : Scripts, call : 1..MaxCalls, name : RuleNames,
         f : {"function", "missing"}]

(* A Go map from group names: its domain is the groups that are there.     *)
IsRuleMap(m) == DOMAIN m \subseteq Groups /\ m \in [DOMAIN m -> Seq(Rule)]

VARIABLES
  phase,    (* "load", "serving", "failed" or "panic"                      *)
  script,   (* the files visited so far; the last one may be running       *)
  running,
  runtimes, (* GroupSet.vms: the scripts that have a runtime               *)
  caller,   (* the script whose call of addRules is in progress, or 0      *)
  calls,    (* the calls begun so far                                      *)
  group,    (* the group that call has come to; 0 at its beginning         *)
  groups,   (* GroupSet.groups: group -> its rules in order                *)
  served,   (* Daemon.Groups: what ToMap made of it                        *)
  returned, (* history: the calls that returned normally                   *)
  caught    (* history: the calls whose exception the script caught        *)

scriptVars == <<script, running, runtimes>>
callVars   == <<caller, calls, group>>
history    == <<returned, caught>>
loadVars   == <<phase, scriptVars, callVars, groups, served, history>>

LoadInit ==
  /\ phase = "load"
  /\ script = 0 /\ running = FALSE /\ runtimes = {}
  /\ caller = 0 /\ calls = 0 /\ group = 0
  /\ groups = <<>> /\ served = groups
  /\ returned = {} /\ caught = {}

-----------------------------------------------------------------------------
(* Files                                                                   *)

(* Without the directory, WalkDir calls back with no entry and an error.   *)
(* The callback does not look at the error and asks the entry.             *)
MissingPath ==
  /\ phase = "load" /\ script = 0
  /\ phase' = "panic"
  /\ UNCHANGED <<scriptVars, callVars, groups, served, history>>

(* The next file: skipped if it cannot be read, run if it compiles.        *)
NextFile ==
  /\ phase = "load" /\ ~ running
  /\ script < NumScripts
  /\ script' = script + 1
  /\ \/ UNCHANGED <<phase, running, runtimes>>
     \/ phase' = "failed" /\ UNCHANGED <<running, runtimes>>
     \/ /\ running' = TRUE /\ runtimes' = runtimes \cup {script'}
        /\ UNCHANGED phase
  /\ UNCHANGED <<callVars, groups, served, history>>

(* The script ends, or throws an exception of its own.                     *)
ScriptEnds ==
  /\ running /\ caller = 0
  /\ running' = FALSE
  /\ phase' \in {phase, "failed"}
  /\ UNCHANGED <<script, runtimes, callVars, groups, served, history>>

(* After the last file the daemon gets a copy of the groups: rules added   *)
(* later on are never served.                                              *)
ToMap ==
  /\ phase = "load" /\ ~ running
  /\ script = NumScripts
  /\ phase' = "serving"
  /\ served' = groups
  /\ UNCHANGED <<scriptVars, callVars, groups, history>>

-----------------------------------------------------------------------------
(* addRules                                                                *)

(* A script calls it while it is loaded, or later from one of its rules.   *)
AddRules(s) ==
  /\ caller = 0
  /\ \/ phase = "load" /\ running /\ s = script
     \/ phase = "serving" /\ s \in runtimes
  /\ calls < MaxCalls
  /\ caller' = s /\ calls' = calls + 1 /\ group' = 0
  /\ UNCHANGED <<phase, scriptVars, groups, served, history>>

(* The call goes on to a later group, which is made if it is new.          *)
NextGroup(g) ==
  /\ caller # 0
  /\ g > group
  /\ group' = g
  /\ groups' = [x \in DOMAIN groups \cup {g} |->
                  IF x \in DOMAIN groups THEN groups[x] ELSE <<>>]
  /\ UNCHANGED <<phase, scriptVars, caller, calls, served, history>>

(* Slip: names are compared with those of this call only.                  *)
AcceptableAnew(c) ==
  /\ c.name # Blank
  /\ c.f # "other"
  /\ \A i \in DOMAIN groups[group] :
       groups[group][i].call = calls => groups[group][i].name # c.name

(* unmarshalRule takes the candidate, and its name is new in the group.    *)
Acceptable(c) ==
  /\ c.name # Blank
  /\ c.f # "other"
  /\ \A i \in DOMAIN groups[group] : groups[group][i].name # c.name

NewRule(c) == [script |-> caller, call |-> calls, name |-> c.name, f |-> c.f]

Register(c) ==
  /\ caller # 0 /\ group # 0
  /\ Len(groups[group]) < MaxRules
  /\ Acceptable(c)
  /\ groups' = [groups EXCEPT ![group] = Append(@, NewRule(c))]
  /\ UNCHANGED <<phase, scriptVars, callVars, served, history>>

Return ==
  /\ caller # 0
  /\ caller' = 0 /\ group' = 0
  /\ returned' = returned \cup {calls}
  /\ UNCHANGED <<phase, scriptVars, calls, groups, served, caught>>

(* Slip: Load does not pass on the error of the program it has run.        *)
ThrowUnnoticed ==
  /\ caller' = 0 /\ group' = 0
  /\ \/ /\ caught' = caught \cup {calls}
        /\ UNCHANGED <<phase, running>>
     \/ /\ IF phase = "load" THEN running' = FALSE ELSE UNCHANGED running
        /\ UNCHANGED <<phase, caught>>
  /\ UNCHANGED <<script, runtimes, calls, groups, served, returned>>

(* addRules throws; nothing it has registered is taken back.  The script   *)
(* catches the exception, or it ends the loading (later on, only the rule  *)
(* that made the call).                                                    *)
Throw ==
  /\ caller' = 0 /\ group' = 0
  /\ \/ /\ caught' = caught \cup {calls}
        /\ UNCHANGED <<phase, running>>
     \/ /\ IF phase = "load" THEN phase' = "failed" /\ running' = FALSE
           ELSE UNCHANGED <<phase, running>>
        /\ UNCHANGED caught
  /\ UNCHANGED <<script, runtimes, calls, groups, served, returned>>

(* The argument is no map of lists, or there is not just one.              *)
BadArgument == caller # 0 /\ group = 0 /\ Throw

Refuse(c) == caller # 0 /\ group # 0 /\ ~ Acceptable(c) /\ Throw

-----------------------------------------------------------------------------
AddRulesStep ==
  \/ \E s \in Scripts : AddRules(s)
  \/ \E g \in Groups : NextGroup(g)
  \/ \E c \in Candidate : Register(c) \/ Refuse(c)
  \/ Return
  \/ BadArgument

LoadNext == MissingPath \/ NextFile \/ ScriptEnds \/ ToMap \/ AddRulesStep

LoadSpec == LoadInit /\ [][LoadNext]_loadVars

-----------------------------------------------------------------------------
(* Properties                                                              *)

LoadTypeOK ==
  /\ phase \in {"load", "serving", "failed", "panic"}
  /\ script \in 0..NumScripts /\ running \in BOOLEAN /\ runtimes \subseteq Scripts
  /\ caller \in 0..NumScripts /\ calls \in 0..MaxCalls
  /\ group \in 0..NumGroups
  /\ IsRuleMap(groups) /\ IsRuleMap(served)
  /\ returned \subseteq 1..MaxCalls /\ caught \subseteq 1..MaxCalls

Unique(s) == \A i, j \in DOMAIN s : s[i].name = s[j].name => i = j

(* A rule's name stands for one rule of its group, whatever scripts and    *)
(* calls contribute to the group: the choice handleEval makes of the rules *)
(* by name is a choice of one.                                             *)
NamesUnique == \A g \in DOMAIN served : Unique(served[g])

(* The daemon serves nothing of a call of addRules that failed half-way,   *)
(* unless the script itself caught the exception: an uncaught one keeps    *)
(* the daemon from starting.                                               *)
WholeUnlessCaught ==
  \A g \in DOMAIN served : \A i \in DOMAIN served[g] :
    served[g][i].call \in returned \cup caught
=============================================================================
