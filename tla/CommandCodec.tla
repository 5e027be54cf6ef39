---------------------------- MODULE CommandCodec ----------------------------
(***************************************************************************)
(* The command line of the protocol: WriteCommand and ReadCommand of       *)
(* protocol/command.go with the level names of log/level.go, and the       *)
(* choice Daemon.handle (daemon/daemon.go) makes of what it reads.         *)
(*                                                                         *)
(* A line is a sequence of tokens.  A word is one token, a space and the   *)
(* newline are others; to cut a line at a space is to cut the sequence.    *)
(* Two words side by side, with no space between them, are a longer word.  *)
(* A definition headed "Slip:" is a plausible mistake in the definition    *)
(* that follows; it tests the properties.                                  *)
(***************************************************************************)
EXTENDS Integers, SequencesExt

CONSTANTS
  Words,     (* words besides the names of types and levels                *)
  MaxLength, (* bound: tokens of a line before its newline                 *)
  None

SP == "space"
NL == "newline"

commandType == <<"eval", "list">>
level       == <<"taciturn", "normal", "verbose">>

Names  == Words \cup ToSet(commandType) \cup ToSet(level)
Tokens == Names \cup {SP}

ASSUME BoundsAssumption == MaxLength \in Nat
ASSUME WordsAssumption == SP \notin Words /\ NL \notin Words
ASSUME NoneAssumption == None \notin {"close", "eval", "list", "panic"}

(* The arguments of an eval command: the length of the input and the       *)
(* group, for which any name will do, an empty one too, and perhaps a rule.*)
SizeAndGroup == {<<n, SP>> \o g : n \in Words, g \in {<<>>} \cup {<<w>> : w \in Names}}
EvalArgs     == {a \o r : a \in SizeAndGroup, r \in {<<>>} \cup {<<SP, w>> : w \in Names}}

(* A command the client sends; type and level are numbered as in the code. *)
(* A list command has no arguments.                                        *)
Command == {c \in [type : 0..1, id : {<<w>> : w \in Words}, level : -1..1,
                   args : EvalArgs \cup {<<>>}] :
              c.args # <<>> <=> c.type = 0}

(* What a line is read as: an error, a run-time panic, or a command.       *)
Failed   == [kind |-> "error"]
Panicked == [kind |-> "panic"]
Parsed(t, i, l, a) ==
  [kind |-> "command", cmd |-> [type |-> t, id |-> i, level |-> l, args |-> a]]

-----------------------------------------------------------------------------
WriteCommand(cmd) ==
  <<commandType[cmd.type + 1], SP>> \o cmd.id \o <<SP, level[cmd.level + 2]>>
    \o (IF cmd.args = <<>> THEN <<>> ELSE <<SP>> \o cmd.args)
    \o <<NL>>

(* bytes.IndexByte(s, ' '): how many tokens precede the first space, or -1 *)
IndexSpace(s) == SelectInSeq(s, LAMBDA x : x = SP) - 1

(* Go's s[:n] and s[n:].                                                   *)
Take(s, n) == SubSeq(s, 1, n)
Drop(s, n) == SubSeq(s, n + 1, Len(s))

(* The position of a word among the names, counted from 1, or 0.           *)
NameIndex(names, word) == SelectInSeq(names, LAMBDA n : word = <<n>>)

(* Slip: the arguments begin where the level ends, at the space.           *)
ReadLevelAndSpace(t, id, rem) ==
  LET s == IndexSpace(rem)
      p == IF s < 1 THEN Len(rem) - 1 ELSE s
      l == NameIndex(level, Take(rem, p))
  IN IF p < 1 \/ l = 0 THEN Failed
     ELSE Parsed(t, id, l - 2, Drop(Front(rem), p))

(* The level ends at a space or, if there is none, at the newline.  The    *)
(* arguments are what follows, without the newline: after a level that     *)
(* ends the line their slice begins past its end, and the program panics.  *)
ReadLevel(t, id, rem) ==
  LET s == IndexSpace(rem)
      p == IF s < 1 THEN Len(rem) - 1 ELSE s
      l == NameIndex(level, Take(rem, p))
  IN IF p < 1 \/ l = 0 THEN Failed
     ELSE IF p + 1 > Len(rem) - 1 THEN Panicked
     ELSE Parsed(t, id, l - 2, Drop(Front(rem), p + 1))

ReadID(t, rem) ==
  LET p == IndexSpace(rem)
  IN IF p < 1 THEN Failed ELSE ReadLevel(t, Take(rem, p), Drop(rem, p + 1))

(* Slip: a word is compared with the beginning of the names only.          *)
ReadCommandLoosely(line) ==
  LET p == IndexSpace(line)
  IN IF p < 1 THEN Failed
     ELSE ReadID(NameIndex(commandType, Take(line, 1)) - 1, Drop(line, p + 1))

(* An unknown type is noted as an error, which the reading of the level    *)
(* overwrites: the type stays -1.                                          *)
ReadCommand(line) ==
  LET p == IndexSpace(line)
  IN IF p < 1 THEN Failed
     ELSE ReadID(NameIndex(commandType, Take(line, p)) - 1, Drop(line, p + 1))

-----------------------------------------------------------------------------
VARIABLES
  sent,  (* the command a client of this project sent, or None             *)
  line,  (* the line on the connection                                     *)
  got,   (* what ReadCommand makes of it, or None                          *)
  action (* what handle does: "close", "eval", "list", "panic", or None    *)

vars == <<sent, line, got, action>>

Init == sent = None /\ line = <<>> /\ got = None /\ action = None

(* The reee command sends a command; another client sends any line.        *)
Send == /\ line = <<>>
        /\ \E c \in Command : sent' = c /\ line' = WriteCommand(c)
        /\ UNCHANGED <<got, action>>

SendAny == /\ line = <<>>
           /\ \E s \in BoundedSeq(Tokens, MaxLength) : line' = Append(s, NL)
           /\ UNCHANGED <<sent, got, action>>

ReadLine == /\ line # <<>> /\ got = None
            /\ got' = ReadCommand(line)
            /\ UNCHANGED <<sent, line, action>>

(* A panic in a handler ends the daemon with all its connections; so does  *)
(* a command of unknown type.                                              *)
Dispatch ==
  /\ got # None /\ action = None
  /\ action' = CASE got.kind = "error" -> "close"
                 [] got.kind = "panic" -> "panic"
                 [] OTHER -> IF got.cmd.type = -1 THEN "panic"
                             ELSE commandType[got.cmd.type + 1]
  /\ UNCHANGED <<sent, line, got>>

Next == Send \/ SendAny \/ ReadLine \/ Dispatch

Spec == Init /\ [][Next]_vars

-----------------------------------------------------------------------------
(* Properties                                                              *)

(* An eval command arrives as it was sent and is run, whatever its group   *)
(* and its rule are called.                                                *)
EvalArrives ==
  action # None /\ sent # None /\ sent.type = 0
    => action = "eval" /\ got.cmd = sent

(* A command is run only for the line that WriteCommand makes of it, up to *)
(* a space before empty arguments: no other line is taken for a command.   *)
NoOtherLine ==
  action \in {"eval", "list"} =>
    \/ line = WriteCommand(got.cmd)
    \/ /\ got.cmd.args = <<>>
       /\ line = Append(Append(Front(WriteCommand(got.cmd)), SP), NL)
=============================================================================
