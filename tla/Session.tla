------------------------------ MODULE Session ------------------------------
(***************************************************************************)
(* One eval command over one connection: the reee client (cmd/reee/main.go *)
(* and eval.go), the handler that serves it (handle and the input loop of  *)
(* handleEval in daemon/daemon.go), the log lines the handler mixes into   *)
(* its answer (daemon/context.go) and the result lines (protocol/result.go)*)
(*                                                                         *)
(* A logged message goes into the answer as it is: what follows a newline  *)
(* in it is read by the client as lines of their own, whatever they say.   *)
(*                                                                         *)
(* A socket is a bounded queue in each direction.  The client writes its   *)
(* command and all of its input before it reads anything; the handler      *)
(* collects what it writes in a bufio.Writer and hands it to the socket    *)
(* when the buffer is full and at the end.  Neither sets a timeout.        *)
(*                                                                         *)
(* How the handler comes to its verdict is the business of EvalDaemon, and *)
(* how the command line is parsed that of CommandCodec.  A definition      *)
(* headed "Slip:" is a plausible mistake in the definition that follows;   *)
(* it tests the properties.                                                *)
(***************************************************************************)
EXTENDS Naturals, Sequences

CONSTANTS
  MaxInput,     (* bound: units of input, the message text                 *)
  MaxLogs,      (* bound: messages logged                                  *)
  MaxRest,      (* bound: lines of a message after its first               *)
  DataSize,     (* units of "match:<rule>", the data of a match            *)
  SocketSize,   (* units a socket holds in one direction                   *)
  BufferSize,   (* units the handler's bufio.Writer holds                  *)
  MayDie,       (* whether the client or the daemon may die                *)
  None

ASSUME SizesAssumption ==
  /\ MaxInput \in Nat /\ MaxLogs \in Nat
  /\ MaxRest \in Nat
  /\ DataSize \in Nat \ {0} /\ SocketSize \in Nat \ {0}
  /\ BufferSize \in Nat \ {0}
  /\ MayDie \in BOOLEAN

ASSUME NoneAssumption == None \notin {"match", "no match", "error"}

VARIABLES
  client,   (* where the client is                                         *)
  verbose,  (* the client asked for verbose logs                           *)
  size,     (* units of input the command announces                        *)
  unsent,   (* units of input the client has yet to send                   *)
  toDaemon, (* the socket, client to daemon                                *)
  toClient, (* the socket, daemon to client                                *)
  printed,  (* log lines the client printed                                *)
  missing,  (* units of data the client has yet to read                    *)
  data,     (* the first unit of data it has read                          *)
  outcome,  (* what the client reports                                     *)
  handler,  (* where the handler is                                        *)
  known,    (* the group of the command is configured                      *)
  received, (* units of input the handler has read                         *)
  failed,   (* the handler has a deferred error                            *)
  verdict,  (* the result the handler means to send                        *)
  out,      (* the rest of the result still to be written                  *)
  buffer,   (* the bufio.Writer                                            *)
  flushing, (* the bufio.Writer is being emptied                           *)
  writeErr, (* the bufio.Writer's sticky error                             *)
  logged,   (* messages the handler logged for the client                  *)
  broken    (* history: the first of them that had a newline in it, or 0   *)

request     == <<verbose, size, known>>
reading     == <<printed, missing, data, outcome>>
clientState == <<client, unsent, reading>>
sockets     == <<toDaemon, toClient>>
deciding    == <<received, failed, verdict>>
writing     == <<out, buffer, flushing, writeErr, logged, broken>>
vars == <<request, clientState, sockets, handler, deciding, writing>>

(* What travels to the client: the first line of logged message i, a       *)
(* result line, and data.  Data stands for any other text, too.            *)
Log(i)     == [type |-> "log", n |-> i]
Success(n) == [type |-> "success", n |-> n]
ErrorLine  == [type |-> "error"]
Data       == [type |-> "data"]

(* What follows a newline in a message: a line that says anything, which   *)
(* may be a log line of no message and a result of any size.  A line that  *)
(* the client cannot parse, or whose parsing panics, is Data here.         *)
Lines == {Log(0), ErrorLine, Data} \cup {Success(n) : n \in 0..DataSize + 1}
Rests == UNION {[1..k -> Lines] : k \in 1..MaxRest}

Verdicts == {"match", "no match", "error"}

result(v) ==
  CASE v = "match"    -> <<Success(DataSize)>> \o [i \in 1..DataSize |-> Data]
    [] v = "no match" -> <<Success(0)>>
    [] v = "error"    -> <<ErrorLine>>

ClientGone  == client \in {"exited", "dead"}
HandlerGone == handler \in {"closed", "dead"}

-----------------------------------------------------------------------------
(* The client                                                              *)

Exit(o) == client' = "exited" /\ outcome' = o

SendCommand ==
  /\ client = "command"
  /\ \/ HandlerGone /\ Exit("i/o error") /\ UNCHANGED toDaemon
     \/ /\ ~ HandlerGone /\ Len(toDaemon) < SocketSize
        /\ toDaemon' = Append(toDaemon, "command")
        /\ client' = "input" /\ UNCHANGED outcome
  /\ UNCHANGED <<unsent, handler, toClient, printed, missing, data, request,
                 writing, deciding>>

SendInput ==
  /\ client = "input"
  /\ \/ unsent = 0 /\ client' = "result" /\ UNCHANGED <<unsent, toDaemon, outcome>>
     \/ /\ unsent > 0 /\ HandlerGone
        /\ Exit("i/o error") /\ UNCHANGED <<unsent, toDaemon>>
     \/ /\ unsent > 0 /\ ~ HandlerGone /\ Len(toDaemon) < SocketSize
        /\ toDaemon' = Append(toDaemon, "data")
        /\ unsent' = unsent - 1 /\ UNCHANGED <<client, outcome>>
  /\ UNCHANGED <<handler, toClient, printed, missing, data, request, writing,
                 deciding>>

(* ReadResult: print log lines until a result line comes.                  *)
ReadLine ==
  /\ client = "result"
  /\ toClient # <<>>
  /\ toClient' = Tail(toClient)
  /\ LET item == Head(toClient) IN
     \/ /\ item.type = "log" /\ printed' = Append(printed, item.n)
        /\ UNCHANGED <<client, missing, outcome>>
     \/ /\ item.type = "success" /\ missing' = item.n /\ client' = "data"
        /\ UNCHANGED <<printed, outcome>>
     \/ /\ item.type = "error" /\ Exit("error") /\ UNCHANGED <<printed, missing>>
     \/ /\ item.type = "data" /\ Exit("protocol error")
        /\ UNCHANGED <<printed, missing>>
  /\ UNCHANGED <<unsent, data, handler, toDaemon, request, writing, deciding>>

(* The first unit of data, when x is read next.                            *)
First(x) == IF data = None THEN x ELSE data

(* Evaluate the data of a success that begins with x.                      *)
Match(x) == Exit(IF x = Data THEN "match" ELSE "protocol error")

(* Slip: one read is taken for all the data.                               *)
ReadDataOnce ==
  /\ client = "data"
  /\ IF toClient = <<>> THEN Exit("no match") /\ UNCHANGED toClient
     ELSE Match(Head(toClient)) /\ toClient' = Tail(toClient)
  /\ UNCHANGED <<unsent, handler, toDaemon, printed, missing, data, request,
                 writing, deciding>>

(* readSuccess and the end of Exec: no data means that no rule matched,    *)
(* and data that does not begin with "match:" is an error.                 *)
ReadData ==
  /\ client = "data"
  /\ \/ /\ missing > 0 /\ toClient # <<>>
        /\ toClient' = Tail(toClient) /\ missing' = missing - 1
        /\ data' = First(Head(toClient))
        /\ IF missing = 1 THEN Match(First(Head(toClient)))
           ELSE UNCHANGED <<client, outcome>>
     \/ missing = 0 /\ Exit("no match") /\ UNCHANGED <<toClient, missing, data>>
  /\ UNCHANGED <<unsent, handler, toDaemon, printed, request, writing, deciding>>

(* The connection ends before the result does.                             *)
ReadEOF ==
  /\ client = "result" \/ (client = "data" /\ missing > 0)
  /\ HandlerGone /\ toClient = <<>>
  /\ Exit("i/o error")
  /\ UNCHANGED <<unsent, handler, sockets, printed, missing, data, request,
                 writing, deciding>>

Client == SendCommand \/ SendInput \/ ReadLine \/ ReadData \/ ReadEOF

-----------------------------------------------------------------------------
(* The handler: writing                                                    *)

CanWrite == ~ flushing /\ Len(buffer) < BufferSize

(* Write the next message, with what follows a newline in it.              *)
Write(rest) ==
  /\ logged' = logged + 1
  /\ buffer' = buffer \o (<<Log(logged + 1)>> \o rest)
  /\ broken' = IF broken = 0 /\ rest # <<>> THEN logged + 1 ELSE broken

(* Slip: a message is written whether or not there is room for it.         *)
PutLogAnyway(rest) ==
  /\ IF ~ verbose \/ writeErr THEN UNCHANGED <<buffer, logged, broken>>
     ELSE ~ flushing /\ Write(rest)
  /\ UNCHANGED <<flushing, writeErr>>

(* cmdContext.Print writes a message, unless the client does not want it   *)
(* or an earlier one failed.                                               *)
PutLog(rest) ==
  /\ IF ~ verbose \/ writeErr THEN UNCHANGED <<buffer, logged, broken>>
     ELSE CanWrite /\ Write(rest)
  /\ UNCHANGED <<flushing, writeErr>>

(* Slip: the buffer is emptied after every write.                          *)
OverflowEarly ==
  /\ handler \in {"start", "args", "input", "read", "eval", "reply"}
  /\ ~ flushing /\ buffer # <<>>
  /\ flushing' = TRUE
  /\ UNCHANGED <<clientState, request, sockets, handler, deciding, out, buffer,
                 writeErr, logged, broken>>

(* The buffer is full and more is to be written: it is emptied first.      *)
Overflow ==
  /\ handler \in {"start", "args", "read", "eval", "reply"}
  /\ ~ flushing /\ Len(buffer) >= BufferSize
  /\ flushing' = TRUE
  /\ UNCHANGED <<clientState, request, sockets, handler, deciding, out, buffer,
                 writeErr, logged, broken>>

(* Slip: a short write is taken for the whole buffer.                      *)
FlushShort ==
  /\ flushing /\ ~ HandlerGone
  /\ \/ ClientGone /\ writeErr' = TRUE /\ UNCHANGED toClient
     \/ ~ ClientGone /\ buffer = <<>> /\ UNCHANGED <<toClient, writeErr>>
     \/ /\ ~ ClientGone /\ buffer # <<>> /\ Len(toClient) < SocketSize
        /\ toClient' = Append(toClient, Head(buffer))
        /\ UNCHANGED writeErr
  /\ flushing' = FALSE /\ buffer' = <<>>
  /\ UNCHANGED <<clientState, request, toDaemon, handler, deciding, out, logged,
                 broken>>

(* bufio.Writer.Flush; the handler waits for it.                           *)
Flush ==
  /\ flushing /\ ~ HandlerGone
  /\ \/ /\ ClientGone
        /\ writeErr' = TRUE /\ flushing' = FALSE /\ buffer' = <<>>
        /\ UNCHANGED toClient
     \/ /\ ~ ClientGone /\ buffer = <<>>
        /\ flushing' = FALSE
        /\ UNCHANGED <<buffer, toClient, writeErr>>
     \/ /\ ~ ClientGone /\ buffer # <<>> /\ Len(toClient) < SocketSize
        /\ toClient' = Append(toClient, Head(buffer))
        /\ buffer' = Tail(buffer)
        /\ UNCHANGED <<flushing, writeErr>>
  /\ UNCHANGED <<clientState, request, toDaemon, handler, deciding, out, logged,
                 broken>>

-----------------------------------------------------------------------------
(* The handler: reading and deciding                                       *)

(* Read the command line; without one the connection is closed unanswered. *)
ReadCommand ==
  /\ handler = "command"
  /\ \/ /\ toDaemon # <<>> /\ toDaemon' = Tail(toDaemon)
        /\ handler' = "start"
     \/ /\ toDaemon = <<>> /\ ClientGone
        /\ handler' = "close" /\ UNCHANGED toDaemon
  /\ UNCHANGED <<clientState, request, toClient, received, failed, verdict,
                 writing>>

Start ==
  /\ handler = "start"
  /\ PutLog(<<>>)
  /\ handler' = "args"
  /\ UNCHANGED <<clientState, request, sockets, deciding, out>>

(* An unknown group is an error, but the input is read before it is sent.  *)
ParseArgs ==
  /\ handler = "args"
  /\ PutLog(<<>>)
  /\ failed' = ~ known
  /\ handler' = "input"
  /\ UNCHANGED <<clientState, request, sockets, received, verdict, out>>

(* Slip: an early end of the input is overlooked.                          *)
ReadInputUnchecked ==
  /\ handler = "input" /\ ~ flushing
  /\ \/ /\ received < size /\ toDaemon # <<>>
        /\ toDaemon' = Tail(toDaemon) /\ received' = received + 1
        /\ UNCHANGED handler
     \/ /\ received = size \/ (toDaemon = <<>> /\ ClientGone)
        /\ handler' = "read" /\ UNCHANGED <<toDaemon, received>>
  /\ UNCHANGED <<clientState, request, toClient, failed, verdict, writing>>

(* Read the input to its end, or to the end of the connection.             *)
ReadInput ==
  /\ handler = "input" /\ ~ flushing
  /\ \/ /\ received < size /\ toDaemon # <<>>
        /\ toDaemon' = Tail(toDaemon) /\ received' = received + 1
        /\ UNCHANGED <<handler, failed>>
     \/ /\ received = size
        /\ handler' = "read" /\ UNCHANGED <<toDaemon, received, failed>>
     \/ /\ received < size /\ toDaemon = <<>> /\ ClientGone
        /\ handler' = "read" /\ failed' = TRUE /\ UNCHANGED <<toDaemon, received>>
  /\ UNCHANGED <<clientState, request, toClient, verdict, writing>>

Decide(v) == handler' = "reply" /\ verdict' = v /\ out' = result(v)

(* A deferred error is returned once the input is read.                    *)
CheckInput ==
  /\ handler = "read"
  /\ PutLog(<<>>)
  /\ IF failed THEN Decide("error")
     ELSE handler' = "eval" /\ UNCHANGED <<verdict, out>>
  /\ UNCHANGED <<clientState, request, sockets, received, failed>>

(* The rules log and come to a verdict.                                    *)
RuleLogs ==
  /\ handler = "eval"
  /\ verbose /\ ~ writeErr /\ logged < MaxLogs
  /\ \E rest \in {<<>>} \cup Rests : PutLog(rest)
  /\ UNCHANGED <<clientState, request, sockets, handler, deciding, out>>

RulesReturn ==
  /\ handler = "eval" /\ ~ flushing
  /\ \E v \in Verdicts : Decide(v)
  /\ UNCHANGED <<clientState, request, sockets, received, failed, buffer,
                 flushing, writeErr, logged, broken>>

(* WriteSuccess and WriteError, up to their Flush.                         *)
PutResult ==
  /\ handler = "reply" /\ out # <<>>
  /\ \/ /\ CanWrite /\ ~ writeErr
        /\ buffer' = Append(buffer, Head(out)) /\ out' = Tail(out)
        /\ UNCHANGED handler
     \/ /\ writeErr
        /\ handler' = "close" /\ out' = <<>>
        /\ UNCHANGED buffer
  /\ UNCHANGED <<clientState, request, sockets, received, failed, verdict,
                 flushing, writeErr, logged, broken>>

FlushResult ==
  /\ handler = "reply" /\ out = <<>> /\ ~ flushing
  /\ flushing' = TRUE /\ handler' = "flush"
  /\ UNCHANGED <<clientState, request, sockets, deciding, out, buffer, writeErr,
                 logged, broken>>

(* Whether that last Flush failed is not looked at.                        *)
Finish ==
  /\ handler = "flush" /\ ~ flushing
  /\ handler' = "close"
  /\ UNCHANGED <<clientState, request, sockets, received, failed, verdict, writing>>

Close ==
  /\ handler = "close"
  /\ handler' = "closed"
  /\ UNCHANGED <<clientState, request, sockets, deciding, writing>>

Handler == \/ ReadCommand \/ Start \/ ParseArgs \/ ReadInput \/ CheckInput
           \/ RuleLogs \/ RulesReturn \/ PutResult \/ FlushResult \/ Finish
           \/ Close \/ Overflow \/ Flush

-----------------------------------------------------------------------------
Init ==
  /\ client = "command" /\ handler = "command"
  /\ verbose \in BOOLEAN /\ known \in BOOLEAN
  /\ size \in 0..MaxInput /\ unsent = size
  /\ toDaemon = <<>> /\ toClient = <<>>
  /\ printed = <<>> /\ missing = 0 /\ data = None /\ outcome = None
  /\ received = 0 /\ failed = FALSE /\ verdict = None
  /\ out = <<>> /\ buffer = <<>> /\ flushing = FALSE /\ writeErr = FALSE
  /\ logged = 0 /\ broken = 0

ClientDies == /\ MayDie /\ ~ ClientGone
              /\ client' = "dead"
              /\ UNCHANGED <<unsent, reading, request, sockets, handler, deciding,
                             writing>>

DaemonDies == /\ MayDie /\ ~ HandlerGone
              /\ handler' = "dead"
              /\ UNCHANGED <<clientState, request, sockets, deciding, writing>>

(* Both ends are gone.                                                     *)
Over == ClientGone /\ HandlerGone /\ UNCHANGED vars

Next == Client \/ Handler \/ ClientDies \/ DaemonDies \/ Over

Spec == Init /\ [][Next]_vars

(* Both programs run, and the rules come to an end.                        *)
Fairness == WF_vars(Client) /\ WF_vars(Handler)

FairSpec == Spec /\ Fairness

-----------------------------------------------------------------------------
(* Properties                                                              *)

TypeOK ==
  /\ client \in {"command", "input", "result", "data", "exited", "dead"}
  /\ handler \in {"command", "start", "args", "input", "read", "eval", "reply",
                  "flush", "close", "closed", "dead"}
  /\ verbose \in BOOLEAN /\ known \in BOOLEAN
  /\ failed \in BOOLEAN /\ flushing \in BOOLEAN /\ writeErr \in BOOLEAN
  /\ size \in 0..MaxInput /\ unsent \in 0..size /\ received \in 0..size
  /\ Len(toDaemon) <= SocketSize /\ Len(toClient) <= SocketSize
  /\ Len(buffer) <= BufferSize + MaxRest
  /\ missing \in 0..DataSize + 1 /\ broken \in 0..logged
  /\ outcome \in Verdicts \cup {"i/o error", "protocol error", None}
  /\ verdict \in Verdicts \cup {None}

(* The client reports what the handler decided, and a broken connection    *)
(* only if the daemon died: an unknown group is told to a client that is   *)
(* still sending, a cut answer is not taken for a verdict, and no message  *)
(* for a result, as long as none has a newline in it, which the code does  *)
(* not cut (context.go:74).  After the first line of one that has, the     *)
(* client may report anything, and before that nothing else.               *)
ReportsVerdict ==
  outcome # None => \/ outcome = verdict
                    \/ outcome = "i/o error" /\ handler = "dead"
                    \/ broken # 0 /\ Len(printed) >= broken

(* The client prints the messages logged for it in order and without a     *)
(* gap, and all of them before it reports a verdict; or all up to the      *)
(* first line of one with a newline in it.                                 *)
LogsInOrder ==
  /\ \A i \in DOMAIN printed : broken = 0 \/ i <= broken => printed[i] = i
  /\ broken = 0 => Len(printed) <= logged
  /\ outcome \in Verdicts => Len(printed) >= IF broken = 0 THEN logged ELSE broken

(* Rules are run only for a group that exists and on the whole input, even *)
(* when the client dies while it sends.                                    *)
RulesSeeAllInput ==
  handler = "eval" \/ verdict \in {"match", "no match"} => known /\ received = size

(* Client and handler never wait for each other for ever, however little   *)
(* the sockets hold: the handler writes nothing to the socket before it    *)
(* has read the input, unless its buffer overflows.  And when one of them  *)
(* dies, the other one ends.                                               *)
BothEnd == <>(ClientGone /\ HandlerGone)

(* The client's exit code for "no rule matched" says so of the rules       *)
(* ("Special exit code indicating no rule matched", eval.go:135).  False   *)
(* of the code, where a logged line can pass for a result.                 *)
NoMatchMeansNone == outcome = "no match" => verdict # "match"
=============================================================================
