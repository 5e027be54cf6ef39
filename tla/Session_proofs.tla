--------------------------- MODULE Session_proofs ---------------------------
(***************************************************************************)
(* Proofs about one session: what the client prints and reports, and that  *)
(* rules are run only on the whole input.                                  *)
(***************************************************************************)
EXTENDS Session, SequenceTheorems, TLAPS

Item == {Log(i) : i \in Nat} \cup {Success(n) : n \in 0..DataSize + 1}
        \cup {ErrorLine, Data}

Places ==
  /\ client \in {"command", "input", "result", "data", "exited", "dead"}
  /\ handler \in {"command", "start", "args", "input", "read", "eval", "reply",
                  "flush", "close", "closed", "dead"}
  /\ outcome \in Verdicts \cup {"i/o error", "protocol error", None}
  /\ verdict \in Verdicts \cup {None}

Flags ==
  /\ verbose \in BOOLEAN /\ known \in BOOLEAN
  /\ failed \in BOOLEAN /\ flushing \in BOOLEAN /\ writeErr \in BOOLEAN

Counts ==
  /\ size \in 0..MaxInput /\ unsent \in 0..size /\ received \in 0..size
  /\ missing \in 0..DataSize + 1 /\ logged \in Nat /\ broken \in 0..logged

Queues ==
  /\ toClient \in Seq(Item) /\ buffer \in Seq(Item) /\ out \in Seq(Item)
  /\ toDaemon \in Seq({"command", "data"}) /\ printed \in Seq(Nat)

Bounds ==
  /\ Len(toDaemon) <= SocketSize /\ Len(toClient) <= SocketSize
  /\ Len(buffer) <= BufferSize + MaxRest

Typed == Places /\ Flags /\ Counts /\ Queues /\ Bounds

-----------------------------------------------------------------------------
(* The inductive invariant                                                 *)

(* What is under way to the client, and the part of it that is result.     *)
Stream == (toClient \o buffer) \o out

Rest == IF verdict = None THEN <<>>
        ELSE IF client = "data" THEN [i \in 1..missing |-> Data]
        ELSE result(verdict)

(* What the client can rely on: the messages up to the first line of one   *)
(* with a newline in it, as long as it has not read that line.             *)
Sure    == IF broken = 0 THEN logged ELSE broken
Trusted == broken = 0 \/ Len(printed) < broken

(* Stream s begins with the messages after p up to l, in order.            *)
Ahead(s, p, l) ==
  p <= l /\ l - p <= Len(s) /\ \A i \in 1..l - p : s[i] = Log(p + i)

(* What follows those messages in s is r.                                  *)
Ends(s, r, p, l) ==
  Len(s) = (l - p) + Len(r) /\ \A i \in 1..Len(r) : s[(l - p) + i] = r[i]

(* As long as the client reads what it can rely on, every message it has   *)
(* not printed is under way in order, and if none has a newline in it,     *)
(* then what the client has not read of the result.                        *)
Underway ==
  Trusted =>
    /\ Ahead(Stream, Len(printed), Sure)
    /\ broken = 0 => Ends(Stream, Rest, Len(printed), logged)
    /\ client = "data" =>
         /\ broken = 0 /\ Len(printed) = logged /\ data \in {None, Data}
         /\ verdict = IF missing = 0 THEN "no match" ELSE "match"

(* What is on its way to the daemon.                                       *)
Announced ==
  /\ client = "command" => toDaemon = <<>> /\ unsent = size /\ handler \in {"command", "dead"}
  /\ handler = "command" => received = 0
  /\ handler # "dead" =>
       Len(toDaemon) + unsent + received =
         size + (IF handler = "command" /\ client # "command" THEN 1 ELSE 0)
  /\ client \in {"result", "data"} => unsent = 0
  /\ handler \in {"read", "eval", "reply", "flush", "close", "closed"} => received = size

(* No data has been read before a result line.                             *)
Unread == client \in {"command", "input", "result"} => data = None

Reads == client \in {"command", "input", "result", "data"}

(* Where the handler has come to.                                          *)
Deciding ==
  /\ handler \in {"command", "start", "args", "input", "read", "eval"} => verdict = None
  /\ verdict = None => out = <<>>
  /\ handler = "reply" => verdict # None

(* As long as the client reads, nothing is lost, and the handler is done   *)
(* when all of its answer has gone to the socket.                          *)
Sending ==
  /\ ~ writeErr
  /\ handler \in {"flush", "close", "closed"} => verdict # None /\ out = <<>>
  /\ handler = "flush" /\ ~ flushing => buffer = <<>>
  /\ handler \in {"close", "closed"} => buffer = <<>>

Placed == Deciding /\ (Reads => Sending)

Printed == /\ LogsInOrder
           /\ outcome \in Verdicts /\ broken = 0 => verdict # None

Reported == Printed /\ ReportsVerdict /\ (outcome # None => client = "exited")

SessionInv ==
  Typed /\ Unread /\ Placed /\ Reported /\ (Reads => Underway /\ Announced)

-----------------------------------------------------------------------------
(* Types                                                                   *)

(* An item is known by its type and its number.                            *)
LEMMA ItemIs ==
  ASSUME NEW x \in Item
  PROVE  /\ x.type \in {"log", "success", "error", "data"}
         /\ x.type = "log" => x.n \in Nat /\ x = Log(x.n)
         /\ x.type = "success" => x.n \in 0..DataSize + 1 /\ x = Success(x.n)
         /\ x.type = "error" => x = ErrorLine
         /\ x.type = "data" => x = Data
BY DEF Item, Log, Success, ErrorLine, Data

(* Whatever the handler writes is an item.                                 *)
LEMMA MakeItem ==
  /\ \A i \in Nat : Log(i) \in Item
  /\ \A n \in 0..DataSize + 1 : Success(n) \in Item
  /\ Success(0) \in Item /\ Success(DataSize) \in Item
  /\ ErrorLine \in Item /\ Data \in Item
BY SizesAssumption DEF Item

(* What follows a newline is some lines, of which each is an item.         *)
LEMMA RestsAre ==
  ASSUME NEW rest \in {<<>>} \cup Rests
  PROVE  rest \in Seq(Item) /\ Len(rest) <= MaxRest
<1>1. CASE rest = <<>>
  BY <1>1, SizesAssumption
<1>2. CASE rest \in Rests
  <2>1. PICK k \in 1..MaxRest : rest \in [1..k -> Lines]
    BY <1>2 DEF Rests
  <2>2. Lines \subseteq Item
    BY MakeItem DEF Lines
  <2>3. k \in Nat /\ k <= MaxRest
    BY <2>1, SizesAssumption
  <2>4. rest \in [1..k -> Item]
    BY <2>1, <2>2
  <2> QED
    BY <2>3, <2>4, IsASeq
<1> QED
  BY <1>1, <1>2

(* Facts on a sequence of one item.                                        *)
LEMMA Single ==
  ASSUME NEW x \in Item
  PROVE  <<x>> \in Seq(Item) /\ Len(<<x>>) = 1 /\ <<x>>[1] = x
OBVIOUS

(* A result line, and as many units of data as it says.                    *)
LEMMA ResultIs ==
  ASSUME NEW v \in Verdicts
  PROVE  /\ result(v) \in Seq(Item)
         /\ Len(result(v)) = IF v = "match" THEN 1 + DataSize ELSE 1
         /\ result(v)[1] = IF v = "match" THEN Success(DataSize)
                           ELSE IF v = "no match" THEN Success(0) ELSE ErrorLine
         /\ \A i \in 2..Len(result(v)) : result(v)[i] = Data
<1>1. CASE v = "match"
  <2> DEFINE a == <<Success(DataSize)>>
             b == [i \in 1..DataSize |-> Data]
  <2>1. a \in Seq(Item) /\ Len(a) = 1 /\ a[1] = Success(DataSize)
    BY MakeItem
  <2>2. b \in Seq(Item) /\ Len(b) = DataSize /\ \A i \in 1..DataSize : b[i] = Data
    <3>1. DataSize \in Nat
      BY SizesAssumption
    <3>2. b \in [1..DataSize -> Item]
      BY MakeItem
    <3> QED
      BY <3>1, <3>2, IsASeq
  <2>3. result(v) = a \o b
    BY <1>1 DEF result
  <2> HIDE DEF a, b
  <2>4. /\ a \o b \in Seq(Item)
        /\ Len(a \o b) = Len(a) + Len(b)
        /\ \A i \in 1..Len(a) + Len(b) :
             (a \o b)[i] = IF i <= Len(a) THEN a[i] ELSE b[i - Len(a)]
    BY <2>1, <2>2, ConcatProperties
  <2>5. DataSize \in Nat \ {0}
    BY SizesAssumption
  <2> DEFINE c == a \o b
  <2> HIDE DEF c
  <2>6. /\ c \in Seq(Item) /\ Len(c) = 1 + DataSize /\ c[1] = Success(DataSize)
        /\ \A i \in 2..Len(c) : c[i] = Data
    BY <2>1, <2>2, <2>4, <2>5 DEF c
  <2> QED
    BY <1>1, <2>3, <2>6 DEF c
<1>2. CASE v = "no match"
  <2> DEFINE c == <<Success(0)>>
  <2>1. c \in Seq(Item) /\ Len(c) = 1 /\ c[1] = Success(0)
    BY MakeItem, Single
  <2>2. result(v) = c
    BY <1>2 DEF result
  <2> HIDE DEF c
  <2>3. \A i \in 2..Len(c) : c[i] = Data
    BY <2>1
  <2> QED
    BY <1>2, <2>1, <2>2, <2>3
<1>3. CASE v = "error"
  <2> DEFINE c == <<ErrorLine>>
  <2>1. c \in Seq(Item) /\ Len(c) = 1 /\ c[1] = ErrorLine
    BY MakeItem, Single
  <2>2. result(v) = c
    BY <1>3 DEF result
  <2> HIDE DEF c
  <2>3. \A i \in 2..Len(c) : c[i] = Data
    BY <2>1
  <2> QED
    BY <1>3, <2>1, <2>2, <2>3
<1> QED
  BY <1>1, <1>2, <1>3 DEF Verdicts

(* Every step keeps the types.                                             *)
LEMMA FlagsStep ==
  ASSUME Flags, [Next]_vars
  PROVE  Flags'
<1> USE DEF Flags
<1>1. CASE UNCHANGED vars \/ Over
  BY <1>1 DEF Over, vars, request, deciding, writing
<1>2. CASE Client
  BY <1>2 DEF Client, SendCommand, SendInput, ReadLine, ReadData, ReadEOF, request,
              writing, deciding
<1>3. CASE Start
  BY <1>3 DEF Start, PutLog, request, deciding
<1>4. CASE ParseArgs
  BY <1>4 DEF ParseArgs, PutLog, request
<1>5. CASE CheckInput \/ RuleLogs
  BY <1>5 DEF CheckInput, RuleLogs, PutLog, request, deciding
<1>6. CASE Overflow \/ Flush
  BY <1>6 DEF Overflow, Flush, request, deciding
<1>7. CASE ReadCommand \/ ReadInput
  BY <1>7 DEF ReadCommand, ReadInput, request, writing
<1>8. CASE RulesReturn \/ PutResult
  BY <1>8 DEF RulesReturn, PutResult, request
<1>9. CASE FlushResult \/ Finish \/ Close \/ ClientDies \/ DaemonDies
  BY <1>9 DEF FlushResult, Finish, Close, ClientDies, DaemonDies, request, deciding,
              writing
<1> QED
  BY <1>1, <1>2, <1>3, <1>4, <1>5, <1>6, <1>7, <1>8, <1>9 DEF Next, Handler

(* No step leads client or handler to a place there is not.                *)
LEMMA PlacesStep ==
  ASSUME Places, [Next]_vars
  PROVE  Places'
<1> USE DEF Places, Verdicts
<1>1. CASE UNCHANGED vars \/ Over
  <2>1. UNCHANGED <<client, handler, outcome, verdict>>
    BY <1>1 DEF Over, vars, clientState, reading, deciding
  <2> QED
    BY <2>1
<1>2. CASE SendCommand \/ SendInput \/ ReadEOF
  BY <1>2 DEF SendCommand, SendInput, ReadEOF, Exit, deciding
<1>3. CASE ReadLine
  BY <1>3 DEF ReadLine, Exit, deciding
<1>4. CASE ReadData
  BY <1>4 DEF ReadData, Match, Exit, deciding
<1>5. CASE Start \/ ParseArgs \/ RuleLogs
  BY <1>5 DEF Start, ParseArgs, RuleLogs, clientState, reading, deciding
<1>6. CASE CheckInput \/ RulesReturn
  BY <1>6 DEF CheckInput, RulesReturn, Decide, clientState, reading
<1>7. CASE Overflow \/ Flush
  <2>1. UNCHANGED <<client, handler, outcome, verdict>>
    BY <1>7 DEF Overflow, Flush, clientState, reading, deciding
  <2> QED
    BY <2>1
<1>8. CASE ReadCommand \/ ReadInput \/ PutResult
  BY <1>8 DEF ReadCommand, ReadInput, PutResult, clientState, reading
<1>9. CASE FlushResult \/ Finish \/ Close \/ ClientDies \/ DaemonDies
  BY <1>9 DEF FlushResult, Finish, Close, ClientDies, DaemonDies, clientState,
              reading, deciding
<1> QED
  BY <1>1, <1>2, <1>3, <1>4, <1>5, <1>6, <1>7, <1>8, <1>9 DEF Next, Client, Handler

(* A line read is one the handler can have written.                        *)
LEMMA HeadIs ==
  ASSUME Queues, toClient # <<>>
  PROVE  Head(toClient) \in Item
BY HeadTailProperties DEF Queues

(* The counters stay within what was announced.                            *)
LEMMA CountsStep ==
  ASSUME Queues, Counts, [Next]_vars
  PROVE  Counts'
<1> USE SizesAssumption DEF Counts
<1>1. CASE UNCHANGED vars \/ Over
  BY <1>1 DEF Over, vars, request, clientState, reading, deciding, writing
<1>2. CASE SendCommand \/ ReadEOF
  BY <1>2 DEF SendCommand, ReadEOF, request, writing, deciding
<1>3. CASE SendInput
  <2>1. UNCHANGED <<request, received, missing, logged, broken>>
    BY <1>3 DEF SendInput, writing, deciding
  <2>2. unsent' = unsent \/ (unsent > 0 /\ unsent' = unsent - 1)
    BY <1>3 DEF SendInput
  <2> QED
    BY <2>1, <2>2 DEF request
<1>9. CASE ReadData
  <2>1. UNCHANGED <<request, unsent, received, logged, broken>>
    BY <1>9 DEF ReadData, writing, deciding
  <2>2. missing' = missing \/ (missing > 0 /\ missing' = missing - 1)
    BY <1>9 DEF ReadData
  <2> QED
    BY <2>1, <2>2 DEF request
<1>10. CASE ReadLine
  <2>1. UNCHANGED <<request, unsent, received, logged, broken>>
    BY <1>10 DEF ReadLine, writing, deciding
  <2>2. missing' = missing \/ missing' \in 0..DataSize + 1
    BY <1>10, HeadIs, ItemIs DEF ReadLine
  <2> QED
    BY <2>1, <2>2 DEF request
<1>4. CASE Start \/ ParseArgs \/ CheckInput \/ RuleLogs
  <2>1. UNCHANGED <<request, unsent, received, missing>>
    BY <1>4 DEF Start, ParseArgs, CheckInput, RuleLogs, request, clientState, reading,
                deciding
  <2>2. UNCHANGED <<logged, broken>> \/ \E rest : Write(rest)
    BY <1>4 DEF Start, ParseArgs, CheckInput, RuleLogs, PutLog
  <2>3. \/ UNCHANGED <<logged, broken>>
        \/ logged' = logged + 1 /\ broken' \in {broken, logged + 1}
    BY <2>2 DEF Write
  <2> QED
    BY <2>1, <2>3 DEF request
<1>5. CASE Overflow \/ Flush
  BY <1>5 DEF Overflow, Flush, request, clientState, reading, deciding
<1>6. CASE ReadCommand \/ ReadInput
  BY <1>6 DEF ReadCommand, ReadInput, request, clientState, reading, writing
<1>7. CASE RulesReturn \/ PutResult
  BY <1>7 DEF RulesReturn, PutResult, request, clientState, reading
<1>8. CASE FlushResult \/ Finish \/ Close \/ ClientDies \/ DaemonDies
  BY <1>8 DEF FlushResult, Finish, Close, ClientDies, DaemonDies, request,
              clientState, reading, deciding, writing
<1> QED
  BY <1>1, <1>2, <1>3, <1>4, <1>5, <1>6, <1>7, <1>8, <1>9, <1>10
     DEF Next, Client, Handler

(* A queue of n places takes one item more or loses its first.             *)
LEMMA QueueStep ==
  ASSUME NEW S, NEW s \in Seq(S), NEW n \in Nat, Len(s) <= n, NEW t,
         \/ t = s
         \/ s # <<>> /\ t = Tail(s)
         \/ \E x \in S : Len(s) < n /\ t = Append(s, x)
  PROVE  t \in Seq(S) /\ Len(t) <= n
<1>1. CASE t = s
  BY <1>1
<1>2. CASE s # <<>> /\ t = Tail(s)
  <2>1. t \in Seq(S) /\ Len(t) = Len(s) - 1 /\ Len(s) \in Nat
    BY <1>2, HeadTailProperties
  <2> QED
    BY <2>1
<1>3. ASSUME NEW x \in S, Len(s) < n, t = Append(s, x)
      PROVE  t \in Seq(S) /\ Len(t) <= n
  <2>1. t \in Seq(S) /\ Len(t) = Len(s) + 1 /\ Len(s) \in Nat
    BY <1>3, AppendProperties
  <2> QED
    BY <1>3, <2>1
<1> QED
  BY <1>1, <1>2, <1>3

(* A message joins the buffer, with what follows a newline in it.          *)
LEMMA PutLogIs ==
  ASSUME Queues, Bounds, Counts, NEW rest \in {<<>>} \cup Rests, PutLog(rest)
  PROVE  /\ buffer' \in Seq(Item) /\ Len(buffer') <= BufferSize + MaxRest
         /\ UNCHANGED <<buffer, logged, broken>> \/ Write(rest)
<1>1. CASE UNCHANGED <<buffer, logged, broken>>
  BY <1>1 DEF Queues, Bounds
<1>2. CASE CanWrite /\ Write(rest)
  <2>1. Log(logged + 1) \in Item
    BY MakeItem DEF Counts
  <2> DEFINE x == <<Log(logged + 1)>>
             y == x \o rest
  <2>2. x \in Seq(Item) /\ Len(x) = 1
    BY <2>1, Single
  <2>3. rest \in Seq(Item) /\ Len(rest) <= MaxRest /\ Len(rest) \in Nat
    BY RestsAre, LenProperties
  <2>4. buffer' = buffer \o (x \o rest) /\ Len(buffer) < BufferSize
    BY <1>2 DEF Write, CanWrite
  <2> HIDE DEF x
  <2>5. y \in Seq(Item) /\ Len(y) = 1 + Len(rest)
    BY <2>2, <2>3, ConcatProperties
  <2>8. buffer' = buffer \o y
    BY <2>4
  <2> HIDE DEF y
  <2>9. buffer \in Seq(Item)
    BY DEF Queues
  <2>10. buffer \o y \in Seq(Item) /\ Len(buffer \o y) = Len(buffer) + Len(y)
    BY <2>5, <2>9, ConcatProperties
  <2>6. buffer' \in Seq(Item) /\ Len(buffer') = Len(buffer) + (1 + Len(rest))
    BY <2>5, <2>8, <2>10
  <2>7. Len(buffer) \in Nat
    BY LenProperties DEF Queues
  <2> QED
    BY <1>2, <2>3, <2>4, <2>6, <2>7, SizesAssumption
<1> QED
  BY <1>1, <1>2 DEF PutLog

(* A step appends to a queue only where there is room.                     *)
LEMMA QueuesStep ==
  ASSUME Queues, Bounds, Counts, Places, [Next]_vars
  PROVE  Queues' /\ Bounds'
<1> USE DEF Queues, Bounds
<1>14. /\ SocketSize \in Nat /\ BufferSize + MaxRest \in Nat /\ BufferSize \in Nat
       /\ MaxRest \in Nat
  BY SizesAssumption
<1>1. CASE UNCHANGED vars \/ Over
  BY <1>1 DEF Over, vars, clientState, reading, sockets, writing
<1>2. CASE SendCommand \/ SendInput
  <2>2. UNCHANGED <<toClient, printed, writing>>
    BY <1>2 DEF SendCommand, SendInput
  <2>3. \/ toDaemon' = toDaemon
        \/ \E x \in {"command", "data"} :
             Len(toDaemon) < SocketSize /\ toDaemon' = Append(toDaemon, x)
    BY <1>2 DEF SendCommand, SendInput
  <2>4. toDaemon' \in Seq({"command", "data"}) /\ Len(toDaemon') <= SocketSize
    BY <1>14, <2>3, QueueStep
  <2> QED
    BY <2>2, <2>4 DEF writing
<1>4. CASE ReadLine
  <2>1. UNCHANGED <<toDaemon, writing>> /\ toClient' = Tail(toClient) /\ toClient # <<>>
    BY <1>4 DEF ReadLine
  <2>2. printed' \in Seq(Nat)
    <3>1. Head(toClient) \in Item
      BY <2>1, HeadIs
    <3>2. \/ printed' = printed
          \/ Head(toClient).n \in Nat /\ printed' = Append(printed, Head(toClient).n)
      BY <1>4, <3>1, ItemIs DEF ReadLine
    <3>3. ASSUME NEW n \in Nat, printed' = Append(printed, n) PROVE printed' \in Seq(Nat)
      BY <3>3
    <3> QED
      BY <3>2, <3>3
  <2>3. toClient' \in Seq(Item) /\ Len(toClient') <= SocketSize
    BY <1>14, <2>1, QueueStep
  <2> QED
    BY <2>1, <2>2, <2>3 DEF writing
<1>5. CASE ReadData
  <2>1. UNCHANGED <<toDaemon, printed, writing>>
    BY <1>5 DEF ReadData
  <2>2. toClient' = toClient \/ (toClient # <<>> /\ toClient' = Tail(toClient))
    BY <1>5 DEF ReadData
  <2>3. toClient' \in Seq(Item) /\ Len(toClient') <= SocketSize
    BY <1>14, <2>2, QueueStep
  <2> QED
    BY <2>1, <2>3 DEF writing
<1>6. CASE ReadEOF \/ Overflow \/ FlushResult \/ Finish \/ Close \/ ClientDies \/ DaemonDies
  BY <1>6 DEF ReadEOF, Overflow, FlushResult, Finish, Close, ClientDies, DaemonDies,
              clientState, reading, sockets, writing
<1>7. CASE Start \/ ParseArgs \/ RuleLogs
  BY <1>7, PutLogIs DEF Start, ParseArgs, RuleLogs, clientState, reading, sockets
<1>8. CASE CheckInput
  <2>1. UNCHANGED <<toDaemon, toClient, printed>>
    BY <1>8 DEF CheckInput, clientState, reading, sockets
  <2>2. buffer' \in Seq(Item) /\ Len(buffer') <= BufferSize + MaxRest
    BY <1>8, PutLogIs DEF CheckInput
  <2>3. out' \in Seq(Item)
    BY <1>8, ResultIs DEF CheckInput, Decide, Verdicts
  <2> QED
    BY <2>1, <2>2, <2>3
<1>9. CASE RulesReturn
  <2>1. UNCHANGED <<toDaemon, toClient, printed, buffer>>
    BY <1>9 DEF RulesReturn, clientState, reading, sockets
  <2>2. out' \in Seq(Item)
    BY <1>9, ResultIs DEF RulesReturn, Decide
  <2> QED
    BY <2>1, <2>2
<1>10. CASE PutResult
  <2>1. UNCHANGED <<toDaemon, toClient, printed>> /\ out # <<>>
    BY <1>10 DEF PutResult, clientState, reading, sockets
  <2>2. \/ /\ Len(buffer) < BufferSize
           /\ buffer' = Append(buffer, Head(out)) /\ out' = Tail(out)
        \/ buffer' = buffer /\ out' = <<>>
    BY <1>10 DEF PutResult, CanWrite
  <2>5. Head(out) \in Item /\ Tail(out) \in Seq(Item)
    BY <2>1, HeadTailProperties
  <2>3. out' \in Seq(Item)
    <3>1. CASE out' = Tail(out)
      BY <2>5, <3>1
    <3>2. CASE out' = <<>>
      BY <3>2
    <3> QED
      BY <2>2, <3>1, <3>2
  <2>4. buffer' \in Seq(Item) /\ Len(buffer') <= BufferSize + MaxRest
    <3>1. \/ buffer' = buffer
          \/ /\ buffer' \in Seq(Item) /\ Len(buffer') = Len(buffer) + 1
             /\ Len(buffer) < BufferSize
      <4>1. CASE buffer' = Append(buffer, Head(out))
        BY <2>2, <2>5, <4>1, AppendProperties
      <4> QED
        BY <2>2, <4>1
    <3>2. Len(buffer) \in Nat
      BY LenProperties
    <3> QED
      BY <1>14, <3>1, <3>2
  <2> QED
    BY <2>1, <2>3, <2>4
<1>11. CASE Flush
  <2>1. UNCHANGED <<toDaemon, printed, out>>
    BY <1>11 DEF Flush, clientState, reading
  <2>2. \/ buffer' = buffer /\ toClient' = toClient
        \/ buffer' = <<>> /\ toClient' = toClient
        \/ /\ buffer # <<>> /\ Len(toClient) < SocketSize
           /\ toClient' = Append(toClient, Head(buffer)) /\ buffer' = Tail(buffer)
    BY <1>11 DEF Flush
  <2>3. buffer' \in Seq(Item) /\ Len(buffer') <= BufferSize + MaxRest
    <3>1. CASE buffer' = <<>>
      BY <1>14, <3>1
    <3>2. CASE buffer' # <<>>
      BY <1>14, <2>2, <3>2, QueueStep
    <3> QED
      BY <3>1, <3>2
  <2>4. toClient' \in Seq(Item) /\ Len(toClient') <= SocketSize
    <3>1. buffer # <<>> => Head(buffer) \in Item
      BY HeadTailProperties
    <3>2. \/ toClient' = toClient
          \/ \E x \in Item : Len(toClient) < SocketSize /\ toClient' = Append(toClient, x)
      BY <2>2, <3>1
    <3> QED
      BY <1>14, <3>2, QueueStep
  <2> QED
    BY <2>1, <2>3, <2>4
<1>12. CASE ReadCommand \/ ReadInput
  <2>1. UNCHANGED <<toClient, printed, writing>>
    BY <1>12 DEF ReadCommand, ReadInput, clientState, reading
  <2>2. toDaemon' = toDaemon \/ (toDaemon # <<>> /\ toDaemon' = Tail(toDaemon))
    BY <1>12 DEF ReadCommand, ReadInput
  <2>3. toDaemon' \in Seq({"command", "data"}) /\ Len(toDaemon') <= SocketSize
    BY <1>14, <2>2, QueueStep
  <2> QED
    BY <2>1, <2>3 DEF writing
<1> QED
  BY <1>1, <1>2, <1>4, <1>5, <1>6, <1>7, <1>8, <1>9, <1>10, <1>11, <1>12
     DEF Next, Client, Handler

(* Every step keeps the types.                                             *)
LEMMA TypedStep ==
  ASSUME Typed, [Next]_vars
  PROVE  Typed'
BY FlagsStep, PlacesStep, CountsStep, QueuesStep DEF Typed

-----------------------------------------------------------------------------
(* Where client and handler are                                            *)

(* What the handler's steps leave alone of the client, and the other way.  *)
LEMMA HandlerLeaves ==
  ASSUME Handler
  PROVE  UNCHANGED <<client, unsent, printed, missing, data, outcome, size, verbose,
                     known>>
BY DEF Handler, ReadCommand, Start, ParseArgs, ReadInput, CheckInput, RuleLogs,
       RulesReturn, PutResult, FlushResult, Finish, Close, Overflow, Flush,
       clientState, reading, request

(* The client changes nothing of the handler.                              *)
LEMMA ClientLeaves ==
  ASSUME Client
  PROVE  UNCHANGED <<handler, received, failed, verdict, out, buffer, flushing, writeErr,
                     logged, broken, size, verbose, known>>
BY DEF Client, SendCommand, SendInput, ReadLine, ReadData, ReadEOF, deciding, writing,
       request

(* A death changes nothing but the place of the one that dies.             *)
LEMMA OthersLeave ==
  ASSUME UNCHANGED vars \/ Over \/ ClientDies \/ DaemonDies
  PROVE  /\ UNCHANGED <<unsent, printed, missing, data, outcome, size, verbose, known,
                       toDaemon, toClient, received, failed, verdict, out, buffer,
                       flushing, writeErr, logged, broken>>
         /\ client' = client \/ client' = "dead"
         /\ handler' = handler \/ handler' = "dead"
BY DEF Over, ClientDies, DaemonDies, vars, clientState, reading, sockets, request,
       deciding, writing

(* A client that is gone does not come back.                               *)
LEMMA ReadsOn ==
  ASSUME [Next]_vars, Reads'
  PROVE  Reads
<1>1. CASE Client
  BY <1>1 DEF Client, SendCommand, SendInput, ReadLine, ReadData, ReadEOF, Reads
<1>2. CASE Handler
  BY <1>2, HandlerLeaves DEF Reads
<1> QED
  BY <1>1, <1>2, OthersLeave DEF Next, Reads

(* The data of a result is read after its line.                            *)
LEMMA UnreadStep ==
  ASSUME Unread, [Next]_vars
  PROVE  Unread'
<1>1. CASE Client
  BY <1>1 DEF Client, SendCommand, SendInput, ReadLine, ReadData, ReadEOF, Exit, Match,
              Unread
<1>2. CASE Handler
  BY <1>2, HandlerLeaves DEF Unread
<1> QED
  BY <1>1, <1>2, OthersLeave DEF Next, Unread

(* The handler has a verdict from the end of the evaluation on, and not    *)
(* before.                                                                 *)
LEMMA DecidingStep ==
  ASSUME Places, Deciding, [Next]_vars
  PROVE  Deciding'
<1> USE NoneAssumption DEF Deciding
<1>1. CASE UNCHANGED vars \/ Over \/ ClientDies \/ DaemonDies
  BY <1>1, OthersLeave
<1>2. CASE Client
  BY <1>2, ClientLeaves
<1>3. CASE Start \/ ParseArgs \/ RuleLogs
  BY <1>3 DEF Start, ParseArgs, RuleLogs, deciding
<1>4. CASE CheckInput
  BY <1>4 DEF CheckInput, Decide
<1>5. CASE RulesReturn
  BY <1>5 DEF RulesReturn, Decide, Verdicts
<1>6. CASE ReadCommand \/ ReadInput
  BY <1>6 DEF ReadCommand, ReadInput, writing
<1>7. CASE PutResult
  BY <1>7 DEF PutResult
<1>8. CASE FlushResult \/ Finish \/ Close
  BY <1>8 DEF FlushResult, Finish, Close, deciding, writing
<1>9. CASE Overflow \/ Flush
  BY <1>9 DEF Overflow, Flush, deciding
<1> QED
  BY <1>1, <1>2, <1>3, <1>4, <1>5, <1>6, <1>7, <1>8, <1>9 DEF Next, Handler

(* While the client reads, every step keeps the answer whole.              *)
LEMMA SendingStep ==
  ASSUME Deciding, Sending, Reads, Reads', [Next]_vars
  PROVE  Sending'
<1> USE DEF Sending
<1>1. CASE UNCHANGED vars \/ Over \/ ClientDies \/ DaemonDies
  BY <1>1, OthersLeave
<1>2. CASE Client
  BY <1>2, ClientLeaves
<1>3. CASE Start \/ ParseArgs \/ CheckInput \/ RuleLogs
  BY <1>3 DEF Start, ParseArgs, CheckInput, RuleLogs, PutLog, Decide
<1>4. CASE RulesReturn
  BY <1>4 DEF RulesReturn, Decide
<1>5. CASE ReadCommand \/ ReadInput
  BY <1>5 DEF ReadCommand, ReadInput, ClientGone, Reads, writing
<1>6. CASE PutResult
  BY <1>6 DEF PutResult
<1>7. CASE FlushResult
  BY <1>7 DEF FlushResult, Deciding, deciding
<1>8. CASE Finish \/ Close
  BY <1>8 DEF Finish, Close, deciding, writing
<1>9. CASE Overflow
  BY <1>9 DEF Overflow, deciding
<1>10. CASE Flush
  <2>1. UNCHANGED <<handler, verdict, out>>
    BY <1>10 DEF Flush, deciding
  <2>2. ~ ClientGone
    BY DEF ClientGone, Reads
  <2>3. CASE buffer = <<>> /\ UNCHANGED <<buffer, writeErr>>
    BY <2>1, <2>3
  <2>4. CASE buffer # <<>> /\ flushing /\ UNCHANGED <<flushing, writeErr>>
    BY <2>1, <2>4
  <2> QED
    BY <1>10, <2>2, <2>3, <2>4 DEF Flush
<1> QED
  BY <1>1, <1>2, <1>3, <1>4, <1>5, <1>6, <1>7, <1>8, <1>9, <1>10 DEF Next, Handler

(* Every step keeps what the place of the handler says of its answer.      *)
LEMMA PlacedStep ==
  ASSUME Places, Placed, [Next]_vars
  PROVE  Placed'
BY DecidingStep, SendingStep, ReadsOn DEF Placed

-----------------------------------------------------------------------------
(* What is on its way to the daemon                                        *)

(* Every step keeps what is sent, under way and received together equal    *)
(* to what was announced.                                                  *)
LEMMA AnnouncedStep ==
  ASSUME Typed, Typed', Announced, Reads, Reads', [Next]_vars
  PROVE  Announced'
<1> DEFINE A == {"command", "data"}
<1>0. /\ size \in Nat /\ unsent \in Nat /\ received \in Nat
      /\ toDaemon \in Seq(A) /\ Len(toDaemon) \in Nat
  BY SizesAssumption DEF Typed, Counts, Queues
<1> USE DEF Announced
<1>1. CASE UNCHANGED vars \/ Over \/ ClientDies \/ DaemonDies
  <2>1. client' = client
    BY <1>1, OthersLeave DEF Reads
  <2> QED
    BY <1>1, <2>1, OthersLeave
<1>2. CASE SendCommand
  <2>1. client = "command" /\ client' = "input" /\ toDaemon' = Append(toDaemon, "command")
    BY <1>2 DEF SendCommand, Exit, Reads
  <2>2. Len(toDaemon') = Len(toDaemon) + 1
    BY <1>0, <2>1
  <2>3. UNCHANGED <<handler, unsent, size, received>>
    BY <1>2 DEF SendCommand, request, deciding
  <2> QED
    BY <1>0, <2>1, <2>2, <2>3
<1>3. CASE SendInput
  <2>1. UNCHANGED <<handler, size, received>> /\ client = "input"
    BY <1>3 DEF SendInput, request, deciding
  <2>2. CASE unsent = 0 /\ client' = "result" /\ UNCHANGED <<unsent, toDaemon>>
    BY <1>0, <2>1, <2>2
  <2>3. CASE /\ unsent > 0 /\ toDaemon' = Append(toDaemon, "data")
             /\ unsent' = unsent - 1 /\ client' = client
    <3>1. Len(toDaemon') = Len(toDaemon) + 1
      BY <1>0, <2>3
    <3> QED
      BY <1>0, <2>1, <2>3, <3>1
  <2> QED
    BY <1>3, <2>2, <2>3 DEF SendInput, Exit, Reads
<1>4. CASE ReadLine \/ ReadData \/ ReadEOF
  <2>1. UNCHANGED <<handler, size, received, unsent, toDaemon>>
    BY <1>4 DEF ReadLine, ReadData, ReadEOF, request, deciding, sockets
  <2>2. client \in {"result", "data"} /\ client' \in {"result", "data"}
    BY <1>4 DEF ReadLine, ReadData, ReadEOF, Match, Exit, Reads
  <2> QED
    BY <2>1, <2>2
<1>5. CASE ReadCommand
  <2>1. UNCHANGED <<client, size, received, unsent>> /\ handler = "command"
    BY <1>5 DEF ReadCommand, clientState, request
  <2>2. toDaemon # <<>> /\ toDaemon' = Tail(toDaemon) /\ handler' = "start"
    BY <1>5 DEF ReadCommand, ClientGone, Reads
  <2>3. Len(toDaemon') = Len(toDaemon) - 1
    BY <1>0, <2>2
  <2>4. client # "command"
    BY <2>2
  <2> QED
    BY <1>0, <2>1, <2>2, <2>3, <2>4
<1>6. CASE ReadInput
  <2>1. UNCHANGED <<client, size, unsent>> /\ handler = "input"
    BY <1>6 DEF ReadInput, clientState, request
  <2>2. client # "command"
    BY <2>1
  <2>3. CASE /\ toDaemon # <<>> /\ toDaemon' = Tail(toDaemon) /\ received' = received + 1
             /\ handler' = handler
    <3>1. Len(toDaemon') = Len(toDaemon) - 1
      BY <1>0, <2>3
    <3> QED
      BY <1>0, <2>1, <2>2, <2>3, <3>1
  <2>4. CASE received = size /\ handler' = "read" /\ UNCHANGED <<toDaemon, received>>
    BY <1>0, <2>1, <2>2, <2>4
  <2> QED
    BY <1>6, <2>3, <2>4 DEF ReadInput, ClientGone, Reads
<1>7. CASE \/ Start \/ ParseArgs \/ CheckInput \/ RuleLogs \/ RulesReturn \/ PutResult
           \/ FlushResult \/ Finish \/ Close \/ Overflow \/ Flush
  <2>1. UNCHANGED <<client, size, unsent, received, toDaemon>>
    BY <1>7 DEF Start, ParseArgs, CheckInput, RuleLogs, RulesReturn, PutResult,
                FlushResult, Finish, Close, Overflow, Flush, clientState, request,
                deciding, sockets
  <2>2. /\ handler # "command" /\ handler # "dead" => handler' \notin {"command", "dead"}
        /\ handler \in {"command", "dead"} => handler' = handler
        /\ handler' \in {"read", "eval", "reply", "flush", "close", "closed"} =>
             handler \in {"read", "eval", "reply", "flush", "close", "closed"}
    BY <1>7 DEF Start, ParseArgs, CheckInput, RuleLogs, RulesReturn, PutResult,
                FlushResult, Finish, Close, Overflow, Flush, Decide
  <2> QED
    BY <2>1, <2>2
<1> QED
  BY <1>1, <1>2, <1>3, <1>4, <1>5, <1>6, <1>7 DEF Next, Client, Handler

-----------------------------------------------------------------------------
(* What is on its way to the client                                        *)

(* Whatever joins the end of the stream, what was ahead stays ahead.       *)
LEMMA AheadGrows ==
  ASSUME NEW s \in Seq(Item), NEW t \in Seq(Item), NEW p \in Nat, NEW l \in Nat,
         Ahead(s, p, l)
  PROVE  Ahead(s \o t, p, l)
<1> DEFINE u == s \o t
<1>1. /\ Len(u) = Len(s) + Len(t) /\ Len(s) \in Nat /\ Len(t) \in Nat
      /\ \A i \in 1..Len(s) : u[i] = s[i]
  BY ConcatProperties, LenProperties
<1> HIDE DEF u
<1>2. \A i \in 1..l - p : u[i] = Log(p + i)
  BY <1>1 DEF Ahead
<1>3. Ahead(u, p, l)
  BY <1>1, <1>2 DEF Ahead
<1> QED
  BY <1>3 DEF u

(* A message is logged.                                                    *)
LEMMA OrderLogs ==
  ASSUME NEW s \in Seq(Item), NEW p \in Nat, NEW l \in Nat, Ahead(s, p, l),
         Ends(s, <<>>, p, l)
  PROVE  LET t == s \o <<Log(l + 1)>> IN
         t \in Seq(Item) /\ Ahead(t, p, l + 1) /\ Ends(t, <<>>, p, l + 1)
<1> DEFINE x == <<Log(l + 1)>>
           t == s \o x
<1>1. x \in Seq(Item) /\ Len(x) = 1 /\ x[1] = Log(l + 1)
  BY MakeItem, Single
<1> HIDE DEF x
<1>7. /\ t \in Seq(Item) /\ Len(t) = Len(s) + Len(x) /\ Len(s) \in Nat
      /\ \A i \in 1..Len(s) + Len(x) : t[i] = IF i <= Len(s) THEN s[i] ELSE x[i - Len(s)]
  BY <1>1, ConcatProperties, LenProperties
<1> HIDE DEF t
<1>2. /\ t \in Seq(Item) /\ Len(t) = Len(s) + 1 /\ Len(s) \in Nat
      /\ \A i \in 1..Len(s) + 1 : t[i] = IF i <= Len(s) THEN s[i] ELSE x[i - Len(s)]
  BY <1>1, <1>7
<1>3. Len(<<>>) = 0 /\ Len(s) = l - p
  BY DEF Ends
<1>4. ASSUME NEW i \in 1..(l + 1) - p PROVE t[i] = Log(p + i)
  <2>1. CASE i = Len(s) + 1
    BY <1>1, <1>2, <1>3, <2>1
  <2>2. CASE i \in 1..l - p
    BY <1>2, <1>3, <2>2 DEF Ahead
  <2> QED
    BY <1>3, <2>1, <2>2
<1>5. Ahead(t, p, l + 1)
  BY <1>2, <1>3, <1>4 DEF Ahead
<1>6. Ends(t, <<>>, p, l + 1)
  BY <1>2, <1>3 DEF Ends
<1> QED
  BY <1>2, <1>5, <1>6 DEF t, x

(* The result follows the last message.                                    *)
LEMMA OrderEnds ==
  ASSUME NEW s \in Seq(Item), NEW p \in Nat, NEW l \in Nat, Ends(s, <<>>, p, l),
         NEW r \in Seq(Item)
  PROVE  Ends(s \o r, r, p, l)
<1> DEFINE t == s \o r
<1>1. /\ Len(t) = Len(s) + Len(r) /\ Len(s) \in Nat /\ Len(r) \in Nat
      /\ \A i \in 1..Len(s) + Len(r) : t[i] = IF i <= Len(s) THEN s[i] ELSE r[i - Len(s)]
  BY ConcatProperties, LenProperties
<1> HIDE DEF t
<1>2. Len(<<>>) = 0 /\ Len(s) = l - p
  BY DEF Ends
<1>3. ASSUME NEW i \in 1..Len(r) PROVE t[Len(s) + i] = r[i]
  BY <1>1
<1>4. Ends(t, r, p, l)
  BY <1>1, <1>2, <1>3 DEF Ends
<1> QED
  BY <1>4 DEF t

(* As long as the client has not printed all it can rely on, the next line *)
(* is the next message.                                                    *)
LEMMA OrderReadsLine ==
  ASSUME NEW s \in Seq(Item), NEW p \in Nat, NEW l \in Nat, Ahead(s, p, l), p < l
  PROVE  s # <<>> /\ s[1] = Log(p + 1) /\ Ahead(Tail(s), p + 1, l)
<1> DEFINE t == Tail(s)
<1>1. s # <<>> /\ Len(s) \in Nat
  <2>1. Len(s) # 0
    BY LenProperties DEF Ahead
  <2> QED
    BY <2>1, LenProperties
<1>2. Len(t) = Len(s) - 1 /\ \A i \in 1..Len(s) - 1 : t[i] = s[i + 1]
  BY <1>1, HeadTailProperties
<1> HIDE DEF t
<1>3. ASSUME NEW i \in 1..l - (p + 1) PROVE t[i] = Log((p + 1) + i)
  <2>1. i + 1 \in 1..l - p /\ i \in 1..Len(s) - 1 /\ p + (i + 1) = (p + 1) + i
    BY <1>1 DEF Ahead
  <2> QED
    BY <1>2, <2>1 DEF Ahead
<1>4. Ahead(t, p + 1, l)
  BY <1>1, <1>2, <1>3 DEF Ahead
<1> QED
  BY <1>1, <1>4 DEF Ahead, t

(* The result stays behind the messages when one of them is read.          *)
LEMMA OrderStays ==
  ASSUME NEW s \in Seq(Item), NEW r \in Seq(Item), NEW p \in Nat, NEW l \in Nat,
         Ends(s, r, p, l), p < l
  PROVE  Ends(Tail(s), r, p + 1, l)
<1> DEFINE t == Tail(s)
<1>1. s # <<>> /\ Len(s) \in Nat /\ Len(r) \in Nat
  <2>1. Len(s) # 0
    BY LenProperties DEF Ends
  <2> QED
    BY <2>1, LenProperties
<1>2. Len(t) = Len(s) - 1 /\ \A i \in 1..Len(s) - 1 : t[i] = s[i + 1]
  BY <1>1, HeadTailProperties
<1> HIDE DEF t
<1>3. ASSUME NEW i \in 1..Len(r) PROVE t[(l - (p + 1)) + i] = r[i]
  <2>1. /\ (l - (p + 1)) + i \in 1..Len(s) - 1
        /\ ((l - (p + 1)) + i) + 1 = (l - p) + i
    BY <1>1 DEF Ends
  <2> QED
    BY <1>2, <2>1 DEF Ends
<1>4. Ends(t, r, p + 1, l)
  BY <1>1, <1>2, <1>3 DEF Ends
<1> QED
  BY <1>4 DEF t

(* When all messages have been read, the result is.                        *)
LEMMA OrderReadsResult ==
  ASSUME NEW s \in Seq(Item), NEW r \in Seq(Item), NEW l \in Nat, Ends(s, r, l, l),
         s # <<>>
  PROVE  /\ s[1] = r[1] /\ r # <<>> /\ Ahead(Tail(s), l, l)
         /\ Ends(Tail(s), Tail(r), l, l)
<1> DEFINE t == Tail(s)
           q == Tail(r)
<1>1. /\ Len(s) \in Nat \ {0} /\ t \in Seq(Item)
      /\ Len(t) = Len(s) - 1 /\ \A i \in 1..Len(s) - 1 : t[i] = s[i + 1]
  BY HeadTailProperties, LenProperties, EmptySeq
<1>2. Len(r) = Len(s) /\ \A i \in 1..Len(r) : s[i] = r[i]
  <2>1. Len(r) \in Nat /\ l - l = 0 /\ Len(s) = 0 + Len(r)
    BY LenProperties DEF Ends
  <2>2. ASSUME NEW i \in 1..Len(r) PROVE s[0 + i] = r[i]
    BY <2>1 DEF Ends
  <2> QED
    BY <2>1, <2>2
<1>3. r # <<>> /\ Len(q) = Len(s) - 1 /\ \A i \in 1..Len(s) - 1 : q[i] = r[i + 1]
  BY <1>1, <1>2, HeadTailProperties
<1> HIDE DEF t, q
<1>4. \A i \in 1..Len(q) : t[i] = q[i]
  BY <1>1, <1>2, <1>3
<1>5. Ends(t, q, l, l)
  BY <1>1, <1>3, <1>4 DEF Ends
<1>6. Ahead(t, l, l)
  BY <1>1 DEF Ahead
<1> QED
  BY <1>1, <1>2, <1>3, <1>5, <1>6 DEF t, q

(* An item moves from the front of a queue to the end of the one before.   *)
LEMMA Moves ==
  ASSUME NEW s \in Seq(Item), NEW t \in Seq(Item), t # <<>>
  PROVE  Append(s, Head(t)) \o Tail(t) = s \o t
<1>1. Head(t) \in Item /\ Tail(t) \in Seq(Item)
  BY HeadTailProperties
<1>2. Append(s, Head(t)) = s \o <<Head(t)>> /\ <<Head(t)>> \in Seq(Item)
  BY <1>1, AppendIsConcat, Single
<1>3. <<Head(t)>> \o Tail(t) = t
  <2> DEFINE h == <<Head(t)>>
             q == Tail(t)
  <2>1. /\ h \in Seq(Item) /\ Len(h) = 1 /\ h[1] = t[1]
        /\ q \in Seq(Item) /\ Len(q) = Len(t) - 1 /\ Len(t) \in Nat
        /\ \A i \in 1..Len(t) - 1 : q[i] = t[i + 1]
    BY <1>1, <1>2, Single, HeadTailProperties
  <2> HIDE DEF h, q
  <2>5. h \in Seq(Item) /\ q \in Seq(Item)
    BY <2>1
  <2>2. /\ h \o q \in Seq(Item) /\ Len(h \o q) = Len(h) + Len(q)
        /\ \A i \in 1..Len(h) + Len(q) : (h \o q)[i] = IF i <= Len(h) THEN h[i] ELSE q[i - Len(h)]
    BY <2>5, ConcatProperties
  <2> DEFINE c == h \o q
  <2> HIDE DEF c
  <2>3. c \in Seq(Item) /\ Len(c) = Len(t) /\ \A i \in 1..Len(t) : c[i] = t[i]
    BY <2>1, <2>2 DEF c
  <2>4. c = t
    BY <2>3, SeqEqual
  <2> QED
    BY <2>4 DEF c, h, q
<1>4. (s \o <<Head(t)>>) \o Tail(t) = s \o (<<Head(t)>> \o Tail(t))
  BY <1>1, <1>2, ConcatAssociative
<1> QED
  BY <1>2, <1>3, <1>4

(* Appending to the second of two sequences appends to both together.      *)
LEMMA AppendsBehind ==
  ASSUME NEW s \in Seq(Item), NEW t \in Seq(Item), NEW x \in Item
  PROVE  s \o Append(t, x) = Append(s \o t, x)
<1>1. <<x>> \in Seq(Item) /\ s \o t \in Seq(Item)
  BY Single, ConcatProperties
<1>2. Append(t, x) = t \o <<x>> /\ Append(s \o t, x) = (s \o t) \o <<x>>
  BY <1>1, AppendIsConcat
<1>3. (s \o t) \o <<x>> = s \o (t \o <<x>>)
  BY <1>1, ConcatAssociative
<1> QED
  BY <1>2, <1>3

(* The first item of two sequences is that of the first one.               *)
LEMMA TailOfConcat ==
  ASSUME NEW s \in Seq(Item), NEW t \in Seq(Item), s # <<>>
  PROVE  /\ s \o t # <<>> /\ (s \o t)[1] = Head(s)
         /\ Tail(s \o t) = Tail(s) \o t
<1> DEFINE c == s \o t
           a == Tail(s)
<1>1. /\ c \in Seq(Item) /\ Len(c) = Len(s) + Len(t)
      /\ \A i \in 1..Len(s) + Len(t) : c[i] = IF i <= Len(s) THEN s[i] ELSE t[i - Len(s)]
  BY ConcatProperties
<1>2. /\ a \in Seq(Item) /\ Len(a) = Len(s) - 1 /\ Len(s) \in Nat \ {0} /\ Len(t) \in Nat
      /\ \A i \in 1..Len(s) - 1 : a[i] = s[i + 1]
      /\ Head(s) = s[1]
  BY HeadTailProperties
<1> HIDE DEF c, a
<1>3. /\ a \o t \in Seq(Item) /\ Len(a \o t) = Len(a) + Len(t)
      /\ \A i \in 1..Len(a) + Len(t) : (a \o t)[i] = IF i <= Len(a) THEN a[i] ELSE t[i - Len(a)]
  BY <1>2, ConcatProperties
<1> DEFINE d == a \o t
           e == Tail(c)
<1>4. c # <<>> /\ c[1] = Head(s)
  BY <1>1, <1>2
<1>5. e \in Seq(Item) /\ Len(e) = Len(c) - 1 /\ \A i \in 1..Len(c) - 1 : e[i] = c[i + 1]
  BY <1>1, <1>4, HeadTailProperties
<1>6. d \in Seq(Item) /\ Len(d) = Len(c) - 1
  BY <1>1, <1>2, <1>3
<1>7. ASSUME NEW i \in 1..Len(c) - 1 PROVE d[i] = e[i]
  <2>1. d[i] = IF i <= Len(s) - 1 THEN s[i + 1] ELSE t[i - (Len(s) - 1)]
    BY <1>1, <1>2, <1>3
  <2>2. e[i] = IF i + 1 <= Len(s) THEN s[i + 1] ELSE t[(i + 1) - Len(s)]
    BY <1>1, <1>2, <1>5
  <2>3. i - (Len(s) - 1) = (i + 1) - Len(s)
    BY <1>2
  <2> QED
    BY <1>2, <2>1, <2>2, <2>3
<1> HIDE DEF d, e
<1>8. d = e
  BY <1>5, <1>6, <1>7, SeqEqual
<1> QED
  BY <1>4, <1>8 DEF a, c, d, e

(* The stream starts in the socket, goes on in the buffer and ends with    *)
(* what the handler has still to write.                                    *)
LEMMA StreamIs ==
  ASSUME Queues
  PROVE  /\ Stream \in Seq(Item)
         /\ Len(Stream) = Len(toClient) + Len(buffer) + Len(out)
         /\ toClient # <<>> =>
              /\ Stream # <<>> /\ Stream[1] = Head(toClient)
              /\ Tail(Stream) = (Tail(toClient) \o buffer) \o out
         /\ buffer # <<>> =>
              Stream = (Append(toClient, Head(buffer)) \o Tail(buffer)) \o out
         /\ out # <<>> =>
              Stream = (toClient \o Append(buffer, Head(out))) \o Tail(out)
<1>1. toClient \o buffer \in Seq(Item) /\ Len(toClient \o buffer) = Len(toClient) + Len(buffer)
  BY ConcatProperties DEF Queues
<1>2. Stream \in Seq(Item) /\ Len(Stream) = Len(toClient \o buffer) + Len(out)
  BY <1>1, ConcatProperties DEF Queues, Stream
<1>3. ASSUME toClient # <<>>
      PROVE  /\ Stream # <<>> /\ Stream[1] = Head(toClient)
             /\ Tail(Stream) = (Tail(toClient) \o buffer) \o out
  <2> DEFINE c == toClient \o buffer
  <2>1. c \in Seq(Item) /\ c # <<>> /\ c[1] = Head(toClient) /\ Tail(c) = Tail(toClient) \o buffer
    BY <1>1, <1>3, TailOfConcat DEF Queues
  <2> HIDE DEF c
  <2>2. c \o out # <<>> /\ (c \o out)[1] = Head(c) /\ Tail(c \o out) = Tail(c) \o out
    BY <2>1, TailOfConcat DEF Queues
  <2>3. Head(c) = c[1] /\ Stream = c \o out
    BY <2>1 DEF c, Stream
  <2> QED
    BY <2>1, <2>2, <2>3
<1>4. buffer # <<>> => Append(toClient, Head(buffer)) \o Tail(buffer) = toClient \o buffer
  BY Moves DEF Queues
<1>5. ASSUME out # <<>>
      PROVE  Stream = (toClient \o Append(buffer, Head(out))) \o Tail(out)
  <2>1. Head(out) \in Item
    BY <1>5, HeadTailProperties DEF Queues
  <2>2. toClient \o Append(buffer, Head(out)) = Append(toClient \o buffer, Head(out))
    BY <2>1, AppendsBehind DEF Queues
  <2>3. Append(toClient \o buffer, Head(out)) \o Tail(out) = Stream
    BY <1>1, <1>5, Moves DEF Queues, Stream
  <2> QED
    BY <2>2, <2>3
<1> QED
  BY <1>1, <1>2, <1>3, <1>4, <1>5 DEF Stream

(* What is still owed of the result is the result, or the missing data.    *)
LEMMA RestIs ==
  ASSUME Typed
  PROVE  /\ Rest \in Seq(Item)
         /\ verdict = None => Rest = <<>>
         /\ verdict # None /\ client = "data" =>
              Len(Rest) = missing /\ \A i \in 1..missing : Rest[i] = Data
         /\ verdict # None /\ client # "data" => verdict \in Verdicts /\ Rest = result(verdict)
<1>1. CASE verdict # None /\ client = "data"
  <2> DEFINE r == [i \in 1..missing |-> Data]
  <2>1. missing \in Nat
    BY SizesAssumption DEF Typed, Counts
  <2>2. r \in [1..missing -> Item]
    BY MakeItem
  <2>3. r \in Seq(Item) /\ Len(r) = missing /\ \A i \in 1..missing : r[i] = Data
    BY <2>1, <2>2, IsASeq
  <2>4. Rest = r
    BY <1>1 DEF Rest
  <2> HIDE DEF r
  <2> QED
    BY <1>1, <2>3, <2>4
<1>2. CASE verdict # None /\ client # "data"
  BY <1>2, ResultIs DEF Rest, Typed, Places
<1>3. CASE verdict = None
  BY <1>3 DEF Rest
<1> QED
  BY <1>1, <1>2, <1>3

(* What the client can rely on: while it waits for a line, the next        *)
(* message comes, or all have been read and the result comes.              *)
LEMMA LineIs ==
  ASSUME Typed, Underway, Trusted, client = "result", toClient # <<>>
  PROVE  LET x == Head(toClient)
             p == Len(printed) IN
         \/ /\ p < Sure /\ x = Log(p + 1) /\ Ahead(Tail(Stream), p + 1, Sure)
            /\ broken = 0 => Ends(Tail(Stream), Rest, p + 1, logged)
         \/ /\ broken = 0 /\ p = logged /\ verdict # None /\ verdict \in Verdicts
            /\ x = result(verdict)[1] /\ Rest = result(verdict) /\ Rest # <<>>
            /\ Ahead(Tail(Stream), p, logged) /\ Ends(Tail(Stream), Tail(Rest), p, logged)
<1> DEFINE x == Head(toClient)
           p == Len(printed)
<1>1. /\ Stream \in Seq(Item) /\ Rest \in Seq(Item) /\ p \in Nat /\ logged \in Nat
      /\ broken \in Nat /\ Sure \in Nat
  BY StreamIs, RestIs, LenProperties DEF Typed, Queues, Counts, Sure
<1>2. Stream # <<>> /\ Stream[1] = x
  BY StreamIs DEF Typed
<1>3. Ahead(Stream, p, Sure) /\ (broken = 0 => Ends(Stream, Rest, p, logged))
  BY DEF Underway
<1> HIDE DEF x, p
<1>4. CASE p < Sure
  <2>1. x = Log(p + 1) /\ Ahead(Tail(Stream), p + 1, Sure)
    BY <1>1, <1>2, <1>3, <1>4, OrderReadsLine
  <2>2. ASSUME broken = 0 PROVE Ends(Tail(Stream), Rest, p + 1, logged)
    BY <1>1, <1>3, <1>4, <2>2, OrderStays DEF Sure
  <2> QED
    BY <1>4, <2>1, <2>2 DEF x, p
<1>5. CASE ~ (p < Sure)
  <2>1. broken = 0 /\ p = logged
    BY <1>1, <1>3, <1>5 DEF Sure, Trusted, Ahead, p
  <2>2. Ends(Stream, Rest, logged, logged)
    BY <1>3, <2>1
  <2>3. /\ x = Rest[1] /\ Rest # <<>> /\ Ahead(Tail(Stream), p, logged)
        /\ Ends(Tail(Stream), Tail(Rest), p, logged)
    BY <1>1, <1>2, <2>1, <2>2, OrderReadsResult
  <2>4. verdict # None
    BY <2>3, RestIs
  <2>5. verdict \in Verdicts /\ Rest = result(verdict)
    BY <2>4, RestIs
  <2> QED
    BY <2>1, <2>3, <2>4, <2>5 DEF x, p
<1> QED
  BY <1>4, <1>5

(* The first line of a result tells the verdict.                           *)
LEMMA VerdictLine ==
  ASSUME NEW v \in Verdicts
  PROVE  LET x == result(v)[1] IN
         /\ x.type \in {"success", "error"}
         /\ x.type = "error" => v = "error"
         /\ x.type = "success" =>
              /\ x.n = Len(result(v)) - 1 /\ x.n \in Nat
              /\ v = IF x.n = 0 THEN "no match" ELSE "match"
<1> DEFINE x == result(v)[1]
           n == Len(result(v))
<1>1. /\ n = IF v = "match" THEN 1 + DataSize ELSE 1
      /\ x = IF v = "match" THEN Success(DataSize)
             ELSE IF v = "no match" THEN Success(0) ELSE ErrorLine
  BY ResultIs
<1>2. DataSize \in Nat \ {0}
  BY SizesAssumption
<1> HIDE DEF x, n
<1> DEFINE Fits ==
             /\ x.type \in {"success", "error"}
             /\ x.type = "error" => v = "error"
             /\ x.type = "success" => /\ x.n = n - 1 /\ x.n \in Nat
                                      /\ v = IF x.n = 0 THEN "no match" ELSE "match"
<1>3. ASSUME v = "match" PROVE Fits
  <2>1. x = Success(DataSize) /\ n = 1 + DataSize
    BY <1>1, <1>3
  <2>2. x.type = "success" /\ x.n = DataSize
    BY <2>1 DEF Success
  <2> QED
    BY <1>2, <1>3, <2>1, <2>2
<1>4. ASSUME v = "no match" PROVE Fits
  <2>1. x = Success(0) /\ n = 1
    BY <1>1, <1>4
  <2>2. x.type = "success" /\ x.n = 0
    BY <2>1 DEF Success
  <2>3. x.n = n - 1 /\ x.n \in Nat /\ (IF x.n = 0 THEN "no match" ELSE "match") = "no match"
    BY <2>1, <2>2
  <2> QED
    BY <1>4, <2>2, <2>3
<1>5. ASSUME v = "error" PROVE Fits
  <2>1. x = ErrorLine
    BY <1>1, <1>5
  <2>2. x.type = "error"
    BY <2>1 DEF ErrorLine
  <2> QED
    BY <1>5, <2>2
<1>6. Fits
  BY <1>3, <1>4, <1>5 DEF Verdicts
<1> QED
  BY <1>6 DEF x, n

(* Of what is owed of the result, n units of data are left.                *)
LEMMA RestLeft ==
  ASSUME verdict' # None, client' = "data", missing' \in Nat,
         NEW s \in Seq(Item), Len(s) = missing' + 1, \A i \in 2..Len(s) : s[i] = Data
  PROVE  Rest' = Tail(s)
<1>0. PICK n \in Nat : n = missing' /\ Len(s) = n + 1
  OBVIOUS
<1>10. n + 1 # 0 /\ (n + 1) - 1 = n
  OBVIOUS
<1> DEFINE q == Tail(s)
           r == [i \in 1..n |-> Data]
<1>1. Rest' = r
  BY <1>0 DEF Rest
<1>2. r \in [1..n -> Item]
  BY MakeItem
<1>3. r \in Seq(Item) /\ Len(r) = n /\ \A i \in 1..n : r[i] = Data
  BY <1>2, IsASeq
<1>9. Len(s) # 0 /\ Len(s) - 1 = n
  BY <1>0, <1>10, Zenon
<1>4. s # <<>> /\ Len(s) - 1 = n
  BY <1>9, EmptySeq
<1>8. q \in Seq(Item) /\ Len(q) = Len(s) - 1 /\ \A i \in 1..Len(s) - 1 : q[i] = s[i + 1]
  BY <1>4, HeadTailProperties
<1> HIDE DEF q
<1>5. q \in Seq(Item) /\ Len(q) = n /\ \A i \in 1..n : q[i] = s[i + 1]
  BY <1>4, <1>8
<1>6. ASSUME NEW i \in 1..n PROVE s[i + 1] = Data
  <2>1. i + 1 \in 2..n + 1
    OBVIOUS
  <2> QED
    BY <1>0, <2>1
<1> HIDE DEF r
<1>7. q = r
  BY <1>3, <1>5, <1>6, SeqEqual
<1> QED
  BY <1>1, <1>7 DEF q, r

(* The client reads.                                                       *)
LEMMA UnderwayReads ==
  ASSUME Typed, Typed', Unread, Underway, Reads, Reads', ReadLine \/ ReadData
  PROVE  Underway'
<1> SUFFICES ASSUME Trusted'
             PROVE  /\ Ahead(Stream, Len(printed), Sure)'
                    /\ (broken = 0 => Ends(Stream, Rest, Len(printed), logged))'
                    /\ (client = "data" =>
                          /\ broken = 0 /\ Len(printed) = logged /\ data \in {None, Data}
                          /\ verdict = IF missing = 0 THEN "no match" ELSE "match")'
  BY DEF Underway
<1>0. /\ UNCHANGED <<buffer, out, logged, broken, verdict>> /\ Sure' = Sure
      /\ logged \in Nat /\ broken \in Nat /\ Len(printed) \in Nat /\ Len(printed') \in Nat
      /\ printed \in Seq(Nat)
      /\ missing \in Nat /\ missing' \in Nat
  BY ClientLeaves, SizesAssumption, LenProperties DEF Client, Typed, Queues, Counts, Sure
<1>1. CASE ReadLine
  <2> DEFINE x == Head(toClient)
             p == Len(printed)
  <2>1. /\ client = "result" /\ toClient # <<>> /\ toClient' = Tail(toClient)
        /\ x \in Item /\ UNCHANGED data
    BY <1>1, HeadIs DEF ReadLine, Typed
  <2>2. Stream' = Tail(Stream)
    <3>1. Tail(Stream) = (Tail(toClient) \o buffer) \o out
      BY <2>1, StreamIs DEF Typed
    <3> QED
      BY <1>0, <2>1, <3>1 DEF Stream
  <2>3. CASE x.type = "log"
    <3>1. printed' = Append(printed, x.n) /\ client' = client /\ missing' = missing
      BY <1>1, <2>3 DEF ReadLine
    <3>2. Len(printed') = p + 1
      BY <1>0, <2>1, <2>3, <3>1, ItemIs
    <3>3. Trusted
      BY <1>0, <3>2 DEF Trusted
    <3>4. /\ Ahead(Tail(Stream), p + 1, Sure)
          /\ broken = 0 => Ends(Tail(Stream), Rest, p + 1, logged)
      BY <2>1, <2>3, <3>3, LineIs, VerdictLine
    <3>5. Rest' = Rest
      BY <1>0, <3>1 DEF Rest
    <3> QED
      BY <1>0, <2>1, <2>2, <3>1, <3>2, <3>4, <3>5
  <2>4. CASE x.type = "success"
    <3>1. UNCHANGED printed /\ missing' = x.n /\ client' = "data"
      BY <1>1, <2>4 DEF ReadLine
    <3>2. Trusted
      BY <1>0, <3>1 DEF Trusted
    <3>3. /\ broken = 0 /\ p = logged /\ verdict # None /\ verdict \in Verdicts
          /\ x = result(verdict)[1] /\ Rest = result(verdict) /\ Rest # <<>>
          /\ Ahead(Tail(Stream), p, logged) /\ Ends(Tail(Stream), Tail(Rest), p, logged)
      <4>1. x # Log(p + 1)
        BY <2>4 DEF Log
      <4> QED
        BY <2>1, <3>2, <4>1, LineIs
    <3>4. /\ x.n = Len(Rest) - 1
          /\ verdict = IF x.n = 0 THEN "no match" ELSE "match"
      BY <2>4, <3>3, VerdictLine
    <3>5. Rest \in Seq(Item) /\ \A i \in 2..Len(Rest) : Rest[i] = Data
      BY <3>3, ResultIs
    <3>6. Len(Rest) = missing' + 1
      <4>1. Len(Rest) \in Nat
        BY <3>5, LenProperties
      <4> DEFINE l == Len(Rest)
      <4>2. missing' = l - 1 /\ l \in Nat
        BY <3>1, <3>4, <4>1
      <4> HIDE DEF l
      <4>3. l = missing' + 1
        BY <1>0, <4>2
      <4> QED
        BY <4>3 DEF l
    <3>7. Rest' = Tail(Rest)
      BY <1>0, <3>1, <3>3, <3>5, <3>6, RestLeft
    <3>8. data \in {None, Data}
      BY <2>1 DEF Unread
    <3> QED
      BY <1>0, <2>1, <2>2, <3>1, <3>3, <3>4, <3>7, <3>8 DEF Sure
  <2> QED
    BY <1>1, <2>3, <2>4 DEF ReadLine, Exit, Reads
<1>2. CASE ReadData
  <2>1. /\ client = "data" /\ client' = "data" /\ missing > 0 /\ missing # 1
        /\ missing' = missing - 1 /\ UNCHANGED printed
        /\ toClient # <<>> /\ toClient' = Tail(toClient)
        /\ data' = First(Head(toClient))
    BY <1>2 DEF ReadData, Exit, Match, Reads
  <2>2. Stream' = Tail(Stream)
    <3>1. Tail(Stream) = (Tail(toClient) \o buffer) \o out
      BY <2>1, StreamIs DEF Typed
    <3> QED
      BY <1>0, <2>1, <3>1 DEF Stream
  <2>3. Trusted
    BY <1>0, <2>1 DEF Trusted
  <2>4. /\ broken = 0 /\ Len(printed) = logged /\ verdict = "match" /\ verdict # None
        /\ data \in {None, Data} /\ Ends(Stream, Rest, logged, logged)
    <3>1. missing # 0
      BY <1>0, <2>1
    <3> QED
      BY <2>1, <2>3, <3>1, NoneAssumption DEF Underway
  <2>5. /\ Stream \in Seq(Item) /\ Stream # <<>> /\ Stream[1] = Head(toClient)
        /\ Rest \in Seq(Item)
        /\ Len(Rest) = missing /\ \A i \in 1..missing : Rest[i] = Data
    BY <2>1, <2>4, StreamIs, RestIs DEF Typed
  <2>6. /\ Stream[1] = Rest[1] /\ Ahead(Tail(Stream), logged, logged)
        /\ Ends(Tail(Stream), Tail(Rest), logged, logged)
    BY <1>0, <2>4, <2>5, OrderReadsResult
  <2>7. Rest' = Tail(Rest)
    BY <1>0, <2>1, <2>4, <2>5, RestLeft
  <2>8. data' \in {None, Data}
    <3>1. Head(toClient) = Data
      BY <1>0, <2>1, <2>5, <2>6
    <3> QED
      BY <2>1, <2>4, <3>1 DEF First
  <2>9. missing' # 0
    BY <1>0, <2>1
  <2> QED
    BY <1>0, <2>1, <2>2, <2>4, <2>6, <2>7, <2>8, <2>9 DEF Sure
<1> QED
  BY <1>1, <1>2

(* The handler logs a message, with what follows a newline in it.          *)
LEMMA LogsFollow ==
  ASSUME Typed, Typed', verdict = None, out = <<>>, Underway, Trusted,
         NEW rest \in {<<>>} \cup Rests, PutLog(rest)
  PROVE  LET s == toClient \o buffer' IN
         /\ Ahead(s, Len(printed), Sure')
         /\ broken' = 0 => Ends(s, <<>>, Len(printed), logged')
<1> DEFINE s == toClient \o buffer
           p == Len(printed)
<1>1. /\ s \in Seq(Item) /\ p \in Nat /\ logged \in Nat /\ broken \in Nat /\ Sure \in Nat
      /\ logged' \in Nat /\ toClient \in Seq(Item) /\ buffer \in Seq(Item)
  BY ConcatProperties, LenProperties DEF Typed, Queues, Counts, Sure
<1>2. Ahead(s, p, Sure) /\ (broken = 0 => Ends(s, <<>>, p, logged))
  <2>1. Stream = s
    BY <1>1, ConcatEmptySeq DEF Stream
  <2>2. Rest = <<>>
    BY RestIs
  <2> QED
    BY <2>1, <2>2 DEF Underway
<1>3. CASE UNCHANGED <<buffer, logged, broken>>
  <2>1. Sure' = Sure
    BY <1>3 DEF Sure
  <2> QED
    BY <1>2, <1>3, <2>1
<1> DEFINE x == <<Log(logged + 1)>>
<1>4. x \in Seq(Item) /\ rest \in Seq(Item)
  BY <1>1, MakeItem, Single, RestsAre
<1> HIDE DEF s, p
<1>5. CASE Write(rest)
  <2>1. logged' = logged + 1 /\ toClient \o buffer' = (s \o x) \o rest
    <3>1. buffer' = buffer \o (x \o rest) /\ logged' = logged + 1
      BY <1>5 DEF Write
    <3>2. x \o rest \in Seq(Item) /\ (s \o x) \o rest = s \o (x \o rest)
      BY <1>1, <1>4, ConcatProperties, ConcatAssociative
    <3>3. toClient \o (buffer \o (x \o rest)) = s \o (x \o rest)
      <4>1. toClient \in Seq(Item) /\ buffer \in Seq(Item)
        BY DEF Typed, Queues
      <4> DEFINE y == x \o rest
      <4>2. y \in Seq(Item)
        BY <3>2
      <4> HIDE DEF y
      <4>3. toClient \o (buffer \o y) = (toClient \o buffer) \o y
        BY <4>1, <4>2, ConcatAssociative
      <4> QED
        BY <4>3 DEF y, s
    <3> QED
      BY <3>1, <3>2, <3>3
  <2>2. CASE broken # 0
    <3>1. broken' = broken /\ Sure' = Sure
      BY <1>5, <2>2 DEF Write, Sure
    <3>2. s \o x \in Seq(Item) /\ Ahead(s \o x, p, Sure)
      BY <1>1, <1>2, <1>4, AheadGrows, ConcatProperties
    <3>3. Ahead((s \o x) \o rest, p, Sure)
      BY <1>1, <1>4, <3>2, AheadGrows
    <3> QED
      BY <2>1, <2>2, <3>1, <3>3 DEF p
  <2>3. CASE broken = 0
    <3>1. /\ s \o x \in Seq(Item) /\ Ahead(s \o x, p, logged + 1)
          /\ Ends(s \o x, <<>>, p, logged + 1)
      BY <1>1, <1>2, <2>3, OrderLogs DEF Sure, x
    <3>2. Ahead((s \o x) \o rest, p, logged + 1)
      <4>1. logged + 1 \in Nat
        BY <1>1
      <4> QED
        BY <1>1, <1>4, <3>1, <4>1, AheadGrows
    <3>3. Sure' = logged + 1
      BY <1>1, <1>5, <2>3 DEF Write, Sure
    <3>4. ASSUME broken' = 0 PROVE Ends((s \o x) \o rest, <<>>, p, logged + 1)
      <4>1. rest = <<>>
        BY <1>1, <1>5, <2>3, <3>4 DEF Write
      <4> QED
        BY <3>1, <4>1, ConcatEmptySeq
    <3> QED
      BY <2>1, <3>2, <3>3, <3>4 DEF p
  <2> QED
    BY <2>2, <2>3
<1> QED
  BY <1>3, <1>5, PutLogIs DEF Typed

(* What has been logged is followed by the result, if there is one.        *)
LEMMA ResultFollows ==
  ASSUME Typed, Typed', client' # "data",
         Ahead(toClient' \o buffer', Len(printed'), Sure'),
         broken' = 0 => Ends(toClient' \o buffer', <<>>, Len(printed'), logged'),
         \/ verdict' = None /\ out' = <<>>
         \/ verdict' \in Verdicts /\ out' = result(verdict')
  PROVE  Underway'
<1> DEFINE s == toClient' \o buffer'
           p == Len(printed')
<1>1. /\ s \in Seq(Item) /\ p \in Nat /\ logged' \in Nat /\ Sure' \in Nat
      /\ out' \in Seq(Item)
  BY ConcatProperties, LenProperties DEF Typed, Queues, Counts, Sure
<1>2. Stream' = s \o out'
  BY DEF Stream
<1> HIDE DEF s, p
<1>3. Ahead(s \o out', p, Sure')
  BY <1>1, AheadGrows DEF s, p
<1>4. Rest' = out'
  <2>1. CASE verdict' = None /\ out' = <<>>
    BY <2>1 DEF Rest
  <2>2. CASE verdict' \in Verdicts /\ out' = result(verdict')
    BY <2>2, NoneAssumption DEF Rest, Verdicts
  <2> QED
    BY <2>1, <2>2
<1>5. broken' = 0 => Ends(s \o out', out', p, logged')
  BY <1>1, OrderEnds DEF s, p
<1> QED
  BY <1>2, <1>3, <1>4, <1>5 DEF Underway, s, p

(* The handler writes.                                                     *)
LEMMA UnderwayWrites ==
  ASSUME Typed, Typed', Placed, Underway, Reads, Handler
  PROVE  Underway'
<1>1. /\ UNCHANGED <<client, printed, missing, data>>
      /\ Sending /\ Deciding
  BY HandlerLeaves DEF Placed
<1>2. ASSUME UNCHANGED <<logged, broken, verdict>>, Stream' = Stream PROVE Underway'
  <2>1. Rest' = Rest
    BY <1>1, <1>2 DEF Rest
  <2>2. Sure' = Sure /\ Trusted' = Trusted
    BY <1>1, <1>2 DEF Sure, Trusted
  <2> QED
    BY <1>1, <1>2, <2>1, <2>2 DEF Underway
<1>3. ASSUME ~ Trusted, UNCHANGED broken \/ \E rest \in {<<>>} \cup Rests : PutLog(rest)
      PROVE  Underway'
  <2>1. broken # 0 /\ broken' = broken
    BY <1>3, PutLogIs DEF Trusted, Typed, Write
  <2> QED
    BY <1>1, <1>3, <2>1 DEF Trusted, Underway
<1>4. ASSUME NEW rest \in {<<>>} \cup Rests, PutLog(rest), verdict = None,
             toClient' = toClient,
             \/ UNCHANGED <<verdict, out>>
             \/ verdict' \in Verdicts /\ out' = result(verdict')
      PROVE  Underway'
  <2>1. CASE ~ Trusted
    BY <1>3, <1>4, <2>1
  <2>2. CASE Trusted
    <3>1. out = <<>> /\ client # "data"
      BY <1>1, <1>4, <2>2, NoneAssumption DEF Deciding, Underway
    <3>2. /\ Ahead(toClient' \o buffer', Len(printed'), Sure')
          /\ broken' = 0 => Ends(toClient' \o buffer', <<>>, Len(printed'), logged')
      BY <1>1, <1>4, <2>2, <3>1, LogsFollow
    <3>3. \/ verdict' = None /\ out' = <<>>
          \/ verdict' \in Verdicts /\ out' = result(verdict')
      BY <1>4, <3>1
    <3> QED
      BY <1>1, <3>1, <3>2, <3>3, ResultFollows
  <2> QED
    BY <2>1, <2>2
<1>5. CASE Start \/ ParseArgs
  <2>1. PutLog(<<>>) /\ verdict = None /\ toClient' = toClient /\ UNCHANGED <<verdict, out>>
    BY <1>1, <1>5 DEF Start, ParseArgs, Deciding, sockets, deciding
  <2> QED
    BY <1>4, <2>1
<1>6. CASE RuleLogs
  <2>1. /\ verdict = None /\ toClient' = toClient /\ UNCHANGED <<verdict, out>>
        /\ \E rest \in {<<>>} \cup Rests : PutLog(rest)
    BY <1>1, <1>6 DEF RuleLogs, Deciding, sockets, deciding
  <2> QED
    BY <1>4, <2>1
<1>7. CASE CheckInput
  <2>1. PutLog(<<>>) /\ verdict = None /\ toClient' = toClient
    BY <1>1, <1>7 DEF CheckInput, Deciding, sockets
  <2>2. \/ UNCHANGED <<verdict, out>>
        \/ verdict' \in Verdicts /\ out' = result(verdict')
    BY <1>7 DEF CheckInput, Decide, Verdicts
  <2> QED
    BY <1>4, <2>1, <2>2
<1>8. CASE RulesReturn
  <2>1. verdict = None /\ UNCHANGED <<toClient, buffer, logged, broken>> /\ out = <<>>
    BY <1>1, <1>8 DEF RulesReturn, Deciding, sockets
  <2>2. verdict' \in Verdicts /\ out' = result(verdict')
    BY <1>8 DEF RulesReturn, Decide
  <2>3. CASE ~ Trusted
    BY <1>3, <2>1, <2>3
  <2>4. CASE Trusted
    <3>1. client # "data"
      BY <2>1, <2>4, NoneAssumption DEF Underway
    <3>2. Stream = toClient \o buffer
      BY <2>1, ConcatProperties, ConcatEmptySeq DEF Stream, Typed, Queues
    <3>3. Rest = <<>> /\ Sure' = Sure
      BY <2>1, RestIs DEF Sure
    <3>4. /\ Ahead(toClient' \o buffer', Len(printed'), Sure')
          /\ broken' = 0 => Ends(toClient' \o buffer', <<>>, Len(printed'), logged')
      BY <1>1, <2>1, <2>4, <3>2, <3>3 DEF Underway
    <3> QED
      BY <1>1, <2>2, <3>1, <3>4, ResultFollows
  <2> QED
    BY <2>3, <2>4
<1>9. CASE PutResult
  <2>1. /\ UNCHANGED <<logged, broken, verdict, toClient>> /\ out # <<>>
        /\ buffer' = Append(buffer, Head(out)) /\ out' = Tail(out)
    BY <1>1, <1>9 DEF PutResult, Sending, sockets
  <2>2. Stream' = Stream
    <3>1. Stream = (toClient \o Append(buffer, Head(out))) \o Tail(out)
      BY <2>1, StreamIs DEF Typed
    <3> QED
      BY <2>1, <3>1 DEF Stream
  <2> QED
    BY <1>2, <2>1, <2>2
<1>10. CASE Flush
  <2>1. UNCHANGED <<logged, broken, verdict, out>>
    BY <1>10 DEF Flush, deciding
  <2>2. \/ UNCHANGED <<buffer, toClient>>
        \/ /\ buffer # <<>>
           /\ toClient' = Append(toClient, Head(buffer)) /\ buffer' = Tail(buffer)
    BY <1>10 DEF Flush, ClientGone, Reads
  <2>3. Stream' = Stream
    <3>1. CASE UNCHANGED <<buffer, toClient>>
      BY <2>1, <3>1 DEF Stream
    <3>2. CASE /\ buffer # <<>>
               /\ toClient' = Append(toClient, Head(buffer)) /\ buffer' = Tail(buffer)
      <4>1. Stream = (Append(toClient, Head(buffer)) \o Tail(buffer)) \o out
        BY <3>2, StreamIs DEF Typed
      <4> QED
        BY <2>1, <3>2, <4>1 DEF Stream
    <3> QED
      BY <2>2, <3>1, <3>2
  <2> QED
    BY <1>2, <2>1, <2>3
<1>11. CASE ReadCommand \/ ReadInput \/ FlushResult \/ Finish \/ Close \/ Overflow
  <2>1. UNCHANGED <<logged, broken, verdict, toClient, buffer, out>>
    BY <1>11 DEF ReadCommand, ReadInput, FlushResult, Finish, Close, Overflow, writing,
                 deciding, sockets
  <2> QED
    BY <1>2, <2>1 DEF Stream
<1> QED
  BY <1>5, <1>6, <1>7, <1>8, <1>9, <1>10, <1>11 DEF Handler

(* While the client reads, nothing is lost or overtaken on the way to it.  *)
LEMMA UnderwayStep ==
  ASSUME Typed, Typed', Unread, Placed, Underway, Reads, Reads', [Next]_vars
  PROVE  Underway'
<1>1. CASE Handler
  BY <1>1, UnderwayWrites
<1>2. CASE ReadLine \/ ReadData
  BY <1>2, UnderwayReads
<1>3. CASE \/ SendCommand \/ SendInput \/ ReadEOF
           \/ UNCHANGED vars \/ Over \/ ClientDies \/ DaemonDies
  <2>1. /\ UNCHANGED <<toClient, buffer, out, verdict, logged, broken, printed, missing,
                       data>>
        /\ client' = client \/ (client # "data" /\ client' # "data")
    BY <1>3, OthersLeave
       DEF SendCommand, SendInput, ReadEOF, Exit, Reads, sockets, writing, deciding, request
  <2>2. Stream' = Stream /\ Rest' = Rest /\ Sure' = Sure /\ Trusted' = Trusted
    BY <2>1 DEF Stream, Rest, Sure, Trusted
  <2> QED
    BY <2>1, <2>2 DEF Underway
<1> QED
  BY <1>1, <1>2, <1>3 DEF Next, Client

-----------------------------------------------------------------------------
(* What the client prints and reports                                      *)

(* The handler's verdict stands, and nothing is logged after it.           *)
LEMMA VerdictStands ==
  ASSUME Typed, Deciding, [Next]_vars
  PROVE  /\ verdict # None => UNCHANGED <<verdict, logged, broken>>
         /\ logged' \in Nat /\ logged' >= logged
         /\ broken' = broken \/ (broken = 0 /\ broken' > logged)
         /\ handler = "dead" => handler' = "dead"
<1>0. logged \in Nat
  BY DEF Typed, Counts
<1>1. CASE UNCHANGED vars \/ Over \/ ClientDies \/ DaemonDies
  BY <1>0, <1>1, OthersLeave
<1>2. CASE Client
  BY <1>0, <1>2, ClientLeaves
<1>3. CASE Start \/ ParseArgs \/ CheckInput \/ RuleLogs
  <2>1. handler # "dead" /\ verdict = None
    BY <1>3 DEF Start, ParseArgs, CheckInput, RuleLogs, Deciding
  <2>2. \/ UNCHANGED <<logged, broken>>
        \/ \E rest : Write(rest)
    BY <1>3 DEF Start, ParseArgs, CheckInput, RuleLogs, PutLog
  <2>3. \/ UNCHANGED <<logged, broken>>
        \/ /\ logged' = logged + 1
           /\ broken' = broken \/ (broken = 0 /\ broken' = logged + 1)
    BY <2>2 DEF Write
  <2> QED
    BY <1>0, <2>1, <2>3
<1>4. CASE \/ ReadCommand \/ ReadInput \/ PutResult \/ FlushResult \/ Finish \/ Close
           \/ Overflow \/ Flush
  <2>1. UNCHANGED <<verdict, logged, broken>> /\ handler # "dead"
    BY <1>4 DEF ReadCommand, ReadInput, PutResult, FlushResult, Finish, Close, Overflow,
                Flush, HandlerGone, writing, deciding
  <2> QED
    BY <1>0, <2>1
<1>5. CASE RulesReturn
  <2>1. handler = "eval" /\ verdict = None /\ UNCHANGED <<logged, broken>>
    BY <1>5 DEF RulesReturn, Deciding
  <2> QED
    BY <1>0, <2>1
<1> QED
  BY <1>1, <1>2, <1>3, <1>4, <1>5 DEF Next, Handler

(* A connection that ends too early is reported only if the daemon died,   *)
(* or after the first line of a message with a newline in it.              *)
LEMMA EndsEarly ==
  ASSUME Typed, Placed, Reads, Underway, Announced,
         \/ SendCommand /\ client' = "exited"
         \/ SendInput /\ client' = "exited"
         \/ ReadEOF
  PROVE  /\ handler = "dead" \/ ~ Trusted
         /\ outcome' = "i/o error" /\ UNCHANGED <<printed, logged>>
<1>1. UNCHANGED <<printed, logged>> /\ outcome' = "i/o error" /\ HandlerGone
  BY DEF SendCommand, SendInput, ReadEOF, Exit, writing
<1>2. CASE SendCommand
  BY <1>1, <1>2 DEF SendCommand, Announced, HandlerGone
<1>3. CASE SendInput /\ client' = "exited"
  <2>1. client = "input" /\ unsent > 0
    BY <1>3 DEF SendInput, Exit
  <2>2. /\ size \in Nat /\ unsent \in Nat /\ received \in Nat /\ Len(toDaemon) \in Nat
    BY SizesAssumption DEF Typed, Counts, Queues
  <2>3. ASSUME handler = "closed" PROVE FALSE
    <3>1. received = size /\ Len(toDaemon) + unsent + received = size + 0
      BY <2>3 DEF Announced
    <3> QED
      BY <2>1, <2>2, <3>1
  <2> QED
    BY <1>1, <2>3 DEF HandlerGone
<1>4. CASE ReadEOF
  <2>1. client = "result" \/ (client = "data" /\ missing > 0)
    BY <1>4 DEF ReadEOF
  <2>2. ASSUME handler = "closed", Trusted PROVE FALSE
    <3>1. toClient = <<>> /\ buffer = <<>> /\ out = <<>> /\ verdict # None
      BY <1>4, <2>2 DEF ReadEOF, Placed, Sending
    <3>2. Len(Stream) = 0
      BY <3>1, StreamIs DEF Typed
    <3>3. broken = 0 /\ Len(Rest) = 0
      <4>1. /\ Len(printed) \in Nat /\ Len(Rest) \in Nat /\ logged \in Nat /\ broken \in Nat
        BY RestIs, LenProperties DEF Typed, Queues, Counts
      <4>2. /\ Ahead(Stream, Len(printed), Sure) /\ Sure \in Nat
            /\ broken = 0 => Ends(Stream, Rest, Len(printed), logged)
        BY <2>2, <4>1 DEF Underway, Sure
      <4>3. Len(printed) = Sure
        BY <3>2, <4>1, <4>2 DEF Ahead
      <4>4. broken = 0 /\ Len(printed) = logged
        BY <2>2, <4>1, <4>3 DEF Trusted, Sure
      <4> QED
        BY <3>2, <4>1, <4>2, <4>4 DEF Ends
    <3>4. CASE client = "data"
      <4>1. Len(Rest) = missing /\ missing > 0
        BY <2>1, <3>1, <3>4, RestIs
      <4> QED
        BY <3>3, <4>1
    <3>5. CASE client # "data"
      <4>1. verdict \in Verdicts /\ Rest = result(verdict)
        BY <3>1, <3>5, RestIs
      <4>2. Len(result(verdict)) = IF verdict = "match" THEN 1 + DataSize ELSE 1
        BY <4>1, ResultIs
      <4>3. 1 + DataSize >= 1 /\ 1 + DataSize \in Nat
        BY SizesAssumption
      <4>4. Len(Rest) = 1 \/ Len(Rest) = 1 + DataSize
        BY <4>1, <4>2
      <4> QED
        BY <3>3, <4>3, <4>4
    <3> QED
      BY <3>4, <3>5
  <2> QED
    BY <1>1, <2>2 DEF HandlerGone
<1> QED
  BY <1>1, <1>2, <1>3, <1>4

(* What the client reads makes it print the next message or report.        *)
LEMMA ReadLineReports ==
  ASSUME Typed, Underway, Trusted, ReadLine
  PROVE  \/ /\ printed' = Append(printed, Len(printed) + 1)
            /\ Len(printed) + 1 <= Sure /\ UNCHANGED <<client, outcome>>
         \/ UNCHANGED <<printed, outcome>>
         \/ /\ UNCHANGED printed /\ client' = "exited"
            /\ outcome' = "error" /\ verdict = "error"
            /\ broken = 0 /\ Len(printed) = logged
<1> DEFINE x == Head(toClient)
<1>1. client = "result" /\ toClient # <<>>
  BY DEF ReadLine
<1>2. CASE Len(printed) < Sure /\ x = Log(Len(printed) + 1)
  <2>1. x.type = "log" /\ x.n = Len(printed) + 1
    BY <1>2 DEF Log
  <2>2. printed' = Append(printed, Len(printed) + 1) /\ UNCHANGED <<client, outcome>>
    BY <2>1 DEF ReadLine
  <2>3. Sure \in Nat /\ Len(printed) \in Nat
    BY LenProperties DEF Typed, Counts, Queues, Sure
  <2> QED
    BY <1>2, <2>2, <2>3
<1>3. CASE /\ broken = 0 /\ Len(printed) = logged /\ verdict \in Verdicts
           /\ x = result(verdict)[1]
  <2>1. /\ x.type \in {"success", "error"}
        /\ x.type = "error" => verdict = "error"
    BY <1>3, VerdictLine
  <2>2. CASE x.type = "success"
    BY <2>2 DEF ReadLine
  <2>3. CASE x.type = "error"
    BY <1>3, <2>1, <2>3 DEF ReadLine, Exit
  <2> QED
    BY <2>1, <2>2, <2>3
<1> QED
  BY <1>1, <1>2, <1>3, LineIs

(* A client that reads data reports nothing, or a verdict whose data it    *)
(* has read to the end.                                                    *)
LEMMA ReadDataReports ==
  ASSUME Typed, Underway, Trusted, ReadData
  PROVE  /\ UNCHANGED printed
         /\ \/ UNCHANGED outcome
            \/ /\ outcome' = verdict /\ broken = 0 /\ Len(printed) = logged
               /\ outcome' \in {"match", "no match"} /\ client' = "exited"
<1>1. /\ UNCHANGED printed /\ client = "data"
      /\ broken = 0 /\ Len(printed) = logged /\ data \in {None, Data}
      /\ verdict = IF missing = 0 THEN "no match" ELSE "match"
  BY DEF ReadData, Underway
<1>2. CASE UNCHANGED outcome
  BY <1>1, <1>2
<1>3. CASE missing = 0 /\ Exit("no match")
  BY <1>1, <1>3 DEF Exit
<1>4. CASE missing = 1 /\ toClient # <<>> /\ Match(First(Head(toClient)))
  <2>1. Head(toClient) = Data
    <3>1. /\ Stream \in Seq(Item) /\ Stream # <<>> /\ Stream[1] = Head(toClient)
          /\ Rest \in Seq(Item) /\ logged \in Nat /\ Ends(Stream, Rest, logged, logged)
      BY <1>1, <1>4, StreamIs, RestIs DEF Typed, Counts, Underway
    <3>2. Stream[1] = Rest[1]
      BY <3>1, OrderReadsResult
    <3>3. verdict # None
      BY <1>1, NoneAssumption
    <3> QED
      BY <1>1, <1>4, <3>1, <3>2, <3>3, RestIs
  <2>2. First(Head(toClient)) = Data
    BY <1>1, <2>1 DEF First
  <2> QED
    BY <1>1, <1>4, <2>2 DEF Match, Exit
<1> QED
  BY <1>2, <1>3, <1>4 DEF ReadData

(* The messages the client can rely on are printed, one after the other.   *)
LEMMA PrintsNext ==
  ASSUME Typed, LogsInOrder, printed' = Append(printed, Len(printed) + 1),
         Len(printed) + 1 <= Sure, outcome' \notin Verdicts,
         UNCHANGED <<logged, broken>>
  PROVE  LogsInOrder'
<1>1. /\ printed \in Seq(Nat) /\ Len(printed) \in Nat /\ DOMAIN printed = 1..Len(printed)
      /\ logged \in Nat /\ broken \in Nat
  BY LenProperties DEF Typed, Queues, Counts
<1>2. /\ Len(printed') = Len(printed) + 1 /\ DOMAIN printed' = 1..Len(printed')
      /\ \A i \in 1..Len(printed') :
           printed'[i] = IF i <= Len(printed) THEN printed[i] ELSE Len(printed) + 1
  BY <1>1
<1>3. ASSUME NEW i \in DOMAIN printed', broken = 0 \/ i <= broken PROVE printed'[i] = i
  <2>1. CASE i <= Len(printed)
    BY <1>1, <1>2, <1>3, <2>1 DEF LogsInOrder
  <2>2. CASE i = Len(printed) + 1
    BY <1>1, <1>2, <2>2
  <2> QED
    BY <1>1, <1>2, <2>1, <2>2
<1> QED
  BY <1>1, <1>2, <1>3 DEF LogsInOrder, Sure

(* What is printed when the client can rely on nothing more, is of no      *)
(* importance.                                                             *)
LEMMA PrintsOn ==
  ASSUME Typed, Typed', LogsInOrder, ~ Trusted, UNCHANGED <<logged, broken>>,
         printed' = printed \/ \E n \in Nat : printed' = Append(printed, n)
  PROVE  LogsInOrder' /\ Len(printed') >= broken /\ broken # 0
<1>1. /\ printed \in Seq(Nat) /\ Len(printed) \in Nat /\ DOMAIN printed = 1..Len(printed)
      /\ broken \in Nat /\ broken # 0 /\ broken <= Len(printed)
  BY LenProperties DEF Typed, Queues, Counts, Trusted
<1>2. /\ Len(printed') >= Len(printed) /\ Len(printed') \in Nat
      /\ \A i \in 1..Len(printed) : i \in DOMAIN printed' /\ printed'[i] = printed[i]
  <2>1. CASE printed' = printed
    BY <1>1, <2>1
  <2>2. ASSUME NEW n \in Nat, printed' = Append(printed, n)
        PROVE  /\ Len(printed') >= Len(printed) /\ Len(printed') \in Nat
               /\ \A i \in 1..Len(printed) : i \in DOMAIN printed' /\ printed'[i] = printed[i]
    <3>1. /\ printed' \in Seq(Nat) /\ Len(printed') = Len(printed) + 1
          /\ \A i \in 1..Len(printed) : printed'[i] = printed[i]
      <4> DEFINE q == Append(printed, n)
      <4>1. /\ q \in Seq(Nat) /\ Len(q) = Len(printed) + 1
            /\ \A i \in 1..Len(printed) : q[i] = printed[i]
        BY <1>1, AppendProperties
      <4> HIDE DEF q
      <4>2. printed' = q
        BY <2>2 DEF q
      <4> QED
        BY <4>1, <4>2
    <3>2. DOMAIN printed' = 1..Len(printed) + 1
      BY <3>1, LenProperties
    <3> QED
      BY <1>1, <3>1, <3>2
  <2> QED
    BY <2>1, <2>2
<1>3. ASSUME NEW i \in DOMAIN printed', i <= broken PROVE printed'[i] = i
  <2>1. i \in 1..Len(printed')
    BY LenProperties DEF Typed, Queues
  <2>2. i \in 1..Len(printed)
    BY <1>1, <1>2, <1>3, <2>1
  <2> QED
    BY <1>1, <1>2, <1>3, <2>2 DEF LogsInOrder
<1> QED
  BY <1>1, <1>2, <1>3 DEF LogsInOrder

(* Every report of the client is that of the handler, and every step       *)
(* keeps it so.                                                            *)
LEMMA ReportedStep ==
  ASSUME Typed, Typed', Placed, Reported, Reads => Underway /\ Announced, [Next]_vars
  PROVE  Reported'
<1>1. /\ verdict # None => UNCHANGED <<verdict, logged, broken>>
      /\ logged' \in Nat /\ logged' >= logged /\ logged \in Nat /\ broken \in Nat
      /\ broken' = broken \/ (broken = 0 /\ broken' > logged)
      /\ handler = "dead" => handler' = "dead"
      /\ printed \in Seq(Nat) /\ Len(printed) \in Nat /\ DOMAIN printed = 1..Len(printed)
      /\ broken' \in Nat
  BY VerdictStands, LenProperties DEF Placed, Typed, Counts, Queues
<1>2. LogsInOrder /\ ReportsVerdict /\ (outcome # None => client = "exited")
  BY DEF Reported, Printed
<1>3. ASSUME UNCHANGED <<printed, outcome>>, client = "exited" => client' = "exited"
      PROVE  Reported'
  <2>1. outcome \in Verdicts /\ broken = 0 => UNCHANGED <<verdict, logged, broken>>
    BY <1>1 DEF Reported, Printed
  <2>2. LogsInOrder'
    <3>1. ASSUME NEW i \in DOMAIN printed', broken' = 0 \/ i <= broken' PROVE printed'[i] = i
      BY <1>1, <1>2, <1>3, <3>1 DEF LogsInOrder
    <3>2. broken' = 0 => Len(printed') <= logged'
      BY <1>1, <1>2, <1>3 DEF LogsInOrder
    <3>3. ASSUME outcome' \in Verdicts
          PROVE  Len(printed') >= IF broken' = 0 THEN logged' ELSE broken'
      BY <1>1, <1>2, <1>3, <2>1, <3>3 DEF LogsInOrder
    <3> QED
      BY <3>1, <3>2, <3>3 DEF LogsInOrder
  <2>3. outcome' \in Verdicts /\ broken' = 0 => verdict' # None
    BY <1>1, <1>3, <2>1 DEF Reported, Printed
  <2>4. ReportsVerdict'
    BY <1>1, <1>2, <1>3 DEF ReportsVerdict
  <2> QED
    BY <1>2, <1>3, <2>2, <2>3, <2>4 DEF Reported, Printed
<1>4. ASSUME Client, UNCHANGED printed, client' = "exited",
             \/ outcome' = "i/o error" /\ handler = "dead"
             \/ /\ outcome' = verdict /\ verdict \in Verdicts
                /\ broken = 0 /\ Len(printed) = logged
      PROVE  Reported'
  <2>1. UNCHANGED <<verdict, logged, broken, handler>>
    BY <1>4, ClientLeaves
  <2>2. Printed'
    BY <1>2, <1>4, <2>1, NoneAssumption DEF Printed, LogsInOrder, Verdicts
  <2>3. ReportsVerdict'
    BY <1>4, <2>1 DEF ReportsVerdict
  <2> QED
    BY <1>4, <2>2, <2>3 DEF Reported
<1>5. ASSUME Client, ~ Trusted, outcome' # None => client' = "exited",
             printed' = printed \/ \E n \in Nat : printed' = Append(printed, n)
      PROVE  Reported'
  <2>1. UNCHANGED <<logged, broken>>
    BY <1>5, ClientLeaves
  <2>2. LogsInOrder' /\ Len(printed') >= broken' /\ broken' # 0
    BY <1>2, <1>5, <2>1, PrintsOn
  <2> QED
    BY <1>5, <2>2 DEF Reported, Printed, ReportsVerdict
<1>6. CASE Handler
  BY <1>3, <1>6, HandlerLeaves
<1>7. CASE UNCHANGED vars \/ Over \/ ClientDies \/ DaemonDies
  <2>1. client = "exited" => client' = "exited"
    BY <1>7 DEF vars, clientState, Over, ClientDies, ClientGone, DaemonDies
  <2> QED
    BY <1>3, <1>7, <2>1, OthersLeave
<1>8. CASE SendCommand \/ SendInput \/ ReadEOF
  <2>1. Reads /\ Client /\ client # "exited" /\ UNCHANGED printed
    BY <1>8 DEF SendCommand, SendInput, ReadEOF, Reads, Client
  <2>2. CASE UNCHANGED outcome
    BY <1>3, <2>1, <2>2
  <2>3. CASE client' = "exited" /\ outcome' = "i/o error"
    <3>1. handler = "dead" \/ ~ Trusted
      BY <1>8, <2>1, <2>3, EndsEarly
    <3> QED
      BY <1>4, <1>5, <2>1, <2>3, <3>1
  <2> QED
    BY <1>8, <2>2, <2>3 DEF SendCommand, SendInput, ReadEOF, Exit
<1>9. CASE ReadLine
  <2>1. Reads /\ Client /\ client # "exited" /\ outcome = None
    BY <1>2, <1>9 DEF ReadLine, Reads, Client
  <2>2. CASE ~ Trusted
    <3>1. outcome' # None => client' = "exited"
      BY <1>9, <2>1 DEF ReadLine, Exit
    <3>2. printed' = printed \/ \E n \in Nat : printed' = Append(printed, n)
      <4>1. Head(toClient) \in Item
        BY <1>9, HeadIs DEF ReadLine, Typed
      <4> QED
        BY <1>9, <4>1, ItemIs DEF ReadLine
    <3> QED
      BY <1>5, <2>1, <2>2, <3>1, <3>2
  <2>3. CASE /\ printed' = Append(printed, Len(printed) + 1)
             /\ Len(printed) + 1 <= Sure /\ UNCHANGED <<client, outcome>>
    <3>1. UNCHANGED <<logged, broken>> /\ outcome' = None /\ None \notin Verdicts
      BY <2>1, <2>3, ClientLeaves, NoneAssumption DEF Verdicts
    <3>2. LogsInOrder'
      BY <1>2, <2>3, <3>1, PrintsNext
    <3> QED
      BY <3>1, <3>2 DEF Reported, Printed, ReportsVerdict
  <2>4. CASE UNCHANGED <<printed, outcome>>
    BY <1>3, <2>1, <2>4
  <2>5. CASE /\ UNCHANGED printed /\ client' = "exited"
             /\ outcome' = "error" /\ verdict = "error"
             /\ broken = 0 /\ Len(printed) = logged
    BY <1>4, <2>1, <2>5 DEF Verdicts
  <2> QED
    BY <1>9, <2>1, <2>2, <2>3, <2>4, <2>5, ReadLineReports
<1>10. CASE ReadData
  <2>1. Reads /\ Client /\ client # "exited" /\ UNCHANGED printed /\ outcome = None
    BY <1>2, <1>10 DEF ReadData, Reads, Client
  <2>2. CASE ~ Trusted
    <3>1. outcome' # None => client' = "exited"
      BY <1>10, <2>1 DEF ReadData, Exit, Match
    <3> QED
      BY <1>5, <2>1, <2>2, <3>1
  <2>3. CASE UNCHANGED outcome
    BY <1>3, <2>1, <2>3
  <2>4. CASE /\ outcome' = verdict /\ broken = 0 /\ Len(printed) = logged
             /\ outcome' \in {"match", "no match"} /\ client' = "exited"
    BY <1>4, <2>1, <2>4 DEF Verdicts
  <2> QED
    BY <1>10, <2>1, <2>2, <2>3, <2>4, ReadDataReports
<1> QED
  BY <1>6, <1>7, <1>8, <1>9, <1>10 DEF Next, Client

(* Every step keeps the invariant.                                         *)
LEMMA InvStep ==
  ASSUME SessionInv, [Next]_vars
  PROVE  SessionInv'
<1>1. Typed' /\ Unread'
  BY TypedStep, UnreadStep DEF SessionInv
<1>2. Placed'
  BY PlacedStep DEF SessionInv, Typed
<1>3. Reported'
  BY <1>1, ReportedStep DEF SessionInv
<1>4. ASSUME Reads' PROVE Underway' /\ Announced'
  BY <1>1, <1>4, ReadsOn, UnderwayStep, AnnouncedStep DEF SessionInv
<1> QED
  BY <1>1, <1>2, <1>3, <1>4 DEF SessionInv

(* The invariant holds before the first byte is sent.                      *)
LEMMA InvInit == Init => SessionInv
<1> SUFFICES ASSUME Init PROVE SessionInv
  OBVIOUS
<1>1. Typed
  <2>1. Places /\ Flags
    BY DEF Init, Places, Flags
  <2>2. Counts
    BY SizesAssumption DEF Init, Counts
  <2>3. Queues /\ Bounds
    BY SizesAssumption DEF Init, Queues, Bounds
  <2> QED
    BY <2>1, <2>2, <2>3 DEF Typed
<1>2. Placed
  BY DEF Init, Placed, Deciding, Sending
<1>3. Reported
  <2>1. printed = <<>> /\ Len(<<>>) = 0 /\ DOMAIN <<>> = {} /\ logged = 0 /\ broken = 0
    BY DEF Init
  <2>2. outcome = None /\ None \notin Verdicts
    BY NoneAssumption DEF Init, Verdicts
  <2> QED
    BY <2>1, <2>2 DEF Reported, Printed, ReportsVerdict, LogsInOrder
<1>4. Underway /\ Unread
  <2>1. Rest = <<>> /\ Len(<<>>) = 0 /\ Len(printed) = 0 /\ logged = 0 /\ Sure = 0
    BY DEF Init, Rest, Sure
  <2>2. Stream \in Seq(Item) /\ Len(Stream) = 0
    BY <1>1, StreamIs DEF Init, Typed
  <2>3. Ahead(Stream, 0, 0) /\ Ends(Stream, <<>>, 0, 0)
    BY <2>1, <2>2 DEF Ahead, Ends
  <2> QED
    BY <2>1, <2>3 DEF Init, Underway, Unread
<1>5. Announced
  BY <1>1, SizesAssumption DEF Init, Announced, Typed, Counts
<1> QED
  BY <1>1, <1>2, <1>3, <1>4, <1>5 DEF SessionInv

(* Every variable of the session keeps its type, and no queue grows beyond *)
(* its bound.                                                              *)
THEOREM SessionTyped == Spec => []TypeOK
<1>1. SessionInv => TypeOK
  BY DEF SessionInv, Typed, Places, Flags, Counts, Bounds, TypeOK
<1> QED
  BY <1>1, InvInit, InvStep, PTL DEF Spec

(* The client reports the handler's verdict, and anything else only for a  *)
(* daemon that died or after the first line of a message with a newline.   *)
THEOREM VerdictReported == Spec => []ReportsVerdict
<1>1. SessionInv => ReportsVerdict
  BY DEF SessionInv, Reported
<1> QED
  BY <1>1, InvInit, InvStep, PTL DEF Spec

(* Messages are printed in the order they were logged in and none is left  *)
(* out, up to the first line of one with a newline in it, or, if there is  *)
(* none, all of them before a verdict is reported.                         *)
THEOREM LogsOrdered == Spec => []LogsInOrder
<1>1. SessionInv => LogsInOrder
  BY DEF SessionInv, Reported, Printed
<1> QED
  BY <1>1, InvInit, InvStep, PTL DEF Spec

-----------------------------------------------------------------------------
(* What the rules see                                                      *)

Decided == {"reply", "flush", "close", "closed", "dead"}

(* What the handler knows of the input when it is somewhere: a group that  *)
(* does not exist and an end of the connection are remembered in failed.   *)
Remembered ==
  /\ handler = "input" /\ ~ failed => known
  /\ handler = "read" /\ ~ failed => known /\ received = size
  /\ handler = "eval" => known /\ received = size

InputInv ==
  /\ Remembered /\ RulesSeeAllInput
  /\ verdict # None => handler \in Decided

(* No step breaks InputInv.                                                *)
LEMMA InputStep ==
  ASSUME InputInv, [Next]_vars
  PROVE  InputInv'
<1> USE NoneAssumption DEF InputInv, Remembered, RulesSeeAllInput, Decided
<1>1. CASE UNCHANGED vars \/ Over
  BY <1>1 DEF Over, vars, request, deciding
<1>2. CASE Client
  <2>1. UNCHANGED <<request, handler, deciding>>
    BY <1>2 DEF Client, SendCommand, SendInput, ReadLine, ReadData, ReadEOF
  <2> QED
    BY <2>1 DEF request, deciding
<1>3. CASE RuleLogs \/ Overflow \/ Flush
  BY <1>3 DEF RuleLogs, Overflow, Flush, request, deciding
<1>4. CASE ReadCommand \/ Start
  BY <1>4 DEF ReadCommand, Start, request, deciding
<1>5. CASE ParseArgs
  <2>1. handler = "args" /\ handler' = "input" /\ verdict' = verdict
    BY <1>5 DEF ParseArgs
  <2>2. failed' = ~ known /\ known' = known
    BY <1>5 DEF ParseArgs, request
  <2>3. ~ failed' => known'
    BY <2>2, Zenon
  <2>4. Remembered'
    BY <2>1, <2>3
  <2>5. verdict' = None
    BY <2>1
  <2> QED
    BY <2>1, <2>4, <2>5
<1>6. CASE ReadInput
  <2>1. /\ handler = "input" /\ verdict' = verdict
        /\ size' = size /\ known' = known
    BY <1>6 DEF ReadInput, request
  <2>2. verdict = None
    BY <2>1
  <2>3. \/ handler' = "input" /\ failed' = failed
        \/ handler' = "read" /\ received' = size /\ failed' = failed
        \/ handler' = "read" /\ failed' = TRUE
    BY <1>6, <2>1 DEF ReadInput
  <2>4. (failed' = failed => (~ failed' => known')) /\ (failed' = TRUE => (~ failed' => known'))
    BY <2>1, Zenon
  <2>5. Remembered'
    BY <2>1, <2>3, <2>4
  <2> QED
    BY <2>1, <2>2, <2>5
<1>7. CASE CheckInput
  BY <1>7 DEF CheckInput, Decide, request
<1>8. CASE RulesReturn
  BY <1>8 DEF RulesReturn, Decide, request
<1>9. CASE PutResult \/ FlushResult \/ Finish \/ Close
  BY <1>9 DEF PutResult, FlushResult, Finish, Close, request, deciding
<1>10. CASE ClientDies \/ DaemonDies
  BY <1>10 DEF ClientDies, DaemonDies, request, deciding
<1> QED
  BY <1>1, <1>2, <1>3, <1>4, <1>5, <1>6, <1>7, <1>8, <1>9, <1>10 DEF Next, Handler

(* Whoever dies, and whenever, rules are run only for a group that exists  *)
(* and on all of the input that the command announced.                     *)
THEOREM WholeInput == Spec => []RulesSeeAllInput
<1>1. Init => InputInv
  BY NoneAssumption DEF Init, InputInv, Remembered, RulesSeeAllInput, Decided
<1>2. InputInv /\ [Next]_vars => InputInv'
  BY InputStep
<1>3. InputInv => RulesSeeAllInput
  BY DEF InputInv
<1> QED
  BY <1>1, <1>2, <1>3, PTL DEF Spec
=============================================================================
