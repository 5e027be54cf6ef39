----------------------------- MODULE Lifecycle -----------------------------
(***************************************************************************)
(* The life of a reeed process: runDaemon (cmd/reeed/main.go), the accept  *)
(* loop and the shutdown of daemon.Daemon (Serve, Stop, init, handle of    *)
(* daemon/daemon.go), and the clean-up of the Unix domain socket           *)
(* (cmd/reeed/main_linux.go).                                              *)
(*                                                                         *)
(* Three kinds of goroutines run side by side: main, the one in Serve, and *)
(* a handler for each connection.  They share the listener, the counter    *)
(* numConns, the signal context and fatalErr, and no lock.  What a handler *)
(* does with its command is the business of module EvalDaemon.             *)
(*                                                                         *)
(* Definitions headed "Slip:" are plausible mistakes in the definition     *)
(* that follows; they test the properties and are not part of the          *)
(* specification.                                                          *)
(***************************************************************************)
EXTENDS Integers, FiniteSets

CONSTANTS
  Conns,           (* connections clients may open                         *)
  MinDelay,        (* first delay after a failed Accept, 5 ms in the code  *)
  MaxDelay,        (* longest such delay, 1 s in the code                  *)
  MaxAcceptErrors, (* bound: temporary Accept errors in a row              *)
  None

ASSUME DelayAssumption ==
  /\ MinDelay \in Nat \ {0}
  /\ MaxDelay \in Nat
  /\ MinDelay <= MaxDelay
  /\ MaxAcceptErrors \in Nat

ASSUME ConnsAssumption == IsFiniteSet(Conns)

(* What Serve, Stop and runDaemon may return.                              *)
Errors == {"startup error", "accept error", "net.ErrClosed", "ErrStopped",
           "deadline exceeded", "panic"}

ASSUME NoneAssumption == None \notin Errors \cup {"nil", "us", "another"}

VARIABLES
  main,      (* where runDaemon is                                         *)
  serve,     (* where the goroutine of Serve is                            *)
  conn,      (* how far each connection has come                           *)
  numConns,  (* Daemon.numConns                                            *)
  tempDelay, (* Serve's delay after temporary Accept errors                *)
  failures,  (* history: temporary Accept errors since the last connection *)
  listener,  (* "none", "open" or "closed"                                 *)
  cancelled, (* d.ctx is done: d.cancel has been called                    *)
  serveErr,  (* what Serve returned                                        *)
  fatalErr,  (* the atomic.Value main reads                                *)
  signalled, (* a terminating signal was received                          *)
  stopped,   (* stop() was called: the signal context ends without one     *)
  deadline,  (* the 200 ms Stop may take are over                          *)
  store,     (* the message store: "none", "open" or "closed"              *)
  socket,    (* who made the socket file at the address: None, us, another *)
  exit       (* what runDaemon returns                                     *)

accepting == <<serve, conn, numConns, tempDelay, failures, serveErr>>
stopping  == <<cancelled, deadline>>
flags     == <<fatalErr, signalled, stopped>>
files     == <<store, socket>>
vars      == <<main, accepting, listener, stopping, flags, files, exit>>

Running == main # "exited"

(* The signal context is done.                                             *)
Done == signalled \/ stopped

(* Connections the counter should count.                                   *)
Counted == {c \in Conns : conn[c] \in {"counted", "running", "closed"}}

(* Connections the daemon has accepted and not closed.                     *)
Open == {c \in Conns : conn[c] \in {"accepted", "counted", "running"}}

-----------------------------------------------------------------------------
(* runDaemon: start-up                                                     *)

Init ==
  /\ main = "load" /\ serve = "none"
  /\ conn = [c \in Conns |-> "new"] /\ numConns = 0
  /\ tempDelay = 0 /\ failures = 0
  /\ listener = "none" /\ cancelled = FALSE
  /\ serveErr = None /\ fatalErr = None
  /\ signalled = FALSE /\ stopped = FALSE /\ deadline = FALSE
  /\ store = "none" /\ socket = None
  /\ exit = None

(* runDaemon returns r; its deferred calls are next.                       *)
Return(r, next) == main' = next /\ exit' = r

LoadRules ==
  /\ main = "load"
  /\ \/ main' = "open" /\ UNCHANGED exit
     \/ Return("startup error", "exited")
  /\ UNCHANGED <<accepting, listener, stopping, flags, files>>

(* A null store, or a database: to open one fails once the context is done.*)
OpenStore ==
  /\ main = "open"
  /\ \/ main' = "listen" /\ UNCHANGED <<store, exit>>
     \/ ~ Done /\ main' = "listen" /\ store' = "open" /\ UNCHANGED exit
     \/ Return("startup error", "exited") /\ UNCHANGED store
  /\ UNCHANGED <<accepting, listener, stopping, flags, socket>>

(* To bind a Unix domain socket makes a file, which must not be there.     *)
Listen ==
  /\ main = "listen"
  /\ \/ /\ socket = None
        /\ listener' = "open" /\ socket' = "us" /\ main' = "check"
        /\ UNCHANGED exit
     \/ Return("startup error", "close store") /\ UNCHANGED <<listener, socket>>
  /\ UNCHANGED <<accepting, stopping, flags, store>>

(* To close the listener removes its socket file and resets the            *)
(* connections nobody accepted.                                            *)
CloseListener ==
  /\ listener' = "closed"
  /\ socket' = IF listener = "open" THEN None ELSE socket
  /\ conn' = [c \in Conns |-> IF conn[c] = "queued" THEN "refused" ELSE conn[c]]

(* A signal during start-up ends the program; otherwise Serve is started.  *)
StartServe ==
  /\ main = "check"
  /\ \/ Done /\ CloseListener /\ Return("nil", "close store") /\ UNCHANGED serve
     \/ /\ ~ Done /\ serve' = "init" /\ main' = "wait"
        /\ UNCHANGED <<listener, socket, conn, exit>>
  /\ UNCHANGED <<numConns, tempDelay, failures, serveErr, stopping, flags,
                 store>>

-----------------------------------------------------------------------------
(* runDaemon: shutdown                                                     *)

(* The signal context is done; a fatal error of Serve is returned.         *)
WaitSignal ==
  /\ main = "wait"
  /\ Done
  /\ IF fatalErr # None THEN Return(fatalErr, "clean up")
     ELSE main' = "cancel" /\ UNCHANGED exit
  /\ UNCHANGED <<accepting, listener, stopping, flags, files>>

(* Stop calls d.cancel, which is nil until Serve has called init.          *)
StopCancel ==
  /\ main = "cancel"
  /\ IF serve = "init" THEN Return("panic", "clean up") /\ UNCHANGED cancelled
     ELSE main' = "close" /\ cancelled' = TRUE /\ UNCHANGED exit
  /\ UNCHANGED <<accepting, listener, deadline, flags, files>>

StopClose ==
  /\ main = "close"
  /\ CloseListener
  /\ main' = "poll"
  /\ UNCHANGED <<serve, numConns, tempDelay, failures, serveErr, stopping,
                 flags, store, exit>>

Deadline ==
  /\ main \in {"cancel", "close", "poll"}
  /\ deadline' = TRUE
  /\ UNCHANGED <<main, accepting, listener, cancelled, flags, files, exit>>

(* Slip: Stop waits for the connections whatever time it takes.            *)
StopPollForEver ==
  /\ main = "poll"
  /\ numConns = 0
  /\ Return("nil", "clean up")
  /\ UNCHANGED <<accepting, listener, stopping, flags, files>>

(* Stop polls the counter until it is zero or the deadline has passed.     *)
StopPoll ==
  /\ main = "poll"
  /\ \/ numConns <= 0 /\ Return("nil", "clean up")
     \/ numConns > 0 /\ deadline /\ Return("deadline exceeded", "clean up")
  /\ UNCHANGED <<accepting, listener, stopping, flags, files>>

(* Deferred: cleanupSocket removes whatever file is at the address.        *)
CleanupSocket ==
  /\ main = "clean up"
  /\ socket' = None
  /\ main' = "close store"
  /\ UNCHANGED <<accepting, listener, stopping, flags, store, exit>>

(* Deferred: close the database, if there is one.  The process is gone     *)
(* with its last deferred call.                                            *)
CloseStore ==
  /\ main = "close store"
  /\ store' = IF store = "open" THEN "closed" ELSE store
  /\ main' = "exited"
  /\ UNCHANGED <<accepting, listener, stopping, flags, socket, exit>>

Main == \/ LoadRules \/ OpenStore \/ Listen \/ StartServe
        \/ WaitSignal \/ StopCancel \/ StopClose \/ StopPoll
        \/ CleanupSocket \/ CloseStore

-----------------------------------------------------------------------------
(* Serve                                                                   *)

ServeInit ==
  /\ Running
  /\ serve = "init"
  /\ serve' = "accept"
  /\ UNCHANGED <<main, conn, numConns, tempDelay, failures, serveErr, listener,
                 stopping, flags, files, exit>>

Accept(c) ==
  /\ Running
  /\ serve = "accept"
  /\ listener = "open"
  /\ conn[c] = "queued"
  /\ serve' = "count"
  /\ conn' = [conn EXCEPT ![c] = "accepted"]
  /\ UNCHANGED <<main, numConns, tempDelay, failures, serveErr, listener,
                 stopping, flags, files, exit>>

(* Slip: counting is left to the handler, which has not got round to it.   *)
CountLater(c) ==
  /\ Running
  /\ serve = "count"
  /\ conn[c] = "accepted"
  /\ serve' = "accept"
  /\ UNCHANGED <<main, conn, numConns, tempDelay, failures, serveErr, listener,
                 stopping, flags, files, exit>>

Count(c) ==
  /\ Running
  /\ serve = "count"
  /\ conn[c] = "accepted"
  /\ numConns' = numConns + 1
  /\ serve' = "spawn"
  /\ conn' = [conn EXCEPT ![c] = "counted"]
  /\ UNCHANGED <<main, tempDelay, failures, serveErr, listener, stopping,
                 flags, files, exit>>

(* Slip: the delay is not reset.                                           *)
SpawnKeepingDelay(c) ==
  /\ Running
  /\ serve = "spawn"
  /\ conn[c] = "counted"
  /\ failures' = 0
  /\ serve' = "accept"
  /\ conn' = [conn EXCEPT ![c] = "running"]
  /\ UNCHANGED <<main, numConns, tempDelay, serveErr, listener, stopping,
                 flags, files, exit>>

Spawn(c) ==
  /\ Running
  /\ serve = "spawn"
  /\ conn[c] = "counted"
  /\ tempDelay' = 0
  /\ failures' = 0
  /\ serve' = "accept"
  /\ conn' = [conn EXCEPT ![c] = "running"]
  /\ UNCHANGED <<main, numConns, serveErr, listener, stopping, flags, files,
                 exit>>

ServeReturns(e) == serve' = "close" /\ serveErr' = e

(* Slip: the delay is not capped.                                          *)
AcceptRetryUncapped ==
  /\ Running
  /\ serve = "accept"
  /\ listener = "open"
  /\ failures < MaxAcceptErrors
  /\ failures' = failures + 1
  /\ tempDelay' = IF tempDelay = 0 THEN MinDelay ELSE 2 * tempDelay
  /\ serve' = "backoff"
  /\ UNCHANGED <<main, conn, numConns, serveErr, listener, stopping, flags,
                 files, exit>>

(* A temporary error: wait, twice as long as the time before.              *)
AcceptRetry ==
  /\ Running
  /\ serve = "accept"
  /\ listener = "open"
  /\ failures < MaxAcceptErrors
  /\ failures' = failures + 1
  /\ LET doubled == IF tempDelay = 0 THEN MinDelay ELSE 2 * tempDelay
     IN tempDelay' = IF doubled > MaxDelay THEN MaxDelay ELSE doubled
  /\ serve' = "backoff"
  /\ UNCHANGED <<main, conn, numConns, serveErr, listener, stopping, flags,
                 files, exit>>

(* Any other error, that of a closed listener included, ends Serve.        *)
AcceptFails ==
  /\ Running
  /\ serve = "accept"
  /\ ServeReturns(IF listener = "closed" THEN "net.ErrClosed"
                  ELSE "accept error")
  /\ UNCHANGED <<main, conn, numConns, tempDelay, failures, listener, stopping,
                 flags, files, exit>>

Backoff ==
  /\ Running
  /\ serve = "backoff"
  /\ \/ serve' = "accept" /\ UNCHANGED serveErr
     \/ cancelled /\ ServeReturns("ErrStopped")
  /\ UNCHANGED <<main, conn, numConns, tempDelay, failures, listener, stopping,
                 flags, files, exit>>

(* Slip: Serve does not close the listener when it returns.                *)
ServeLeavesListener ==
  /\ Running
  /\ serve = "close"
  /\ serve' = "report"
  /\ UNCHANGED <<main, conn, numConns, tempDelay, failures, serveErr, listener,
                 stopping, flags, files, exit>>

(* Deferred by Serve: close the listener, if Stop has not done so.         *)
ServeClose ==
  /\ Running
  /\ serve = "close"
  /\ IF listener = "open" THEN CloseListener
     ELSE UNCHANGED <<listener, socket, conn>>
  /\ serve' = "report"
  /\ UNCHANGED <<main, numConns, tempDelay, failures, serveErr, stopping, flags,
                 store, exit>>

(* Slip: the signal context is ended before the error is stored.           *)
ServeReportLate ==
  /\ Running
  /\ \/ /\ serve = "report"
        /\ stopped' = TRUE /\ serve' = "stop" /\ UNCHANGED fatalErr
     \/ /\ serve = "stop"
        /\ fatalErr' = serveErr /\ serve' = "gone" /\ UNCHANGED stopped
  /\ UNCHANGED <<main, conn, numConns, tempDelay, failures, serveErr, listener,
                 stopping, signalled, files, exit>>

(* The goroutine main started stores what Serve returned, ErrStopped too   *)
(* (it tests another variable), and then ends the signal context.          *)
ServeReport ==
  /\ Running
  /\ \/ /\ serve = "report"
        /\ fatalErr' = serveErr /\ serve' = "stop" /\ UNCHANGED stopped
     \/ /\ serve = "stop"
        /\ stopped' = TRUE /\ serve' = "gone" /\ UNCHANGED fatalErr
  /\ UNCHANGED <<main, conn, numConns, tempDelay, failures, serveErr, listener,
                 stopping, signalled, files, exit>>

Serve == \/ ServeInit \/ AcceptRetry \/ AcceptFails \/ Backoff
         \/ ServeClose \/ ServeReport
         \/ \E c \in Conns : Accept(c) \/ Count(c) \/ Spawn(c)

-----------------------------------------------------------------------------
(* Handlers: the deferred end of handle.  A handler may run for ever.      *)

HandlerCloses(c) ==
  /\ Running
  /\ conn[c] = "running"
  /\ conn' = [conn EXCEPT ![c] = "closed"]
  /\ UNCHANGED <<main, serve, numConns, tempDelay, failures, serveErr, listener,
                 stopping, flags, files, exit>>

HandlerUncounts(c) ==
  /\ Running
  /\ conn[c] = "closed"
  /\ numConns' = numConns - 1
  /\ conn' = [conn EXCEPT ![c] = "done"]
  /\ UNCHANGED <<main, serve, tempDelay, failures, serveErr, listener, stopping,
                 flags, files, exit>>

-----------------------------------------------------------------------------
(* The environment                                                         *)

Connect(c) ==
  /\ Running
  /\ listener = "open"
  /\ conn[c] = "new"
  /\ conn' = [conn EXCEPT ![c] = "queued"]
  /\ UNCHANGED <<main, serve, numConns, tempDelay, failures, serveErr, listener,
                 stopping, flags, files, exit>>

Signal ==
  /\ Running
  /\ signalled' = TRUE
  /\ UNCHANGED <<main, accepting, listener, stopping, fatalErr, stopped, files,
                 exit>>

(* Another daemon binds the address while its file is not there.           *)
AnotherBinds ==
  /\ Running
  /\ socket = None
  /\ socket' = "another"
  /\ UNCHANGED <<main, accepting, listener, stopping, flags, store,
                 exit>>

Next == \/ Main \/ Deadline \/ Serve
        \/ \E c \in Conns : HandlerCloses(c) \/ HandlerUncounts(c) \/ Connect(c)
        \/ Signal \/ AnotherBinds

Spec == Init /\ [][Next]_vars

(* Goroutines are scheduled and timers fire.  A rule script may loop while *)
(* it is loaded (LoadRules), clients and handlers owe nothing.             *)
Fairness == /\ WF_vars(Main /\ main # "load")
            /\ WF_vars(Deadline)
            /\ WF_vars(ServeInit \/ ServeClose \/ ServeReport \/ Backoff)

FairSpec == Spec /\ Fairness

-----------------------------------------------------------------------------
(* Properties                                                              *)

MainPlaces  == {"load", "open", "listen", "check", "wait", "cancel", "close",
                "poll", "clean up", "close store", "exited"}
ServePlaces == {"none", "init", "accept", "count", "spawn", "backoff", "close",
                "report", "stop", "gone"}
ConnStages  == {"new", "queued", "refused", "accepted", "counted", "running",
                "closed", "done"}

StateOK ==
  /\ main \in MainPlaces /\ serve \in ServePlaces
  /\ conn \in [Conns -> ConnStages] /\ numConns \in Int
  /\ tempDelay \in 0..MaxDelay /\ failures \in 0..MaxAcceptErrors
  /\ serveErr \in Errors \cup {None} /\ fatalErr \in Errors \cup {None}
  /\ exit \in Errors \cup {"nil", None}
  /\ listener \in {"none", "open", "closed"}
  /\ store \in {"none", "open", "closed"}
  /\ socket \in {None, "us", "another"}

FlagsOK ==
  /\ cancelled \in BOOLEAN /\ deadline \in BOOLEAN
  /\ signalled \in BOOLEAN /\ stopped \in BOOLEAN

TypeOK == StateOK /\ FlagsOK

(* Stop has returned nil: the daemon logs "stopped." (main.go:189).        *)
StopSucceeded == main \in {"clean up", "close store", "exited"} /\ exit = "nil"

(* When Stop reports success, at most one connection is left open: the     *)
(* counter is read after the listener is closed, and Serve is at most one  *)
(* connection ahead of it.                                                 *)
OneStragglerAtMost ==
  StopSucceeded => \A c, d \in Open : c = d

(* Without a signal the daemon ends only because Serve failed, and then it *)
(* returns Serve's error (main.go:176, "If daemon's server had a fatal     *)
(* error, return that error").                                             *)
FatalErrReturned ==
  exit \notin {None, "startup error"} /\ ~ signalled
     => serveErr # None /\ exit = serveErr

(* However runDaemon ends, short of a panic, the listener it opened and    *)
(* the store it opened are closed, and its socket file is gone.            *)
ReleasedOnExit ==
  main = "exited" /\ exit # "panic" => /\ listener # "open"
                                       /\ store # "open"
                                       /\ socket # "us"

(* The n-th failure of Accept in a row is followed by a delay of           *)
(* MinDelay * 2^(n-1), and never by more than MaxDelay; a connection       *)
(* starts the count again (daemon.go:53-61, 75).                           *)
BackoffDelay ==
  LET exact == MinDelay * 2^(failures - 1)
  IN tempDelay = IF failures = 0 THEN 0
                 ELSE IF exact > MaxDelay THEN MaxDelay ELSE exact

(* A daemon that was told to stop, or whose Serve has failed, ends, even   *)
(* when no handler ever does.                                              *)
AlwaysEnds ==
  (main = "wait" /\ (signalled \/ serveErr # None)) ~> (main = "exited")

(* A daemon that has logged "started." stops when told to (main.go:170-174,*)
(* "Wait for a terminating signal", "Stop the daemon").                    *)
StopsCleanly == exit # "panic"
=============================================================================
