-------------------------- MODULE Lifecycle_proofs --------------------------
(***************************************************************************)
(* Proofs about the life of a reeed process, for any set of connections.   *)
(*                                                                         *)
(* Main, Serve and the handlers share no lock, so what one of them knows   *)
(* of the others is an order of events: Order says where each of the       *)
(* listener, the store, the socket file and the errors must be by the time *)
(* main and Serve have come to a place; Counting says how far the counter  *)
(* may lag behind the connections.                                         *)
(***************************************************************************)
EXTENDS Lifecycle, NaturalLemmas

Early  == {"load", "open", "listen", "check"}
Ending == {"clean up", "close store", "exited"}
Ended  == {"close", "report", "stop", "gone"}

(* Main has started Serve only after start-up, and returns only when the   *)
(* listener is closed.                                                     *)
MainOrder ==
  /\ main \in Early => serve = "none"
  /\ main \in Early \ {"check"} => listener = "none"
  /\ main \in {"load", "open"} => store = "none"
  /\ main \notin Ending => exit = None
  /\ main = "poll" => listener = "closed"
  /\ main \in Ending /\ exit # "panic" => listener # "open"
  /\ main = "exited" => store # "open"
  /\ socket = "us" => listener = "open"
  /\ main \in {"cancel", "close", "poll"} => signalled

(* Serve's error is stored before the signal context ends, and after the   *)
(* listener is closed.                                                     *)
ServeOrder ==
  /\ serveErr # None <=> serve \in Ended
  /\ serve \in {"report", "stop", "gone"} => listener # "open"
  /\ fatalErr # None <=> serve \in {"stop", "gone"}
  /\ fatalErr # None => fatalErr = serveErr
  /\ stopped => serve = "gone"

Order == MainOrder /\ ServeOrder /\ FatalErrReturned

(* Serve is at most one connection ahead of the counter.                   *)
Counting ==
  /\ numConns = Cardinality(Counted)
  /\ \A c \in Conns : conn[c] = "accepted" => serve = "count"
  /\ \A c \in Conns : conn[c] = "counted" => serve = "spawn"
  /\ \A c, d \in Conns : conn[c] = "accepted" /\ conn[d] = "accepted" => c = d
  /\ \A c, d \in Conns : conn[c] = "counted" /\ conn[d] = "counted" => c = d
  /\ serve = "none" => Open = {}

(* No flag is reset.                                                       *)
FlagsRise ==
  /\ cancelled' = cancelled \/ cancelled' = TRUE
  /\ deadline' = deadline \/ deadline' = TRUE
  /\ signalled' = signalled \/ signalled' = TRUE
  /\ stopped' = stopped \/ stopped' = TRUE

LifeInv == TypeOK /\ Order /\ Counting /\ OneStragglerAtMost

(* A flag that is set is not reset. *)
LEMMA FlagSteps == [Next]_vars => FlagsRise
<1> SUFFICES ASSUME [Next]_vars PROVE FlagsRise
  OBVIOUS
<1> USE DEF FlagsRise, stopping, flags
<1>1. CASE UNCHANGED vars
  BY <1>1 DEF vars
<1>2. CASE LoadRules \/ OpenStore \/ Listen \/ WaitSignal
  BY <1>2 DEF LoadRules, OpenStore, Listen, WaitSignal
<1>3. CASE StartServe
  BY <1>3 DEF StartServe
<1>4. CASE \/ StopCancel \/ StopClose \/ StopPoll \/ CleanupSocket
           \/ CloseStore \/ Deadline \/ Signal \/ AnotherBinds
  BY <1>4 DEF StopCancel, StopClose, StopPoll, CleanupSocket, CloseStore,
              Deadline, Signal, AnotherBinds
<1>5. CASE \/ ServeInit \/ AcceptRetry \/ AcceptFails \/ Backoff
           \/ ServeClose \/ ServeReport
  BY <1>5 DEF ServeInit, AcceptRetry, AcceptFails, Backoff, ServeClose,
              ServeReport, ServeReturns
<1>6. ASSUME NEW c \in Conns,
             \/ Accept(c) \/ Count(c) \/ Spawn(c)
             \/ HandlerCloses(c) \/ HandlerUncounts(c) \/ Connect(c)
      PROVE  FlagsRise
  BY <1>6 DEF Accept, Count, Spawn, HandlerCloses, HandlerUncounts, Connect
<1> QED
  BY <1>1, <1>2, <1>3, <1>4, <1>5, <1>6 DEF Next, Main, Serve

(* Every step keeps the types.                                             *)
LEMMA LifeTypes == StateOK /\ [Next]_vars => StateOK'
<1> SUFFICES ASSUME StateOK, [Next]_vars PROVE StateOK'
  OBVIOUS
<1> USE DelayAssumption, NoneAssumption DEF flags
<1>0. {"startup error", "panic", "deadline exceeded", "ErrStopped",
      "net.ErrClosed", "accept error"} \subseteq Errors
  BY DEF Errors
<1>1. CASE UNCHANGED vars
  BY <1>1 DEF vars, accepting, files, StateOK
<1>2. CASE LoadRules
  BY <1>0, <1>2 DEF LoadRules, Return, accepting, files, StateOK, MainPlaces
<1>3. CASE OpenStore
  BY <1>0, <1>3 DEF OpenStore, Return, accepting, StateOK, MainPlaces
<1>4. CASE Listen
  BY <1>0, <1>4 DEF Listen, Return, accepting, StateOK, MainPlaces
<1>5. CASE StartServe
  <2>1. conn' \in [Conns -> ConnStages]
    BY <1>5 DEF StartServe, CloseListener, StateOK, ConnStages
  <2>2. main' \in MainPlaces /\ serve' \in ServePlaces /\ exit' \in Errors \cup {"nil", None}
    BY <1>5 DEF StartServe, Return, StateOK, MainPlaces, ServePlaces
  <2>3. listener' \in {"none", "open", "closed"} /\ socket' \in {None, "us", "another"}
    BY <1>5 DEF StartServe, CloseListener, StateOK
  <2>4. UNCHANGED <<numConns, tempDelay, failures, serveErr, fatalErr, store>>
    BY <1>5 DEF StartServe
  <2> QED
    BY <2>1, <2>2, <2>3, <2>4 DEF StateOK
<1>6. CASE WaitSignal
  BY <1>0, <1>6 DEF WaitSignal, Return, accepting, files, StateOK, MainPlaces
<1>7. CASE StopCancel
  BY <1>0, <1>7 DEF StopCancel, Return, accepting, files, StateOK, MainPlaces
<1>8. CASE StopClose
  BY <1>8 DEF StopClose, CloseListener, StateOK, MainPlaces, ConnStages
<1>9. CASE StopPoll
  BY <1>0, <1>9 DEF StopPoll, Return, accepting, files, StateOK, MainPlaces
<1>10. CASE CleanupSocket
  BY <1>10 DEF CleanupSocket, accepting, StateOK, MainPlaces
<1>11. CASE CloseStore
  BY <1>11 DEF CloseStore, accepting, StateOK, MainPlaces
<1>12. CASE Deadline
  BY <1>12 DEF Deadline, accepting, files, StateOK
<1>13. CASE ServeInit
  BY <1>13 DEF ServeInit, files, StateOK, ServePlaces
<1>14. CASE AcceptRetry
  BY <1>14 DEF AcceptRetry, files, StateOK, ServePlaces
<1>15. CASE AcceptFails
  BY <1>0, <1>15 DEF AcceptFails, ServeReturns, files, StateOK, ServePlaces
<1>16. CASE Backoff
  BY <1>0, <1>16 DEF Backoff, ServeReturns, files, StateOK, ServePlaces
<1>17. CASE ServeClose
  BY <1>17 DEF ServeClose, CloseListener, StateOK, ServePlaces, ConnStages
<1>18. CASE ServeReport
  BY <1>18 DEF ServeReport, files, StateOK, ServePlaces
<1>19. CASE Signal
  BY <1>19 DEF Signal, accepting, files, StateOK
<1>20. CASE AnotherBinds
  BY <1>20 DEF AnotherBinds, accepting, StateOK
<1>21. ASSUME NEW c \in Conns, Accept(c) PROVE StateOK'
  BY <1>21 DEF Accept, files, StateOK, ServePlaces, ConnStages
<1>22. ASSUME NEW c \in Conns, Count(c) PROVE StateOK'
  BY <1>22 DEF Count, files, StateOK, ServePlaces, ConnStages
<1>23. ASSUME NEW c \in Conns, Spawn(c) PROVE StateOK'
  BY <1>23 DEF Spawn, files, StateOK, ServePlaces, ConnStages
<1>24. ASSUME NEW c \in Conns, HandlerCloses(c) PROVE StateOK'
  BY <1>24 DEF HandlerCloses, files, StateOK, ConnStages
<1>25. ASSUME NEW c \in Conns, HandlerUncounts(c) PROVE StateOK'
  BY <1>25 DEF HandlerUncounts, files, StateOK, ConnStages
<1>26. ASSUME NEW c \in Conns, Connect(c) PROVE StateOK'
  BY <1>26 DEF Connect, files, StateOK, ConnStages
<1> QED
  BY <1>1, <1>2, <1>3, <1>4, <1>5, <1>6, <1>7, <1>8, <1>9, <1>10, <1>11,
     <1>12, <1>13, <1>14, <1>15, <1>16, <1>17, <1>18, <1>19, <1>20, <1>21,
     <1>22, <1>23, <1>24, <1>25, <1>26
     DEF Next, Main, Serve

(* Every step keeps the order of main's steps. *)
LEMMA MainOrdered ==
  StateOK /\ MainOrder /\ ServeOrder /\ [Next]_vars => MainOrder'
<1> SUFFICES ASSUME StateOK, MainOrder, ServeOrder, [Next]_vars PROVE
     MainOrder'
  OBVIOUS
<1> USE DelayAssumption, NoneAssumption DEF flags
<1>1. CASE UNCHANGED vars
  BY <1>1 DEF vars, accepting, files, MainOrder
<1>2. CASE LoadRules
  BY <1>2 DEF LoadRules, Return, accepting, files, MainOrder, Early, Ending
<1>3. CASE OpenStore
  BY <1>3 DEF OpenStore, Return, accepting, MainOrder, Early, Ending
<1>4. CASE Listen
  BY <1>4 DEF Listen, Return, accepting, MainOrder, Early, Ending
<1>5. CASE StartServe
  BY <1>5 DEF StartServe, Return, CloseListener, MainOrder, Early, Ending
<1>6. CASE WaitSignal
  BY <1>6 DEF WaitSignal, Return, files, MainOrder, ServeOrder, Early, Ending,
              Done
<1>7. CASE StopCancel
  BY <1>7 DEF StopCancel, Return, files, MainOrder, Early, Ending
<1>8. CASE StopClose
  BY <1>8 DEF StopClose, CloseListener, MainOrder, Early, Ending
<1>9. CASE StopPoll
  BY <1>9 DEF StopPoll, Return, files, MainOrder, Early, Ending
<1>10. CASE CleanupSocket
  BY <1>10 DEF CleanupSocket, MainOrder, Early, Ending
<1>11. CASE CloseStore
  BY <1>11 DEF CloseStore, MainOrder, Early, Ending
<1>12. CASE Deadline
  BY <1>12 DEF Deadline, accepting, files, MainOrder
<1>13. CASE ServeInit
  BY <1>13 DEF ServeInit, files, MainOrder
<1>14. CASE AcceptRetry
  BY <1>14 DEF AcceptRetry, files, MainOrder
<1>15. CASE AcceptFails
  BY <1>15 DEF AcceptFails, ServeReturns, files, MainOrder
<1>16. CASE Backoff
  BY <1>16 DEF Backoff, ServeReturns, files, MainOrder
<1>17. CASE ServeClose
  BY <1>17 DEF ServeClose, CloseListener, MainOrder
<1>18. CASE ServeReport
  BY <1>18 DEF ServeReport, files, MainOrder
<1>19. CASE Signal
  BY <1>19 DEF Signal, accepting, files, MainOrder
<1>20. CASE AnotherBinds
  BY <1>20 DEF AnotherBinds, accepting, MainOrder
<1>21. ASSUME NEW c \in Conns, Accept(c) PROVE MainOrder'
  BY <1>21 DEF Accept, files, MainOrder
<1>22. ASSUME NEW c \in Conns, Count(c) PROVE MainOrder'
  BY <1>22 DEF Count, files, MainOrder
<1>23. ASSUME NEW c \in Conns, Spawn(c) PROVE MainOrder'
  BY <1>23 DEF Spawn, files, MainOrder
<1>24. ASSUME NEW c \in Conns, HandlerCloses(c) PROVE MainOrder'
  BY <1>24 DEF HandlerCloses, files, MainOrder
<1>25. ASSUME NEW c \in Conns, HandlerUncounts(c) PROVE MainOrder'
  BY <1>25 DEF HandlerUncounts, files, MainOrder
<1>26. ASSUME NEW c \in Conns, Connect(c) PROVE MainOrder'
  BY <1>26 DEF Connect, files, MainOrder
<1> QED
  BY <1>1, <1>2, <1>3, <1>4, <1>5, <1>6, <1>7, <1>8, <1>9, <1>10, <1>11,
     <1>12, <1>13, <1>14, <1>15, <1>16, <1>17, <1>18, <1>19, <1>20, <1>21,
     <1>22, <1>23, <1>24, <1>25, <1>26
     DEF Next, Main, Serve

(* Every step keeps the order of Serve's steps. *)
LEMMA ServeOrdered ==
  StateOK /\ MainOrder /\ ServeOrder /\ [Next]_vars => ServeOrder'
<1> SUFFICES ASSUME StateOK, MainOrder, ServeOrder, [Next]_vars
             PROVE  ServeOrder'
  OBVIOUS
<1> USE DelayAssumption, NoneAssumption DEF flags
<1>1. CASE UNCHANGED vars
  BY <1>1 DEF vars, accepting, ServeOrder
<1>2. CASE LoadRules
  BY <1>2 DEF LoadRules, Return, accepting, ServeOrder
<1>3. CASE OpenStore
  BY <1>3 DEF OpenStore, Return, accepting, ServeOrder
<1>4. CASE Listen
  BY <1>4 DEF Listen, Return, accepting, MainOrder, ServeOrder, Early
<1>5. CASE StartServe
  BY <1>5 DEF StartServe, Return, MainOrder, ServeOrder, Early, Ended
<1>6. CASE WaitSignal
  BY <1>6 DEF WaitSignal, Return, accepting, ServeOrder
<1>7. CASE StopCancel
  BY <1>7 DEF StopCancel, Return, accepting, ServeOrder
<1>8. CASE StopClose
  BY <1>8 DEF StopClose, CloseListener, ServeOrder
<1>9. CASE StopPoll
  BY <1>9 DEF StopPoll, Return, accepting, ServeOrder
<1>10. CASE CleanupSocket
  BY <1>10 DEF CleanupSocket, accepting, ServeOrder
<1>11. CASE CloseStore
  BY <1>11 DEF CloseStore, accepting, ServeOrder
<1>12. CASE Deadline
  BY <1>12 DEF Deadline, accepting, ServeOrder
<1>13. CASE ServeInit
  BY <1>13 DEF ServeInit, ServeOrder, Ended
<1>14. CASE AcceptRetry
  BY <1>14 DEF AcceptRetry, ServeOrder, Ended
<1>15. CASE AcceptFails
  BY <1>15 DEF AcceptFails, ServeReturns, ServeOrder, Ended, Errors
<1>16. CASE Backoff
  BY <1>16 DEF Backoff, ServeReturns, ServeOrder, Ended, Errors
<1>17. CASE ServeClose
  BY <1>17 DEF ServeClose, CloseListener, ServeOrder, Ended
<1>18. CASE ServeReport
  <2>1. CASE serve = "report"
    <3>1. /\ serve' = "stop" /\ fatalErr' = serveErr
          /\ UNCHANGED <<stopped, serveErr, listener>>
      BY <1>18, <2>1 DEF ServeReport
    <3>2. stopped = FALSE
      BY <2>1 DEF ServeOrder
    <3> QED
      BY <2>1, <3>1, <3>2 DEF ServeOrder, Ended
  <2>2. CASE serve = "stop"
    <3>1. /\ serve' = "gone" /\ UNCHANGED <<fatalErr, serveErr, listener>>
      BY <1>18, <2>2 DEF ServeReport
    <3> QED
      BY <2>2, <3>1 DEF ServeOrder, Ended
  <2> QED
    BY <1>18, <2>1, <2>2 DEF ServeReport
<1>19. CASE Signal
  BY <1>19 DEF Signal, accepting, ServeOrder
<1>20. CASE AnotherBinds
  BY <1>20 DEF AnotherBinds, accepting, ServeOrder
<1>21. ASSUME NEW c \in Conns, Accept(c) PROVE ServeOrder'
  BY <1>21 DEF Accept, ServeOrder, Ended
<1>22. ASSUME NEW c \in Conns, Count(c) PROVE ServeOrder'
  BY <1>22 DEF Count, ServeOrder, Ended
<1>23. ASSUME NEW c \in Conns, Spawn(c) PROVE ServeOrder'
  BY <1>23 DEF Spawn, ServeOrder, Ended
<1>24. ASSUME NEW c \in Conns, HandlerCloses(c) PROVE ServeOrder'
  BY <1>24 DEF HandlerCloses, ServeOrder
<1>25. ASSUME NEW c \in Conns, HandlerUncounts(c) PROVE ServeOrder'
  BY <1>25 DEF HandlerUncounts, ServeOrder
<1>26. ASSUME NEW c \in Conns, Connect(c) PROVE ServeOrder'
  BY <1>26 DEF Connect, ServeOrder
<1> QED
  BY <1>1, <1>2, <1>3, <1>4, <1>5, <1>6, <1>7, <1>8, <1>9, <1>10, <1>11,
     <1>12, <1>13, <1>14, <1>15, <1>16, <1>17, <1>18, <1>19, <1>20, <1>21,
     <1>22, <1>23, <1>24, <1>25, <1>26
     DEF Next, Main, Serve

(* A process that ends without a signal ends with the error of Serve. *)
LEMMA FatalErrKept == StateOK /\ Order /\ [Next]_vars => FatalErrReturned'
<1> SUFFICES ASSUME StateOK, Order, [Next]_vars PROVE FatalErrReturned'
  OBVIOUS
<1> USE DelayAssumption, NoneAssumption DEF flags
<1>1. CASE UNCHANGED vars
  BY <1>1 DEF vars, accepting, FatalErrReturned, Order
<1>2. CASE LoadRules
  BY <1>2 DEF LoadRules, Return, accepting, FatalErrReturned, Order
<1>3. CASE OpenStore
  BY <1>3 DEF OpenStore, Return, accepting, FatalErrReturned, Order
<1>4. CASE Listen
  BY <1>4 DEF Listen, Return, accepting, FatalErrReturned, Order
<1>5. CASE StartServe
  BY <1>5 DEF StartServe, Return, FatalErrReturned, Order, MainOrder,
              ServeOrder, Early, Done
<1>6. CASE WaitSignal
  BY <1>6 DEF WaitSignal, Return, accepting, FatalErrReturned, Order,
              ServeOrder
<1>7. CASE StopCancel
  BY <1>7 DEF StopCancel, Return, FatalErrReturned, Order, MainOrder
<1>8. CASE StopClose
  BY <1>8 DEF StopClose, FatalErrReturned, Order
<1>9. CASE StopPoll
  BY <1>9 DEF StopPoll, Return, FatalErrReturned, Order, MainOrder
<1>10. CASE CleanupSocket
  BY <1>10 DEF CleanupSocket, accepting, FatalErrReturned, Order
<1>11. CASE CloseStore
  BY <1>11 DEF CloseStore, accepting, FatalErrReturned, Order
<1>12. CASE Deadline
  BY <1>12 DEF Deadline, accepting, FatalErrReturned, Order
<1>13. CASE ServeInit
  BY <1>13 DEF ServeInit, FatalErrReturned, Order
<1>14. CASE AcceptRetry
  BY <1>14 DEF AcceptRetry, FatalErrReturned, Order
<1>15. CASE AcceptFails
  BY <1>15 DEF AcceptFails, ServeReturns, FatalErrReturned, Order, ServeOrder,
               Ended
<1>16. CASE Backoff
  BY <1>16 DEF Backoff, ServeReturns, FatalErrReturned, Order, ServeOrder,
               Ended
<1>17. CASE ServeClose
  BY <1>17 DEF ServeClose, FatalErrReturned, Order
<1>18. CASE ServeReport
  BY <1>18 DEF ServeReport, FatalErrReturned, Order
<1>19. CASE Signal
  BY <1>19 DEF Signal, FatalErrReturned
<1>20. CASE AnotherBinds
  BY <1>20 DEF AnotherBinds, accepting, FatalErrReturned, Order
<1>21. ASSUME NEW c \in Conns, Accept(c) PROVE FatalErrReturned'
  BY <1>21 DEF Accept, FatalErrReturned, Order
<1>22. ASSUME NEW c \in Conns, Count(c) PROVE FatalErrReturned'
  BY <1>22 DEF Count, FatalErrReturned, Order
<1>23. ASSUME NEW c \in Conns, Spawn(c) PROVE FatalErrReturned'
  BY <1>23 DEF Spawn, FatalErrReturned, Order
<1>24. ASSUME NEW c \in Conns, HandlerCloses(c) PROVE FatalErrReturned'
  BY <1>24 DEF HandlerCloses, FatalErrReturned, Order
<1>25. ASSUME NEW c \in Conns, HandlerUncounts(c) PROVE FatalErrReturned'
  BY <1>25 DEF HandlerUncounts, FatalErrReturned, Order
<1>26. ASSUME NEW c \in Conns, Connect(c) PROVE FatalErrReturned'
  BY <1>26 DEF Connect, FatalErrReturned, Order
<1> QED
  BY <1>1, <1>2, <1>3, <1>4, <1>5, <1>6, <1>7, <1>8, <1>9, <1>10, <1>11,
     <1>12, <1>13, <1>14, <1>15, <1>16, <1>17, <1>18, <1>19, <1>20, <1>21,
     <1>22, <1>23, <1>24, <1>25, <1>26
     DEF Next, Main, Serve

(* What steps do to the connections and to the counter.  Nothing but the   *)
(* actions of a connection, and closing the listener, touches them, and    *)
(* Serve leaves its places between Accept and the next one only with them. *)
LEMMA ConnSteps ==
  ASSUME MainOrder, [Next]_vars
  PROVE  \/ /\ conn' = conn \/ CloseListener
            /\ numConns' = numConns
            /\ \/ serve' = serve
               \/ serve \notin {"count", "spawn"} /\ serve' # "none"
         \/ \E c \in Conns : \/ Accept(c) \/ Count(c) \/ Spawn(c)
                             \/ HandlerCloses(c) \/ HandlerUncounts(c) \/ Connect(c)
<1>1. CASE UNCHANGED vars
  BY <1>1 DEF vars, accepting
<1>2. CASE LoadRules \/ OpenStore \/ Listen \/ WaitSignal
  BY <1>2 DEF LoadRules, OpenStore, Listen, WaitSignal, Return, accepting
<1>5. CASE StartServe
  BY <1>5 DEF StartServe, Return, MainOrder, Early
<1>3. CASE \/ StopCancel \/ StopClose \/ StopPoll \/ CleanupSocket \/ CloseStore
           \/ Deadline \/ Signal \/ AnotherBinds
  BY <1>3 DEF StopCancel, StopClose, StopPoll, CleanupSocket, CloseStore, Deadline,
              Signal, AnotherBinds, accepting
<1>4. CASE \/ ServeInit \/ AcceptRetry \/ AcceptFails \/ Backoff \/ ServeClose
           \/ ServeReport
  BY <1>4 DEF ServeInit, AcceptRetry, AcceptFails, Backoff, ServeClose, ServeReport,
              ServeReturns
<1> QED
  BY <1>1, <1>2, <1>3, <1>4, <1>5 DEF Next, Main, Serve

(* Closing the listener leaves the connections that have been accepted.    *)
LEMMA CloseKeeps ==
  ASSUME StateOK, CloseListener \/ conn' = conn
  PROVE  /\ Counted' = Counted /\ Open' = Open
         /\ \A c \in Conns : /\ conn'[c] = "accepted" <=> conn[c] = "accepted"
                             /\ conn'[c] = "counted" <=> conn[c] = "counted"
BY DEF CloseListener, Counted, Open

(* The counter follows the connections.                                    *)
LEMMA CountingKept ==
  ASSUME StateOK, MainOrder, Counting, [Next]_vars
  PROVE  Counting'
<1>1. IsFiniteSet(Counted)
  BY ConnsAssumption, FS_Subset DEF Counted
<1>2. ASSUME conn' = conn \/ CloseListener, numConns' = numConns,
             \/ serve' = serve
             \/ serve \notin {"count", "spawn"} /\ serve' # "none"
      PROVE  Counting'
  <2>1. /\ Counted' = Counted /\ Open' = Open
        /\ \A c \in Conns : /\ conn'[c] = "accepted" <=> conn[c] = "accepted"
                            /\ conn'[c] = "counted" <=> conn[c] = "counted"
    BY <1>2, CloseKeeps
  <2> QED
    BY <1>2, <2>1 DEF Counting
<1>3. ASSUME NEW c \in Conns, Accept(c) PROVE Counting'
  <2>1. Counted' = Counted
    BY <1>3 DEF Accept, StateOK, Counted
  <2> QED
    BY <1>3, <2>1 DEF Accept, StateOK, Counting
<1>4. ASSUME NEW c \in Conns, Count(c) PROVE Counting'
  <2>1. c \notin Counted /\ Counted' = Counted \cup {c}
    BY <1>4 DEF Count, StateOK, Counted
  <2>2. Cardinality(Counted') = Cardinality(Counted) + 1
    BY <1>1, <2>1, FS_AddElement
  <2>3. numConns' = Cardinality(Counted')
    BY <1>4, <2>2 DEF Count, Counting
  <2> QED
    BY <1>4, <2>3 DEF Count, StateOK, Counting
<1>5. ASSUME NEW c \in Conns, Spawn(c) PROVE Counting'
  <2>1. Counted' = Counted
    BY <1>5 DEF Spawn, StateOK, Counted
  <2>2. numConns' = Cardinality(Counted')
    BY <1>5, <2>1 DEF Spawn, Counting
  <2> QED
    BY <1>5, <2>2 DEF Spawn, StateOK, Counting
<1>6. ASSUME NEW c \in Conns, HandlerCloses(c) \/ Connect(c) PROVE Counting'
  <2>1. Counted' = Counted /\ Open' \subseteq Open
    BY <1>6 DEF HandlerCloses, Connect, StateOK, Counted, Open
  <2>2. /\ numConns' = numConns /\ serve' = serve
        /\ \A d \in Conns : /\ conn'[d] = "accepted" => conn[d] = "accepted"
                            /\ conn'[d] = "counted" => conn[d] = "counted"
    BY <1>6 DEF HandlerCloses, Connect, StateOK
  <2> QED
    BY <2>1, <2>2 DEF Counting
<1>7. ASSUME NEW c \in Conns, HandlerUncounts(c) PROVE Counting'
  <2>1. c \in Counted /\ Counted' = Counted \ {c} /\ Open' \subseteq Open
    BY <1>7 DEF HandlerUncounts, StateOK, Counted, Open
  <2>2. Cardinality(Counted') = Cardinality(Counted) - 1
    BY <1>1, <2>1, FS_RemoveElement
  <2>3. numConns' = Cardinality(Counted')
    BY <1>7, <2>2 DEF HandlerUncounts, Counting
  <2>4. /\ serve' = serve
        /\ \A d \in Conns : /\ conn'[d] = "accepted" => conn[d] = "accepted"
                            /\ conn'[d] = "counted" => conn[d] = "counted"
    BY <1>7 DEF HandlerUncounts, StateOK
  <2> QED
    BY <2>1, <2>3, <2>4 DEF Counting
<1> QED
  BY <1>2, <1>3, <1>4, <1>5, <1>6, <1>7, ConnSteps

(* Stop succeeds only when the counter is zero, or before Serve is started. *)
LEMMA Succeeds ==
  ASSUME StateOK, MainOrder, [Next]_vars, StopSucceeded'
  PROVE  \/ StopSucceeded /\ listener # "open"
         \/ serve = "none" /\ (CloseListener \/ conn' = conn)
         \/ numConns <= 0 /\ conn' = conn
<1> USE DEF StopSucceeded
<1>1. ASSUME StopSucceeded PROVE listener # "open"
  BY <1>1 DEF MainOrder, Ending
<1>2. CASE UNCHANGED <<main, exit>>
  BY <1>1, <1>2
<1>3. CASE LoadRules \/ OpenStore \/ Listen \/ StopCancel \/ StopClose
  BY <1>3 DEF LoadRules, OpenStore, Listen, StopCancel, StopClose, Return
<1>4. CASE StartServe
  BY <1>4 DEF StartServe, MainOrder, Early
<1>5. CASE WaitSignal
  BY <1>5 DEF WaitSignal, Return, StateOK, Errors
<1>6. CASE StopPoll
  BY <1>6 DEF StopPoll, Return, accepting
<1>7. CASE CleanupSocket \/ CloseStore
  BY <1>1, <1>7 DEF CleanupSocket, CloseStore
<1>8. ASSUME NEW c \in Conns,
             \/ Accept(c) \/ Count(c) \/ Spawn(c)
             \/ HandlerCloses(c) \/ HandlerUncounts(c) \/ Connect(c)
      PROVE  UNCHANGED <<main, exit>>
  BY <1>8 DEF Accept, Count, Spawn, HandlerCloses, HandlerUncounts, Connect
<1>9. CASE \/ ServeInit \/ AcceptRetry \/ AcceptFails \/ Backoff \/ ServeClose
           \/ ServeReport \/ Deadline \/ Signal \/ AnotherBinds \/ UNCHANGED vars
  BY <1>2, <1>9 DEF ServeInit, AcceptRetry, AcceptFails, Backoff, ServeClose,
                    ServeReport, Deadline, Signal, AnotherBinds, vars
<1> QED
  BY <1>2, <1>3, <1>4, <1>5, <1>6, <1>7, <1>8, <1>9 DEF Next, Main, Serve

(* When Stop has succeeded at most one connection is open.                 *)
LEMMA StragglerKept ==
  ASSUME StateOK, MainOrder, Counting, OneStragglerAtMost, [Next]_vars
  PROVE  OneStragglerAtMost'
<1> SUFFICES ASSUME StopSucceeded', NEW c \in Open', NEW d \in Open'
             PROVE  c = d
  BY DEF OneStragglerAtMost
<1>1. CASE StopSucceeded /\ listener # "open"
  <2>1. Open' \subseteq Open
    <3>1. CASE conn' = conn \/ CloseListener
      BY <3>1, CloseKeeps
    <3>2. ASSUME NEW e \in Conns,
                 \/ Accept(e) \/ Count(e) \/ Spawn(e)
                 \/ HandlerCloses(e) \/ HandlerUncounts(e) \/ Connect(e)
          PROVE  Open' \subseteq Open
      BY <1>1, <3>2 DEF Accept, Count, Spawn, HandlerCloses, HandlerUncounts,
                        Connect, StateOK, Open
    <3> QED
      BY <3>1, <3>2, ConnSteps
  <2> QED
    BY <1>1, <2>1 DEF OneStragglerAtMost
<1>2. CASE serve = "none" /\ (CloseListener \/ conn' = conn)
  BY <1>2, CloseKeeps DEF Counting
<1>3. CASE numConns <= 0 /\ conn' = conn
  <2>1. Counted = {}
    <3>1. IsFiniteSet(Counted)
      BY ConnsAssumption, FS_Subset DEF Counted
    <3>2. Cardinality(Counted) = 0
      BY <1>3, <3>1, FS_CardinalityType DEF Counting
    <3> QED
      BY <3>1, <3>2, FS_EmptySet
  <2>2. \A e \in Open' : e \in Conns /\ conn[e] = "accepted"
    BY <1>3, <2>1 DEF Open, Counted
  <2> QED
    BY <2>2 DEF Counting
<1> QED
  BY <1>1, <1>2, <1>3, Succeeds

(* Flags keep their type.                                                  *)
LEMMA FlagsStay == FlagsOK /\ FlagsRise => FlagsOK'
  BY DEF FlagsOK, FlagsRise

(* The inductive invariant holds in every reachable state.                 *)
LEMMA LifeInvariance == Spec => []LifeInv
<1>1. Init => LifeInv
  <2> SUFFICES ASSUME Init PROVE LifeInv
    OBVIOUS
  <2>1. StateOK
    BY DelayAssumption, ConnsAssumption
       DEF Init, StateOK, MainPlaces, ServePlaces, ConnStages
  <2>2. FlagsOK
    BY DEF Init, FlagsOK
  <2>3. Order
    BY NoneAssumption DEF Init, Order, MainOrder, ServeOrder, FatalErrReturned,
                          Early, Ending, Ended
  <2>4. Counted = {} /\ Open = {}
    BY DEF Init, Counted, Open
  <2>5. Counting
    BY <2>4, FS_EmptySet DEF Init, Counting
  <2>6. OneStragglerAtMost
    BY DEF Init, OneStragglerAtMost, StopSucceeded
  <2> QED
    BY <2>1, <2>2, <2>3, <2>5, <2>6 DEF LifeInv, TypeOK
<1>2. LifeInv /\ [Next]_vars => LifeInv'
  BY LifeTypes, FlagSteps, FlagsStay, MainOrdered, ServeOrdered, FatalErrKept,
     CountingKept, StragglerKept DEF LifeInv, TypeOK, Order
<1> QED
  BY <1>1, <1>2, PTL DEF Spec

(* The process's state has its type, for any connections and delays.       *)
THEOREM LifeTypeCorrect == Spec => []TypeOK
<1>1. LifeInv => TypeOK
  BY DEF LifeInv
<1> QED
  BY <1>1, LifeInvariance, PTL

(* However many connections there are, a Stop that reports success leaves  *)
(* at most one of them open.                                               *)
THEOREM AtMostOneStraggler == Spec => []OneStragglerAtMost
<1>1. LifeInv => OneStragglerAtMost
  BY DEF LifeInv
<1> QED
  BY <1>1, LifeInvariance, PTL

(* A process that ends without a signal ends with Serve's error.           *)
THEOREM ServeErrorReturned == Spec => []FatalErrReturned
<1>1. LifeInv => FatalErrReturned
  BY DEF LifeInv, Order
<1> QED
  BY <1>1, LifeInvariance, PTL

(* A process that does not panic has closed its listener and its store and *)
(* left no socket file.                                                    *)
THEOREM AllReleased == Spec => []ReleasedOnExit
<1>1. LifeInv => ReleasedOnExit
  BY DEF LifeInv, Order, MainOrder, Ending, ReleasedOnExit
<1> QED
  BY <1>1, LifeInvariance, PTL

(* The delay after n failures, before it is capped.                        *)
Exact(n) == MinDelay * 2^(n - 1)

(* It doubles with every failure.                                          *)
LEMMA ExactGrows ==
  ASSUME NEW n \in Nat
  PROVE  /\ n = 0 => Exact(n + 1) = MinDelay
         /\ n > 0 => Exact(n) \in Nat \ {0} /\ Exact(n + 1) = 2 * Exact(n)
<1>1. ASSUME n = 0 PROVE Exact(n + 1) = MinDelay
  <2>1. (n + 1) - 1 = 0 /\ MinDelay \in Nat
    BY <1>1, DelayAssumption
  <2>2. 2^0 = 1
    OBVIOUS
  <2> QED
    BY <2>1, <2>2 DEF Exact
<1>2. ASSUME n > 0 PROVE Exact(n) \in Nat \ {0} /\ Exact(n + 1) = 2 * Exact(n)
  <2> DEFINE p == 2^(n - 1)
             q == 2^n
  <2>1. n - 1 \in Nat /\ (n - 1) + 1 = n /\ (n + 1) - 1 = n
    BY <1>2
  <2>2. p \in Nat \ {0} /\ q = 2 * p
    BY <2>1, Doubles
  <2>3. Exact(n) = MinDelay * p /\ Exact(n + 1) = MinDelay * q
    BY <2>1 DEF Exact
  <2> HIDE DEF p, q
  <2>4. MinDelay * p \in Nat \ {0} /\ MinDelay * (2 * p) = 2 * (MinDelay * p)
    BY <2>2, DelayAssumption
  <2> QED
    BY <2>2, <2>3, <2>4
<1> QED
  BY <1>1, <1>2

(* Doubling the capped delay and capping it again is capping the double.   *)
LEMMA CappedDoubles ==
  ASSUME NEW e \in Nat, NEW m \in Nat
  PROVE  LET cap(d) == IF d > m THEN m ELSE d IN cap(2 * cap(e)) = cap(2 * e)
OBVIOUS

(* Serve's delay is the one of as many failures as there were in a row.    *)
LEMMA BackoffKept == StateOK /\ BackoffDelay /\ [Next]_vars => BackoffDelay'
<1> SUFFICES ASSUME StateOK, BackoffDelay, [Next]_vars PROVE BackoffDelay'
  OBVIOUS
<1>1. failures \in Nat /\ MaxDelay \in Nat \ {0} /\ MinDelay \in Nat \ {0} /\ MinDelay <= MaxDelay
  BY DelayAssumption DEF StateOK
<1>2. BackoffDelay <=> tempDelay = IF failures = 0 THEN 0
                                   ELSE IF Exact(failures) > MaxDelay THEN MaxDelay
                                   ELSE Exact(failures)
  BY DEF BackoffDelay, Exact
<1>3. BackoffDelay' <=> tempDelay' = IF failures' = 0 THEN 0
                                     ELSE IF Exact(failures') > MaxDelay THEN MaxDelay
                                     ELSE Exact(failures')
  BY DEF BackoffDelay, Exact
<1>4. CASE UNCHANGED <<tempDelay, failures>>
  BY <1>2, <1>3, <1>4
<1>5. CASE AcceptRetry
  <2> DEFINE doubled == IF tempDelay = 0 THEN MinDelay ELSE 2 * tempDelay
  <2>1. failures' = failures + 1 /\ tempDelay' = IF doubled > MaxDelay THEN MaxDelay ELSE doubled
    BY <1>5 DEF AcceptRetry
  <2>2. CASE failures = 0
    <3>1. tempDelay = 0 /\ Exact(failures') = MinDelay /\ failures' # 0
      BY <1>1, <1>2, <2>1, <2>2, ExactGrows
    <3> QED
      BY <1>1, <1>3, <2>1, <3>1
  <2>3. CASE failures # 0
    <3> DEFINE e == Exact(failures)
    <3>1. failures > 0 /\ failures' # 0
      BY <1>1, <2>1, <2>3
    <3>2. e \in Nat \ {0} /\ Exact(failures') = 2 * e
      BY <1>1, <2>1, <3>1, ExactGrows
    <3>3. tempDelay = IF e > MaxDelay THEN MaxDelay ELSE e
      BY <1>2, <2>3
    <3> HIDE DEF e
    <3>4. doubled = 2 * tempDelay
      BY <1>1, <3>2, <3>3
    <3>5. tempDelay' = IF 2 * e > MaxDelay THEN MaxDelay ELSE 2 * e
      BY <1>1, <2>1, <3>2, <3>3, <3>4, CappedDoubles
    <3> QED
      BY <1>3, <3>1, <3>2, <3>5
  <2> QED
    BY <2>2, <2>3
<1>6. ASSUME NEW c \in Conns, Spawn(c) PROVE BackoffDelay'
  BY <1>3, <1>6 DEF Spawn
<1>7. CASE UNCHANGED vars
  BY <1>4, <1>7 DEF vars, accepting
<1>8. CASE Main
  BY <1>4, <1>8 DEF Main, LoadRules, OpenStore, Listen, StartServe, WaitSignal,
       StopCancel, StopClose, StopPoll, CleanupSocket, CloseStore, accepting
<1>9. CASE Deadline \/ Signal \/ AnotherBinds \/ ServeInit \/ AcceptFails \/ Backoff
           \/ ServeClose \/ ServeReport
  BY <1>4, <1>9 DEF Deadline, Signal, AnotherBinds, ServeInit, AcceptFails, Backoff,
       ServeClose, ServeReport, accepting
<1>10. ASSUME NEW c \in Conns,
              Accept(c) \/ Count(c) \/ HandlerCloses(c) \/ HandlerUncounts(c) \/ Connect(c)
       PROVE  BackoffDelay'
  BY <1>4, <1>10 DEF Accept, Count, HandlerCloses, HandlerUncounts, Connect
<1> QED
  BY <1>5, <1>6, <1>7, <1>8, <1>9, <1>10 DEF Next, Serve

(* However many failures of Accept there are in a row, the delay doubles   *)
(* with each and stays within MaxDelay, and a connection resets it.        *)
THEOREM DelaysDouble == Spec => []BackoffDelay
<1>1. Init => BackoffDelay
  BY DEF Init, BackoffDelay
<1>2. LifeInv => StateOK
  BY DEF LifeInv, TypeOK
<1>3. BackoffDelay /\ StateOK /\ [Next]_vars => BackoffDelay'
  BY BackoffKept
<1> QED
  BY <1>1, <1>2, <1>3, LifeInvariance, PTL DEF Spec
=============================================================================
