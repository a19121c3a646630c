-------------------------- MODULE EchoServerProofs --------------------------
(***************************************************************************)
(* Proofs about module EchoServer: it is a Server, whose theorems hold of  *)
(* it; the wait of main and the server for each other never ends; and the  *)
(* echoes of a client with an address of its own come without a gap.       *)
(***************************************************************************)
EXTENDS EchoServer, ServerCallProofs

-----------------------------------------------------------------------------
(* The echo server is a server. *)

(* Main awaits one of its calls, a completion or nothing. *)
AwaitTyped == awaiting \in Option({AddrCall} \cup Echoes \cup Completions)

(* The calls of main are calls of the handle. *)
LEMMA MainCalls == /\ AddrCall \in Asks /\ Echoes = Events
                   /\ Echoes \subseteq Calls /\ AddrCall \in Calls
                   /\ Echoes \cap Asks = {} /\ Calls \cap Completions = {}
  BY EchoAssumption, CallsAssumption DEF Calls, Asks

(* What main may await. *)
LEMMA AwaitCases ==
    ASSUME AwaitTyped, awaiting # None
    PROVE  /\ Get(awaiting) \in {AddrCall} \cup Echoes \cup Completions
           /\ Get(awaiting) \in Calls => Get(awaiting) \in {AddrCall} \cup Echoes
           /\ awaiting = Some(Get(awaiting))
  BY OptionCases, MainCalls DEF AwaitTyped

(* Main goes on awaiting the same call, or none, or what an event of a client *)
(* is due.                                                                    *)
LEMMA AwaitNext == AwaitTyped /\ [EchoNext]_echoVars => AwaitTyped'
<1> SUFFICES ASSUME AwaitTyped, [EchoNext]_echoVars PROVE AwaitTyped'
  OBVIOUS
<1>1. CASE MainCall
  BY <1>1, NoneInOption DEF MainCall, AwaitTyped
<1>2. CASE MainRecv
  BY <1>2, SomeInOption DEF MainRecv, Due, AwaitTyped
<1>3. CASE UNCHANGED awaiting
  BY <1>3 DEF AwaitTyped
<1>4. CASE MainCompleted
  BY <1>4, NoneInOption DEF MainCompleted, AwaitTyped
<1> QED
  BY <1>1, <1>2, <1>3, <1>4 DEF EchoNext, MainStep, OtherStep, Take, echoVars

(* A step of the echo server is a step of a server. *)
LEMMA EchoStep == AwaitTyped /\ [EchoNext]_echoVars => [Next]_vars
<1> SUFFICES ASSUME AwaitTyped, [EchoNext]_echoVars PROVE [Next]_vars
  OBVIOUS
<1>1. CASE MainCall
  BY <1>1 DEF MainCall, Next
<1>2. CASE MainRecv
  BY <1>2 DEF MainRecv, Next
<1>3. CASE OtherStep
  BY <1>3 DEF OtherStep, Next, ConnStep, Calls, Asks
<1>4. ASSUME NEW s \in Streams, Take(s) PROVE Next
  BY <1>4 DEF Take, Next, ConnStep
<1>5. CASE MainCompleted \/ UNCHANGED echoVars
  BY <1>5 DEF MainCompleted, echoVars
<1> QED
  BY <1>1, <1>2, <1>3, <1>4, <1>5 DEF EchoNext, MainStep

(* A user that drains and calls in one task is a user of module Server: what *)
(* is proved of a server holds of the echo server.                           *)
THEOREM EchoIsServer == EchoSpec => Spec
<1>1. EchoInit => Init /\ AwaitTyped
  BY SomeInOption DEF EchoInit, AwaitTyped
<1> QED
  BY <1>1, AwaitNext, EchoStep, PTL DEF EchoSpec, Spec

(* Main keeps its receiver and closes nothing, so the server stays in its    *)
(* loop.                                                                     *)
LoopRuns == user = "listening" /\ server \in LoopStates

LEMMA LoopNext == LoopRuns /\ [EchoNext]_echoVars => LoopRuns'
<1> SUFFICES ASSUME LoopRuns, [EchoNext]_echoVars PROVE LoopRuns'
  OBVIOUS
<1> USE DEF LoopRuns, LoopStates
<1>1. CASE ServerStep
  <2>1. ~RecvClose
    BY EchoAssumption, Zenon DEF RecvClose
  <2>2. ~(CloseConnection \/ ConnectionsClosed \/ CloseAcceptor \/ CloseListener)
    BY DEF CloseConnection, ConnectionsClosed, CloseAcceptor, CloseListener
  <2>3. CASE RecvGetListenAddress \/ AskAddr \/ GotAddr \/ RecvGetClients
    BY <2>3 DEF RecvGetListenAddress, AskAddr, GotAddr, RecvGetClients,
                serverVars, userVars
  <2>4. CASE RecvSend \/ ForwardToConnection \/ EmitEvent
    BY <2>4 DEF RecvSend, ForwardToConnection, EmitEvent, userVars
  <2>5. CASE RecvNewConnection \/ RecvConnectionEvent
    BY <2>5 DEF RecvNewConnection, RecvConnectionEvent, userVars
  <2> QED
    BY <1>1, <2>1, <2>2, <2>3, <2>4, <2>5 DEF ServerStep
<1>2. CASE UNCHANGED <<server, user>>
  BY <1>2
<1>3. CASE MainStep
  BY <1>2, <1>3
     DEF MainStep, MainCall, MainRecv, UserRecv, CallerStep, Accept, Refuse,
         Return, serverVars, userVars
<1>4. CASE ListenerStep \/ AcceptorStep
  BY <1>2, <1>4
     DEF ListenerStep, HandleNewStream, ListenerMessage, AcceptorStep,
         AcceptorMessage, PassNewConnection, serverVars, userVars
<1>5. CASE ClientStep
  BY <1>2, <1>5
     DEF ClientStep, HandshakeOk, HandshakeFails, ListenerAccept, ConnReply,
         ConnRead, ConnPeerClose, SenderStep, ConnSent, ConnClose, serverVars,
         userVars
<1>6. CASE \E s \in Streams : ConnStep(s) \/ PasserStep(s)
  BY <1>2, <1>6
     DEF ConnStep, ConnTake, ConnEmit, PasserStep, PasserRecv, PasserPass,
         serverVars, userVars
<1>7. CASE \E c \in ClientCalls : CallerStep(c)
  BY <1>2, <1>7 DEF CallerStep, Accept, Refuse, Return, serverVars, userVars
<1>8. CASE MainCompleted \/ UNCHANGED echoVars
  BY <1>2, <1>8 DEF MainCompleted, echoVars, vars, serverVars, userVars
<1> QED
  BY <1>1, <1>3, <1>4, <1>5, <1>6, <1>7, <1>8
     DEF EchoNext, OtherStep, Take, ConnStep

-----------------------------------------------------------------------------
(* Main and the server wait for each other. *)

(* The echo server asks no client anything, so no connection owes a reply. *)
LEMMA NoRequests ==
    ASSUME TypeInv
    PROVE  /\ Requests = {} /\ Asks = AddrCalls \cup ClientCalls
           /\ \A s \in Streams : pending[s] = {}
<1>1. Requests = {} /\ pending \in [Streams -> SUBSET Requests]
  BY EchoAssumption DEF TypeInv, TypeOK
<1> QED
  BY <1>1 DEF Asks

(* While the server waits for main to drain the events, no step but main's   *)
(* own resolves a oneshot or frees the channel of the handle.                *)
LEMMA OthersKeepWaiting ==
    ASSUME TypeInv, LoopRuns, EchoWait, OtherStep \/ \E s \in Streams : Take(s)
    PROVE  /\ UNCHANGED <<server, tx, oneshot, awaiting>>
           /\ rx # None => rx' = rx
           /\ call'[Get(awaiting)] = call[Get(awaiting)]
<1> DEFINE c0 == Get(awaiting)
<1>1. /\ oneshot \in [Asks -> {"open", "Ok", "Canceled", "Dropped"}]
      /\ call \in [Calls -> {"sending", "waiting", "Ok", "SendError",
                             "RecvError", "Canceled", "Timeout"}]
  BY DEF TypeInv, TypeOK
<1>2. /\ server = "event" /\ server # "done" /\ Len(tx) = EventCap
      /\ \/ call[c0] = "sending" /\ rx # None
         \/ call[c0] = "waiting" /\ oneshot[c0] = "open"
  BY DEF EchoWait
<1>3. \A v : Resolve({}, v) = oneshot
  BY <1>1 DEF Resolve
<1>4. UNCHANGED awaiting
  BY DEF OtherStep, Take
<1>5. ~ServerStep
  <2>1. ~EmitEvent
    BY <1>2, ServerAssumption DEF EmitEvent, LoopRuns
  <2> QED
    BY <1>2, <2>1
       DEF ServerStep, RecvClose, RecvGetListenAddress, AskAddr, GotAddr,
           RecvGetClients, RecvSend, ForwardToConnection, RecvNewConnection,
           RecvConnectionEvent, CloseConnection, ConnectionsClosed,
           CloseAcceptor, CloseListener
<1>6. CASE ListenerStep \/ AcceptorStep
  BY <1>2, <1>4, <1>6
     DEF ListenerStep, HandleNewStream, ListenerMessage, AcceptorStep,
         AcceptorMessage, PassNewConnection, callVars, serverVars, userVars
<1>7. CASE ClientStep
  <2>1. \A s \in Streams : ~ConnReply(s)
    BY NoRequests DEF ConnReply
  <2>2. ASSUME NEW s \in Streams, SenderStep(s)
        PROVE  UNCHANGED <<server, tx, oneshot, rx, call>>
    BY <1>3, <2>2, NoRequests
       DEF SenderStep, ConnSent, ConnClose, callVars, serverVars, userVars
  <2> QED
    BY <1>4, <1>7, <2>1, <2>2
       DEF ClientStep, HandshakeOk, HandshakeFails, ListenerAccept, ConnRead,
           ConnPeerClose, callVars, serverVars, userVars
<1>8. ASSUME NEW s \in Streams, ConnStep(s)
      PROVE  UNCHANGED <<server, tx, oneshot, rx, call>>
  <2>1. CASE ConnTake(s)
    BY <2>1, NoRequests DEF ConnTake, serverVars, userVars
  <2>2. CASE ConnEmit(s)
    <3>1. {r \in Requests : conn_rx[s] = Some(r)} = {}
      BY NoRequests
    <3> QED
      BY <1>3, <2>2, <3>1 DEF ConnEmit, serverVars, userVars
  <2> QED
    BY <1>8, <2>1, <2>2 DEF ConnStep
<1>9. ASSUME NEW s \in Streams, PasserStep(s)
      PROVE  UNCHANGED <<server, tx, oneshot, call>> /\ (rx # None => rx' = rx)
  BY <1>2, <1>9
     DEF PasserStep, PasserRecv, PasserPass, callVars, serverVars, userVars
<1>10. ASSUME NEW c \in ClientCalls, CallerStep(c)
       PROVE  /\ UNCHANGED <<server, tx, oneshot>> /\ (rx # None => rx' = rx)
              /\ call'[c0] = call[c0]
  <2>1. c # c0
    BY <1>2, <1>10 DEF CallerStep, Accept, Refuse, Return
  <2>2. \A v : [call EXCEPT ![c] = v][c0] = call[c0]
    BY <1>1, <2>1
  <2> QED
    BY <1>2, <1>10, <2>2
       DEF CallerStep, Accept, Refuse, Return, serverVars, userVars
<1> HIDE DEF c0
<1> QED
  BY <1>4, <1>5, <1>6, <1>7, <1>8, <1>9, <1>10 DEF OtherStep, Take, ConnStep, c0

(* Main cannot end the wait either: it is not at rx.recv() and completes no  *)
(* request, and its call cannot be taken, fail or return.                    *)
LEMMA EchoWaitNext ==
    TypeInv /\ LoopRuns /\ EchoWait /\ [EchoNext]_echoVars => EchoWait'
<1> SUFFICES ASSUME TypeInv, LoopRuns, EchoWait, [EchoNext]_echoVars
             PROVE  EchoWait'
  OBVIOUS
<1>1. ~MainStep /\ ~MainCompleted
  <2>1. ~MainStep
    BY DEF MainStep, MainCall, MainRecv, EchoWait, CallerStep, Accept, Refuse,
           Return
  <2>2. ~MainCompleted
    BY MainCalls, GetSome DEF MainCompleted, Completing, EchoWait
  <2> QED
    BY <2>1, <2>2
<1>2. CASE OtherStep \/ \E s \in Streams : Take(s)
  <2>1. /\ UNCHANGED <<server, tx, oneshot, awaiting>>
        /\ rx # None => rx' = rx
        /\ call'[Get(awaiting)] = call[Get(awaiting)]
    BY <1>2, OthersKeepWaiting
  <2> QED
    BY <2>1 DEF EchoWait
<1>3. CASE UNCHANGED echoVars
  BY <1>3 DEF echoVars, vars, callVars, serverVars, userVars, EchoWait
<1> QED
  BY <1>1, <1>2, <1>3 DEF EchoNext

(* Once main awaits a call while the server waits for main to drain, both    *)
(* wait for good, whatever the clients and the other callers do and however  *)
(* large the event channel is.                                               *)
THEOREM EchoWaitForever == EchoSpec => EchoWaitIsForever
<1>1. Init => LoopRuns
  BY DEF Init, LoopRuns, LoopStates
<1>2. TypeInv /\ LoopRuns /\ [EchoNext]_echoVars
        => [EchoWait => EchoWait']_echoVars
  BY EchoWaitNext
<1>3. Spec => []TypeInv
  BY TypeInit, TypeNext, PTL DEF Spec
<1>4. EchoInit => Init
  BY DEF EchoInit
<1> QED
  BY <1>1, <1>2, <1>3, <1>4, LoopNext, EchoIsServer, PTL
     DEF EchoSpec, EchoWaitIsForever

-----------------------------------------------------------------------------
(* The echoes of a client. *)

(* The numbers of the messages of a stream: those its connection has taken   *)
(* to echo, the one a channel or a task holds, and those main has received.  *)
Taken(s) == {echoed[s][i] : i \in DOMAIN echoed[s]}
EchoIn(s, c) == {n \in 1 .. MaxMessages : c = Some(Echo(s, n))}
Seen(s) == {k \in 1 .. MaxMessages :
              \E i \in DOMAIN delivered :
                 delivered[i] = ConnectionEvent(s, Message(k))}

Below(X, Y) == \A x \in X, y \in Y : x < y

(* The echoes of a stream on their way: q were taken, then come the ones     *)
(* held by the connection's channel, the server, the server's channel and    *)
(* main, of the messages S that main has received.  While the connection     *)
(* runs, all that follow one in line are in line, unless they were requests, *)
(* and one that came past the server's list shows that the connection is in  *)
(* it.                                                                       *)
EchoLine(q, c, v, r, m, S, running, listed) ==
    /\ Below(q, c) /\ Below(q \cup c, v) /\ Below(q \cup c \cup v, r)
    /\ Below(q \cup c \cup v \cup r, m)
    /\ q \cup c \cup v \cup r \cup m \subseteq S
    /\ running => \A n \in q \cup c \cup v \cup r \cup m : \A k \in S \ Asked :
                    k > n => k \in q \cup c \cup v \cup r \cup m
    /\ running /\ q \cup c \cup v # {} => listed

InEchoLine(s) ==
    EchoLine(Taken(s), EchoIn(s, conn_rx[s]), EchoIn(s, server_call),
             EchoIn(s, rx), EchoIn(s, awaiting), Seen(s),
             conn[s] # "done", connections[AddrOf[s]] = Some(s))

(* A connection is handed echoes of its own messages only. *)
HoldsOwn(s) == \/ conn_rx[s] = None
               \/ \E n \in 1 .. MaxMessages : conn_rx[s] = Some(Echo(s, n))

(* The echoes taken: increasing, and without a gap but for requests. *)
TakenInOrder(s) ==
    /\ echoed[s] \in Seq(1 .. MaxMessages)
    /\ \A i, j \in DOMAIN echoed[s] : i < j => echoed[s][i] < echoed[s][j]
    /\ \A i \in 1 .. Len(echoed[s]) - 1 :
            (echoed[s][i] + 1) .. (echoed[s][i + 1] - 1) \subseteq Asked

(* The call across which the server asks the Listener is not an echo. *)
AddrServed ==
    server \in {"ask_addr", "wait_addr"}
        => \E c \in AddrCalls : server_call = Some(c)

EchoInv ==
    /\ echoed = [s \in Streams |-> echoed[s]] /\ AddrServed
    /\ \A s \in Streams : InEchoLine(s) /\ HoldsOwn(s) /\ TakenInOrder(s)

(* How an echo moves along the line: accepted from main, listed or dropped   *)
(* by the server, handed to the connection, taken; and a message that main   *)
(* receives.                                                                 *)
LEMMA EchoMoves ==
    ASSUME NEW q, NEW c, NEW v, NEW r, NEW m, NEW S, NEW running, NEW listed
    PROVE  /\ EchoLine(q, c, v, {}, m, S, running, listed)
                => EchoLine(q, c, v, m, {}, S, running, listed)
           /\ EchoLine(q, c, {}, r, m, S, running, TRUE)
                => EchoLine(q, c, r, {}, m, S, running, TRUE)
           /\ EchoLine(q, {}, v, r, m, S, running, listed)
                => EchoLine(q, v, {}, r, m, S, running, listed)
           /\ EchoLine(q, c, v, r, m, S, running, listed)
                => EchoLine(q \cup c, {}, v, r, m, S, running, listed)
<1>1. \A X : X \cup {} = X /\ {} \cup X = X
  OBVIOUS
<1> QED
  BY <1>1 DEF EchoLine, Below

(* The server drops an echo to a connection it has not listed: nothing has   *)
(* gone before it, or the connection is done.                                *)
LEMMA EchoDropped ==
    ASSUME NEW q, NEW c, NEW v, NEW r, NEW m, NEW S \in SUBSET Nat,
           NEW running, NEW k \in Nat, r \subseteq {k},
           EchoLine(q, c, v, r, m, S, running, FALSE)
    PROVE  EchoLine(q, c, v, {}, m, S, running, FALSE)
<1>1. /\ Below(q, c) /\ Below(q \cup c, v) /\ Below(q \cup c \cup v, {})
      /\ Below(q \cup c \cup v \cup {}, m)
      /\ q \cup c \cup v \cup {} \cup m \subseteq S
  BY DEF EchoLine, Below
<1>2. ASSUME running
      PROVE  /\ q \cup c \cup v = {}
             /\ \A n \in m : \A j \in S \ Asked : j > n => j \in m
  <2>1. q \cup c \cup v = {}
    BY <1>2 DEF EchoLine
  <2>2. \A n \in m : \A j \in S \ Asked : j > n => j \in r \cup m
    BY <1>2, <2>1 DEF EchoLine
  <2>3. \A i \in r, n \in m : i \in Nat /\ n \in Nat /\ i < n
    BY DEF EchoLine, Below
  <2>4. \A n \in m : \A j \in r : ~(j > n)
    BY <2>3
  <2> QED
    BY <2>1, <2>2, <2>4
<1> QED
  BY <1>1, <1>2 DEF EchoLine

(* A connection that ends drops what it holds, and stays in or out of the    *)
(* list as it likes.                                                         *)
LEMMA EchoEnds ==
    ASSUME NEW q, NEW c, NEW v, NEW r, NEW m, NEW S, NEW running, NEW listed,
           NEW c2, NEW v2, c2 \subseteq c, v2 \subseteq v, NEW l2,
           EchoLine(q, c, v, r, m, S, running, listed)
    PROVE  EchoLine(q, c2, v2, r, m, S, FALSE, l2)
  BY DEF EchoLine, Below

(* Main receives a message that follows all it has received. *)
LEMMA EchoArrives ==
    ASSUME NEW q, NEW c, NEW v, NEW r, NEW S \in SUBSET Nat, NEW running,
           NEW listed, NEW k \in Nat, \A n \in S : n < k,
           EchoLine(q, c, v, r, {}, S, running, listed)
    PROVE  EchoLine(q, c, v, r, {k} \ Asked, S \cup {k}, running, listed)
<1> DEFINE l == q \cup c \cup v \cup r
           m == {k} \ Asked
<1>1. /\ Below(q, c) /\ Below(q \cup c, v) /\ Below(q \cup c \cup v, r)
      /\ l \subseteq S /\ (running /\ q \cup c \cup v # {} => listed)
  BY DEF EchoLine
<1>2. Below(l, m) /\ l \cup m \subseteq S \cup {k}
  BY <1>1 DEF Below
<1>3. ASSUME running, NEW n \in l \cup m, NEW j \in (S \cup {k}) \ Asked, j > n
      PROVE  j \in l \cup m
  <2>1. CASE j = k
    BY <1>3, <2>1
  <2>2. CASE j \in S /\ n \in l
    BY <1>3, <2>2 DEF EchoLine
  <2>3. CASE j \in S /\ n = k
    BY <1>3, <2>3
  <2> QED
    BY <1>3, <2>1, <2>2, <2>3
<1> QED
  BY <1>1, <1>2, <1>3 DEF EchoLine

(* Echoes are told apart by their stream and their number, and from all else *)
(* that a channel may hold.                                                  *)
LEMMA EchoInCases ==
    ASSUME NEW s \in Streams
    PROVE  /\ EchoIn(s, None) = {}
           /\ \A t \in Streams, n \in 1 .. MaxMessages :
                EchoIn(s, Some(Echo(t, n))) = IF t = s THEN {n} ELSE {}
           /\ \A c \in Asks \cup TaskMessages \cup {CloseMsg} \cup Completions :
                EchoIn(s, Some(c)) = {}
<1>1. \A t, u, n, k : Echo(t, n) = Echo(u, k) => t = u /\ n = k
  BY DEF Echo
<1>2. \A n \in 1 .. MaxMessages :
        /\ Echo(s, n) \in Calls /\ Echo(s, n) \notin Asks
        /\ Echo(s, n) \notin Completions
  BY MainCalls DEF Echoes
<1>3. \A n \in 1 .. MaxMessages : Echo(s, n) \notin TaskMessages \cup {CloseMsg}
  BY <1>2, CallsAssumption
<1> QED
  BY <1>1, <1>2, <1>3, SomeIsNotNone, SomeInjective DEF EchoIn

(* A step that moves no echo of a stream, and takes a running connection     *)
(* neither out of the list nor back from its end, keeps its line.            *)
LEMMA EchoStays ==
    ASSUME NEW s \in Streams, InEchoLine(s),
           UNCHANGED <<Taken(s), EchoIn(s, conn_rx[s]), EchoIn(s, server_call),
                       EchoIn(s, rx), EchoIn(s, awaiting), Seen(s)>>,
           conn'[s] # "done"
             => /\ conn[s] # "done"
                /\ connections[AddrOf[s]] = Some(s)
                     => connections'[AddrOf[s]] = Some(s)
    PROVE  InEchoLine(s)'
  BY DEF InEchoLine, EchoLine

(* What the proofs below assume of the state. *)
EchoState == /\ TypeInv /\ CallInv /\ CloseIsLast /\ AwaitTyped /\ LoopRuns
             /\ EventsInOrder /\ EchoInv

(* An echo is told by its stream and the number of its message. *)
LEMMA EchoShape ==
    ASSUME NEW c \in Echoes
    PROVE  \E t \in Streams, n \in 1 .. MaxMessages :
                c = Echo(t, n) /\ To[c] = AddrOf[t]
<1>1. PICK t \in Streams, n \in 1 .. MaxMessages : c = Echo(t, n)
  BY DEF Echoes
<1>2. To[c] = AddrOf[c.from] /\ c.from = t
  BY <1>1, EchoAssumption DEF Echo
<1> QED
  BY <1>1, <1>2

(* The entry of an address is the one stream that comes from it. *)
LEMMA OwnEntry ==
    ASSUME OwnAddresses, TypeInv, ListedAreStarted, NEW s \in Streams,
           connections[AddrOf[s]] # None
    PROVE  connections[AddrOf[s]] = Some(s)
<1>1. AddrOf[s] \in Addrs
  BY ServerAssumption
<1>2. connections \in [Addrs -> Option(Streams)]
  BY DEF TypeInv, TypeOK
<1>3. PICK u \in Streams : connections[AddrOf[s]] = Some(u)
  BY <1>1, <1>2, OptionCases
<1>4. AddrOf[u] = AddrOf[s]
  BY <1>1, <1>3 DEF ListedAreStarted
<1> QED
  BY <1>3, <1>4 DEF OwnAddresses

(* The server reads a call other than an echo, or passes an event on. *)
LEMMA ServerKeepsEchoes ==
    ASSUME OwnAddresses, EchoState, NEW s \in Streams,
           UNCHANGED <<awaiting, echoed>>,
           \/ RecvGetListenAddress \/ AskAddr \/ GotAddr \/ RecvGetClients
           \/ RecvNewConnection \/ RecvConnectionEvent \/ EmitEvent
    PROVE  InEchoLine(s)' /\ UNCHANGED conn_rx
<1> USE DEF EchoState
<1>1. InEchoLine(s)
  BY DEF EchoInv
<1>2. UNCHANGED <<conn, conn_rx, delivered>>
  BY DEF RecvGetListenAddress, AskAddr, GotAddr, RecvGetClients,
         RecvNewConnection, RecvConnectionEvent, EmitEvent, linkVars, connVars,
         userVars
<1>3. /\ AddrOf[s] \in Addrs /\ AddrCalls \subseteq Asks
      /\ ClientCalls \subseteq Asks
  BY ServerAssumption DEF Asks
<1>4. connections \in [Addrs -> Option(Streams)]
  BY DEF TypeInv, TypeOK
<1>5. UNCHANGED <<Taken(s), EchoIn(s, conn_rx[s]), EchoIn(s, awaiting), Seen(s)>>
  BY <1>2 DEF Taken, EchoIn, Seen
<1>6. CASE RecvGetListenAddress
  <2>1. server_call = None
    BY <1>6 DEF RecvGetListenAddress, CallInv, CallIsServed
  <2>2. UNCHANGED <<EchoIn(s, server_call), EchoIn(s, rx)>>
    BY <1>3, <1>6, <2>1, EchoInCases DEF RecvGetListenAddress
  <2>3. UNCHANGED connections
    BY <1>6 DEF RecvGetListenAddress
  <2> QED
    BY <1>1, <1>2, <1>5, <2>2, <2>3, EchoStays
<1>7. CASE AskAddr
  <2>1. UNCHANGED <<server_call, rx, connections>>
    BY <1>7 DEF AskAddr
  <2>2. UNCHANGED <<EchoIn(s, server_call), EchoIn(s, rx)>>
    BY <2>1 DEF EchoIn
  <2> QED
    BY <1>1, <1>2, <1>5, <2>1, <2>2, EchoStays
<1>8. CASE GotAddr
  <2>1. /\ server = "wait_addr" /\ server_call' = None
        /\ UNCHANGED <<rx, connections>>
    BY <1>8 DEF GotAddr
  <2>2. PICK c \in AddrCalls : server_call = Some(c)
    BY <2>1 DEF EchoInv, AddrServed
  <2>3. UNCHANGED <<EchoIn(s, server_call), EchoIn(s, rx)>>
    <3>1. EchoIn(s, server_call) = {} /\ EchoIn(s, server_call)' = {}
      BY <1>3, <2>1, <2>2, EchoInCases
    <3> QED
      BY <2>1, <3>1 DEF EchoIn
  <2> QED
    BY <1>1, <1>2, <1>5, <2>1, <2>3, EchoStays
<1>9. CASE RecvGetClients
  <2>1. UNCHANGED <<server_call, connections>>
    BY <1>9 DEF RecvGetClients, serverVars
  <2>2. UNCHANGED EchoIn(s, rx)
    BY <1>3, <1>9, EchoInCases DEF RecvGetClients
  <2>3. UNCHANGED EchoIn(s, server_call)
    BY <2>1 DEF EchoIn
  <2> QED
    BY <1>1, <1>2, <1>5, <2>1, <2>2, <2>3, EchoStays
<1>10. CASE RecvNewConnection
  <2>1. PICK t \in Streams :
            /\ rx = Some(NewConnection(t))
            /\ \/ UNCHANGED connections
               \/ /\ connections[AddrOf[t]] = None
                  /\ connections' = [connections EXCEPT ![AddrOf[t]] = Some(t)]
    BY <1>10 DEF RecvNewConnection
  <2>2. rx' = None /\ UNCHANGED server_call
    BY <1>10 DEF RecvNewConnection
  <2>3. UNCHANGED <<EchoIn(s, server_call), EchoIn(s, rx)>>
    <3>1. NewConnection(t) \in TaskMessages
      BY DEF TaskMessages
    <3>2. EchoIn(s, rx) = {} /\ EchoIn(s, rx)' = {}
      BY <2>1, <2>2, <3>1, EchoInCases
    <3> QED
      BY <2>2, <3>2 DEF EchoIn
  <2>4. connections[AddrOf[s]] = Some(s) => connections'[AddrOf[s]] = Some(s)
    BY <1>3, <1>4, <2>1, SomeIsNotNone
  <2> QED
    BY <1>1, <1>2, <1>5, <2>3, <2>4, EchoStays
<1>11. CASE RecvConnectionEvent
  <2>1. PICK t \in Streams, e \in ConnectionEvents :
            /\ rx = Some(ConnectionEvent(t, e))
            /\ \/ UNCHANGED connections
               \/ /\ e = CloseMsg
                  /\ connections' = [connections EXCEPT ![AddrOf[t]] = None]
    BY <1>11 DEF RecvConnectionEvent
  <2>2. rx' = None /\ UNCHANGED server_call
    BY <1>11 DEF RecvConnectionEvent
  <2>3. UNCHANGED <<EchoIn(s, server_call), EchoIn(s, rx)>>
    <3>1. ConnectionEvent(t, e) \in TaskMessages
      BY DEF TaskMessages
    <3>2. EchoIn(s, rx) = {} /\ EchoIn(s, rx)' = {}
      BY <2>1, <2>2, <3>1, EchoInCases
    <3> QED
      BY <2>2, <3>2 DEF EchoIn
  <2>4. /\ conn'[s] # "done" => conn[s] # "done"
        /\ conn'[s] # "done" /\ connections[AddrOf[s]] = Some(s)
             => connections'[AddrOf[s]] = Some(s)
    <3>1. e = CloseMsg => conn[t] = "done"
      BY <2>1 DEF CloseIsLast, ClosePassed
    <3>2. AddrOf[t] = AddrOf[s] => t = s
      BY DEF OwnAddresses
    <3> QED
      BY <1>2, <1>3, <1>4, <2>1, <3>1, <3>2
  <2> QED
    BY <1>1, <1>2, <1>5, <2>3, <2>4, EchoStays
<1>12. CASE EmitEvent
  <2>1. UNCHANGED <<server_call, rx, connections>>
    BY <1>12 DEF EmitEvent
  <2>2. UNCHANGED <<EchoIn(s, server_call), EchoIn(s, rx)>>
    BY <2>1 DEF EchoIn
  <2> QED
    BY <1>1, <1>2, <1>5, <2>1, <2>2, EchoStays
<1> QED
  BY <1>2, <1>6, <1>7, <1>8, <1>9, <1>10, <1>11, <1>12

(* The server reads an echo: it goes on to the connection that is listed, or *)
(* is dropped.                                                               *)
LEMMA SendKeepsLine ==
    ASSUME OwnAddresses, EchoState, NEW s \in Streams,
           UNCHANGED <<awaiting, echoed>>, RecvSend
    PROVE  InEchoLine(s)' /\ UNCHANGED conn_rx
<1> USE DEF EchoState
<1>1. UNCHANGED <<conn, conn_rx, delivered, connections>>
  BY DEF RecvSend, linkVars, connVars, userVars
<1>2. PICK c \in Echoes :
        /\ rx = Some(c)
        /\ \/ connections[To[c]] # None /\ server_call' = Some(c)
           \/ connections[To[c]] = None /\ UNCHANGED server_call
  BY EchoAssumption DEF RecvSend
<1>3. rx' = None /\ server_call = None
  BY DEF RecvSend, CallInv, CallIsServed
<1>4. PICK t \in Streams, n \in 1 .. MaxMessages :
        c = Echo(t, n) /\ To[c] = AddrOf[t]
  BY EchoShape
<1>5. /\ UNCHANGED <<Taken(s), EchoIn(s, conn_rx[s]), EchoIn(s, awaiting),
                     Seen(s)>>
      /\ EchoIn(s, rx)' = {} /\ EchoIn(s, server_call) = {}
  BY <1>1, <1>3, EchoInCases DEF Taken, EchoIn, Seen
<1>6. InEchoLine(s)
  BY DEF EchoInv
<1>7. CASE t # s
  <2>1. EchoIn(s, rx) = {} /\ EchoIn(s, server_call)' = {}
    BY <1>2, <1>3, <1>4, <1>7, EchoInCases
  <2> QED
    BY <1>1, <1>5, <1>6, <2>1, EchoStays
<1>8. CASE t = s /\ connections[To[c]] # None
  <2>1. EchoIn(s, server_call)' = EchoIn(s, rx)
    BY <1>2, <1>8, EchoInCases DEF EchoIn
  <2>2. (connections[AddrOf[s]] = Some(s)) = TRUE
    BY <1>4, <1>8, OwnEntry DEF CallInv
  <2>3. EchoLine(Taken(s), EchoIn(s, conn_rx[s]), {}, EchoIn(s, rx),
                 EchoIn(s, awaiting), Seen(s), conn[s] # "done", TRUE)
    BY <1>5, <1>6, <2>2 DEF InEchoLine
  <2>4. EchoLine(Taken(s), EchoIn(s, conn_rx[s]), EchoIn(s, rx), {},
                 EchoIn(s, awaiting), Seen(s), conn[s] # "done", TRUE)
    BY <2>3, EchoMoves
  <2> QED
    BY <1>1, <1>5, <2>1, <2>2, <2>4 DEF InEchoLine
<1>9. CASE t = s /\ connections[To[c]] = None
  <2>1. EchoIn(s, rx) = {n} /\ EchoIn(s, server_call)' = {}
    BY <1>2, <1>3, <1>4, <1>9, EchoInCases
  <2>2. (connections[AddrOf[s]] = Some(s)) = FALSE
    BY <1>4, <1>9, SomeIsNotNone
  <2>3. EchoLine(Taken(s), EchoIn(s, conn_rx[s]), {}, EchoIn(s, rx),
                 EchoIn(s, awaiting), Seen(s), conn[s] # "done", FALSE)
    BY <1>5, <1>6, <2>2 DEF InEchoLine
  <2>4. Seen(s) \in SUBSET Nat /\ n \in Nat
    BY ServerAssumption DEF Seen
  <2>5. EchoLine(Taken(s), EchoIn(s, conn_rx[s]), {}, {},
                 EchoIn(s, awaiting), Seen(s), conn[s] # "done", FALSE)
    BY <2>1, <2>3, <2>4, EchoDropped
  <2> QED
    BY <1>1, <1>5, <2>1, <2>2, <2>5 DEF InEchoLine
<1> QED
  BY <1>1, <1>7, <1>8, <1>9

(* The server hands an echo to its connection, or finds it done. *)
LEMMA ForwardKeepsLine ==
    ASSUME OwnAddresses, EchoState, NEW s \in Streams,
           UNCHANGED <<awaiting, echoed>>, ForwardToConnection
    PROVE  InEchoLine(s)' /\ HoldsOwn(s)'
<1> USE DEF EchoState
<1>1. UNCHANGED <<conn, delivered, rx>> /\ server_call' = None
  BY DEF ForwardToConnection, userVars
<1>2. PICK c \in Echoes : server_call = Some(c) /\ connections[To[c]] # None
  BY EchoAssumption DEF ForwardToConnection, TypeInv, Carried
<1>3. PICK t \in Streams, n \in 1 .. MaxMessages :
        c = Echo(t, n) /\ To[c] = AddrOf[t]
  BY EchoShape
<1>4. connections[AddrOf[t]] = Some(t)
  BY <1>2, <1>3, OwnEntry DEF CallInv
<1>5. \/ /\ conn[t] # "done" /\ conn_rx[t] = None
         /\ conn_rx' = [conn_rx EXCEPT ![t] = Some(c)]
         /\ UNCHANGED connections
      \/ /\ conn[t] = "done" /\ UNCHANGED conn_rx
         /\ connections' = [connections EXCEPT ![AddrOf[t]] = None]
  BY <1>2, <1>3, <1>4, GetSome DEF ForwardToConnection
<1>6. /\ UNCHANGED <<Taken(s), EchoIn(s, rx), EchoIn(s, awaiting), Seen(s)>>
      /\ EchoIn(s, server_call)' = {}
  BY <1>1, EchoInCases DEF Taken, EchoIn, Seen
<1>7. InEchoLine(s) /\ HoldsOwn(s)
  BY DEF EchoInv
<1>8. /\ AddrOf \in [Streams -> Addrs]
      /\ connections \in [Addrs -> Option(Streams)]
      /\ conn_rx \in [Streams -> Option(Requests \cup Events \cup {CloseMsg})]
  BY ServerAssumption DEF TypeInv, TypeOK
<1>9. CASE t # s
  <2>1. conn_rx'[s] = conn_rx[s] /\ connections'[AddrOf[s]] = connections[AddrOf[s]]
    BY <1>5, <1>8, <1>9 DEF OwnAddresses
  <2>2. EchoIn(s, server_call) = {}
    BY <1>2, <1>3, <1>9, EchoInCases
  <2>3. EchoIn(s, conn_rx[s])' = EchoIn(s, conn_rx[s])
    BY <2>1 DEF EchoIn
  <2> QED
    BY <1>1, <1>6, <1>7, <2>1, <2>2, <2>3, EchoStays DEF HoldsOwn
<1>10. CASE t = s /\ conn[t] # "done"
  <2>1. conn_rx[s] = None /\ conn_rx'[s] = Some(c) /\ UNCHANGED connections
    BY <1>5, <1>8, <1>10
  <2>2. /\ EchoIn(s, conn_rx[s]) = {}
        /\ EchoIn(s, conn_rx[s])' = EchoIn(s, server_call)
    BY <1>2, <2>1, EchoInCases DEF EchoIn
  <2>3. EchoLine(Taken(s), EchoIn(s, server_call), {}, EchoIn(s, rx),
                 EchoIn(s, awaiting), Seen(s), conn[s] # "done",
                 connections[AddrOf[s]] = Some(s))
    BY <1>7, <2>2, EchoMoves DEF InEchoLine
  <2>4. HoldsOwn(s)'
    BY <1>3, <1>10, <2>1 DEF HoldsOwn
  <2> QED
    BY <1>1, <1>6, <2>1, <2>2, <2>3, <2>4 DEF InEchoLine
<1>11. CASE t = s /\ conn[t] = "done"
  <2>1. UNCHANGED conn_rx /\ (conn'[s] # "done") = FALSE
    BY <1>1, <1>5, <1>11
  <2>2. EchoIn(s, conn_rx[s])' = EchoIn(s, conn_rx[s])
    BY <2>1 DEF EchoIn
  <2>3. EchoLine(Taken(s), EchoIn(s, conn_rx[s]), {}, EchoIn(s, rx),
                 EchoIn(s, awaiting), Seen(s), FALSE,
                 connections'[AddrOf[s]] = Some(s))
    BY <1>7, EchoEnds DEF InEchoLine
  <2>4. HoldsOwn(s)'
    BY <1>7, <2>1 DEF HoldsOwn
  <2> QED
    BY <1>6, <2>1, <2>2, <2>3, <2>4 DEF InEchoLine
<1> QED
  BY <1>9, <1>10, <1>11

(* A connection that ends drops the echo in its channel; no other step of    *)
(* the Listener, the Acceptor, a connection, a passer or another caller      *)
(* moves an echo.                                                            *)
LEMMA OthersKeepLine ==
    ASSUME EchoState, NEW s \in Streams, OtherStep, [Next]_vars, ~ServerStep
    PROVE  InEchoLine(s)' /\ HoldsOwn(s)'
<1> USE DEF EchoState
<1>1. UNCHANGED <<awaiting, echoed, server_call, connections>>
  BY OnlyServer DEF OtherStep, serverVars
<1>2. InEchoLine(s) /\ HoldsOwn(s)
  BY DEF EchoInv
<1>3. conn[s] = "done" => conn'[s] = "done"
  BY StartedStays DEF CallInv
<1>4. /\ conn_rx \in [Streams -> Option(Requests \cup Events \cup {CloseMsg})]
      /\ conn \in [Streams -> {"none", "run", "send", "emit", "close", "done"}]
      /\ passer_msg \in [Streams -> Option(ConnectionEvents)]
      /\ acceptor_msg \in Option(Streams)
  BY DEF TypeInv, TypeOK
<1>5. UNCHANGED delivered
  BY DEF OtherStep, ListenerStep, HandleNewStream, ListenerMessage,
         AcceptorStep, AcceptorMessage, PassNewConnection, ClientStep,
         HandshakeOk, HandshakeFails, ListenerAccept, ConnReply, ConnRead,
         ConnPeerClose, SenderStep, ConnSent, ConnClose, ConnEmit, PasserStep,
         PasserRecv, PasserPass, CallerStep, Accept, Refuse, Return, userVars
<1>6. UNCHANGED rx \/ \E c \in Asks \cup TaskMessages : rx = None /\ rx' = Some(c)
  <2>1. CASE PassNewConnection
    <3>1. Get(acceptor_msg) \in Streams
      BY <1>4, <2>1, OptionCases DEF PassNewConnection, TypeInv, Carried
    <3> QED
      BY <2>1, <3>1 DEF PassNewConnection, TaskMessages
  <2>2. ASSUME NEW t \in Streams, PasserPass(t)
        PROVE  UNCHANGED rx \/ \E c \in TaskMessages : rx = None /\ rx' = Some(c)
    <3>1. Get(passer_msg[t]) \in ConnectionEvents
      BY <1>4, <2>2, OptionCases DEF PasserPass, TypeInv, Carried
    <3> QED
      BY <2>2, <3>1 DEF PasserPass, TaskMessages
  <2>3. ASSUME NEW c \in ClientCalls, CallerStep(c)
        PROVE  UNCHANGED rx \/ (rx = None /\ rx' = Some(c))
    BY <2>3 DEF CallerStep, Accept, Refuse, Return
  <2>4. ASSUME NEW t \in Streams, ConnEmit(t) \/ PasserRecv(t)
        PROVE  UNCHANGED rx
    BY <2>4 DEF ConnEmit, PasserRecv
  <2>5. CASE ListenerStep \/ AcceptorMessage \/ ClientStep
    BY <2>5
       DEF ListenerStep, HandleNewStream, ListenerMessage, AcceptorMessage,
           ClientStep, HandshakeOk, HandshakeFails, ListenerAccept, ConnReply,
           ConnRead, ConnPeerClose, SenderStep, ConnSent, ConnClose
  <2> QED
    BY <2>1, <2>2, <2>3, <2>4, <2>5
       DEF OtherStep, AcceptorStep, PasserStep, Asks
<1>7. EchoIn(s, rx)' = EchoIn(s, rx)
  BY <1>6, EchoInCases DEF EchoIn
<1>8. UNCHANGED <<Taken(s), EchoIn(s, server_call), EchoIn(s, rx),
                  EchoIn(s, awaiting), Seen(s)>>
  BY <1>1, <1>5, <1>7 DEF Taken, EchoIn, Seen
<1>9. conn_rx'[s] = conn_rx[s] \/ (conn_rx'[s] = None /\ conn'[s] = "done")
  <2>1. ASSUME NEW t \in Streams, ConnEmit(t)
        PROVE  conn_rx'[s] = conn_rx[s] \/ (conn_rx'[s] = None /\ conn'[s] = "done")
    BY <1>4, <2>1 DEF ConnEmit
  <2>2. CASE UNCHANGED conn_rx
    BY <2>2
  <2>3. ASSUME NEW t \in Streams, PasserStep(t) PROVE UNCHANGED conn_rx
    BY <2>3 DEF PasserStep, PasserRecv, PasserPass, connVars
  <2>4. CASE ListenerStep \/ AcceptorStep \/ ClientStep
    BY <2>4
       DEF ListenerStep, HandleNewStream, ListenerMessage, AcceptorStep,
           AcceptorMessage, PassNewConnection, ClientStep, HandshakeOk,
           HandshakeFails, ListenerAccept, ConnReply, ConnRead, ConnPeerClose,
           SenderStep, ConnSent, ConnClose, linkVars, connVars
  <2>5. ASSUME NEW c \in ClientCalls, CallerStep(c) PROVE UNCHANGED conn_rx
    BY <2>5 DEF CallerStep, Accept, Refuse, Return, linkVars, connVars
  <2> QED
    BY <2>1, <2>2, <2>3, <2>4, <2>5 DEF OtherStep
<1>10. CASE conn_rx'[s] = conn_rx[s]
  <2>1. EchoIn(s, conn_rx[s])' = EchoIn(s, conn_rx[s])
    BY <1>10 DEF EchoIn
  <2> QED
    BY <1>1, <1>2, <1>3, <1>8, <1>10, <2>1, EchoStays DEF HoldsOwn
<1>11. CASE conn_rx'[s] = None /\ conn'[s] = "done"
  <2>1. EchoIn(s, conn_rx[s])' = {} /\ (conn'[s] # "done") = FALSE
    BY <1>11, EchoInCases
  <2>2. EchoLine(Taken(s), {}, EchoIn(s, server_call), EchoIn(s, rx),
                 EchoIn(s, awaiting), Seen(s), FALSE,
                 connections[AddrOf[s]] = Some(s))
    BY <1>2, EchoEnds DEF InEchoLine
  <2> QED
    BY <1>1, <1>8, <1>11, <2>1, <2>2 DEF InEchoLine, HoldsOwn
<1> QED
  BY <1>9, <1>10, <1>11

(* The server's channel takes the call of main: an echo goes on, the address *)
(* call is awaited or has returned.                                          *)
LEMMA CallKeepsLine ==
    ASSUME EchoState, NEW s \in Streams, MainCall
    PROVE  InEchoLine(s)' /\ UNCHANGED <<conn_rx, server, server_call>>
<1> USE DEF EchoState
<1> DEFINE c == Get(awaiting)
<1>1. /\ awaiting = Some(c) /\ c \in {AddrCall} \cup Echoes /\ CallerStep(c)
      /\ awaiting' = (IF call'[c] = "waiting" THEN awaiting ELSE None)
  BY AwaitCases DEF MainCall
<1>2. /\ UNCHANGED <<conn, conn_rx, delivered, connections, server,
                     server_call, echoed>>
  BY <1>1 DEF MainCall, CallerStep, Accept, Refuse, Return, serverVars,
              linkVars, connVars, userVars
<1>3. UNCHANGED <<Taken(s), EchoIn(s, conn_rx[s]), EchoIn(s, server_call),
                  Seen(s)>>
  BY <1>2 DEF Taken, EchoIn, Seen
<1>4. InEchoLine(s)
  BY DEF EchoInv
<1>5. /\ call \in [Calls -> {"sending", "waiting", "Ok", "SendError",
                             "RecvError", "Canceled", "Timeout"}]
      /\ c \in Calls
  BY <1>1, MainCalls DEF TypeInv, TypeOK
<1> HIDE DEF c
<1>6. CASE c = AddrCall
  <2>1. UNCHANGED rx \/ (rx = None /\ rx' = Some(c))
    BY <1>1 DEF CallerStep, Accept, Refuse, Return
  <2>2. c \in Asks /\ (awaiting' = awaiting \/ awaiting' = None)
    BY <1>1, <1>6, MainCalls
  <2>3. /\ EchoIn(s, awaiting) = {} /\ EchoIn(s, awaiting)' = {}
        /\ EchoIn(s, rx)' = EchoIn(s, rx)
    BY <1>1, <2>1, <2>2, EchoInCases DEF EchoIn
  <2> QED
    BY <1>2, <1>3, <1>4, <2>3, EchoStays
<1>7. CASE c \in Echoes
  <2>1. c \notin Asks
    BY <1>7, MainCalls
  <2>2. Accept(c)
    BY <1>1, <2>1 DEF CallerStep, Refuse, LoopRuns, LoopStates
  <2>3. rx = None /\ rx' = Some(c) /\ awaiting' = None
    BY <1>1, <1>5, <2>1, <2>2 DEF Accept
  <2>4. /\ EchoIn(s, rx) = {} /\ EchoIn(s, awaiting)' = {}
        /\ EchoIn(s, rx)' = EchoIn(s, awaiting)
    BY <1>1, <2>3, EchoInCases DEF EchoIn
  <2>5. EchoLine(Taken(s), EchoIn(s, conn_rx[s]), EchoIn(s, server_call),
                 {}, EchoIn(s, awaiting), Seen(s), conn[s] # "done",
                 connections[AddrOf[s]] = Some(s))
    BY <1>4, <2>4 DEF InEchoLine
  <2>6. EchoLine(Taken(s), EchoIn(s, conn_rx[s]), EchoIn(s, server_call),
                 EchoIn(s, awaiting), {}, Seen(s), conn[s] # "done",
                 connections[AddrOf[s]] = Some(s))
    BY <2>5, EchoMoves
  <2> QED
    BY <1>2, <1>3, <2>4, <2>6 DEF InEchoLine
<1> QED
  BY <1>1, <1>2, <1>6, <1>7

(* The messages of a stream that main has received: all before any of them.  *)
LEMMA SeenDown ==
    ASSUME EchoState, NEW s \in Streams, NEW n \in Seen(s),
           NEW k \in 1 .. MaxMessages, k < n
    PROVE  k \in Seen(s)
<1>1. PICK j \in DOMAIN delivered : delivered[j] = ConnectionEvent(s, Message(n))
  BY DEF Seen
<1>2. n \in 1 .. MaxMessages /\ Message(n) \in ConnectionEvents
  BY DEF Seen, ConnectionEvents
<1>3. Follows(read[s], Message(n), EventsOf(s, delivered, j - 1))
  BY <1>1, <1>2 DEF EchoState, EventsInOrder
<1>4. /\ Message(n) # CloseMsg
      /\ \A i : Message(n) = Message(i) => n = i
  BY DEF Message, CloseMsg
<1>5. EventsOf(s, delivered, j - 1) = {Message(i) : i \in 1 .. n - 1}
  BY <1>3, <1>4 DEF Follows
<1>6. k \in 1 .. n - 1
  BY <1>2
<1>7. Message(k) \in EventsOf(s, delivered, j - 1)
  BY <1>5, <1>6
<1>8. delivered \in Seq(ServerEvents) /\ j \in 1 .. Len(delivered)
  BY DEF EchoState, TypeInv, TypeOK
<1>9. \A i \in 1 .. j - 1 : i \in DOMAIN delivered
  BY <1>8
<1> QED
  BY <1>7, <1>9 DEF EventsOf, Seen

(* A message main receives follows all of its stream that it has received.   *)
LEMMA SeenGrows ==
    ASSUME TypeInv, EventsInOrder', UserRecv, NEW s \in Streams,
           NEW k \in 1 .. MaxMessages
    PROVE  /\ Head(tx) = ConnectionEvent(s, Message(k))
                => /\ \A n \in Seen(s) : n < k
                   /\ Seen(s)' = Seen(s) \cup {k}
           /\ (\A n \in 1 .. MaxMessages :
                 Head(tx) # ConnectionEvent(s, Message(n)))
                => Seen(s)' = Seen(s)
<1> DEFINE d == delivered'
<1>1. /\ delivered \in Seq(ServerEvents) /\ tx \in Seq(ServerEvents)
      /\ delivered' = Append(delivered, Head(tx)) /\ tx # << >>
      /\ MaxMessages \in Nat
  BY ServerAssumption DEF TypeInv, TypeOK, UserRecv
<1>2. Head(tx) \in ServerEvents
  BY <1>1
<1>3. /\ d \in Seq(ServerEvents) /\ Len(d) = Len(delivered) + 1
      /\ Len(delivered) \in Nat /\ d[Len(d)] = Head(tx)
      /\ \A i \in 1 .. Len(delivered) : d[i] = delivered[i]
      /\ DOMAIN d = 1 .. Len(d) /\ DOMAIN delivered = 1 .. Len(delivered)
      /\ DOMAIN d = DOMAIN delivered \cup {Len(d)}
  BY <1>1, <1>2
<1> HIDE DEF d
<1>4. ASSUME Head(tx) = ConnectionEvent(s, Message(k))
      PROVE  \A n \in Seen(s) : n < k
  <2>1. Message(k) \in ConnectionEvents /\ Len(d) \in DOMAIN d
    BY <1>3 DEF ConnectionEvents
  <2>2. Follows(read'[s], Message(k), EventsOf(s, d, Len(d) - 1))
    BY <1>3, <1>4, <2>1 DEF EventsInOrder, d
  <2>3. /\ \A i : Message(i) # CloseMsg
        /\ \A i, j : Message(i) = Message(j) => i = j
    BY DEF Message, CloseMsg
  <2>4. EventsOf(s, d, Len(d) - 1) = {Message(i) : i \in 1 .. k - 1}
    BY <2>2, <2>3 DEF Follows
  <2>5. ASSUME NEW n \in Seen(s) PROVE n < k
    <3>1. PICK i \in 1 .. Len(delivered) :
              delivered[i] = ConnectionEvent(s, Message(n))
      BY <1>3 DEF Seen
    <3>2. i \in 1 .. Len(d) - 1 /\ d[i] = ConnectionEvent(s, Message(n))
      BY <1>3, <3>1
    <3>3. Message(n) \in ConnectionEvents
      BY DEF Seen, ConnectionEvents
    <3>4. Message(n) \in EventsOf(s, d, Len(d) - 1)
      BY <3>2, <3>3 DEF EventsOf
    <3>5. PICK i2 \in 1 .. k - 1 : Message(n) = Message(i2)
      BY <2>4, <3>4
    <3> QED
      BY <2>3, <3>5
  <2> QED
    BY <2>5
<1>5. \A n \in 1 .. MaxMessages :
        n \in Seen(s)' <=> n \in Seen(s) \/ Head(tx) = ConnectionEvent(s, Message(n))
  BY <1>3 DEF Seen, d
<1>6. Seen(s) \subseteq 1 .. MaxMessages /\ Seen(s)' \subseteq 1 .. MaxMessages
  BY DEF Seen
<1>7. \A n : ConnectionEvent(s, Message(k)) = ConnectionEvent(s, Message(n)) => n = k
  BY DEF ConnectionEvent, Message
<1> QED
  BY <1>4, <1>5, <1>6, <1>7

(* Main receives an event: if it is one of a client, its echo joins the line *)
(* behind all others.                                                        *)
LEMMA RecvKeepsLine ==
    ASSUME EchoState, EventsInOrder', NEW s \in Streams, MainRecv
    PROVE  InEchoLine(s)' /\ UNCHANGED <<conn_rx, server, server_call>>
<1> USE DEF EchoState
<1>1. /\ UNCHANGED <<conn, conn_rx, connections, server, server_call, rx, echoed>>
      /\ UserRecv /\ awaiting = None
  BY DEF MainRecv, UserRecv, serverVars, linkVars, connVars
<1>2. UNCHANGED <<Taken(s), EchoIn(s, conn_rx[s]), EchoIn(s, server_call),
                  EchoIn(s, rx)>>
  BY <1>1 DEF Taken, EchoIn
<1>3. InEchoLine(s) /\ EchoIn(s, awaiting) = {}
  BY <1>1, EchoInCases DEF EchoInv
<1>4. \A t, u, n, k : ConnectionEvent(t, Message(n)) = ConnectionEvent(u, Message(k))
                        => t = u /\ n = k
  BY DEF ConnectionEvent, Message
<1>5. \/ \E t \in Streams, n \in 1 .. MaxMessages :
            /\ n \notin Asked /\ Head(tx) = ConnectionEvent(t, Message(n))
            /\ awaiting' = Some(Echo(t, n))
      \/ \E t \in Streams, n \in 1 .. MaxMessages :
            /\ n \in Asked /\ Head(tx) = ConnectionEvent(t, Message(n))
            /\ awaiting' = Some(Completion(t, n))
      \/ Due(Head(tx)) = {} /\ awaiting' = None
  <2>1. CASE \E c \in Due(Head(tx)) : awaiting' = Some(c)
    <3>1. PICK c \in Due(Head(tx)) : awaiting' = Some(c)
      BY <2>1
    <3>2. /\ c \in Echoes \cup Completions
          /\ Head(tx) = ConnectionEvent(c.from, Message(c.n))
          /\ (c.kind = "Complete") <=> (c.n \in Asked)
      BY <3>1 DEF Due
    <3>3. CASE c \in Echoes
      <4>1. PICK t \in Streams, n \in 1 .. MaxMessages : c = Echo(t, n)
        BY <3>3 DEF Echoes
      <4>2. c.from = t /\ c.n = n /\ c.kind = "Echo"
        BY <4>1 DEF Echo
      <4> QED
        BY <3>1, <3>2, <4>1, <4>2
    <3>4. CASE c \in Completions
      <4>1. PICK t \in Streams, n \in 1 .. MaxMessages : c = Completion(t, n)
        BY <3>4 DEF Completions
      <4>2. c.from = t /\ c.n = n /\ c.kind = "Complete"
        BY <4>1 DEF Completion
      <4> QED
        BY <3>1, <3>2, <4>1, <4>2
    <3> QED
      BY <3>2, <3>3, <3>4
  <2> QED
    BY <1>1, <2>1 DEF MainRecv
<1>6. CASE \E k \in 1 .. MaxMessages : Head(tx) = ConnectionEvent(s, Message(k))
  <2>1. PICK k \in 1 .. MaxMessages : Head(tx) = ConnectionEvent(s, Message(k))
    BY <1>6
  <2>2. (\A n \in Seen(s) : n < k) /\ Seen(s)' = Seen(s) \cup {k}
    BY <1>1, <2>1, SeenGrows
  <2>3. EchoIn(s, awaiting)' = {k} \ Asked
    <3>1. CASE k \in Asked
      <4>1. \/ awaiting' = None
            \/ \E t \in Streams, n \in 1 .. MaxMessages :
                    awaiting' = Some(Completion(t, n))
        BY <1>4, <1>5, <2>1, <3>1
      <4>2. EchoIn(s, awaiting') = {}
        BY <4>1, EchoInCases DEF Completions
      <4> QED
        BY <3>1, <4>2 DEF EchoIn
    <3>2. CASE k \notin Asked
      <4>1. Echo(s, k) \in Due(Head(tx))
        <5>1. /\ Echo(s, k).from = s /\ Echo(s, k).n = k
              /\ Echo(s, k).kind = "Echo" /\ Echo(s, k) \in Echoes
          BY DEF Echoes, Echo
        <5> QED
          BY <2>1, <3>2, <5>1 DEF Due
      <4>2. \A t \in Streams, n \in 1 .. MaxMessages :
                Head(tx) = ConnectionEvent(t, Message(n)) => t = s /\ n = k
        BY <1>4, <2>1
      <4>3. awaiting' = Some(Echo(s, k))
        BY <1>5, <3>2, <4>1, <4>2
      <4> QED
        BY <3>2, <4>3, EchoInCases
    <3> QED
      BY <3>1, <3>2
  <2>4. Seen(s) \in SUBSET Nat /\ k \in Nat
    BY ServerAssumption DEF Seen
  <2>5. EchoLine(Taken(s), EchoIn(s, conn_rx[s]), EchoIn(s, server_call),
                 EchoIn(s, rx), {k} \ Asked, Seen(s) \cup {k},
                 conn[s] # "done", connections[AddrOf[s]] = Some(s))
    BY <1>3, <2>2, <2>4, EchoArrives DEF InEchoLine
  <2> QED
    BY <1>1, <1>2, <2>2, <2>3, <2>5 DEF InEchoLine
<1>7. CASE \A k \in 1 .. MaxMessages : Head(tx) # ConnectionEvent(s, Message(k))
  <2>1. Seen(s)' = Seen(s)
    <3>1. CASE 1 .. MaxMessages = {}
      BY <3>1 DEF Seen
    <3>2. ASSUME NEW k \in 1 .. MaxMessages PROVE Seen(s)' = Seen(s)
      BY <1>1, <1>7, SeenGrows
    <3> QED
      BY <3>1, <3>2
  <2>2. EchoIn(s, awaiting') = {}
    BY <1>5, <1>7, EchoInCases DEF Completions
  <2> QED
    BY <1>1, <1>2, <1>3, <2>1, <2>2, EchoStays DEF EchoIn
<1> QED
  BY <1>1, <1>6, <1>7

(* A connection takes the echo of one of its messages, to send it. *)
LEMMA TakeEffect ==
    ASSUME EchoState, NEW t \in Streams, Take(t)
    PROVE  \E n \in 1 .. MaxMessages :
             /\ conn[t] = "run" /\ conn_rx[t] = Some(Echo(t, n))
             /\ conn' = [conn EXCEPT ![t] = "send"]
             /\ conn_rx' = [conn_rx EXCEPT ![t] = None]
             /\ echoed' = [echoed EXCEPT ![t] = Append(@, n)]
             /\ UNCHANGED <<connections, server, server_call, rx, awaiting,
                            delivered>>
<1> USE DEF EchoState
<1>1. conn_rx[t] # None /\ conn[t] = "run"
  BY DEF Take, ConnTake
<1>2. PICK n \in 1 .. MaxMessages : conn_rx[t] = Some(Echo(t, n))
  BY <1>1 DEF EchoInv, HoldsOwn
<1>3. Get(conn_rx[t]) = Echo(t, n) /\ Echo(t, n).n = n
  BY <1>2, GetSome DEF Echo
<1>4. Echo(t, n) \in Calls
  BY MainCalls DEF Echoes
<1>5. Requests = {} /\ conn_rx[t] # Some(CloseMsg)
  BY <1>2, <1>4, EchoAssumption, CallsAssumption, SomeInjective
<1>6. /\ conn_rx' = [conn_rx EXCEPT ![t] = None]
      /\ conn' = [conn EXCEPT ![t] = "send"]
      /\ UNCHANGED <<connections, server, server_call, rx, awaiting, delivered>>
  BY <1>5 DEF Take, ConnTake, serverVars, userVars
<1>7. echoed' = [echoed EXCEPT ![t] = Append(@, n)]
  BY <1>3 DEF Take
<1> QED
  BY <1>1, <1>2, <1>6, <1>7

(* The echo a connection takes continues those it took before: a message     *)
(* between the last of them and it would be in line behind the last and      *)
(* ahead of it.                                                              *)
LEMMA TakeKeepsLine ==
    ASSUME EchoState, NEW t \in Streams, Take(t), NEW s \in Streams
    PROVE  InEchoLine(s)' /\ HoldsOwn(s)' /\ TakenInOrder(s)'
<1> USE DEF EchoState
<1>1. PICK n \in 1 .. MaxMessages :
             /\ conn[t] = "run" /\ conn_rx[t] = Some(Echo(t, n))
             /\ conn' = [conn EXCEPT ![t] = "send"]
             /\ conn_rx' = [conn_rx EXCEPT ![t] = None]
             /\ echoed' = [echoed EXCEPT ![t] = Append(@, n)]
             /\ UNCHANGED <<connections, server, server_call, rx, awaiting,
                            delivered>>
  BY TakeEffect
<1>2. InEchoLine(s) /\ HoldsOwn(s) /\ TakenInOrder(s)
  BY DEF EchoInv
<1>3. /\ conn_rx \in [Streams -> Option(Requests \cup Events \cup {CloseMsg})]
      /\ echoed = [u \in Streams |-> echoed[u]]
      /\ MaxMessages \in Nat
      /\ (conn'[s] # "done") = (conn[s] # "done")
  BY <1>1, ServerAssumption DEF TypeInv, TypeOK, EchoInv
<1>4. UNCHANGED <<EchoIn(s, server_call), EchoIn(s, rx), EchoIn(s, awaiting),
                  Seen(s)>>
  BY <1>1 DEF EchoIn, Seen
<1>5. CASE s # t
  <2>1. conn_rx'[s] = conn_rx[s] /\ echoed'[s] = echoed[s]
    BY <1>1, <1>3, <1>5
  <2>2. UNCHANGED <<Taken(s), EchoIn(s, conn_rx[s])>>
    BY <2>1 DEF Taken, EchoIn
  <2> QED
    BY <1>1, <1>2, <1>3, <1>4, <2>1, <2>2, EchoStays DEF HoldsOwn, TakenInOrder
<1>6. CASE s = t
  <2> DEFINE q == echoed[s]
  <2>1. conn_rx'[s] = None /\ echoed'[s] = Append(q, n)
    BY <1>1, <1>3, <1>6
  <2>2. /\ q \in Seq(1 .. MaxMessages)
        /\ \A i, j \in DOMAIN q : i < j => q[i] < q[j]
        /\ \A i \in 1 .. Len(q) - 1 : (q[i] + 1) .. (q[i + 1] - 1) \subseteq Asked
    BY <1>2 DEF TakenInOrder
  <2>3. EchoIn(s, conn_rx[s]) = {n} /\ EchoIn(s, conn_rx[s])' = {}
    BY <1>1, <1>6, <2>1, EchoInCases
  <2> DEFINE p == Append(q, n)
  <2>4. /\ p \in Seq(1 .. MaxMessages) /\ Len(p) = Len(q) + 1 /\ Len(q) \in Nat
        /\ \A i \in 1 .. Len(q) : p[i] = q[i]
        /\ p[Len(q) + 1] = n
        /\ DOMAIN p = 1 .. Len(q) + 1 /\ DOMAIN q = 1 .. Len(q)
        /\ \A i \in 1 .. Len(q) : q[i] \in 1 .. MaxMessages
    <3>1. q \in Seq(1 .. MaxMessages) /\ n \in 1 .. MaxMessages
      BY <2>2
    <3> HIDE DEF q
    <3>2. /\ p \in Seq(1 .. MaxMessages) /\ Len(p) = Len(q) + 1 /\ Len(q) \in Nat
          /\ DOMAIN p = 1 .. Len(q) + 1 /\ DOMAIN q = 1 .. Len(q)
      BY <3>1
    <3>3. \A i \in 1 .. Len(q) : p[i] = q[i]
      BY <3>1
    <3>4. \A i \in 1 .. Len(q) : q[i] \in 1 .. MaxMessages
      BY <3>1, ElementOfSeq
    <3>5. p[Len(q) + 1] = n
      BY <3>1
    <3> QED
      BY <3>2, <3>3, <3>4, <3>5
  <2> HIDE DEF p, q
  <2>5. Taken(s)' = Taken(s) \cup {n}
    BY <2>1, <2>4 DEF Taken, p, q
  <2>6. EchoLine(Taken(s), {n}, EchoIn(s, server_call), EchoIn(s, rx),
                 EchoIn(s, awaiting), Seen(s), conn[s] # "done",
                 connections[AddrOf[s]] = Some(s))
    BY <1>2, <2>3 DEF InEchoLine
  <2>7. InEchoLine(s)'
    <3>1. EchoLine(Taken(s) \cup {n}, {}, EchoIn(s, server_call), EchoIn(s, rx),
                   EchoIn(s, awaiting), Seen(s), conn[s] # "done",
                   connections[AddrOf[s]] = Some(s))
      BY <2>6, EchoMoves
    <3> QED
      BY <1>1, <1>3, <1>4, <2>3, <2>5, <3>1 DEF InEchoLine
  <2>8. \A i \in 1 .. Len(q) : q[i] < n
    <3>1. \A x \in Taken(s) : x < n
      BY <2>6 DEF EchoLine, Below
    <3> QED
      BY <2>4, <3>1 DEF Taken, q
  <2>9. \A i, j \in DOMAIN p : i < j => p[i] < p[j]
    BY <2>2, <2>4, <2>8
  <2>10. ASSUME Len(q) > 0, NEW k \in (q[Len(q)] + 1) .. (n - 1)
         PROVE  k \in Asked
    <3>1. /\ Len(q) \in DOMAIN q /\ q[Len(q)] \in 1 .. MaxMessages
          /\ k \in 1 .. MaxMessages /\ k < n /\ q[Len(q)] < k
      BY <1>3, <2>4, <2>10
    <3>2. n \in Seen(s) /\ q[Len(q)] \in Taken(s)
      BY <2>6, <3>1 DEF EchoLine, Taken, q
    <3>3. k \in Seen(s)
      BY <3>1, <3>2, SeenDown
    <3>4. conn[s] # "done"
      BY <1>1, <1>6
    <3>5. ASSUME k \notin Asked PROVE FALSE
      <4>1. k \in Taken(s) \cup {n} \cup EchoIn(s, server_call) \cup EchoIn(s, rx)
                    \cup EchoIn(s, awaiting)
        BY <2>6, <3>1, <3>2, <3>3, <3>4, <3>5 DEF EchoLine
      <4>2. \A x \in EchoIn(s, server_call) \cup EchoIn(s, rx)
                        \cup EchoIn(s, awaiting) : n < x
        BY <2>6 DEF EchoLine, Below
      <4>3. k \in Taken(s)
        BY <3>1, <4>1, <4>2
      <4>4. PICK i \in DOMAIN q : k = q[i]
        BY <4>3 DEF Taken, q
      <4>5. i = Len(q) \/ i < Len(q)
        BY <2>4
      <4> QED
        BY <2>2, <2>4, <3>1, <4>4, <4>5
    <3> QED
      BY <3>5
  <2>11. ASSUME NEW i \in 1 .. Len(p) - 1
         PROVE  (p[i] + 1) .. (p[i + 1] - 1) \subseteq Asked
    <3>1. CASE i < Len(q)
      <4>1. i \in 1 .. Len(q) - 1 /\ p[i] = q[i] /\ p[i + 1] = q[i + 1]
        BY <2>4, <3>1
      <4>2. (q[i] + 1) .. (q[i + 1] - 1) \subseteq Asked
        BY <2>2, <4>1
      <4> QED
        BY <4>1, <4>2
    <3>2. CASE i = Len(q)
      <4>1. p[i] = q[Len(q)] /\ p[i + 1] = n /\ Len(q) > 0
        BY <2>4, <3>2
      <4> QED
        BY <2>10, <4>1
    <3>3. i < Len(q) \/ i = Len(q)
      <4>1. Len(p) = Len(q) + 1 /\ Len(q) \in Nat
        BY <2>4
      <4> QED
        BY <4>1
    <3> QED
      BY <3>1, <3>2, <3>3
  <2>12. TakenInOrder(s)'
    BY <2>1, <2>4, <2>9, <2>11 DEF TakenInOrder, p
  <2> QED
    BY <2>1, <2>7, <2>12 DEF HoldsOwn
<1> QED
  BY <1>5, <1>6

(* The server asks the Listener for the address only for an address call. *)
LEMMA AddrServedNext == AddrServed /\ [Next]_vars => AddrServed'
<1> SUFFICES ASSUME AddrServed, [Next]_vars PROVE AddrServed'
  OBVIOUS
<1>1. CASE ServerStep
  BY <1>1
     DEF AddrServed, ServerStep, RecvClose, RecvGetListenAddress, AskAddr,
         GotAddr, RecvGetClients, RecvSend, ForwardToConnection,
         RecvNewConnection, RecvConnectionEvent, EmitEvent, CloseConnection,
         ConnectionsClosed, CloseAcceptor, CloseListener, Break, serverVars
<1>2. CASE ~ServerStep
  BY <1>2, OnlyServer DEF AddrServed, serverVars
<1> QED
  BY <1>1, <1>2

(* Every step keeps the echoes in line. *)
LEMMA EchoInvNext ==
    ASSUME OwnAddresses, EchoState, EventsInOrder', [EchoNext]_echoVars
    PROVE  EchoInv'
<1> USE DEF EchoState
<1>1. [Next]_vars
  BY EchoStep
<1>2. AddrServed'
  BY <1>1, AddrServedNext DEF EchoInv
<1>3. echoed' = [u \in Streams |-> echoed'[u]]
  BY DEF EchoNext, MainStep, MainCall, MainRecv, MainCompleted, OtherStep, Take,
         echoVars, EchoInv
<1>4. ASSUME NEW s \in Streams
      PROVE  InEchoLine(s)' /\ HoldsOwn(s)' /\ TakenInOrder(s)'
  <2>1. InEchoLine(s) /\ HoldsOwn(s) /\ TakenInOrder(s)
    BY DEF EchoInv
  <2>2. UNCHANGED echoed => TakenInOrder(s)'
    BY <2>1 DEF TakenInOrder
  <2>3. UNCHANGED conn_rx => HoldsOwn(s)'
    BY <2>1 DEF HoldsOwn
  <2>4. CASE MainStep
    BY <2>2, <2>3, <2>4, CallKeepsLine, RecvKeepsLine
       DEF MainStep, MainCall, MainRecv
  <2>5. CASE OtherStep /\ ServerStep
    <3>1. UNCHANGED <<awaiting, echoed>>
      BY <2>5 DEF OtherStep
    <3>2. ~(\/ RecvClose \/ CloseConnection \/ ConnectionsClosed
            \/ CloseAcceptor \/ CloseListener)
      BY EchoAssumption, Zenon
         DEF RecvClose, CloseConnection, ConnectionsClosed, CloseAcceptor,
             CloseListener, LoopRuns, LoopStates
    <3> QED
      BY <2>2, <2>3, <2>5, <3>1, <3>2, ServerKeepsEchoes, SendKeepsLine,
         ForwardKeepsLine DEF ServerStep
  <2>6. CASE OtherStep /\ ~ServerStep
    <3>1. UNCHANGED echoed
      BY <2>6 DEF OtherStep
    <3> QED
      BY <1>1, <2>2, <2>6, <3>1, OthersKeepLine
  <2>7. CASE \E t \in Streams : Take(t)
    BY <2>7, TakeKeepsLine
  <2>8. CASE UNCHANGED echoVars
    <3>1. UNCHANGED <<conn, conn_rx, server_call, rx, delivered, connections,
                      awaiting, echoed>>
      BY <2>8 DEF echoVars, vars, serverVars, linkVars, connVars, userVars
    <3>2. UNCHANGED <<Taken(s), EchoIn(s, conn_rx[s]), EchoIn(s, server_call),
                      EchoIn(s, rx), EchoIn(s, awaiting), Seen(s)>>
      BY <3>1 DEF Taken, EchoIn, Seen
    <3> QED
      BY <2>1, <2>2, <2>3, <3>1, <3>2, EchoStays
  <2>9. CASE MainCompleted
    <3>1. /\ UNCHANGED <<conn, conn_rx, server_call, rx, delivered, connections,
                         echoed>>
          /\ EchoIn(s, awaiting) = {} /\ EchoIn(s, awaiting') = {}
      BY <2>9, EchoInCases
         DEF MainCompleted, Completing, vars, serverVars, linkVars, connVars,
             userVars
    <3>2. UNCHANGED <<Taken(s), EchoIn(s, conn_rx[s]), EchoIn(s, server_call),
                      EchoIn(s, rx), EchoIn(s, awaiting), Seen(s)>>
      BY <3>1 DEF Taken, EchoIn, Seen
    <3> QED
      BY <2>1, <2>2, <2>3, <3>1, <3>2, EchoStays
  <2> QED
    BY <2>4, <2>5, <2>6, <2>7, <2>8, <2>9 DEF EchoNext
<1> QED
  BY <1>2, <1>3, <1>4 DEF EchoInv

(* At the start nothing has been received, so nothing is to be echoed. *)
LEMMA EchoInvInit == EchoInit => EchoInv
<1> SUFFICES ASSUME EchoInit PROVE EchoInv
  OBVIOUS
<1>1. /\ echoed = [s \in Streams |-> echoed[s]]
      /\ \A s \in Streams : echoed[s] = << >>
  BY DEF EchoInit
<1>2. AddrServed
  BY DEF EchoInit, Init, AddrServed
<1>3. ASSUME NEW s \in Streams
      PROVE  InEchoLine(s) /\ HoldsOwn(s) /\ TakenInOrder(s)
  <2>1. HoldsOwn(s) /\ TakenInOrder(s)
    BY <1>1 DEF EchoInit, Init, HoldsOwn, TakenInOrder
  <2>2. /\ Taken(s) = {} /\ Seen(s) = {} /\ EchoIn(s, conn_rx[s]) = {}
        /\ EchoIn(s, server_call) = {} /\ EchoIn(s, rx) = {}
        /\ EchoIn(s, awaiting) = {}
    BY <1>1, EchoInCases, MainCalls DEF EchoInit, Init, Taken, Seen
  <2> QED
    BY <2>1, <2>2 DEF InEchoLine, EchoLine, Below
<1> QED
  BY <1>1, <1>2, <1>3 DEF EchoInv

(* The echoes a client gets are its events in the order it sent them, none   *)
(* twice, and without a gap once the first has come, for any number of       *)
(* clients and messages, if no two clients share an address: otherwise the   *)
(* echo of one goes to the other.                                            *)
THEOREM EchoesAreComplete == OwnAddresses => (EchoSpec => []EchoesWithoutGap)
<1> SUFFICES ASSUME OwnAddresses PROVE EchoSpec => []EchoesWithoutGap
  OBVIOUS
<1>1. Spec => [](TypeInv /\ CallInv /\ CloseIsLast)
  <2>1. Init => CloseIsLast
    BY ListInvInit DEF ListInv
  <2>2. TypeInv /\ CallInv /\ CloseIsLast /\ [Next]_vars => CloseIsLast'
    BY CloseLastNext DEF CallInv
  <2> QED
    BY <2>1, <2>2, TypeInit, TypeNext, CallInvInit, CallInvNext, PTL DEF Spec
<1>2. EchoInit => Init /\ AwaitTyped /\ LoopRuns
  BY SomeInOption DEF EchoInit, AwaitTyped, Init, LoopRuns, LoopStates
<1>3. EchoState /\ EventsInOrder' /\ [EchoNext]_echoVars => EchoInv'
  BY EchoInvNext
<1>4. EchoInv => EchoesWithoutGap
  <2> SUFFICES ASSUME EchoInv, NEW s \in Streams,
                      NEW i \in 1 .. Len(echoed[s]) - 1
               PROVE  /\ echoed[s][i] < echoed[s][i + 1]
                      /\ (echoed[s][i] + 1) .. (echoed[s][i + 1] - 1)
                            \subseteq Asked
    BY DEF EchoesWithoutGap
  <2>1. TakenInOrder(s)
    BY DEF EchoInv
  <2>2. i \in DOMAIN echoed[s] /\ i + 1 \in DOMAIN echoed[s] /\ i < i + 1
    BY <2>1 DEF TakenInOrder
  <2> QED
    BY <2>1, <2>2 DEF TakenInOrder
<1>5. EchoSpec => [](TypeInv /\ CallInv /\ CloseIsLast /\ EventsInOrder)
  BY <1>1, EchoIsServer, EventsStayInOrder, PTL
<1>6. EchoState <=> (/\ TypeInv /\ CallInv /\ CloseIsLast /\ EventsInOrder
                     /\ AwaitTyped /\ LoopRuns /\ EchoInv)
  BY DEF EchoState
<1> QED
  BY <1>2, <1>3, <1>4, <1>5, <1>6, AwaitNext, LoopNext, EchoInvInit, PTL
     DEF EchoSpec
=============================================================================
