-------------------------- MODULE ServerCallProofs --------------------------
(***************************************************************************)
(* Proofs about what module Server keeps: no caller that waits for an      *)
(* answer is forgotten, the connections the user was told of stay listed   *)
(* while they are open and are told to close when the server shuts down,   *)
(* each behaves as ConnectionView says, and its events stay in order.  The *)
(* theorems about the list are for clients with addresses of their own:    *)
(* MCServerAddressReuse shows why.                                         *)
(***************************************************************************)
EXTENDS ServerProofs

(* The server keeps a call across the awaits that serve it, and no longer. *)
CallIsServed ==
    server \in {"forward", "ask_addr", "wait_addr"} <=> server_call # None

(* A connection that the Acceptor passes on, or that is on its way to the    *)
(* server or listed there, has been started, and is listed at its address.   *)
PassedOn(s) == \/ acceptor = "new_connection" /\ acceptor_msg = Some(s)
               \/ rx = Some(NewConnection(s))

ListedAreStarted ==
    /\ \A s \in Streams : PassedOn(s) => conn[s] # "none"
    /\ \A a \in Addrs, s \in Streams :
            connections[a] = Some(s) => AddrOf[s] = a /\ conn[s] # "none"

(* A connection that has canceled its requests takes no more of them. *)
ClosingIsEmpty ==
    \A s \in Streams :
        conn[s] = "emit" /\ conn_msg[s] = Some(CloseMsg) => pending[s] = {}

CallInv == /\ StreamInv /\ CallIsServed /\ ListedAreStarted /\ ClosingIsEmpty
           /\ NoCallForgotten

-----------------------------------------------------------------------------
(* Callers that wait. *)

(* The messages of the Acceptor and of the passers tell their stream and     *)
(* their event, and are no calls.                                            *)
LEMMA MessagesApart ==
    /\ \A s, t : Some(NewConnection(s)) = Some(NewConnection(t)) => s = t
    /\ \A s, t, e, f : Some(ConnectionEvent(s, e)) = Some(ConnectionEvent(t, f))
                            => s = t /\ e = f
    /\ \A s, t, e : Some(NewConnection(s)) # Some(ConnectionEvent(t, e))
    /\ \A c \in Calls, s \in Streams : Some(c) # Some(NewConnection(s))
    /\ \A c \in Calls, s \in Streams, e \in ConnectionEvents :
            Some(c) # Some(ConnectionEvent(s, e))
    /\ CloseMsg \in ConnectionEvents
    /\ \A n : Some(Message(n)) # Some(CloseMsg)
<1>1. \A s, t : NewConnection(s) = NewConnection(t) => s = t
  <2>1. \A s : NewConnection(s).from = s
    BY DEF NewConnection
  <2> QED
    BY <2>1
<1>2. \A s, t, e, f : ConnectionEvent(s, e) = ConnectionEvent(t, f)
                            => s = t /\ e = f
  <2>1. \A s, e : ConnectionEvent(s, e).from = s /\ ConnectionEvent(s, e).event = e
    BY DEF ConnectionEvent
  <2> QED
    BY <2>1
<1>3. \A s, t, e : NewConnection(s) # ConnectionEvent(t, e)
  <2>1. \A s, e : /\ NewConnection(s).kind = "NewConnection"
                  /\ ConnectionEvent(s, e).kind = "ConnectionEvent"
    BY DEF NewConnection, ConnectionEvent
  <2> QED
    BY <2>1
<1>4. \A c \in Calls, s \in Streams : c # NewConnection(s)
  BY CallsAssumption DEF TaskMessages
<1>5. \A c \in Calls, s \in Streams, e \in ConnectionEvents :
            c # ConnectionEvent(s, e)
  BY CallsAssumption DEF TaskMessages
<1>6. CloseMsg \in ConnectionEvents
  BY DEF ConnectionEvents
<1>7. \A n : Message(n) # CloseMsg
  <2>1. \A n : Message(n).kind = "Message" /\ CloseMsg.kind = "Close"
    BY DEF Message, CloseMsg
  <2> QED
    BY <2>1
<1> QED
  BY <1>1, <1>2, <1>3, <1>4, <1>5, <1>6, <1>7, SomeInjective

(* A connection that has started never becomes one that has not, and one     *)
(* that is done stays so: only a handshake starts a connection.              *)
LEMMA StartedStays ==
    ASSUME TypeInv, StreamInv, [Next]_vars, NEW s \in Streams
    PROVE  /\ conn[s] # "none" => conn'[s] # "none"
           /\ conn[s] = "done" => conn'[s] = "done"
<1>1. CASE UNCHANGED conn
  BY <1>1
<1>2. CASE HandshakeOk
  <2>1. Handshaking(Get(acceptor_msg)) /\ Get(acceptor_msg) \in Streams
    BY <1>2, OptionCases
       DEF HandshakeOk, Handshaking, TypeInv, TypeOK, Carried
  <2>2. conn[Get(acceptor_msg)] = "none"
    BY <2>1 DEF StreamInv
  <2> QED
    BY <1>2, <2>1, <2>2 DEF HandshakeOk, TypeInv, TypeOK
<1>3. ASSUME NEW t \in Streams,
             \/ ConnReply(t) \/ ConnRead(t) \/ ConnPeerClose(t)
             \/ ConnStep(t) \/ SenderStep(t)
      PROVE  /\ conn[s] # "none" => conn'[s] # "none"
             /\ conn[s] = "done" => conn'[s] = "done"
  BY <1>3
     DEF ConnReply, ConnRead, ConnPeerClose, ConnStep, ConnTake, ConnEmit,
         SenderStep, ConnSent, ConnClose, TypeInv, TypeOK
<1>4. ASSUME NEW t \in Streams, PasserStep(t) \/ ListenerAccept(t)
      PROVE  UNCHANGED conn
  BY <1>4
     DEF PasserStep, PasserRecv, PasserPass, ListenerAccept, linkVars,
         connVars
<1>5. CASE ServerStep
  BY <1>1, <1>5
     DEF ServerStep, RecvClose, RecvGetListenAddress, AskAddr, GotAddr,
         RecvGetClients, RecvSend, ForwardToConnection, RecvNewConnection,
         RecvConnectionEvent, EmitEvent, CloseConnection, ConnectionsClosed,
         CloseAcceptor, CloseListener, linkVars, connVars
<1>6. CASE ListenerStep \/ AcceptorStep \/ HandshakeFails
  BY <1>1, <1>6
     DEF ListenerStep, HandleNewStream, ListenerMessage, AcceptorStep,
         AcceptorMessage, PassNewConnection, HandshakeFails, linkVars,
         connVars
<1>7. ASSUME NEW c, CallerStep(c) \/ Timeout(c) PROVE UNCHANGED conn
  BY <1>7 DEF CallerStep, Accept, Refuse, Return, Timeout, linkVars, connVars
<1>8. CASE HandleDrop \/ UserRecv \/ UserDrop \/ UNCHANGED vars
  BY <1>1, <1>8 DEF HandleDrop, UserRecv, UserDrop, vars, linkVars, connVars
<1> QED
  BY <1>1, <1>2, <1>3, <1>4, <1>5, <1>6, <1>7, <1>8 DEF Next, ClientStep

(* A step that is not the server's leaves the server where it is. *)
LEMMA OnlyServer ==
    ASSUME [Next]_vars, ~ServerStep
    PROVE  UNCHANGED serverVars
<1>1. ASSUME NEW t \in Streams,
             \/ ConnReply(t) \/ ConnRead(t) \/ ConnPeerClose(t)
             \/ ConnStep(t) \/ SenderStep(t) \/ PasserStep(t) \/ ListenerAccept(t)
      PROVE  UNCHANGED serverVars
  BY <1>1
     DEF ConnReply, ConnRead, ConnPeerClose, ConnStep, ConnTake, ConnEmit,
         SenderStep, ConnSent, ConnClose, PasserStep, PasserRecv, PasserPass,
         ListenerAccept
<1>2. CASE ListenerStep \/ AcceptorStep \/ HandshakeOk \/ HandshakeFails
  BY <1>2 DEF ListenerStep, HandleNewStream, ListenerMessage, AcceptorStep,
              AcceptorMessage, PassNewConnection, HandshakeOk, HandshakeFails
<1>3. ASSUME NEW c, CallerStep(c) \/ Timeout(c) PROVE UNCHANGED serverVars
  BY <1>3 DEF CallerStep, Accept, Refuse, Return, Timeout
<1>4. CASE HandleDrop \/ UserRecv \/ UserDrop \/ UNCHANGED vars
  BY <1>4 DEF HandleDrop, UserRecv, UserDrop, vars
<1> QED
  BY <1>1, <1>2, <1>3, <1>4 DEF Next, ClientStep

(* Server::run keeps a call only from one of the three awaits to the next. *)
LEMMA ServedNext ==
    ASSUME CallIsServed, [Next]_vars
    PROVE  CallIsServed'
<1> USE DEF CallIsServed
<1>1. CASE UNCHANGED <<server, server_call>>
  BY <1>1
<1>2. CASE ServerStep
  BY <1>2, SomeIsNotNone
     DEF ServerStep, RecvClose, RecvGetListenAddress, AskAddr, GotAddr,
         RecvGetClients, RecvSend, ForwardToConnection, RecvNewConnection,
         RecvConnectionEvent, EmitEvent, CloseConnection, ConnectionsClosed,
         CloseAcceptor, CloseListener, Break, serverVars
<1>3. CASE ~ServerStep
  BY <1>1, <1>3, OnlyServer DEF serverVars
<1> QED
  BY <1>2, <1>3

(* Every step keeps the listed connections started, at their addresses. *)
LEMMA ListedNext ==
    ASSUME TypeInv, StreamInv, ListedAreStarted, [Next]_vars
    PROVE  ListedAreStarted'
<1>1. \A s \in Streams : conn[s] # "none" => conn'[s] # "none"
  BY StartedStays
<1>2. (\A s \in Streams : PassedOn(s)' => PassedOn(s) \/ conn'[s] # "none")
        => \A s \in Streams : PassedOn(s)' => conn'[s] # "none"
  BY <1>1 DEF ListedAreStarted
<1>3. ASSUME \A a \in Addrs : \/ connections'[a] = connections[a]
                              \/ connections'[a] = None,
             \A s \in Streams : PassedOn(s)' => PassedOn(s) \/ conn'[s] # "none"
      PROVE  ListedAreStarted'
  BY <1>1, <1>2, <1>3, SomeIsNotNone DEF ListedAreStarted
<1>4. ASSUME UNCHANGED connections, UNCHANGED <<acceptor, acceptor_msg>>,
             rx' = rx \/ \A s \in Streams : rx' # Some(NewConnection(s))
      PROVE  ListedAreStarted'
  <2>1. \A s \in Streams : PassedOn(s)' => PassedOn(s)
    BY <1>4 DEF PassedOn
  <2> QED
    BY <1>3, <1>4, <2>1
<1>5. \A s \in Streams : None # Some(NewConnection(s))
  BY SomeIsNotNone
<1>6. CASE RecvNewConnection
  <2>1. PICK s \in Streams : RecvNewConnection!2!(s)
    BY <1>6 DEF RecvNewConnection
  <2>2. rx' = None /\ UNCHANGED <<acceptor, acceptor_msg, conn>>
    BY <1>6
       DEF RecvNewConnection, listenVars, acceptorVars, linkVars, connVars
  <2>3. CASE UNCHANGED connections
    BY <1>4, <1>5, <2>2, <2>3
  <2>4. CASE connections' = [connections EXCEPT ![AddrOf[s]] = Some(s)]
    <3>1. conn[s] # "none"
      BY <2>1 DEF ListedAreStarted, PassedOn
    <3>2. \A t \in Streams : PassedOn(t)' => PassedOn(t)
      BY <1>5, <2>2 DEF PassedOn
    <3>3. \A a \in Addrs, t \in Streams : connections'[a] = Some(t) =>
              connections[a] = Some(t) \/ (a = AddrOf[s] /\ t = s)
      BY <2>4, SomeInjective DEF TypeInv, TypeOK
    <3>4. \A t \in Streams : PassedOn(t)' => conn'[t] # "none"
      BY <1>2, <3>2
    <3>5. \A a \in Addrs, t \in Streams :
            connections'[a] = Some(t) => AddrOf[t] = a /\ conn'[t] # "none"
      BY <2>2, <3>1, <3>3 DEF ListedAreStarted
    <3> QED
      BY <3>4, <3>5 DEF ListedAreStarted
  <2> QED
    BY <2>1, <2>3, <2>4
<1>7. CASE RecvConnectionEvent \/ ForwardToConnection
  <2>1. /\ UNCHANGED <<acceptor, acceptor_msg>>
        /\ rx' = rx \/ rx' = None
        /\ \/ UNCHANGED connections
           \/ \E a : connections' = [connections EXCEPT ![a] = None]
    BY <1>7 DEF RecvConnectionEvent, ForwardToConnection, listenVars,
                acceptorVars
  <2>2. \A s \in Streams : PassedOn(s)' => PassedOn(s)
    BY <1>5, <2>1 DEF PassedOn
  <2>3. \A a \in Addrs : connections'[a] = connections[a] \/ connections'[a] = None
    BY <2>1 DEF TypeInv, TypeOK
  <2> QED
    BY <1>3, <2>2, <2>3
<1>8. CASE ServerStep /\ ~RecvNewConnection /\ ~RecvConnectionEvent
             /\ ~ForwardToConnection
  <2>1. /\ UNCHANGED <<connections, acceptor, acceptor_msg>>
        /\ rx' = rx \/ rx' = None
    BY <1>8
       DEF ServerStep, RecvClose, RecvGetListenAddress, AskAddr, GotAddr,
           RecvGetClients, RecvSend, EmitEvent, CloseConnection,
           ConnectionsClosed, CloseAcceptor, CloseListener, serverVars,
           listenVars, acceptorVars
  <2> QED
    BY <1>4, <1>5, <2>1
<1>9. CASE PassNewConnection
  <2>1. PICK s \in Streams : acceptor_msg = Some(s) /\ Get(acceptor_msg) = s
    BY <1>9, OptionCases DEF PassNewConnection, TypeInv, TypeOK, Carried
  <2>2. /\ acceptor = "new_connection" /\ acceptor' # "new_connection"
        /\ rx' = rx \/ rx' = Some(NewConnection(s))
        /\ UNCHANGED connections
    BY <1>9, <2>1 DEF PassNewConnection, serverVars
  <2>3. \A t \in Streams : PassedOn(t)' => PassedOn(t)
    BY <2>1, <2>2, MessagesApart DEF PassedOn
  <2> QED
    BY <1>3, <2>2, <2>3
<1>10. CASE HandshakeOk
  <2>1. PICK s \in Streams : acceptor_msg = Some(s) /\ Get(acceptor_msg) = s
    BY <1>10, OptionCases DEF HandshakeOk, TypeInv, TypeOK, Carried
  <2>2. /\ conn'[s] = "run" /\ UNCHANGED <<acceptor_msg, rx, connections>>
    BY <1>10, <2>1 DEF HandshakeOk, serverVars, TypeInv, TypeOK
  <2>3. \A t \in Streams : PassedOn(t)' => PassedOn(t) \/ conn'[t] # "none"
    BY <2>1, <2>2, SomeInjective DEF PassedOn
  <2> QED
    BY <1>3, <2>2, <2>3
<1>11. CASE ListenerStep \/ AcceptorMessage \/ HandshakeFails
  <2>1. /\ UNCHANGED <<rx, connections>>
        /\ acceptor' # "new_connection" \/ UNCHANGED <<acceptor, acceptor_msg>>
    BY <1>11 DEF ListenerStep, HandleNewStream, ListenerMessage,
                 AcceptorMessage, HandshakeFails, serverVars, acceptorVars
  <2>2. \A t \in Streams : PassedOn(t)' => PassedOn(t)
    BY <2>1 DEF PassedOn
  <2> QED
    BY <1>3, <2>1, <2>2
<1>12. ASSUME NEW t \in Streams,
              \/ ConnReply(t) \/ ConnRead(t) \/ ConnPeerClose(t)
              \/ ConnStep(t) \/ SenderStep(t) \/ PasserStep(t) \/ ListenerAccept(t)
       PROVE  ListedAreStarted'
  <2>1. /\ UNCHANGED <<connections, acceptor, acceptor_msg>>
        /\ rx' = rx \/ rx' = Some(ConnectionEvent(t, Get(passer_msg[t])))
    BY <1>12
       DEF ConnReply, ConnRead, ConnPeerClose, ConnStep, ConnTake, ConnEmit,
           SenderStep, ConnSent, ConnClose, PasserStep, PasserRecv,
           PasserPass, ListenerAccept, serverVars, listenVars, acceptorVars
  <2> QED
    BY <1>4, <2>1, MessagesApart
<1>13. ASSUME NEW c \in Calls, CallerStep(c) \/ Timeout(c)
       PROVE  ListedAreStarted'
  <2>1. /\ UNCHANGED <<connections, acceptor, acceptor_msg>>
        /\ rx' = rx \/ rx' = Some(c)
    BY <1>13 DEF CallerStep, Accept, Refuse, Return, Timeout, serverVars,
                 listenVars, acceptorVars
  <2> QED
    BY <1>4, <2>1, MessagesApart
<1>14. CASE HandleDrop \/ UserRecv \/ UserDrop \/ UNCHANGED vars
  BY <1>4, <1>14
     DEF HandleDrop, UserRecv, UserDrop, vars, serverVars, listenVars,
         acceptorVars
<1> QED
  BY <1>6, <1>7, <1>8, <1>9, <1>10, <1>11, <1>12, <1>13, <1>14
     DEF Next, AcceptorStep, ClientStep, Calls, Asks

(* A connection that has canceled its requests is at its last await. *)
LEMMA ClosingNext ==
    ASSUME TypeInv, ClosingIsEmpty, [Next]_vars
    PROVE  ClosingIsEmpty'
<1> USE DEF ClosingIsEmpty
<1>1. UNCHANGED <<conn, conn_msg, pending>> => ClosingIsEmpty'
  OBVIOUS
<1>2. CASE HandshakeOk
  <2>1. /\ conn' = [conn EXCEPT ![Get(acceptor_msg)] = "run"]
        /\ UNCHANGED <<conn_msg, pending>>
    BY <1>2 DEF HandshakeOk
  <2> QED
    BY <2>1 DEF TypeInv, TypeOK
<1>3. ASSUME NEW t \in Streams,
             \/ ConnReply(t) \/ ConnRead(t) \/ ConnPeerClose(t)
             \/ ConnStep(t) \/ SenderStep(t)
      PROVE  ClosingIsEmpty'
  <2>1. \A s \in Streams \ {t} : /\ conn'[s] = conn[s]
                                 /\ conn_msg'[s] = conn_msg[s]
                                 /\ pending'[s] = pending[s]
    BY <1>3
       DEF ConnReply, ConnRead, ConnPeerClose, ConnStep, ConnTake, ConnEmit,
           SenderStep, ConnSent, ConnClose, TypeInv, TypeOK
  <2>2. conn'[t] = "emit" => conn_msg'[t] # Some(CloseMsg) \/ pending'[t] = {}
    BY <1>3, MessagesApart
       DEF ConnReply, ConnRead, ConnPeerClose, ConnStep, ConnTake, ConnEmit,
           SenderStep, ConnSent, ConnClose, TypeInv, TypeOK
  <2> QED
    BY <2>1, <2>2
<1>4. ASSUME NEW t \in Streams, PasserStep(t) \/ ListenerAccept(t)
      PROVE  ClosingIsEmpty'
  BY <1>1, <1>4
     DEF PasserStep, PasserRecv, PasserPass, ListenerAccept, linkVars,
         connVars
<1>5. CASE ServerStep
  BY <1>1, <1>5
     DEF ServerStep, RecvClose, RecvGetListenAddress, AskAddr, GotAddr,
         RecvGetClients, RecvSend, ForwardToConnection, RecvNewConnection,
         RecvConnectionEvent, EmitEvent, CloseConnection, ConnectionsClosed,
         CloseAcceptor, CloseListener, linkVars, connVars
<1>6. CASE ListenerStep \/ AcceptorStep \/ HandshakeFails
  BY <1>1, <1>6
     DEF ListenerStep, HandleNewStream, ListenerMessage, AcceptorStep,
         AcceptorMessage, PassNewConnection, HandshakeFails, linkVars,
         connVars
<1>7. ASSUME NEW c, CallerStep(c) \/ Timeout(c) PROVE ClosingIsEmpty'
  BY <1>1, <1>7
     DEF CallerStep, Accept, Refuse, Return, Timeout, linkVars, connVars
<1>8. CASE HandleDrop \/ UserRecv \/ UserDrop \/ UNCHANGED vars
  BY <1>1, <1>8 DEF HandleDrop, UserRecv, UserDrop, vars, linkVars, connVars
<1> QED
  BY <1>2, <1>3, <1>4, <1>5, <1>6, <1>7, <1>8 DEF Next, ClientStep

(* What still holds the oneshot of a call. *)
InServer(c) == \/ rx = Some(c) /\ server # "done"
               \/ server_call = Some(c) /\ server \in LoopStates
InConnection(c) ==
    \E s \in Streams : /\ conn[s] \notin {"none", "done"}
                       /\ conn_rx[s] = Some(c) \/ c \in pending[s]
Open(c) == call[c] = "waiting" /\ oneshot[c] = "open"

(* A oneshot is open after others were resolved or dropped only if it was    *)
(* open and is not one of them.                                              *)
LEMMA ResolveOpen ==
    ASSUME NEW c \in Asks, NEW R, NEW v \in {"Ok", "Canceled", "Dropped"},
           oneshot' = Resolve(R, v), UNCHANGED call, Open(c)'
    PROVE  Open(c) /\ c \notin R
  BY DEF Resolve, Open

(* Every step passes an open oneshot on to another holder, or keeps it. *)
LEMMA ForgottenNext ==
    ASSUME TypeInv, CallInv, [Next]_vars
    PROVE  NoCallForgotten'
<1> SUFFICES ASSUME NEW c \in Asks, Open(c)'
             PROVE  InServer(c)' \/ InConnection(c)'
  BY DEF NoCallForgotten, InServer, InConnection, Open
<1>1. Open(c) => InServer(c) \/ InConnection(c)
  BY DEF CallInv, NoCallForgotten, InServer, InConnection, Open
<1>2. c \in Calls /\ c \notin Events /\ c \notin Closers /\ c # CloseMsg
  BY CallsAssumption DEF Calls
<1>3. UNCHANGED linkVars => (InConnection(c) => InConnection(c)')
  BY DEF linkVars, connVars, InConnection
<1>4. UNCHANGED <<rx, server, server_call>> => (InServer(c) => InServer(c)')
  BY DEF InServer
<1>5. UNCHANGED <<call, oneshot>> => Open(c)
  BY DEF Open
<1>6. server = "recv" /\ InServer(c) => rx = Some(c)
  BY SomeIsNotNone DEF CallInv, CallIsServed, InServer
<1>7. CASE RecvClose
  <2>1. rx # Some(c)
    BY <1>2, <1>7, SomeInjective DEF RecvClose
  <2> QED
    BY <1>1, <1>3, <1>5, <1>6, <1>7, <2>1 DEF RecvClose, callVars
<1>8. CASE RecvGetListenAddress
  <2>1. InServer(c) => InServer(c)'
    BY <1>6, <1>8 DEF RecvGetListenAddress, InServer, LoopStates
  <2> QED
    BY <1>1, <1>3, <1>5, <1>8, <2>1 DEF RecvGetListenAddress, callVars
<1>9. CASE AskAddr
  <2>1. InServer(c) => InServer(c)'
    BY <1>9 DEF AskAddr, InServer, LoopStates
  <2> QED
    BY <1>1, <1>3, <1>5, <1>9, <2>1 DEF AskAddr, callVars
<1>10. CASE GotAddr
  <2>1. Open(c) /\ c \notin {Get(server_call)}
    BY <1>10, ResolveOpen DEF GotAddr
  <2>2. server_call # Some(c)
    BY <2>1, GetSome
  <2>3. InServer(c) => InServer(c)'
    BY <1>10, <2>2 DEF GotAddr, InServer
  <2> QED
    BY <1>1, <1>3, <1>10, <2>1, <2>3 DEF GotAddr
<1>11. CASE RecvGetClients
  <2>1. PICK d \in ClientCalls : rx = Some(d) /\ oneshot' = Resolve({d}, "Ok")
    BY <1>11 DEF RecvGetClients
  <2>2. Open(c) /\ c \notin {d}
    BY <1>11, <2>1, ResolveOpen DEF RecvGetClients
  <2>3. ~InServer(c)
    BY <1>6, <1>11, <2>1, <2>2, SomeInjective DEF RecvGetClients
  <2> QED
    BY <1>1, <1>3, <1>11, <2>2, <2>3 DEF RecvGetClients
<1>12. CASE RecvSend
  <2>1. PICK d \in Requests \cup Events : RecvSend!2!(d)
    BY <1>12 DEF RecvSend
  <2>2. server = "recv" /\ UNCHANGED <<call, linkVars>>
    BY <1>12 DEF RecvSend
  <2>3. CASE server_call' = Some(d) /\ server' = "forward" /\ UNCHANGED oneshot
    <3>1. InServer(c) => InServer(c)'
      BY <1>6, <2>1, <2>2, <2>3 DEF InServer, LoopStates
    <3> QED
      BY <1>1, <1>3, <1>5, <2>2, <2>3, <3>1
  <2>4. CASE oneshot' = Resolve({d}, "Dropped")
    <3>1. Open(c) /\ c \notin {d}
      BY <2>2, <2>4, ResolveOpen
    <3>2. ~InServer(c)
      BY <1>6, <2>1, <2>2, <3>1, SomeInjective
    <3> QED
      BY <1>1, <1>3, <2>2, <3>1, <3>2
  <2> QED
    BY <2>1, <2>3, <2>4
<1>13. CASE ForwardToConnection
  <2>1. PICK d \in Requests \cup Events :
                server_call = Some(d) /\ connections[To[d]] # None
    BY <1>13 DEF ForwardToConnection, TypeInv, Carried
  <2>2. Get(server_call) = d /\ To[d] \in Addrs
    BY <2>1, GetSome, ServerAssumption
  <2>3. PICK s \in Streams : s = Get(connections[To[d]])
                               /\ connections[To[d]] = Some(s)
    BY <2>1, <2>2, OptionCases DEF TypeInv, TypeOK
  <2>4. conn[s] # "none"
    BY <2>2, <2>3 DEF CallInv, ListedAreStarted
  <2>5. UNCHANGED <<call, rx, conn, pending>> /\ server' = "recv"
    BY <1>13 DEF ForwardToConnection
  <2>6. CASE /\ conn[s] # "done" /\ conn_rx[s] = None /\ UNCHANGED oneshot
             /\ conn_rx' = [conn_rx EXCEPT ![s] = Some(d)]
    <3>1. conn_rx'[s] = Some(d) /\ \A t \in Streams : conn_rx[t] = Some(c) =>
                                        conn_rx'[t] = Some(c)
      BY <2>6, SomeIsNotNone DEF TypeInv, TypeOK
    <3>2. InConnection(c) => InConnection(c)'
      BY <2>5, <3>1 DEF InConnection
    <3>3. server_call = Some(c) => InConnection(c)'
      BY <2>1, <2>4, <2>5, <2>6, <3>1 DEF InConnection
    <3>4. rx = Some(c) => InServer(c)'
      BY <2>5 DEF InServer
    <3> QED
      BY <1>1, <1>5, <2>5, <2>6, <3>2, <3>3, <3>4 DEF InServer
  <2>7. CASE oneshot' = Resolve({d}, "Dropped") /\ UNCHANGED conn_rx
    <3>1. Open(c) /\ c \notin {d}
      BY <2>5, <2>7, ResolveOpen
    <3>2. server_call # Some(c)
      BY <2>1, <3>1, SomeInjective
    <3>3. InServer(c) => InServer(c)'
      BY <2>5, <3>2 DEF InServer
    <3>4. InConnection(c) => InConnection(c)'
      BY <2>5, <2>7 DEF InConnection
    <3> QED
      BY <1>1, <3>1, <3>3, <3>4
  <2> QED
    BY <1>13, <2>2, <2>3, <2>6, <2>7 DEF ForwardToConnection
<1>14. CASE RecvNewConnection \/ RecvConnectionEvent
  <2>1. rx # Some(c)
    BY <1>2, <1>14, MessagesApart DEF RecvNewConnection, RecvConnectionEvent
  <2>2. server = "recv" /\ UNCHANGED <<callVars, linkVars>>
    BY <1>14 DEF RecvNewConnection, RecvConnectionEvent
  <2> QED
    BY <1>1, <1>3, <1>5, <1>6, <2>1, <2>2 DEF callVars
<1>15. CASE EmitEvent \/ CloseConnection \/ ConnectionsClosed \/ CloseAcceptor
  <2>1. server_call = None /\ UNCHANGED rx /\ server' # "done"
    BY <1>15 DEF EmitEvent, CloseConnection, ConnectionsClosed, CloseAcceptor,
                 Break, CallInv, CallIsServed
  <2>2. InServer(c) => InServer(c)'
    BY <2>1, SomeIsNotNone DEF InServer
  <2>3. UNCHANGED <<call, oneshot, conn, pending>>
    BY <1>15 DEF EmitEvent, CloseConnection, ConnectionsClosed, CloseAcceptor,
                 callVars, linkVars, connVars
  <2>4. \A s \in Streams : conn_rx[s] = Some(c) => conn_rx'[s] = Some(c)
    <3>1. \/ UNCHANGED conn_rx
          \/ /\ conn_rx[Head(closing)] = None
             /\ conn_rx' = [conn_rx EXCEPT ![Head(closing)] = Some(CloseMsg)]
      BY <1>15 DEF EmitEvent, CloseConnection, ConnectionsClosed,
                   CloseAcceptor, linkVars, connVars
    <3> QED
      BY <3>1, SomeIsNotNone DEF TypeInv, TypeOK
  <2>5. InConnection(c) => InConnection(c)'
    BY <2>3, <2>4 DEF InConnection
  <2> QED
    BY <1>1, <1>5, <2>2, <2>3, <2>5
<1>16. CASE CloseListener
  <2>1. Open(c) /\ c \notin {d \in Asks : rx = Some(d)}
    BY <1>16, ResolveOpen DEF CloseListener
  <2>2. ~InServer(c)
    BY <1>16, <2>1 DEF CloseListener, InServer, LoopStates
  <2> QED
    BY <1>1, <1>3, <1>16, <2>1, <2>2 DEF CloseListener
<1>17. CASE HandshakeOk
  <2>1. Handshaking(Get(acceptor_msg)) /\ Get(acceptor_msg) \in Streams
    BY <1>17, OptionCases
       DEF HandshakeOk, Handshaking, TypeInv, TypeOK, Carried
  <2>2. conn[Get(acceptor_msg)] = "none"
    BY <2>1 DEF CallInv, StreamInv
  <2>3. \A s \in Streams : conn[s] # "none" => conn'[s] = conn[s]
    BY <1>17, <2>1, <2>2 DEF HandshakeOk, TypeInv, TypeOK
  <2>4. InConnection(c) => InConnection(c)'
    BY <1>17, <2>3 DEF HandshakeOk, InConnection
  <2> QED
    BY <1>1, <1>4, <1>5, <1>17, <2>4 DEF HandshakeOk, callVars, serverVars
<1>18. ASSUME NEW s \in Streams,
              \/ ConnTake(s) \/ ConnSent(s) \/ ConnReply(s) \/ ConnRead(s)
              \/ ConnPeerClose(s) \/ ConnClose(s) \/ ConnEmit(s)
       PROVE  InServer(c)' \/ InConnection(c)'
  <2>1. UNCHANGED <<call, rx, server, server_call>>
    BY <1>18
       DEF ConnTake, ConnSent, ConnReply, ConnRead, ConnPeerClose, ConnClose,
           ConnEmit, callVars, serverVars
  <2>2. \A t \in Streams \ {s} : /\ conn'[t] = conn[t]
                                 /\ conn_rx'[t] = conn_rx[t]
                                 /\ pending'[t] = pending[t]
    BY <1>18
       DEF ConnTake, ConnSent, ConnReply, ConnRead, ConnPeerClose, ConnClose,
           ConnEmit, TypeInv, TypeOK
  <2>3. Open(c)
    <3>1. UNCHANGED oneshot \/ \E R, v : /\ v \in {"Ok", "Canceled", "Dropped"}
                                         /\ oneshot' = Resolve(R, v)
      BY <1>18
         DEF ConnTake, ConnSent, ConnReply, ConnRead, ConnPeerClose,
             ConnClose, ConnEmit, callVars
    <3> QED
      BY <1>5, <2>1, <3>1, ResolveOpen
  <2>4. conn_rx[s] = Some(c) \/ c \in pending[s] =>
            /\ conn'[s] \notin {"none", "done"}
            /\ conn_rx'[s] = Some(c) \/ c \in pending'[s]
    <3>1. CASE ConnTake(s)
      <4>1. conn_rx[s] = Some(c) => Get(conn_rx[s]) = c /\ conn_rx[s] # Some(CloseMsg)
        BY <1>2, GetSome
      <4>2. conn_rx[s] = Some(c) => c \in pending'[s]
        <5>1. CASE oneshot' = Resolve({Get(conn_rx[s])}, "Dropped")
          BY <2>1, <4>1, <5>1, ResolveOpen
        <5>2. CASE /\ Get(conn_rx[s]) \in Requests
                   /\ pending' = [pending EXCEPT ![s] = @ \cup {Get(conn_rx[s])}]
          BY <4>1, <5>2 DEF TypeInv, TypeOK
        <5> QED
          BY <1>2, <3>1, <4>1, <5>1, <5>2 DEF ConnTake
      <4> QED
        BY <3>1, <4>2 DEF ConnTake, TypeInv, TypeOK
    <3>2. CASE ConnReply(s)
      <4>1. PICK r \in pending[s] : /\ pending' = [pending EXCEPT ![s] = @ \ {r}]
                                    /\ oneshot' = Resolve({r}, "Ok")
        BY <3>2 DEF ConnReply
      <4>2. c \notin {r}
        BY <2>1, <4>1, ResolveOpen
      <4> QED
        BY <3>2, <4>1, <4>2 DEF ConnReply, TypeInv, TypeOK
    <3>3. CASE ConnSent(s) \/ ConnRead(s) \/ ConnPeerClose(s)
      BY <3>3 DEF ConnSent, ConnRead, ConnPeerClose, TypeInv, TypeOK
    <3>4. CASE ConnClose(s)
      <4>1. c \notin pending[s]
        BY <2>1, <3>4, ResolveOpen DEF ConnClose
      <4> QED
        BY <3>4, <4>1 DEF ConnClose, TypeInv, TypeOK
    <3>5. CASE ConnEmit(s) /\ conn_msg[s] = Some(CloseMsg)
      <4>1. c \notin pending[s]
        BY <3>5 DEF ConnEmit, CallInv, ClosingIsEmpty
      <4>2. oneshot' = Resolve({r \in Requests : conn_rx[s] = Some(r)}, "Dropped")
        BY <3>5 DEF ConnEmit
      <4>3. c \notin {r \in Requests : conn_rx[s] = Some(r)}
        BY <2>1, <4>2, ResolveOpen
      <4>4. conn_rx[s] = Some(c) => c \in Requests
        BY <1>2, OptionCases, GetSome, SomeIsNotNone DEF TypeInv, TypeOK
      <4> QED
        BY <4>1, <4>3, <4>4
    <3>6. CASE ConnEmit(s) /\ conn_msg[s] # Some(CloseMsg)
      BY <3>6 DEF ConnEmit, TypeInv, TypeOK
    <3> QED
      BY <1>18, <3>1, <3>2, <3>3, <3>4, <3>5, <3>6
  <2>5. InConnection(c) => InConnection(c)'
    BY <2>2, <2>4 DEF InConnection
  <2> QED
    BY <1>1, <1>4, <2>1, <2>3, <2>5
<1>19. ASSUME NEW s \in Streams, PasserStep(s) PROVE InServer(c)' \/ InConnection(c)'
  <2>1. /\ UNCHANGED <<call, oneshot, server, server_call, connVars>>
        /\ UNCHANGED rx \/ rx = None
    BY <1>19 DEF PasserStep, PasserRecv, PasserPass, callVars, serverVars
  <2>2. InServer(c) => InServer(c)'
    BY <2>1, SomeIsNotNone DEF InServer
  <2>3. InConnection(c) => InConnection(c)'
    BY <2>1 DEF InConnection, connVars
  <2> QED
    BY <1>1, <1>5, <2>1, <2>2, <2>3
<1>20. ASSUME NEW s \in Streams, ListenerAccept(s) PROVE InServer(c)' \/ InConnection(c)'
  BY <1>1, <1>3, <1>4, <1>5, <1>20 DEF ListenerAccept, callVars, serverVars
<1>21. CASE ListenerStep \/ AcceptorMessage \/ HandshakeFails
  BY <1>1, <1>3, <1>4, <1>5, <1>21
     DEF ListenerStep, HandleNewStream, ListenerMessage, AcceptorMessage,
         HandshakeFails, callVars, serverVars
<1>22. CASE PassNewConnection
  <2>1. /\ UNCHANGED <<call, oneshot, server, server_call, linkVars>>
        /\ UNCHANGED rx \/ rx = None
    BY <1>22 DEF PassNewConnection, callVars, serverVars
  <2>2. InServer(c) => InServer(c)'
    BY <2>1, SomeIsNotNone DEF InServer
  <2> QED
    BY <1>1, <1>3, <1>5, <2>1, <2>2
<1>23. ASSUME NEW d \in Calls, Accept(d) PROVE InServer(c)' \/ InConnection(c)'
  <2>1. CASE d = c
    BY <1>23, <2>1 DEF Accept, InServer, serverVars
  <2>2. CASE d # c
    <3>1. Open(c)
      BY <1>23, <2>2 DEF Accept, Open, TypeInv, TypeOK
    <3>2. InServer(c) => InServer(c)'
      BY <1>23, SomeIsNotNone DEF Accept, InServer, serverVars
    <3> QED
      BY <1>1, <1>3, <1>23, <3>1, <3>2 DEF Accept
  <2> QED
    BY <2>1, <2>2
<1>24. ASSUME NEW d \in Calls, Refuse(d) \/ (d \in Asks /\ Return(d)) \/ Timeout(d)
       PROVE  InServer(c)' \/ InConnection(c)'
  <2>1. Open(c)
    <3>1. \E v \in {"SendError", "RecvError", "Timeout", oneshot[d]} :
                call' = [call EXCEPT ![d] = v]
      BY <1>24 DEF Refuse, Return, Timeout
    <3>2. d \in Asks => oneshot[d] # "waiting"
      BY DEF TypeInv, TypeOK
    <3>3. UNCHANGED oneshot /\ (call'[d] = oneshot[d] => d \in Asks \/ call'[d] # "waiting")
      BY <1>24 DEF Refuse, Return, Timeout, TypeInv, TypeOK
    <3> QED
      BY <3>1, <3>2, <3>3 DEF Open, TypeInv, TypeOK
  <2> QED
    BY <1>1, <1>3, <1>4, <1>24, <2>1 DEF Refuse, Return, Timeout, serverVars
<1>25. CASE HandleDrop \/ UserRecv \/ UserDrop \/ UNCHANGED vars
  BY <1>1, <1>3, <1>4, <1>5, <1>25
     DEF HandleDrop, UserRecv, UserDrop, vars, callVars, serverVars
<1> QED
  BY <1>7, <1>8, <1>9, <1>10, <1>11, <1>12, <1>13, <1>14, <1>15, <1>16, <1>17,
     <1>18, <1>19, <1>20, <1>21, <1>22, <1>23, <1>24, <1>25
     DEF Next, ServerStep, AcceptorStep, ClientStep, ConnStep, SenderStep,
         CallerStep, Calls, Asks

(* The inductive invariant of the calls. *)
LEMMA CallInvInit == Init => CallInv
<1> SUFFICES ASSUME Init PROVE CallInv
  OBVIOUS
<1>1. StreamInv
  BY SomeIsNotNone DEF Init, StreamInv, Handshaking
<1>2. CallIsServed
  BY DEF Init, CallIsServed
<1>3. ListedAreStarted
  BY SomeIsNotNone DEF Init, ListedAreStarted, PassedOn
<1>4. ClosingIsEmpty
  BY DEF Init, ClosingIsEmpty
<1>5. NoCallForgotten
  BY DEF Init, NoCallForgotten, Calls
<1> QED
  BY <1>1, <1>2, <1>3, <1>4, <1>5 DEF CallInv

(* It is kept by every step. *)
LEMMA CallInvNext == TypeInv /\ CallInv /\ [Next]_vars => CallInv'
  BY StreamNext, ServedNext, ListedNext, ClosingNext, ForgottenNext
     DEF CallInv

(* No caller of the handle waits for an answer that nobody can give: its     *)
(* oneshot is held by the server's channel, the server or a connection that  *)
(* still runs, for any number of callers, streams and messages.              *)
THEOREM CallsAreHeld == Spec => []NoCallForgotten
<1>1. CallInv => NoCallForgotten
  BY DEF CallInv
<1> QED
  BY <1>1, TypeInit, TypeNext, CallInvInit, CallInvNext, PTL DEF Spec

-----------------------------------------------------------------------------
(* The list of connections. *)

(* No two clients share an address. *)
OwnAddresses == \A s, t \in Streams : AddrOf[s] = AddrOf[t] => s = t

(* The connections the user was, or is about to be, told of. *)
Known ==
    {s \in Streams : \/ server_event = Some(NewConnection(s))
                     \/ \E i \in DOMAIN tx : tx[i] = NewConnection(s)
                     \/ s \in Announced}

EventIsServed == server # "event" => server_event = None

(* A Close that is on its way to the server is the last sign of a connection *)
(* that is done.                                                             *)
ClosePassed(s) == \/ event_rx[s] = Some(CloseMsg)
                  \/ passer_msg[s] = Some(CloseMsg)
                  \/ rx = Some(ConnectionEvent(s, CloseMsg))

CloseIsLast == \A s \in Streams : ClosePassed(s) => conn[s] = "done"

KnownAreListed ==
    \A s \in Known : conn[s] # "none" /\ (Live(s) => s \in Registered)

(* Outside its loop the server has closed the connections of the user, or    *)
(* has them before it.                                                       *)
ToldToClose(s) == \/ conn_rx[s] = Some(CloseMsg)
                  \/ /\ server = "close_conns"
                     /\ \E i \in DOMAIN closing : closing[i] = s

KnownAreClosed ==
    server \notin LoopStates => \A s \in Known : Live(s) => ToldToClose(s)

ListInv == EventIsServed /\ CloseIsLast /\ KnownAreListed /\ KnownAreClosed

(* The server has an event for the user only while it passes it on. *)
LEMMA EventServedNext ==
    ASSUME EventIsServed, [Next]_vars
    PROVE  EventIsServed'
<1> USE DEF EventIsServed
<1>1. CASE ServerStep
  BY <1>1
     DEF ServerStep, RecvClose, RecvGetListenAddress, AskAddr, GotAddr,
         RecvGetClients, RecvSend, ForwardToConnection, RecvNewConnection,
         RecvConnectionEvent, EmitEvent, CloseConnection, ConnectionsClosed,
         CloseAcceptor, CloseListener, Break, serverVars
<1>2. CASE ~ServerStep
  BY <1>2, OnlyServer DEF serverVars
<1> QED
  BY <1>1, <1>2

(* A Close travels only from a connection that is done. *)
LEMMA CloseLastNext ==
    ASSUME TypeInv, StreamInv, CloseIsLast, [Next]_vars
    PROVE  CloseIsLast'
<1> SUFFICES ASSUME NEW s \in Streams, ClosePassed(s)' PROVE conn'[s] = "done"
  BY DEF CloseIsLast
<1>1. ClosePassed(s) => conn'[s] = "done"
  BY StartedStays DEF CloseIsLast
<1>2. ASSUME UNCHANGED <<event_rx, passer_msg>>,
             rx' = rx \/ rx' # Some(ConnectionEvent(s, CloseMsg))
      PROVE  conn'[s] = "done"
  BY <1>1, <1>2 DEF ClosePassed
<1>3. None # Some(ConnectionEvent(s, CloseMsg)) /\ None # Some(CloseMsg)
  BY SomeIsNotNone
<1>4. CASE ServerStep
  <2>1. UNCHANGED <<event_rx, passer_msg>>
    BY <1>4
       DEF ServerStep, RecvClose, RecvGetListenAddress, AskAddr, GotAddr,
           RecvGetClients, RecvSend, ForwardToConnection, RecvNewConnection,
           RecvConnectionEvent, EmitEvent, CloseConnection, ConnectionsClosed,
           CloseAcceptor, CloseListener, linkVars, passerVars
  <2>2. rx' = rx \/ rx' = None
    BY <1>4
       DEF ServerStep, RecvClose, RecvGetListenAddress, AskAddr, GotAddr,
           RecvGetClients, RecvSend, ForwardToConnection, RecvNewConnection,
           RecvConnectionEvent, EmitEvent, CloseConnection, ConnectionsClosed,
           CloseAcceptor, CloseListener
  <2> QED
    BY <1>2, <1>3, <2>1, <2>2
<1>5. CASE ListenerStep \/ AcceptorStep \/ HandshakeOk \/ HandshakeFails
  <2>1. /\ UNCHANGED <<event_rx, passer_msg>>
        /\ \/ rx' = rx
           \/ rx' = Some(NewConnection(Get(acceptor_msg)))
    BY <1>5 DEF ListenerStep, HandleNewStream, ListenerMessage, AcceptorStep,
                AcceptorMessage, PassNewConnection, HandshakeOk,
                HandshakeFails, linkVars, passerVars
  <2> QED
    BY <1>2, <2>1, MessagesApart
<1>6. ASSUME NEW t \in Streams,
             \/ ConnReply(t) \/ ConnRead(t) \/ ConnPeerClose(t) \/ ConnTake(t)
             \/ ConnSent(t) \/ ConnClose(t) \/ ListenerAccept(t)
      PROVE  conn'[s] = "done"
  BY <1>2, <1>6
     DEF ConnReply, ConnRead, ConnPeerClose, ConnTake, ConnSent, ConnClose,
         ListenerAccept, linkVars, passerVars
<1>7. ASSUME NEW t \in Streams, ConnEmit(t) PROVE conn'[s] = "done"
  <2>1. /\ UNCHANGED <<rx, passer_msg>>
        /\ UNCHANGED event_rx \/ event_rx' = [event_rx EXCEPT ![t] = conn_msg[t]]
        /\ conn_msg[t] = Some(CloseMsg) => conn' = [conn EXCEPT ![t] = "done"]
    BY <1>7 DEF ConnEmit
  <2>2. ClosePassed(s) \/ (s = t /\ conn_msg[t] = Some(CloseMsg))
    BY <2>1 DEF ClosePassed, TypeInv, TypeOK
  <2> QED
    BY <1>1, <2>1, <2>2 DEF TypeInv, TypeOK
<1>8. ASSUME NEW t \in Streams, PasserRecv(t) PROVE conn'[s] = "done"
  <2>1. /\ UNCHANGED rx
        /\ \/ UNCHANGED <<event_rx, passer_msg>>
           \/ /\ event_rx' = [event_rx EXCEPT ![t] = None]
              /\ passer_msg' = [passer_msg EXCEPT ![t] = event_rx[t]]
    BY <1>8 DEF PasserRecv
  <2>2. ClosePassed(s)
    BY <1>3, <2>1 DEF ClosePassed, TypeInv, TypeOK
  <2> QED
    BY <1>1, <2>2
<1>9. ASSUME NEW t \in Streams, PasserPass(t) PROVE conn'[s] = "done"
  <2>1. /\ rx' = rx \/ rx' = Some(ConnectionEvent(t, Get(passer_msg[t])))
        /\ UNCHANGED event_rx \/ event_rx' = [event_rx EXCEPT ![t] = None]
        /\ passer_msg' = [passer_msg EXCEPT ![t] = None]
    BY <1>9 DEF PasserPass
  <2>2. passer_msg[t] = Some(Get(passer_msg[t]))
    BY <1>9, OptionCases DEF PasserPass, TypeInv, TypeOK, Carried
  <2>3. rx' = Some(ConnectionEvent(s, CloseMsg)) => ClosePassed(s)
    BY <2>1, <2>2, MessagesApart DEF ClosePassed
  <2>4. ClosePassed(s)
    BY <1>3, <2>1, <2>3 DEF ClosePassed, TypeInv, TypeOK
  <2> QED
    BY <1>1, <2>4
<1>10. ASSUME NEW c \in Calls, CallerStep(c) \/ Timeout(c) PROVE conn'[s] = "done"
  <2>1. UNCHANGED <<event_rx, passer_msg>> /\ (rx' = rx \/ rx' = Some(c))
    BY <1>10 DEF CallerStep, Accept, Refuse, Return, Timeout, linkVars,
                 passerVars
  <2> QED
    BY <1>2, <2>1, MessagesApart
<1>11. CASE HandleDrop \/ UserRecv \/ UserDrop \/ UNCHANGED vars
  BY <1>2, <1>11
     DEF HandleDrop, UserRecv, UserDrop, vars, linkVars, passerVars
<1> QED
  BY <1>4, <1>5, <1>6, <1>7, <1>8, <1>9, <1>10, <1>11
     DEF Next, ClientStep, ConnStep, SenderStep, PasserStep, Calls, Asks

(* A connection that has started and is open was open before. *)
LEMMA LiveStays ==
    ASSUME TypeInv, StreamInv, [Next]_vars, NEW s \in Streams,
           conn[s] # "none", Live(s)'
    PROVE  Live(s)
<1>1. CASE UNCHANGED <<conn, conn_msg>>
  BY <1>1 DEF Live
<1>2. CASE HandshakeOk
  <2>1. Handshaking(Get(acceptor_msg)) /\ Get(acceptor_msg) \in Streams
    BY <1>2, OptionCases
       DEF HandshakeOk, Handshaking, TypeInv, TypeOK, Carried
  <2>2. Get(acceptor_msg) # s
    BY <2>1 DEF StreamInv
  <2> QED
    BY <1>2, <2>1, <2>2 DEF HandshakeOk, Live, TypeInv, TypeOK
<1>3. ASSUME NEW t \in Streams,
             \/ ConnReply(t) \/ ConnRead(t) \/ ConnPeerClose(t)
             \/ ConnStep(t) \/ SenderStep(t)
      PROVE  Live(s)
  BY <1>3
     DEF ConnReply, ConnRead, ConnPeerClose, ConnStep, ConnTake, ConnEmit,
         SenderStep, ConnSent, ConnClose, Live, TypeInv, TypeOK
<1>4. ASSUME NEW t \in Streams, PasserStep(t) \/ ListenerAccept(t)
      PROVE  Live(s)
  BY <1>1, <1>4
     DEF PasserStep, PasserRecv, PasserPass, ListenerAccept, linkVars,
         connVars
<1>5. CASE ServerStep
  BY <1>1, <1>5
     DEF ServerStep, RecvClose, RecvGetListenAddress, AskAddr, GotAddr,
         RecvGetClients, RecvSend, ForwardToConnection, RecvNewConnection,
         RecvConnectionEvent, EmitEvent, CloseConnection, ConnectionsClosed,
         CloseAcceptor, CloseListener, linkVars, connVars
<1>6. CASE ListenerStep \/ AcceptorStep \/ HandshakeFails
  BY <1>1, <1>6
     DEF ListenerStep, HandleNewStream, ListenerMessage, AcceptorStep,
         AcceptorMessage, PassNewConnection, HandshakeFails, linkVars,
         connVars
<1>7. ASSUME NEW c, CallerStep(c) \/ Timeout(c) PROVE Live(s)
  BY <1>1, <1>7 DEF CallerStep, Accept, Refuse, Return, Timeout, linkVars,
                    connVars
<1>8. CASE HandleDrop \/ UserRecv \/ UserDrop \/ UNCHANGED vars
  BY <1>1, <1>8 DEF HandleDrop, UserRecv, UserDrop, vars, linkVars, connVars
<1> QED
  BY <1>2, <1>3, <1>4, <1>5, <1>6, <1>7, <1>8 DEF Next, ClientStep

(* A listed connection that is open stays listed: the server removes the     *)
(* entry of a connection that is done, and no other has its address.         *)
LEMMA RegisteredStays ==
    ASSUME OwnAddresses, TypeInv, CallInv, CloseIsLast, [Next]_vars,
           NEW s \in Registered, Live(s)
    PROVE  s \in Registered'
<1>1. /\ s \in Streams /\ AddrOf[s] \in Addrs /\ conn[s] # "done"
      /\ connections[AddrOf[s]] = Some(s)
  BY ServerAssumption DEF Registered, Live
<1>2. connections'[AddrOf[s]] = connections[AddrOf[s]] => s \in Registered'
  BY <1>1 DEF Registered
<1>3. CASE RecvNewConnection
  <2>1. PICK t \in Streams : RecvNewConnection!2!(t)
    BY <1>3 DEF RecvNewConnection
  <2>2. connections'[AddrOf[s]] = connections[AddrOf[s]]
    BY <1>1, <2>1, SomeIsNotNone DEF TypeInv, TypeOK
  <2> QED
    BY <1>2, <2>2
<1>4. CASE RecvConnectionEvent
  <2>1. PICK t \in Streams, e \in ConnectionEvents : RecvConnectionEvent!2!(t, e)
    BY <1>4 DEF RecvConnectionEvent
  <2>2. e = CloseMsg => AddrOf[t] # AddrOf[s]
    BY <1>1, <2>1 DEF OwnAddresses, CloseIsLast, ClosePassed
  <2>3. connections'[AddrOf[s]] = connections[AddrOf[s]]
    BY <1>1, <2>1, <2>2 DEF TypeInv, TypeOK
  <2> QED
    BY <1>2, <2>3
<1>5. CASE ForwardToConnection
  <2>1. PICK d \in Requests \cup Events :
                server_call = Some(d) /\ connections[To[d]] # None
    BY <1>5 DEF ForwardToConnection, TypeInv, Carried
  <2>2. Get(server_call) = d /\ To[d] \in Addrs
    BY <2>1, GetSome, ServerAssumption
  <2>3. connections[To[d]] = Some(Get(connections[To[d]]))
    BY <2>1, <2>2, OptionCases DEF TypeInv, TypeOK
  <2>4. conn[Get(connections[To[d]])] = "done" => To[d] # AddrOf[s]
    BY <1>1, <2>3, GetSome
  <2>5. \/ UNCHANGED connections
        \/ /\ conn[Get(connections[To[d]])] = "done"
           /\ connections' = [connections EXCEPT ![To[d]] = None]
    BY <1>5, <2>2 DEF ForwardToConnection
  <2>6. connections'[AddrOf[s]] = connections[AddrOf[s]]
    BY <1>1, <2>4, <2>5 DEF TypeInv, TypeOK
  <2> QED
    BY <1>2, <2>6
<1>6. CASE ServerStep /\ ~RecvNewConnection /\ ~RecvConnectionEvent
             /\ ~ForwardToConnection
  BY <1>2, <1>6
     DEF ServerStep, RecvClose, RecvGetListenAddress, AskAddr, GotAddr,
         RecvGetClients, RecvSend, EmitEvent, CloseConnection,
         ConnectionsClosed, CloseAcceptor, CloseListener, serverVars
<1>7. CASE ~ServerStep
  BY <1>2, <1>7, OnlyServer DEF serverVars
<1> QED
  BY <1>3, <1>4, <1>5, <1>6, <1>7

(* The user is told of a new connection only when it has been listed. *)
LEMMA KnownGrows ==
    ASSUME TypeInv, [Next]_vars, NEW s \in Streams, s \in Known'
    PROVE  s \notin Known => /\ server = "recv" /\ rx = Some(NewConnection(s))
                             /\ server' = "event" /\ UNCHANGED conn
                             /\ connections'[AddrOf[s]] = Some(s)
<1> DEFINE n == NewConnection(s)
           InTx == \E i \in DOMAIN tx : tx[i] = n
           InDelivered == \E i \in DOMAIN delivered : delivered[i] = n
<1>1. /\ s \in Known <=> server_event = Some(n) \/ InTx \/ InDelivered
      /\ s \in Known' <=> server_event' = Some(n) \/ InTx' \/ InDelivered'
  BY DEF Known, Announced
<1>2. tx \in Seq(ServerEvents) /\ delivered \in Seq(ServerEvents)
  BY DEF TypeInv, TypeOK
<1>3. Some(n) # None
  BY SomeIsNotNone
<1>4. ASSUME server_event' = server_event \/ server_event' # Some(n),
             UNCHANGED <<tx, delivered>>
      PROVE  s \in Known
  BY <1>1, <1>4
<1>5. CASE RecvNewConnection
  <2>1. PICK t \in Streams : RecvNewConnection!2!(t)
    BY <1>5 DEF RecvNewConnection
  <2>2. server = "recv" /\ UNCHANGED <<tx, delivered, conn>>
    BY <1>5 DEF RecvNewConnection, userVars, linkVars, connVars
  <2>3. CASE UNCHANGED server_event
    BY <1>4, <2>2, <2>3
  <2>4. CASE /\ connections' = [connections EXCEPT ![AddrOf[t]] = Some(t)]
             /\ server_event' = rx /\ server' = "event"
    <3>1. CASE t = s
      BY <2>1, <2>2, <2>4, <3>1, ServerAssumption DEF TypeInv, TypeOK
    <3>2. CASE t # s
      <4>1. server_event' # Some(n)
        BY <2>1, <2>4, <3>2, MessagesApart
      <4> QED
        BY <1>4, <2>2, <4>1
    <3> QED
      BY <3>1, <3>2
  <2> QED
    BY <2>1, <2>3, <2>4
<1>6. CASE RecvConnectionEvent
  <2>1. server_event' # Some(n) /\ UNCHANGED <<tx, delivered>>
    BY <1>6, MessagesApart DEF RecvConnectionEvent
  <2> QED
    BY <1>4, <2>1
<1>7. CASE EmitEvent
  <2>1. server_event' = None /\ UNCHANGED delivered
    BY <1>7 DEF EmitEvent
  <2>2. server_event = Some(Get(server_event)) /\ Get(server_event) \in ServerEvents
    BY <1>7, OptionCases DEF EmitEvent, TypeInv, TypeOK, Carried
  <2>3. UNCHANGED tx \/ tx' = Append(tx, Get(server_event))
    BY <1>7 DEF EmitEvent
  <2>4. InTx' => InTx \/ Get(server_event) = n
    BY <1>2, <2>2, <2>3
  <2> QED
    BY <1>1, <1>3, <2>1, <2>2, <2>4
<1>8. CASE UserRecv
  <2>1. /\ tx # << >> /\ tx' = Tail(tx) /\ UNCHANGED server_event
        /\ delivered' = Append(delivered, Head(tx))
    BY <1>8 DEF UserRecv, serverVars
  <2>2. InTx' => InTx
    BY <1>2, <2>1
  <2>3. Head(tx) = n => InTx
    BY <1>2, <2>1
  <2>4. InDelivered' => InDelivered \/ Head(tx) = n
    BY <1>2, <2>1
  <2> QED
    BY <1>1, <2>1, <2>2, <2>3, <2>4
<1>9. CASE UserDrop
  <2>1. tx' = << >> /\ UNCHANGED <<server_event, delivered>>
    BY <1>9 DEF UserDrop, serverVars
  <2> QED
    BY <1>1, <2>1
<1>10. CASE ServerStep /\ ~RecvNewConnection /\ ~RecvConnectionEvent /\ ~EmitEvent
  <2>1. UNCHANGED <<server_event, tx, delivered>>
    BY <1>10
       DEF ServerStep, RecvClose, RecvGetListenAddress, AskAddr, GotAddr,
           RecvGetClients, RecvSend, ForwardToConnection, CloseConnection,
           ConnectionsClosed, CloseAcceptor, CloseListener, serverVars,
           userVars
  <2> QED
    BY <1>4, <2>1
<1>11. CASE ~ServerStep /\ ~UserRecv /\ ~UserDrop
  <2>1. UNCHANGED userVars
    <3>1. ASSUME NEW t \in Streams,
                 \/ ConnReply(t) \/ ConnRead(t) \/ ConnPeerClose(t)
                 \/ ConnStep(t) \/ SenderStep(t) \/ PasserStep(t) \/ ListenerAccept(t)
          PROVE  UNCHANGED userVars
      BY <3>1
         DEF ConnReply, ConnRead, ConnPeerClose, ConnStep, ConnTake, ConnEmit,
             SenderStep, ConnSent, ConnClose, PasserStep, PasserRecv,
             PasserPass, ListenerAccept
    <3>2. CASE ListenerStep \/ AcceptorStep \/ HandshakeOk \/ HandshakeFails
      BY <3>2
         DEF ListenerStep, HandleNewStream, ListenerMessage, AcceptorStep,
             AcceptorMessage, PassNewConnection, HandshakeOk, HandshakeFails
    <3>3. ASSUME NEW c, CallerStep(c) \/ Timeout(c) PROVE UNCHANGED userVars
      BY <3>3 DEF CallerStep, Accept, Refuse, Return, Timeout
    <3>4. CASE HandleDrop \/ UNCHANGED vars
      BY <3>4 DEF HandleDrop, vars
    <3> QED
      BY <1>11, <3>1, <3>2, <3>3, <3>4 DEF Next, ClientStep
  <2> QED
    BY <1>4, <1>11, <2>1, OnlyServer DEF serverVars, userVars
<1> QED
  BY <1>5, <1>6, <1>7, <1>8, <1>9, <1>10, <1>11

(* What the user knows of stays listed while it is open. *)
LEMMA KnownListedNext ==
    ASSUME OwnAddresses, TypeInv, CallInv, CloseIsLast, KnownAreListed,
           [Next]_vars
    PROVE  KnownAreListed'
<1> SUFFICES ASSUME NEW s \in Streams, s \in Known'
             PROVE  conn'[s] # "none" /\ (Live(s)' => s \in Registered')
  BY DEF KnownAreListed, Known
<1>1. conn[s] # "none" => conn'[s] # "none"
  BY StartedStays DEF CallInv
<1>2. CASE s \in Known
  <2>1. conn[s] # "none" /\ (Live(s) => s \in Registered)
    BY <1>2 DEF KnownAreListed
  <2>2. Live(s)' => Live(s)
    BY <2>1, LiveStays DEF CallInv
  <2> QED
    BY <1>1, <2>1, <2>2, RegisteredStays
<1>3. CASE s \notin Known
  <2>1. rx = Some(NewConnection(s)) /\ connections'[AddrOf[s]] = Some(s)
    BY <1>3, KnownGrows
  <2>2. conn[s] # "none"
    BY <2>1 DEF CallInv, ListedAreStarted, PassedOn
  <2> QED
    BY <1>1, <2>1, <2>2 DEF Registered
<1> QED
  BY <1>2, <1>3

(* A connection with a Close in its channel keeps it until it obeys. *)
LEMMA CloseStays ==
    ASSUME TypeInv, [Next]_vars, NEW s \in Streams,
           conn_rx[s] = Some(CloseMsg), Live(s)'
    PROVE  conn_rx'[s] = Some(CloseMsg)
<1>1. CASE UNCHANGED conn_rx
  BY <1>1
<1>2. CASE ForwardToConnection \/ CloseConnection
  <2>1. \/ UNCHANGED conn_rx
        \/ \E t, m : /\ conn_rx[t] = None
                     /\ conn_rx' = [conn_rx EXCEPT ![t] = m]
    BY <1>2 DEF ForwardToConnection, CloseConnection
  <2> QED
    BY <2>1, SomeIsNotNone DEF TypeInv, TypeOK
<1>3. ASSUME NEW t \in Streams, ConnTake(t) \/ ConnEmit(t)
      PROVE  conn_rx'[s] = Some(CloseMsg)
  <2>1. CASE t # s
    BY <1>3, <2>1 DEF ConnTake, ConnEmit, TypeInv, TypeOK
  <2>2. CASE t = s /\ ConnTake(t)
    <3>1. Get(conn_rx[s]) = CloseMsg
      BY GetSome
    <3>2. conn'[s] = "close"
      BY <2>2, <3>1, CallsAssumption
         DEF ConnTake, Calls, Asks, TypeInv, TypeOK
    <3> QED
      BY <3>2 DEF Live
  <2>3. CASE t = s /\ ConnEmit(t)
    BY <2>3 DEF ConnEmit, Live, TypeInv, TypeOK
  <2> QED
    BY <1>3, <2>1, <2>2, <2>3
<1>4. ASSUME NEW t \in Streams,
             \/ ConnReply(t) \/ ConnRead(t) \/ ConnPeerClose(t)
             \/ ConnSent(t) \/ ConnClose(t) \/ PasserStep(t) \/ ListenerAccept(t)
      PROVE  UNCHANGED conn_rx
  BY <1>4
     DEF ConnReply, ConnRead, ConnPeerClose, ConnSent, ConnClose, PasserStep,
         PasserRecv, PasserPass, ListenerAccept, linkVars, connVars
<1>5. CASE ServerStep /\ ~ForwardToConnection /\ ~CloseConnection
  BY <1>1, <1>5
     DEF ServerStep, RecvClose, RecvGetListenAddress, AskAddr, GotAddr,
         RecvGetClients, RecvSend, RecvNewConnection, RecvConnectionEvent,
         EmitEvent, ConnectionsClosed, CloseAcceptor, CloseListener, linkVars,
         connVars
<1>6. CASE ListenerStep \/ AcceptorStep \/ HandshakeOk \/ HandshakeFails
  BY <1>1, <1>6
     DEF ListenerStep, HandleNewStream, ListenerMessage, AcceptorStep,
         AcceptorMessage, PassNewConnection, HandshakeOk, HandshakeFails,
         linkVars, connVars
<1>7. ASSUME NEW c, CallerStep(c) \/ Timeout(c) PROVE UNCHANGED conn_rx
  BY <1>7 DEF CallerStep, Accept, Refuse, Return, Timeout, linkVars, connVars
<1>8. CASE HandleDrop \/ UserRecv \/ UserDrop \/ UNCHANGED vars
  BY <1>1, <1>8 DEF HandleDrop, UserRecv, UserDrop, vars, linkVars, connVars
<1> QED
  BY <1>1, <1>2, <1>3, <1>4, <1>5, <1>6, <1>7, <1>8
     DEF Next, ClientStep, ConnStep, SenderStep

(* The loop over the connections tells each of them. *)
LEMMA KnownClosedNext ==
    ASSUME TypeInv, CallInv, ListInv, [Next]_vars
    PROVE  KnownAreClosed'
<1> SUFFICES ASSUME NEW s \in Streams, s \in Known', Live(s)',
                    server' \notin LoopStates
             PROVE  ToldToClose(s)'
  BY DEF KnownAreClosed, Known
<1>1. s \in Known
  BY KnownGrows DEF LoopStates
<1>2. Live(s) /\ s \in Registered
  <2>1. conn[s] # "none" /\ (Live(s) => s \in Registered)
    BY <1>1 DEF ListInv, KnownAreListed
  <2> QED
    BY <2>1, LiveStays DEF CallInv
<1>3. conn_rx[s] = Some(CloseMsg) => ToldToClose(s)'
  BY CloseStays DEF ToldToClose
<1>4. CASE server \in LoopStates
  <2>0. ServerStep
    BY <1>4, OnlyServer DEF serverVars
  <2>1. Break
    BY <1>4, <2>0
       DEF ServerStep, RecvClose, RecvGetListenAddress, AskAddr, GotAddr,
           RecvGetClients, RecvSend, ForwardToConnection, RecvNewConnection,
           RecvConnectionEvent, EmitEvent, CloseConnection, ConnectionsClosed,
           CloseAcceptor, CloseListener, LoopStates, serverVars
  <2>2. closing' \in Orders(Registered) /\ server' = "close_conns"
    BY <2>1 DEF Break
  <2>3. \E i \in DOMAIN closing' : closing'[i] = s
    BY <1>2, <2>2 DEF Orders
  <2> QED
    BY <2>2, <2>3 DEF ToldToClose
<1>5. CASE server \notin LoopStates
  <2>1. ToldToClose(s)
    BY <1>1, <1>2, <1>5 DEF ListInv, KnownAreClosed
  <2>2. ASSUME server = "close_conns", \E i \in DOMAIN closing : closing[i] = s
        PROVE  ToldToClose(s)'
    <3>1. CASE CloseConnection
      <4>1. closing \in Seq(Streams) /\ closing # << >>
        BY <3>1 DEF CloseConnection, TypeInv, TypeOK
      <4>2. CASE Head(closing) = s
        <5>1. conn[s] # "done"
          BY <1>2 DEF Live
        <5>2. conn_rx' = [conn_rx EXCEPT ![s] = Some(CloseMsg)]
          BY <3>1, <4>2, <5>1 DEF CloseConnection
        <5> QED
          BY <5>2 DEF ToldToClose, TypeInv, TypeOK
      <4>3. CASE Head(closing) # s
        <5>1. closing' = Tail(closing) /\ server' = "close_conns"
          BY <2>2, <3>1 DEF CloseConnection
        <5>2. PICK i \in 1 .. Len(closing) : closing[i] = s
          BY <2>2, <4>1
        <5>3. i # 1
          BY <4>1, <4>3, <5>2
        <5>4. i - 1 \in DOMAIN closing' /\ closing'[i - 1] = s
          BY <4>1, <5>1, <5>2, <5>3
        <5> QED
          BY <5>1, <5>4 DEF ToldToClose
      <4> QED
        BY <4>2, <4>3
    <3>2. CASE ServerStep /\ ~CloseConnection
      <4>1. closing = << >>
        BY <2>2, <3>2
           DEF ServerStep, RecvClose, RecvGetListenAddress, AskAddr, GotAddr,
               RecvGetClients, RecvSend, ForwardToConnection,
               RecvNewConnection, RecvConnectionEvent, EmitEvent,
               ConnectionsClosed, CloseAcceptor, CloseListener
      <4> QED
        BY <2>2, <4>1
    <3>3. CASE ~ServerStep
      BY <2>2, <3>3, OnlyServer DEF serverVars, ToldToClose
    <3> QED
      BY <3>1, <3>2, <3>3
  <2> QED
    BY <1>3, <2>1, <2>2 DEF ToldToClose
<1> QED
  BY <1>4, <1>5

(* The inductive invariant of the list. *)
LEMMA ListInvInit == Init => ListInv
<1> SUFFICES ASSUME Init PROVE ListInv
  OBVIOUS
<1>1. EventIsServed
  BY DEF Init, EventIsServed
<1>2. CloseIsLast
  BY SomeIsNotNone DEF Init, CloseIsLast, ClosePassed
<1>3. Known = {}
  BY SomeIsNotNone DEF Init, Known, Announced
<1> QED
  BY <1>1, <1>2, <1>3 DEF ListInv, KnownAreListed, KnownAreClosed

(* It is kept by every step, if no two clients share an address. *)
LEMMA ListInvNext ==
    ASSUME OwnAddresses
    PROVE  TypeInv /\ CallInv /\ ListInv /\ [Next]_vars => ListInv'
  BY EventServedNext, CloseLastNext, KnownListedNext, KnownClosedNext
     DEF ListInv, CallInv

(* The list is right about what the user knows: a connection it was told of  *)
(* is in Server.connections as long as it is open, whatever the order in     *)
(* which the Acceptor, the passers and the callers reach the server.         *)
THEOREM ListedWhileOpen == OwnAddresses => (Spec => []ConnectedAreListed)
<1> SUFFICES ASSUME OwnAddresses PROVE Spec => []ConnectedAreListed
  OBVIOUS
<1>1. TypeInv /\ CallInv /\ ListInv /\ [Next]_vars => ListInv'
  BY ListInvNext
<1>2. ListInv => ConnectedAreListed
  BY DEF ListInv, KnownAreListed, ConnectedAreListed, Known, Announced
<1> QED
  BY <1>1, <1>2, TypeInit, TypeNext, CallInvInit, CallInvNext, ListInvInit,
     PTL
     DEF Spec

(* A server that goes on to close the Acceptor has told every connection the *)
(* user knows of to close, unless it is closing already.                     *)
THEOREM ClosedAtShutdown == OwnAddresses => (Spec => []AnnouncedAreClosed)
<1> SUFFICES ASSUME OwnAddresses PROVE Spec => []AnnouncedAreClosed
  OBVIOUS
<1>1. TypeInv /\ CallInv /\ ListInv /\ [Next]_vars => ListInv'
  BY ListInvNext
<1>2. ListInv => AnnouncedAreClosed
  BY DEF ListInv, KnownAreClosed, ToldToClose, LoopStates, AnnouncedAreClosed,
         Known, Announced
<1> QED
  BY <1>1, <1>2, TypeInit, TypeNext, CallInvInit, CallInvNext, ListInvInit,
     PTL
     DEF Spec

-----------------------------------------------------------------------------
(* The connections, as their view describes them. *)

AtServer(c) == rx = Some(c) \/ server_call = Some(c)
Holds(c, s) == conn_rx[s] = Some(c) \/ c \in pending[s]

(* The sender of a request's oneshot moves: it is in one place at a time. *)
HeldOnce(c) ==
    /\ call[c] = "sending" => ~AtServer(c) /\ \A s \in Streams : ~Holds(c, s)
    /\ rx # Some(c) \/ server_call # Some(c)
    /\ AtServer(c) => \A s \in Streams : ~Holds(c, s)
    /\ \A s, t \in Streams : Holds(c, s) /\ Holds(c, t) => s = t

OneHolder == \A c \in Requests : HeldOnce(c)

(* A passer starts with its connection. *)
PasserStarted == \A s \in Streams : conn[s] = "none" => passer[s] = "none"

ViewInv == OneHolder /\ PasserStarted

(* A call that is sent is not sent again. *)
LEMMA SendingNext ==
    ASSUME TypeInv, [Next]_vars, NEW c \in Calls, call'[c] = "sending"
    PROVE  call[c] = "sending"
<1>1. CASE UNCHANGED call
  BY <1>1
<1>2. ASSUME NEW d \in Calls, CallerStep(d) \/ Timeout(d) PROVE call[c] = "sending"
  <2>1. CASE d # c
    BY <1>2, <2>1
       DEF CallerStep, Accept, Refuse, Return, Timeout, TypeInv, TypeOK
  <2>2. CASE d = c /\ Return(d) /\ d \in Asks
    BY <2>2 DEF Return, TypeInv, TypeOK
  <2>3. CASE d = c /\ (Accept(d) \/ Refuse(d) \/ Timeout(d))
    BY <2>3 DEF Accept, Refuse, Timeout, TypeInv, TypeOK
  <2> QED
    BY <1>2, <2>1, <2>2, <2>3 DEF CallerStep
<1>3. CASE ServerStep
  BY <1>1, <1>3
     DEF ServerStep, RecvClose, RecvGetListenAddress, AskAddr, GotAddr,
         RecvGetClients, RecvSend, ForwardToConnection, RecvNewConnection,
         RecvConnectionEvent, EmitEvent, CloseConnection, ConnectionsClosed,
         CloseAcceptor, CloseListener, callVars
<1>4. ASSUME NEW t \in Streams,
             \/ ConnReply(t) \/ ConnRead(t) \/ ConnPeerClose(t)
             \/ ConnStep(t) \/ SenderStep(t) \/ PasserStep(t) \/ ListenerAccept(t)
      PROVE  UNCHANGED call
  BY <1>4
     DEF ConnReply, ConnRead, ConnPeerClose, ConnStep, ConnTake, ConnEmit,
         SenderStep, ConnSent, ConnClose, PasserStep, PasserRecv, PasserPass,
         ListenerAccept, callVars
<1>5. CASE ListenerStep \/ AcceptorStep \/ HandshakeOk \/ HandshakeFails
  BY <1>1, <1>5
     DEF ListenerStep, HandleNewStream, ListenerMessage, AcceptorStep,
         AcceptorMessage, PassNewConnection, HandshakeOk, HandshakeFails,
         callVars
<1>6. CASE HandleDrop \/ UserRecv \/ UserDrop \/ UNCHANGED vars
  BY <1>1, <1>6 DEF HandleDrop, UserRecv, UserDrop, vars, callVars
<1> QED
  BY <1>1, <1>2, <1>3, <1>4, <1>5, <1>6 DEF Next, ClientStep, Calls, Asks

(* Every step moves the sender of a oneshot on or leaves it. *)
LEMMA HolderNext ==
    ASSUME TypeInv, CallIsServed, OneHolder, [Next]_vars
    PROVE  OneHolder'
<1> SUFFICES ASSUME NEW c \in Requests PROVE HeldOnce(c)'
  BY DEF OneHolder
<1>1. HeldOnce(c) /\ c \in Calls /\ c # CloseMsg
  BY CallsAssumption DEF OneHolder, Calls, Asks
<1>2. call'[c] = "sending" => call[c] = "sending"
  BY <1>1, SendingNext
<1>3. ASSUME AtServer(c)' => AtServer(c),
             rx' # Some(c) \/ server_call' # Some(c),
             \A s \in Streams : Holds(c, s)' => Holds(c, s)
      PROVE  HeldOnce(c)'
  BY <1>1, <1>2, <1>3 DEF HeldOnce
<1>4. None # Some(c)
  BY SomeIsNotNone
<1>5. UNCHANGED linkVars => \A s \in Streams : Holds(c, s)' => Holds(c, s)
  BY DEF linkVars, connVars, Holds
<1>6. UNCHANGED <<rx, server_call>> =>
        (AtServer(c)' => AtServer(c)) /\ (rx' # Some(c) \/ server_call' # Some(c))
  BY <1>1 DEF AtServer, HeldOnce
<1>7. rx' = None /\ UNCHANGED server_call =>
        (AtServer(c)' => AtServer(c)) /\ (rx' # Some(c) \/ server_call' # Some(c))
  BY <1>4 DEF AtServer
<1>8. CASE RecvClose \/ RecvGetClients \/ RecvNewConnection \/ RecvConnectionEvent
             \/ CloseListener
  BY <1>3, <1>5, <1>7, <1>8
     DEF RecvClose, RecvGetClients, RecvNewConnection, RecvConnectionEvent,
         CloseListener, serverVars
<1>9. CASE RecvGetListenAddress \/ RecvSend
  <2>1. /\ rx' = None /\ UNCHANGED linkVars
        /\ server_call' = server_call \/ server_call' = rx
    BY <1>9 DEF RecvGetListenAddress, RecvSend
  <2> QED
    BY <1>3, <1>4, <1>5, <2>1 DEF AtServer
<1>10. CASE AskAddr \/ EmitEvent \/ ConnectionsClosed \/ CloseAcceptor
  BY <1>3, <1>5, <1>6, <1>10
     DEF AskAddr, EmitEvent, ConnectionsClosed, CloseAcceptor
<1>11. CASE GotAddr
  <2>1. server_call' = None /\ UNCHANGED <<rx, linkVars>>
    BY <1>11 DEF GotAddr
  <2> QED
    BY <1>3, <1>4, <1>5, <2>1 DEF AtServer
<1>12. CASE ForwardToConnection
  <2>1. PICK d \in Requests \cup Events :
                server_call = Some(d) /\ connections[To[d]] # None
    BY <1>12 DEF ForwardToConnection, TypeInv, Carried
  <2>2. Get(server_call) = d
    BY <2>1, GetSome
  <2>3. server_call' = None /\ UNCHANGED <<rx, pending>>
    BY <1>12 DEF ForwardToConnection
  <2>4. (AtServer(c)' => AtServer(c)) /\ server_call' # Some(c)
    BY <1>4, <2>3 DEF AtServer
  <2>5. CASE UNCHANGED conn_rx
    BY <1>3, <2>3, <2>4, <2>5 DEF Holds
  <2>6. ASSUME NEW s, conn_rx' = [conn_rx EXCEPT ![s] = Some(d)]
        PROVE  HeldOnce(c)'
    <3>1. CASE c = d
      <4>1. rx # Some(c) /\ call[c] # "sending" /\ \A t \in Streams : ~Holds(c, t)
        BY <1>1, <2>1, <3>1 DEF HeldOnce, AtServer
      <4>2. ~AtServer(c)'
        BY <1>4, <2>3, <4>1 DEF AtServer
      <4>3. \A t \in Streams : Holds(c, t)' => t = s
        BY <2>3, <2>6, <4>1 DEF Holds, TypeInv, TypeOK
      <4> QED
        BY <1>2, <4>1, <4>2, <4>3 DEF HeldOnce, AtServer
    <3>2. CASE c # d
      <4>1. \A t \in Streams : Holds(c, t)' => Holds(c, t)
        BY <2>3, <2>6, <3>2, SomeInjective DEF Holds, TypeInv, TypeOK
      <4> QED
        BY <1>3, <2>4, <4>1
    <3> QED
      BY <3>1, <3>2
  <2>7. UNCHANGED conn_rx \/ \E s : conn_rx' = [conn_rx EXCEPT ![s] = Some(d)]
    BY <1>12, <2>2 DEF ForwardToConnection
  <2> QED
    BY <2>5, <2>6, <2>7
<1>13. CASE CloseConnection
  <2>1. /\ UNCHANGED <<rx, server_call, pending>>
        /\ \/ UNCHANGED conn_rx
           \/ conn_rx' = [conn_rx EXCEPT ![Head(closing)] = Some(CloseMsg)]
    BY <1>13 DEF CloseConnection
  <2>2. Some(CloseMsg) # Some(c)
    BY <1>1, SomeInjective
  <2>3. \A s \in Streams : Holds(c, s)' => Holds(c, s)
    BY <2>1, <2>2 DEF Holds, TypeInv, TypeOK
  <2> QED
    BY <1>3, <1>6, <2>1, <2>3
<1>14. ASSUME NEW t \in Streams,
              \/ ConnTake(t) \/ ConnSent(t) \/ ConnReply(t) \/ ConnRead(t)
              \/ ConnPeerClose(t) \/ ConnClose(t) \/ ConnEmit(t)
       PROVE  HeldOnce(c)'
  <2>1. UNCHANGED <<rx, server_call>>
    BY <1>14
       DEF ConnTake, ConnSent, ConnReply, ConnRead, ConnPeerClose, ConnClose,
           ConnEmit, serverVars
  <2>2. \A s \in Streams : Holds(c, s)' => Holds(c, s)
    <3>1. CASE ConnTake(t)
      <4>1. conn_rx[t] = Some(Get(conn_rx[t]))
        BY <3>1, OptionCases DEF ConnTake, TypeInv, TypeOK
      <4>2. /\ conn_rx' = [conn_rx EXCEPT ![t] = None]
            /\ \/ UNCHANGED pending
               \/ pending' = [pending EXCEPT ![t] = @ \cup {Get(conn_rx[t])}]
        BY <3>1 DEF ConnTake
      <4>3. /\ conn_rx'[t] = None /\ None # Some(c)
            /\ \A s \in Streams \ {t} :
                    conn_rx'[s] = conn_rx[s] /\ pending'[s] = pending[s]
            /\ pending'[t] \subseteq pending[t] \cup {Get(conn_rx[t])}
        BY <4>2, SomeIsNotNone DEF TypeInv, TypeOK
      <4>4. c = Get(conn_rx[t]) => conn_rx[t] = Some(c)
        BY <4>1
      <4> QED
        BY <4>3, <4>4 DEF Holds
    <3>2. CASE \/ ConnSent(t) \/ ConnReply(t) \/ ConnRead(t)
               \/ ConnPeerClose(t) \/ ConnClose(t)
      BY <3>2 DEF ConnSent, ConnReply, ConnRead, ConnPeerClose, ConnClose,
                  Holds, TypeInv, TypeOK
    <3>3. CASE ConnEmit(t)
      BY <1>4, <3>3 DEF ConnEmit, Holds, TypeInv, TypeOK
    <3> QED
      BY <1>14, <3>1, <3>2, <3>3
  <2> QED
    BY <1>3, <1>6, <2>1, <2>2
<1>15. ASSUME NEW t \in Streams, PasserStep(t) \/ ListenerAccept(t)
       PROVE  HeldOnce(c)'
  <2>1. UNCHANGED <<server_call, conn_rx, pending>>
    BY <1>15 DEF PasserStep, PasserRecv, PasserPass, ListenerAccept,
                 serverVars, linkVars, connVars
  <2>2. CASE UNCHANGED rx
    BY <1>3, <1>6, <2>1, <2>2 DEF Holds
  <2>3. CASE PasserPass(t) /\ rx' # rx
    <3>1. rx' # Some(c)
      <4>1. rx' = Some(ConnectionEvent(t, Get(passer_msg[t])))
        BY <2>3 DEF PasserPass
      <4>2. Get(passer_msg[t]) \in ConnectionEvents
        BY <2>3, OptionCases DEF PasserPass, TypeInv, TypeOK, Carried
      <4> QED
        BY <1>1, <4>1, <4>2, MessagesApart
    <3> QED
      BY <1>3, <2>1, <3>1 DEF AtServer, Holds
  <2> QED
    BY <1>15, <2>2, <2>3 DEF PasserStep, PasserRecv, ListenerAccept
<1>16. CASE ListenerStep \/ AcceptorMessage \/ HandshakeFails
  BY <1>3, <1>5, <1>6, <1>16
     DEF ListenerStep, HandleNewStream, ListenerMessage, AcceptorMessage,
         HandshakeFails, serverVars
<1>17. CASE HandshakeOk
  BY <1>3, <1>6, <1>17 DEF HandshakeOk, Holds, serverVars
<1>18. CASE PassNewConnection
  <2>1. UNCHANGED <<server_call, linkVars>>
    BY <1>18 DEF PassNewConnection, serverVars
  <2>2. UNCHANGED rx \/ rx' # Some(c)
    <3>1. UNCHANGED rx \/ rx' = Some(NewConnection(Get(acceptor_msg)))
      BY <1>18 DEF PassNewConnection
    <3>2. Get(acceptor_msg) \in Streams
      BY <1>18, OptionCases DEF PassNewConnection, TypeInv, TypeOK, Carried
    <3> QED
      BY <1>1, <3>1, <3>2, MessagesApart
  <2> QED
    BY <1>3, <1>5, <1>6, <2>1, <2>2 DEF AtServer
<1>19. ASSUME NEW d \in Calls, Accept(d) PROVE HeldOnce(c)'
  <2>1. /\ call[d] = "sending" /\ rx = None /\ rx' = Some(d)
        /\ UNCHANGED <<server_call, conn_rx, pending>>
    BY <1>19 DEF Accept, serverVars, linkVars, connVars
  <2>2. CASE d = c
    <3>1. server_call # Some(c) /\ \A s \in Streams : ~Holds(c, s)
      BY <1>1, <2>1, <2>2 DEF HeldOnce, AtServer
    <3>2. call'[c] # "sending"
      BY <1>19, <2>2 DEF Accept, TypeInv, TypeOK
    <3> QED
      BY <2>1, <3>1, <3>2 DEF HeldOnce, AtServer, Holds
  <2>3. CASE d # c
    <3>1. rx' # Some(c)
      BY <2>1, <2>3, SomeInjective
    <3> QED
      BY <1>3, <2>1, <3>1 DEF AtServer, Holds
  <2> QED
    BY <2>2, <2>3
<1>20. ASSUME NEW d \in Calls, Refuse(d) \/ Return(d) \/ Timeout(d)
       PROVE  HeldOnce(c)'
  BY <1>3, <1>5, <1>6, <1>20 DEF Refuse, Return, Timeout, serverVars
<1>21. CASE HandleDrop \/ UserRecv \/ UserDrop \/ UNCHANGED vars
  BY <1>3, <1>5, <1>6, <1>21
     DEF HandleDrop, UserRecv, UserDrop, vars, serverVars
<1> QED
  BY <1>8, <1>9, <1>10, <1>11, <1>12, <1>13, <1>14, <1>15, <1>16, <1>17,
     <1>18, <1>19, <1>20, <1>21
     DEF Next, ServerStep, AcceptorStep, ClientStep, ConnStep, SenderStep,
         CallerStep, Calls, Asks

(* HandshakeOk starts both. *)
LEMMA PasserStartedNext ==
    ASSUME TypeInv, StreamInv, PasserStarted, [Next]_vars
    PROVE  PasserStarted'
<1> SUFFICES ASSUME NEW s \in Streams, conn'[s] = "none" PROVE passer'[s] = "none"
  BY DEF PasserStarted
<1>1. conn[s] = "none" /\ passer[s] = "none"
  BY StartedStays DEF PasserStarted
<1>2. CASE UNCHANGED passer
  BY <1>1, <1>2
<1>3. CASE HandshakeOk
  BY <1>1, <1>3 DEF HandshakeOk, TypeInv, TypeOK
<1>4. ASSUME NEW t \in Streams, PasserStep(t) PROVE passer'[s] = "none"
  BY <1>1, <1>4 DEF PasserStep, PasserRecv, PasserPass, TypeInv, TypeOK
<1>5. ASSUME NEW t \in Streams,
             \/ ConnReply(t) \/ ConnRead(t) \/ ConnPeerClose(t)
             \/ ConnStep(t) \/ SenderStep(t) \/ ListenerAccept(t)
      PROVE  UNCHANGED passer
  BY <1>5
     DEF ConnReply, ConnRead, ConnPeerClose, ConnStep, ConnTake, ConnEmit,
         SenderStep, ConnSent, ConnClose, ListenerAccept, linkVars, passerVars
<1>6. CASE ServerStep
  BY <1>2, <1>6
     DEF ServerStep, RecvClose, RecvGetListenAddress, AskAddr, GotAddr,
         RecvGetClients, RecvSend, ForwardToConnection, RecvNewConnection,
         RecvConnectionEvent, EmitEvent, CloseConnection, ConnectionsClosed,
         CloseAcceptor, CloseListener, linkVars, passerVars
<1>7. CASE ListenerStep \/ AcceptorStep \/ HandshakeFails
  BY <1>2, <1>7
     DEF ListenerStep, HandleNewStream, ListenerMessage, AcceptorStep,
         AcceptorMessage, PassNewConnection, HandshakeFails, linkVars,
         passerVars
<1>8. ASSUME NEW c, CallerStep(c) \/ Timeout(c) PROVE UNCHANGED passer
  BY <1>8
     DEF CallerStep, Accept, Refuse, Return, Timeout, linkVars, passerVars
<1>9. CASE HandleDrop \/ UserRecv \/ UserDrop \/ UNCHANGED vars
  BY <1>2, <1>9 DEF HandleDrop, UserRecv, UserDrop, vars, linkVars, passerVars
<1> QED
  BY <1>2, <1>3, <1>4, <1>5, <1>6, <1>7, <1>8, <1>9 DEF Next, ClientStep

(* What leaves the connection of a stream alone, but for a call sent to it,  *)
(* an event taken from it or its receiver given up, is a step of its         *)
(* surroundings.                                                             *)
LEMMA StepAside ==
    ASSUME TypeInv, NEW s \in Streams,
           /\ conn'[s] = conn[s] \/ (conn[s] = "none" /\ conn'[s] = "run")
           /\ conn_msg'[s] = conn_msg[s] /\ pending'[s] = pending[s],
           \/ conn_rx'[s] = conn_rx[s]
           \/ conn[s] # "done" /\ conn_rx[s] = None /\ conn_rx'[s] # None,
           \/ event_rx'[s] = event_rx[s] /\ (passer'[s] = "done" <=> passer[s] = "done")
           \/ /\ event_rx[s] # << >> /\ event_rx'[s] = Tail(event_rx[s])
              /\ passer'[s] = "done" <=> passer[s] = "done"
           \/ passer[s] # "done" /\ passer'[s] = "done" /\ event_rx'[s] = << >>,
           \A r \in Requests : Holds(r, s) => oneshot'[r] = oneshot[r]
    PROVE  View(s)!Outside
<1>1. pending[s] \subseteq Requests
  BY DEF TypeInv, TypeOK
<1>2. \A r \in pending[s] : oneshot'[r] = oneshot[r]
  BY <1>1 DEF Holds
<1>3. \A r \in Requests : conn_rx[s] = Some(r) => oneshot'[r] = oneshot[r]
  BY DEF Holds
<1> QED
  BY <1>1, <1>2, <1>3
     DEF View!Outside, View!events, View!None, View!Some, None, Some

(* A oneshot resolved by another holder is not one of this connection's. *)
LEMMA ResolvedAside ==
    ASSUME NEW s \in Streams, NEW R, NEW v, oneshot' = Resolve(R, v),
           \A r \in Requests : r \in R => ~Holds(r, s)
    PROVE  \A r \in Requests : Holds(r, s) => oneshot'[r] = oneshot[r]
  BY DEF Resolve, Asks

(* Its own oneshots are resolved as the view says. *)
LEMMA ResolvedHere ==
    ASSUME NEW s \in Streams, NEW R, NEW v, oneshot' = Resolve(R, v),
           UNCHANGED call
    PROVE  /\ View(s)!Resolve(R, v)
           /\ {r \in Requests : call'[r] = "waiting"}
                = {r \in Requests : call[r] = "waiting"}
  BY DEF View!Resolve, Resolve, Asks

(* Each step of a connection is one of its view. *)
LEMMA OwnStep ==
    ASSUME TypeInv, NEW s \in Streams,
           \/ ConnTake(s) \/ ConnSent(s) \/ ConnReply(s) \/ ConnRead(s)
           \/ ConnPeerClose(s) \/ ConnClose(s) \/ ConnEmit(s)
    PROVE  View(s)!ViewNext
<1> USE DEF View!oneshots, View!events, View!None, View!Some, None, Some,
            View!CloseMsg, CloseMsg
<1>1. CASE ConnTake(s)
  <2>1. conn_rx[s] = Some(Get(conn_rx[s]))
    BY <1>1, OptionCases DEF ConnTake, TypeInv, TypeOK
  <2>2. ASSUME oneshot' = Resolve({Get(conn_rx[s])}, "Dropped")
        PROVE  View(s)!Resolve({Get(conn_rx[s])}, "Dropped")
    BY <1>1, <2>2, ResolvedHere DEF ConnTake
  <2>3. View(s)!Take
    BY <1>1, <2>1, <2>2 DEF ConnTake, View!Take, passerVars, TypeInv, TypeOK
  <2> QED
    BY <2>3 DEF View!ViewNext
<1>2. CASE ConnReply(s)
  <2>1. PICK r \in pending[s] : /\ pending' = [pending EXCEPT ![s] = @ \ {r}]
                                /\ oneshot' = Resolve({r}, "Ok")
    BY <1>2 DEF ConnReply
  <2>2. View(s)!Resolve({r}, "Ok")
    BY <1>2, <2>1, ResolvedHere DEF ConnReply
  <2>3. View(s)!Reply
    BY <1>2, <2>1, <2>2
       DEF ConnReply, View!Reply, passerVars, TypeInv, TypeOK
  <2> QED
    BY <2>3 DEF View!ViewNext
<1>3. CASE ConnRead(s)
  <2>1. read[s] + 1 \in 1 .. MaxMessages
    BY <1>3, ServerAssumption DEF ConnRead, TypeInv, TypeOK
  <2>2. View(s)!Read
    BY <1>3, <2>1
       DEF ConnRead, View!Read, callVars, passerVars, TypeInv, TypeOK
  <2> QED
    BY <2>2 DEF View!ViewNext
<1>4. CASE ConnPeerClose(s)
  <2>1. View(s)!PeerClose
    BY <1>4
       DEF ConnPeerClose, View!PeerClose, callVars, passerVars, TypeInv,
           TypeOK
  <2> QED
    BY <2>1 DEF View!ViewNext
<1>5. CASE ConnClose(s)
  <2>1. View(s)!Resolve(pending[s], "Canceled")
    BY <1>5, ResolvedHere DEF ConnClose
  <2>2. View(s)!Close
    BY <1>5, <2>1 DEF ConnClose, View!Close, passerVars, TypeInv, TypeOK
  <2> QED
    BY <2>2 DEF View!ViewNext
<1>6. CASE ConnEmit(s)
  <2>1. conn_msg[s] = Some(Get(conn_msg[s])) /\ Get(conn_msg[s]) \in ConnectionEvents
    BY <1>6, OptionCases DEF ConnEmit, TypeInv, TypeOK, Carried
  <2>2. << >> \o conn_msg[s] = conn_msg[s]
    BY <2>1
  <2>3. \/ /\ passer[s] # "done" /\ Len(event_rx[s]) < 1
           /\ event_rx'[s] = event_rx[s] \o conn_msg[s]
        \/ passer[s] = "done" /\ event_rx'[s] = event_rx[s]
    <3>1. \/ /\ passer[s] # "done" /\ event_rx[s] = << >>
             /\ event_rx'[s] = conn_msg[s]
          \/ passer[s] = "done" /\ event_rx'[s] = event_rx[s]
      BY <1>6 DEF ConnEmit, TypeInv, TypeOK
    <3>2. Len(<< >>) < 1
      OBVIOUS
    <3> QED
      BY <2>2, <3>1, <3>2
  <2>4. CASE conn_msg[s] = Some(CloseMsg)
    <3>1. View(s)!Resolve({r \in Requests : conn_rx[s] = Some(r)}, "Dropped")
      BY <1>6, <2>4, ResolvedHere DEF ConnEmit
    <3>2. View(s)!Emit
      BY <1>6, <2>3, <2>4, <3>1 DEF ConnEmit, View!Emit, TypeInv, TypeOK
    <3> QED
      BY <3>2 DEF View!ViewNext
  <2>5. CASE conn_msg[s] # Some(CloseMsg)
    <3>1. View(s)!Emit
      BY <1>6, <2>3, <2>5 DEF ConnEmit, View!Emit, TypeInv, TypeOK
    <3> QED
      BY <3>1 DEF View!ViewNext
  <2> QED
    BY <2>4, <2>5
<1>7. CASE ConnSent(s)
  <2>1. View(s)!Sent
    BY <1>7 DEF ConnSent, View!Sent, callVars, passerVars, TypeInv, TypeOK
  <2> QED
    BY <2>1 DEF View!ViewNext
<1> QED
  BY <1>1, <1>2, <1>3, <1>4, <1>5, <1>6, <1>7

(* Every other step is one of the connection's surroundings. *)
LEMMA ViewStep ==
    ASSUME TypeInv, CallInv, ViewInv, [Next]_vars, NEW s \in Streams
    PROVE  View(s)!ViewNext
<1>1. ASSUME View(s)!Outside PROVE View(s)!ViewNext
  BY <1>1 DEF View!ViewNext
<1>2. \A r \in Requests : AtServer(r) => ~Holds(r, s)
  BY DEF ViewInv, OneHolder, HeldOnce
<1>3. ASSUME UNCHANGED <<linkVars, oneshot>> PROVE View(s)!Outside
  BY <1>3, StepAside DEF linkVars, connVars, passerVars
<1>4. ASSUME UNCHANGED linkVars, NEW R, NEW v, oneshot' = Resolve(R, v),
             \A r \in Requests : r \in R => AtServer(r)
      PROVE  View(s)!Outside
  <2>1. \A r \in Requests : Holds(r, s) => oneshot'[r] = oneshot[r]
    BY <1>2, <1>4, ResolvedAside
  <2> QED
    BY <1>4, <2>1, StepAside DEF linkVars, connVars, passerVars
<1>5. CASE \/ RecvClose \/ RecvGetListenAddress \/ AskAddr
           \/ RecvNewConnection \/ RecvConnectionEvent \/ EmitEvent
           \/ ConnectionsClosed \/ CloseAcceptor
  BY <1>1, <1>3, <1>5
     DEF RecvClose, RecvGetListenAddress, AskAddr, RecvNewConnection,
         RecvConnectionEvent, EmitEvent, ConnectionsClosed, CloseAcceptor,
         callVars
<1>6. CASE GotAddr
  <2>1. \A r \in Requests : r \in {Get(server_call)} => AtServer(r)
    <3>1. server_call = Some(Get(server_call))
      BY <1>6, OptionCases DEF GotAddr, CallInv, CallIsServed, TypeInv, TypeOK
    <3> QED
      BY <3>1 DEF AtServer
  <2> QED
    BY <1>1, <1>4, <1>6, <2>1 DEF GotAddr
<1>7. CASE RecvGetClients
  <2>1. PICK d \in ClientCalls : rx = Some(d) /\ oneshot' = Resolve({d}, "Ok")
    BY <1>7 DEF RecvGetClients
  <2> QED
    BY <1>1, <1>4, <1>7, <2>1 DEF RecvGetClients, AtServer
<1>8. CASE RecvSend
  <2>1. PICK d \in Requests \cup Events : RecvSend!2!(d)
    BY <1>8 DEF RecvSend
  <2>2. UNCHANGED linkVars
    BY <1>8 DEF RecvSend
  <2>3. CASE UNCHANGED oneshot
    BY <1>1, <1>3, <2>2, <2>3
  <2>4. CASE oneshot' = Resolve({d}, "Dropped")
    BY <1>1, <1>4, <2>1, <2>2, <2>4 DEF AtServer
  <2> QED
    BY <2>1, <2>3, <2>4
<1>9. CASE CloseListener
  <2>1. \A r \in Requests : r \in {c \in Asks : rx = Some(c)} => AtServer(r)
    BY DEF AtServer
  <2> QED
    BY <1>1, <1>4, <1>9, <2>1 DEF CloseListener
<1>10. CASE ForwardToConnection \/ CloseConnection
  <2>1. UNCHANGED <<conn, conn_msg, pending, passerVars>>
    BY <1>10 DEF ForwardToConnection, CloseConnection
  <2>2. \/ conn_rx'[s] = conn_rx[s]
        \/ conn[s] # "done" /\ conn_rx[s] = None /\ conn_rx'[s] # None
    <3>1. \/ UNCHANGED conn_rx
          \/ \E t, m : /\ conn[t] # "done" /\ conn_rx[t] = None
                       /\ conn_rx' = [conn_rx EXCEPT ![t] = Some(m)]
      BY <1>10 DEF ForwardToConnection, CloseConnection
    <3> QED
      BY <3>1, SomeIsNotNone DEF TypeInv, TypeOK
  <2>3. \A r \in Requests : Holds(r, s) => oneshot'[r] = oneshot[r]
    <3>1. CASE UNCHANGED oneshot
      BY <3>1
    <3>2. CASE ForwardToConnection /\ oneshot' = Resolve({Get(server_call)}, "Dropped")
      <4>1. \A r \in Requests : r \in {Get(server_call)} => AtServer(r)
        BY <3>2, GetSome DEF ForwardToConnection, AtServer, TypeInv, Carried
      <4> QED
        BY <1>2, <3>2, <4>1, ResolvedAside
    <3> QED
      BY <1>10, <3>1, <3>2 DEF ForwardToConnection, CloseConnection, callVars
  <2>4. View(s)!Outside
    BY <2>1, <2>2, <2>3, StepAside DEF passerVars
  <2> QED
    BY <1>1, <2>4
<1>11. CASE HandshakeOk
  <2>1. Handshaking(Get(acceptor_msg)) /\ Get(acceptor_msg) \in Streams
    BY <1>11, OptionCases
       DEF HandshakeOk, Handshaking, TypeInv, TypeOK, Carried
  <2>2. conn[Get(acceptor_msg)] = "none" /\ passer[Get(acceptor_msg)] = "none"
    BY <2>1 DEF CallInv, StreamInv, ViewInv, PasserStarted
  <2>3. /\ UNCHANGED <<conn_msg, conn_rx, pending, event_rx, oneshot>>
        /\ conn'[s] = conn[s] \/ (conn[s] = "none" /\ conn'[s] = "run")
        /\ passer'[s] = "done" <=> passer[s] = "done"
    BY <1>11, <2>1, <2>2 DEF HandshakeOk, callVars, TypeInv, TypeOK
  <2>4. View(s)!Outside
    BY <2>3, StepAside
  <2> QED
    BY <1>1, <2>4
<1>12. ASSUME NEW t \in Streams,
              \/ ConnTake(t) \/ ConnSent(t) \/ ConnReply(t) \/ ConnRead(t)
              \/ ConnPeerClose(t) \/ ConnClose(t) \/ ConnEmit(t)
       PROVE  View(s)!ViewNext
  <2>1. CASE t = s
    BY <1>12, <2>1, OwnStep
  <2>2. CASE t # s
    <3>1. /\ conn'[s] = conn[s] /\ conn_msg'[s] = conn_msg[s]
          /\ conn_rx'[s] = conn_rx[s] /\ pending'[s] = pending[s]
      BY <1>12, <2>2
         DEF ConnTake, ConnSent, ConnReply, ConnRead, ConnPeerClose,
             ConnClose, ConnEmit, TypeInv, TypeOK
    <3>2. event_rx'[s] = event_rx[s] /\ passer'[s] = passer[s]
      BY <1>12, <2>2
         DEF ConnTake, ConnSent, ConnReply, ConnRead, ConnPeerClose,
             ConnClose, ConnEmit, passerVars, TypeInv, TypeOK
    <3>3. \A r \in Requests : Holds(r, t) => ~Holds(r, s)
      BY <2>2 DEF ViewInv, OneHolder, HeldOnce
    <3>4. \/ UNCHANGED oneshot
          \/ \E R, v : /\ oneshot' = Resolve(R, v)
                       /\ \A r \in Requests : r \in R => Holds(r, t)
      <4>1. CASE ConnSent(t) \/ ConnRead(t) \/ ConnPeerClose(t)
        BY <4>1 DEF ConnSent, ConnRead, ConnPeerClose, callVars
      <4>2. CASE ConnReply(t)
        BY <4>2 DEF ConnReply, Holds
      <4>3. CASE ConnClose(t)
        BY <4>3 DEF ConnClose, Holds
      <4>4. CASE ConnEmit(t)
        <5>1. \/ UNCHANGED oneshot
              \/ oneshot' = Resolve({r \in Requests : conn_rx[t] = Some(r)},
                                    "Dropped")
          BY <4>4 DEF ConnEmit
        <5>2. \A r \in Requests :
                r \in {q \in Requests : conn_rx[t] = Some(q)} => Holds(r, t)
          BY DEF Holds
        <5> QED
          BY <5>1, <5>2
      <4>5. CASE ConnTake(t)
        <5>1. \/ UNCHANGED oneshot
              \/ oneshot' = Resolve({Get(conn_rx[t])}, "Dropped")
          BY <4>5 DEF ConnTake
        <5>2. conn_rx[t] = Some(Get(conn_rx[t]))
          BY <4>5, OptionCases DEF ConnTake, TypeInv, TypeOK
        <5> QED
          BY <5>1, <5>2 DEF Holds
      <4> QED
        BY <1>12, <4>1, <4>2, <4>3, <4>4, <4>5
    <3>5. \A r \in Requests : Holds(r, s) => oneshot'[r] = oneshot[r]
      BY <3>3, <3>4, ResolvedAside
    <3>6. View(s)!Outside
      BY <3>1, <3>2, <3>5, StepAside
    <3> QED
      BY <1>1, <3>6
  <2> QED
    BY <2>1, <2>2
<1>13. ASSUME NEW t \in Streams, PasserStep(t) PROVE View(s)!ViewNext
  <2>1. UNCHANGED <<connVars, oneshot>>
    BY <1>13 DEF PasserStep, PasserRecv, PasserPass, callVars
  <2>2. \/ event_rx'[s] = event_rx[s] /\ (passer'[s] = "done" <=> passer[s] = "done")
        \/ /\ event_rx[s] # << >> /\ event_rx'[s] = Tail(event_rx[s])
           /\ passer'[s] = "done" <=> passer[s] = "done"
        \/ passer[s] # "done" /\ passer'[s] = "done" /\ event_rx'[s] = << >>
    <3>1. CASE t # s
      BY <1>13, <3>1 DEF PasserStep, PasserRecv, PasserPass, TypeInv, TypeOK
    <3>2. CASE t = s /\ PasserPass(s)
      BY <3>2 DEF PasserPass, None, TypeInv, TypeOK
    <3>3. CASE t = s /\ PasserRecv(s)
      <4>1. event_rx[s] # None => Tail(event_rx[s]) = None
        <5> DEFINE e == Get(event_rx[s])
        <5>1. event_rx[s] # None => e \in ConnectionEvents /\ event_rx[s] = << e >>
          BY OptionCases DEF TypeInv, TypeOK, Some
        <5> HIDE DEF e
        <5>2. Tail(<< e >>) = << >>
          OBVIOUS
        <5> QED
          BY <5>1, <5>2 DEF None
      <4> QED
        BY <3>3, <4>1 DEF PasserRecv, None, TypeInv, TypeOK
    <3> QED
      BY <1>13, <3>1, <3>2, <3>3 DEF PasserStep
  <2>3. View(s)!Outside
    BY <2>1, <2>2, StepAside DEF connVars
  <2> QED
    BY <1>1, <2>3
<1>14. ASSUME NEW t \in Streams, ListenerAccept(t) PROVE View(s)!ViewNext
  BY <1>1, <1>3, <1>14 DEF ListenerAccept, callVars
<1>15. CASE ListenerStep \/ AcceptorStep \/ HandshakeFails
  BY <1>1, <1>3, <1>15
     DEF ListenerStep, HandleNewStream, ListenerMessage, AcceptorStep,
         AcceptorMessage, PassNewConnection, HandshakeFails, callVars
<1>16. ASSUME NEW c, CallerStep(c) \/ Timeout(c) PROVE View(s)!ViewNext
  BY <1>1, <1>3, <1>16 DEF CallerStep, Accept, Refuse, Return, Timeout
<1>17. CASE HandleDrop \/ UserRecv \/ UserDrop \/ UNCHANGED vars
  BY <1>1, <1>3, <1>17 DEF HandleDrop, UserRecv, UserDrop, vars, callVars
<1> QED
  BY <1>5, <1>6, <1>7, <1>8, <1>9, <1>10, <1>11, <1>12, <1>13, <1>14, <1>15,
     <1>16, <1>17 DEF Next, ServerStep, ClientStep, ConnStep, SenderStep

(* Each stream of the server behaves as ConnectionView: its connection does  *)
(* nothing that the view does not do, and the server, the other connections, *)
(* the passers and the callers do to it only what the view takes from        *)
(* outside.  What the view does and the connection might not is the subject  *)
(* of ViewStepsAreServed.                                                    *)
THEOREM ViewsAreMet == Spec => ConnectionsAreViews
<1>1. Init => ViewInv
  <2> SUFFICES ASSUME Init PROVE ViewInv
    OBVIOUS
  <2>1. \A c \in Requests : ~AtServer(c) /\ \A s \in Streams : ~Holds(c, s)
    BY SomeIsNotNone DEF Init, AtServer, Holds
  <2>2. OneHolder
    BY <2>1 DEF OneHolder, HeldOnce, AtServer
  <2>3. PasserStarted
    BY DEF Init, PasserStarted
  <2> QED
    BY <2>2, <2>3 DEF ViewInv
<1>2. TypeInv /\ CallInv /\ ViewInv /\ [Next]_vars => ViewInv'
  BY HolderNext, PasserStartedNext DEF CallInv, ViewInv
<1>3. Init => \A s \in Streams : View(s)!ViewInit
  BY DEF Init, View!ViewInit, View!None, None, Asks
<1>4. TypeInv /\ CallInv /\ ViewInv /\ [Next]_vars
        => [\A s \in Streams : [View(s)!ViewNext]_(View(s)!viewVars)]_vars
  BY ViewStep
<1> QED
  BY <1>1, <1>2, <1>3, <1>4, TypeInit, TypeNext, CallInvInit, CallInvNext, PTL
     DEF Spec, ConnectionsAreViews

(* A step in which the connection of a stream, the requests it resolves and  *)
(* its event channel change, and nothing else but what it has read.          *)
OnlyConnection(s) ==
    /\ conn' = [conn EXCEPT ![s] = conn'[s]] /\ conn'[s] # "none"
    /\ conn_msg' = [conn_msg EXCEPT ![s] = conn_msg'[s]]
    /\ conn_rx' = [conn_rx EXCEPT ![s] = conn_rx'[s]]
    /\ pending' = [pending EXCEPT ![s] = pending'[s]]
    /\ event_rx' = [event_rx EXCEPT ![s] = event_rx'[s]]
    /\ oneshot' = [c \in Asks |-> IF c \in Requests THEN oneshot'[c]
                                                    ELSE oneshot[c]]
    /\ UNCHANGED <<call, handle, rx, serverVars, listenVars, passer,
                   passer_msg, userVars>>

(* It has read the next message of its client, or none. *)
ReadsNext(s) ==
    /\ read[s] < MaxMessages
    /\ read' = [read EXCEPT ![s] = @ + 1]
    /\ conn_msg'[s] = Some(Message(read[s] + 1))
ReadsNone == UNCHANGED read

(* Oneshots that the view resolves are resolved so in the server. *)
LEMMA ViewResolved ==
    ASSUME NEW s \in Streams, NEW R \in SUBSET Requests, NEW v,
           OnlyConnection(s), View(s)!Resolve(R, v)
    PROVE  oneshot' = Resolve(R, v)
<1>1. Requests \subseteq Asks
  BY DEF Asks
<1>2. \A r \in Requests :
        oneshot'[r] = IF r \in R /\ call[r] = "waiting" THEN v ELSE oneshot[r]
  BY DEF View!Resolve
<1>3. oneshot' = [c \in Asks |-> IF c \in Requests THEN oneshot'[c]
                                                   ELSE oneshot[c]]
  BY DEF OnlyConnection
<1>4. \A c \in Asks :
        (IF c \in Requests THEN oneshot'[c] ELSE oneshot[c])
            = IF c \in R /\ call[c] = "waiting" THEN v ELSE oneshot[c]
  BY <1>2
<1> QED
  BY <1>3, <1>4 DEF Resolve

(* Module Server leaves out nothing that the view of a connection does: each *)
(* step of its own that the view may take from the state of a stream, the    *)
(* loss of a request whose id is still in use and the end of a wait for the  *)
(* Sender among them, the server's connection takes too, if it reads the     *)
(* messages of its client by number.  The steps of module Connection being   *)
(* steps of the view (ViewIsImplemented of ConnectionProofs), none that its  *)
(* owner sees is missing from Server.                                        *)
THEOREM ViewStepsAreServed ==
    \A s \in Streams :
        TypeInv /\ conn[s] # "none" /\ OnlyConnection(s)
            => /\ View(s)!Take /\ ReadsNone => ConnTake(s)
               /\ View(s)!Sent /\ ReadsNone => ConnSent(s)
               /\ View(s)!Reply /\ ReadsNone => ConnReply(s)
               /\ View(s)!Read /\ ReadsNext(s) => ConnRead(s)
               /\ View(s)!PeerClose /\ ReadsNone => ConnPeerClose(s)
               /\ View(s)!Close /\ ReadsNone => ConnClose(s)
               /\ View(s)!Emit /\ ReadsNone => ConnEmit(s)
<1> SUFFICES ASSUME NEW s \in Streams, TypeInv, conn[s] # "none",
                    OnlyConnection(s)
             PROVE  /\ View(s)!Take /\ ReadsNone => ConnTake(s)
                    /\ View(s)!Sent /\ ReadsNone => ConnSent(s)
                    /\ View(s)!Reply /\ ReadsNone => ConnReply(s)
                    /\ View(s)!Read /\ ReadsNext(s) => ConnRead(s)
                    /\ View(s)!PeerClose /\ ReadsNone => ConnPeerClose(s)
                    /\ View(s)!Close /\ ReadsNone => ConnClose(s)
                    /\ View(s)!Emit /\ ReadsNone => ConnEmit(s)
  OBVIOUS
<1> USE DEF View!oneshots, View!events, View!None, View!Some, None, Some,
            View!CloseMsg, CloseMsg
<1>1. /\ conn'[s] # "none" /\ pending[s] \subseteq Requests
      /\ conn_rx[s] \in Option(Requests \cup Events \cup {CloseMsg})
      /\ event_rx[s] \in Option(ConnectionEvents)
  BY DEF OnlyConnection, TypeInv, TypeOK
<1>2. (\A r \in Requests : oneshot'[r] = oneshot[r]) => UNCHANGED oneshot
  <2> SUFFICES ASSUME \A r \in Requests : oneshot'[r] = oneshot[r]
               PROVE  UNCHANGED oneshot
    OBVIOUS
  <2>1. /\ oneshot' = [c \in Asks |-> IF c \in Requests THEN oneshot'[c]
                                                        ELSE oneshot[c]]
        /\ oneshot = [c \in Asks |-> oneshot[c]]
    BY DEF OnlyConnection, TypeInv, TypeOK
  <2>2. \A c \in Asks :
            (IF c \in Requests THEN oneshot'[c] ELSE oneshot[c]) = oneshot[c]
    OBVIOUS
  <2> QED
    BY <2>1, <2>2
<1>3. [r \in Requests |-> oneshot'[r]] = [r \in Requests |-> oneshot[r]]
        => UNCHANGED oneshot
  <2> SUFFICES ASSUME [r \in Requests |-> oneshot'[r]]
                        = [r \in Requests |-> oneshot[r]]
               PROVE  \A r \in Requests : oneshot'[r] = oneshot[r]
    BY <1>2
  <2> TAKE r \in Requests
  <2>1. [q \in Requests |-> oneshot'[q]][r] = [q \in Requests |-> oneshot[q]][r]
    OBVIOUS
  <2> QED
    BY <2>1
<1>4. /\ conn_msg'[s] = conn_msg[s] => UNCHANGED conn_msg
      /\ conn_rx'[s] = conn_rx[s] => UNCHANGED conn_rx
      /\ pending'[s] = pending[s] => UNCHANGED pending
      /\ event_rx'[s] = event_rx[s] => UNCHANGED event_rx
      /\ conn'[s] = conn[s] => UNCHANGED conn
  <2>1. \A T : \A f \in [Streams -> T] : [f EXCEPT ![s] = f[s]] = f
    OBVIOUS
  <2>2. /\ \E T : conn_msg \in [Streams -> T]
        /\ \E T : conn_rx \in [Streams -> T]
        /\ \E T : pending \in [Streams -> T]
        /\ \E T : event_rx \in [Streams -> T]
        /\ \E T : conn \in [Streams -> T]
    BY Zenon DEF TypeInv, TypeOK
  <2>3. /\ conn_msg' = [conn_msg EXCEPT ![s] = conn_msg'[s]]
        /\ conn_rx' = [conn_rx EXCEPT ![s] = conn_rx'[s]]
        /\ pending' = [pending EXCEPT ![s] = pending'[s]]
        /\ event_rx' = [event_rx EXCEPT ![s] = event_rx'[s]]
        /\ conn' = [conn EXCEPT ![s] = conn'[s]]
    BY DEF OnlyConnection
  <2>4. conn_msg'[s] = conn_msg[s] => conn_msg' = conn_msg
    BY <2>1, <2>2, <2>3
  <2>5. conn_rx'[s] = conn_rx[s] => conn_rx' = conn_rx
    BY <2>1, <2>2, <2>3
  <2>6. pending'[s] = pending[s] => pending' = pending
    BY <2>1, <2>2, <2>3
  <2>7. event_rx'[s] = event_rx[s] => event_rx' = event_rx
    BY <2>1, <2>2, <2>3
  <2>8. conn'[s] = conn[s] => conn' = conn
    BY <2>1, <2>2, <2>3
  <2> QED
    BY <2>4, <2>5, <2>6, <2>7, <2>8
<1>5. ASSUME View(s)!Take, ReadsNone PROVE ConnTake(s)
  <2>1. /\ conn[s] = "run" /\ conn_rx'[s] = None /\ conn_msg'[s] = conn_msg[s]
        /\ event_rx'[s] = event_rx[s]
        /\ \/ \E r \in Requests :
                /\ conn_rx[s] = Some(r)
                /\ \/ /\ pending'[s] = pending[s] \cup {r} /\ conn'[s] = "send"
                      /\ UNCHANGED [q \in Requests |-> oneshot[q]]
                   \/ /\ pending[s] # {} /\ View(s)!Resolve({r}, "Dropped")
                      /\ pending'[s] = pending[s] /\ conn'[s] = conn[s]
           \/ /\ \E e \in Events : conn_rx[s] = Some(e)
              /\ conn'[s] = "send" /\ pending'[s] = pending[s]
              /\ UNCHANGED [q \in Requests |-> oneshot[q]]
           \/ /\ conn_rx[s] = Some(CloseMsg)
              /\ conn'[s] = "close" /\ pending'[s] = pending[s]
              /\ UNCHANGED [q \in Requests |-> oneshot[q]]
    BY <1>1, <1>5 DEF View!Take
  <2>2. /\ conn_rx' = [conn_rx EXCEPT ![s] = None]
        /\ UNCHANGED <<call, handle, rx, serverVars, listenVars, conn_msg, read,
                       passerVars, userVars>>
    BY <1>4, <1>5, <2>1 DEF OnlyConnection, ReadsNone, passerVars
  <2>3. /\ conn' = [conn EXCEPT ![s] = conn'[s]]
        /\ pending' = [pending EXCEPT ![s] = pending'[s]]
    BY DEF OnlyConnection
  <2>4. ASSUME NEW r \in Requests, conn_rx[s] = Some(r),
               \/ /\ pending'[s] = pending[s] \cup {r} /\ conn'[s] = "send"
                  /\ UNCHANGED [q \in Requests |-> oneshot[q]]
               \/ /\ pending[s] # {} /\ View(s)!Resolve({r}, "Dropped")
                  /\ pending'[s] = pending[s] /\ conn'[s] = conn[s]
        PROVE  ConnTake(s)
    <3>1. Get(conn_rx[s]) = r /\ conn_rx[s] # None
      BY <2>4, GetSome, SomeIsNotNone, Zenon
    <3>2. View(s)!Resolve({r}, "Dropped") => oneshot' = Resolve({r}, "Dropped")
      BY ViewResolved
    <3> QED
      BY <1>3, <1>4, <2>1, <2>2, <2>3, <2>4, <3>1, <3>2 DEF ConnTake
  <2>5. CASE \E e \in Events : conn_rx[s] = Some(e)
    <3>1. Get(conn_rx[s]) \in Events /\ conn_rx[s] # None
      BY <2>5, GetSome, SomeIsNotNone, Zenon
    <3>2. conn_rx[s] # Some(CloseMsg)
      BY <2>5, SomeInjective, CallsAssumption, Zenon DEF Calls
    <3> QED
      BY <1>3, <1>4, <2>1, <2>2, <2>3, <2>4, <3>1, <3>2 DEF ConnTake
  <2>6. CASE conn_rx[s] = Some(CloseMsg)
    <3>1. conn_rx[s] # None
      BY <2>6, SomeIsNotNone, Zenon
    <3>2. \A e \in Events : conn_rx[s] # Some(e)
      BY <2>6, SomeInjective, CallsAssumption, Zenon DEF Calls
    <3> QED
      BY <1>3, <1>4, <2>1, <2>2, <2>3, <2>4, <2>6, <3>1, <3>2 DEF ConnTake
  <2> QED
    BY <2>1, <2>4, <2>5, <2>6
<1>6. ASSUME View(s)!Sent, ReadsNone PROVE ConnSent(s)
  BY <1>1, <1>3, <1>4, <1>6
     DEF View!Sent, ConnSent, OnlyConnection, ReadsNone, callVars, passerVars
<1>7. ASSUME View(s)!Reply, ReadsNone PROVE ConnReply(s)
  <2>1. PICK r \in pending[s] :
            View(s)!Resolve({r}, "Ok") /\ pending'[s] = pending[s] \ {r}
    BY <1>7 DEF View!Reply
  <2>2. oneshot' = Resolve({r}, "Ok")
    BY <1>1, <2>1, ViewResolved
  <2> QED
    BY <1>1, <1>4, <1>7, <2>1, <2>2
       DEF View!Reply, ConnReply, OnlyConnection, ReadsNone, passerVars
<1>8. ASSUME View(s)!Read, ReadsNext(s) PROVE ConnRead(s)
  BY <1>1, <1>3, <1>4, <1>8
     DEF View!Read, ConnRead, OnlyConnection, ReadsNext, callVars, passerVars
<1>9. ASSUME View(s)!PeerClose, ReadsNone PROVE ConnPeerClose(s)
  BY <1>1, <1>3, <1>4, <1>9
     DEF View!PeerClose, ConnPeerClose, OnlyConnection, ReadsNone, callVars,
         passerVars
<1>10. ASSUME View(s)!Close, ReadsNone PROVE ConnClose(s)
  <2>1. oneshot' = Resolve(pending[s], "Canceled")
    BY <1>1, <1>10, ViewResolved DEF View!Close
  <2> QED
    BY <1>1, <1>4, <1>10, <2>1
       DEF View!Close, ConnClose, OnlyConnection, ReadsNone, passerVars
<1>11. ASSUME View(s)!Emit, ReadsNone PROVE ConnEmit(s)
  <2>1. /\ conn[s] = "emit" /\ conn_msg' = [conn_msg EXCEPT ![s] = None]
        /\ UNCHANGED <<call, handle, rx, serverVars, listenVars, pending, read,
                       passer, passer_msg, userVars>>
    BY <1>1, <1>4, <1>11 DEF View!Emit, OnlyConnection, ReadsNone
  <2>2. conn_msg[s] = Some(Get(conn_msg[s])) /\ Get(conn_msg[s]) \in ConnectionEvents
    BY <2>1, OptionCases DEF TypeInv, TypeOK, Carried
  <2>3. \/ /\ passer[s] # "done" /\ event_rx[s] = None
           /\ event_rx' = [event_rx EXCEPT ![s] = conn_msg[s]]
        \/ passer[s] = "done" /\ UNCHANGED event_rx
    <3>1. \/ /\ passer[s] # "done" /\ Len(event_rx[s]) < 1
             /\ event_rx'[s] = event_rx[s] \o conn_msg[s]
          \/ passer[s] = "done" /\ event_rx'[s] = event_rx[s]
      BY <1>11 DEF View!Emit
    <3>2. Len(event_rx[s]) < 1 => event_rx[s] = << >>
      BY <1>1
    <3>3. << >> \o conn_msg[s] = conn_msg[s]
      BY <2>2
    <3> QED
      BY <1>4, <3>1, <3>2, <3>3 DEF OnlyConnection
  <2>4. CASE conn_msg[s] = Some(CloseMsg)
    <3>1. /\ conn'[s] = "done" /\ conn_rx'[s] = None
          /\ View(s)!Resolve({r \in Requests : conn_rx[s] = Some(r)}, "Dropped")
      BY <1>1, <1>11, <2>4 DEF View!Emit
    <3>2. oneshot' = Resolve({r \in Requests : conn_rx[s] = Some(r)}, "Dropped")
      BY <3>1, ViewResolved
    <3> QED
      BY <2>1, <2>3, <2>4, <3>1, <3>2 DEF ConnEmit, OnlyConnection
  <2>5. CASE conn_msg[s] # Some(CloseMsg)
    <3>1. /\ conn'[s] = IF passer[s] = "done" THEN "close" ELSE "run"
          /\ conn_rx'[s] = conn_rx[s]
          /\ UNCHANGED [r \in Requests |-> oneshot[r]]
      BY <1>1, <1>11, <2>5 DEF View!Emit
    <3>2. UNCHANGED oneshot /\ UNCHANGED conn_rx
      BY <1>3, <1>4, <3>1
    <3> QED
      BY <2>1, <2>3, <2>5, <3>1, <3>2 DEF ConnEmit, OnlyConnection
  <2> QED
    BY <2>4, <2>5
<1> QED
  BY <1>5, <1>6, <1>7, <1>8, <1>9, <1>10, <1>11

-----------------------------------------------------------------------------
(* The order of a connection's events. *)

(* The events of a connection on their way to the user: those the user has   *)
(* or can take, then what the server, the server's channel, the passer, the  *)
(* event channel and the connection hold, each next after all before it,     *)
(* and all of the n messages that were read.                                 *)
Line(n, out, a, b, c, d, f) ==
    /\ \A e \in a : Follows(n, e, out)
    /\ \A e \in b : Follows(n, e, out \cup a)
    /\ \A e \in c : Follows(n, e, out \cup a \cup b)
    /\ \A e \in d : Follows(n, e, out \cup a \cup b \cup c)
    /\ \A e \in f : Follows(n, e, out \cup a \cup b \cup c \cup d)
    /\ (out \cup a \cup b \cup c \cup d \cup f) \ {CloseMsg}
            = {Message(i) : i \in 1 .. n}

Out == delivered \o tx
OutOf(s) == EventsOf(s, Out, Len(Out))
From(s, c) == {e \in ConnectionEvents : c = Some(ConnectionEvent(s, e))}
Held(c) == {e \in ConnectionEvents : c = Some(e)}

InLine(s) ==
    Line(read[s], OutOf(s), From(s, server_event), From(s, rx),
         Held(passer_msg[s]), Held(event_rx[s]), Held(conn_msg[s]))

(* What the connection has emitted. *)
Emitted(s) == OutOf(s) \cup From(s, server_event) \cup From(s, rx)
                \cup Held(passer_msg[s]) \cup Held(event_rx[s])

(* Close is the last event a connection emits, and the passer ends only      *)
(* after it.                                                                 *)
CloseEnds(s) ==
    /\ CloseMsg \in Emitted(s) => conn[s] = "done"
    /\ passer[s] = "done" => conn[s] = "done"

(* Tasks that have nothing to pass on hold nothing. *)
IdleHoldNothing ==
    \A s \in Streams : /\ conn[s] # "emit" => conn_msg[s] = None
                       /\ passer[s] # "pass" => passer_msg[s] = None

OutInOrder ==
    \A s \in Streams, e \in ConnectionEvents, j \in DOMAIN Out :
        Out[j] = ConnectionEvent(s, e)
            => Follows(read[s], e, EventsOf(s, Out, j - 1))

(* Nothing is lost on the way as long as the user listens and the server     *)
(* loops; later nothing is added to what the user can take.                  *)
NothingLost ==
    user = "listening" /\ server \in LoopStates
        => \A s \in Streams : InLine(s) /\ CloseEnds(s)

DropEmpties == user = "gone" => tx = << >>

OrderInv == /\ EventIsServed /\ IdleHoldNothing /\ DropEmpties
            /\ OutInOrder /\ NothingLost

(* An event that moves one place forward, to a place that was free, stays    *)
(* in line.                                                                  *)
LEMMA LineMoves ==
    ASSUME NEW n, NEW out, NEW a, NEW b, NEW c, NEW d, NEW f
    PROVE  /\ Line(n, out, a, b, c, d, f) => Line(n, out \cup a, {}, b, c, d, f)
           /\ Line(n, out, {}, b, c, d, f) => Line(n, out, b, {}, c, d, f)
           /\ Line(n, out, a, {}, c, d, f) => Line(n, out, a, c, {}, d, f)
           /\ Line(n, out, a, b, {}, d, f) => Line(n, out, a, b, d, {}, f)
           /\ Line(n, out, a, b, c, {}, f) => Line(n, out, a, b, c, f, {})
<1>1. \A S : S \cup {} = S
  OBVIOUS
<1> QED
  BY <1>1 DEF Line

(* What comes next after S also does when more has been read. *)
LEMMA FollowsLater ==
    ASSUME NEW n \in Nat, NEW e, NEW S, Follows(n, e, S)
    PROVE  Follows(n + 1, e, S)
<1>1. 1 .. n \subseteq 1 .. n + 1
  OBVIOUS
<1> QED
  BY <1>1 DEF Follows

(* The message that is read next, and the Close of a connection that has not *)
(* closed, come last.                                                        *)
LEMMA LineGrows ==
    ASSUME NEW n \in Nat, NEW out, NEW a, NEW b, NEW c, NEW d,
           Line(n, out, a, b, c, d, {}),
           CloseMsg \notin out \cup a \cup b \cup c \cup d
    PROVE  /\ Line(n + 1, out, a, b, c, d, {Message(n + 1)})
           /\ Line(n, out, a, b, c, d, {CloseMsg})
<1> DEFINE S == out \cup a \cup b \cup c \cup d
<1>1. S = {Message(i) : i \in 1 .. n}
  BY DEF Line
<1>2. Follows(n + 1, Message(n + 1), S) /\ Follows(n, CloseMsg, S)
  <2>1. n + 1 \in 1 .. n + 1 /\ (n + 1) - 1 = n
    OBVIOUS
  <2> QED
    BY <1>1, <2>1 DEF Follows
<1>3. (S \cup {CloseMsg}) \ {CloseMsg} = {Message(i) : i \in 1 .. n}
  BY <1>1
<1>4. (S \cup {Message(n + 1)}) \ {CloseMsg} = {Message(i) : i \in 1 .. n + 1}
  <2>1. 1 .. n + 1 = 1 .. n \cup {n + 1}
    OBVIOUS
  <2>2. \A i : Message(i) # CloseMsg
    BY DEF Message, CloseMsg
  <2> QED
    BY <1>1, <2>1, <2>2
<1>5. \A R : \A e : Follows(n, e, R) => Follows(n + 1, e, R)
  BY FollowsLater
<1> HIDE DEF S
<1> QED
  BY <1>2, <1>3, <1>4, <1>5 DEF Line, S

(* What each message says of a connection's events. *)
LEMMA FromCases ==
    ASSUME NEW s \in Streams
    PROVE  /\ From(s, None) = {} /\ Held(None) = {}
           /\ \A c \in Calls : From(s, Some(c)) = {}
           /\ \A t : From(s, Some(NewConnection(t))) = {}
           /\ \A t \in Streams, e \in ConnectionEvents :
                From(s, Some(ConnectionEvent(t, e))) = IF t = s THEN {e} ELSE {}
           /\ \A e \in ConnectionEvents : Held(Some(e)) = {e}
  BY SomeIsNotNone, SomeInjective, MessagesApart DEF From, Held

(* Tasks that have nothing to pass on go on holding nothing. *)
LEMMA IdleNext ==
    ASSUME TypeInv, StreamInv, PasserStarted, IdleHoldNothing, [Next]_vars
    PROVE  IdleHoldNothing'
<1> USE DEF IdleHoldNothing
<1>1. CASE UNCHANGED <<conn, conn_msg, passer, passer_msg>>
  BY <1>1
<1>2. CASE HandshakeOk
  <2>1. Handshaking(Get(acceptor_msg)) /\ Get(acceptor_msg) \in Streams
    BY <1>2, OptionCases
       DEF HandshakeOk, Handshaking, TypeInv, TypeOK, Carried
  <2>2. conn[Get(acceptor_msg)] = "none" /\ passer[Get(acceptor_msg)] = "none"
    BY <2>1 DEF StreamInv, PasserStarted
  <2> QED
    BY <1>2, <2>1, <2>2 DEF HandshakeOk, TypeInv, TypeOK
<1>3. ASSUME NEW t \in Streams,
             \/ ConnReply(t) \/ ConnRead(t) \/ ConnPeerClose(t)
             \/ ConnStep(t) \/ SenderStep(t)
      PROVE  IdleHoldNothing'
  <2>1. UNCHANGED <<passer, passer_msg>>
    BY <1>3
       DEF ConnReply, ConnRead, ConnPeerClose, ConnStep, ConnTake, ConnEmit,
           SenderStep, ConnSent, ConnClose, passerVars
  <2>2. /\ \A s \in Streams \ {t} : conn'[s] = conn[s] /\ conn_msg'[s] = conn_msg[s]
        /\ conn'[t] # "emit" => conn_msg'[t] = None
    <3>1. conn \in [Streams -> {"none", "run", "send", "emit", "close", "done"}]
      BY DEF TypeInv, TypeOK
    <3>2. conn_msg \in [Streams -> Option(ConnectionEvents)]
      BY DEF TypeInv, TypeOK
    <3>3. CASE ConnReply(t) \/ ConnPeerClose(t) \/ ConnTake(t) \/ ConnSent(t)
      BY <3>1, <3>3 DEF ConnReply, ConnPeerClose, ConnTake, ConnSent
    <3>4. CASE ConnRead(t) \/ ConnClose(t)
      BY <3>1, <3>2, <3>4 DEF ConnRead, ConnClose
    <3>5. CASE ConnEmit(t)
      BY <3>1, <3>2, <3>5 DEF ConnEmit
    <3> QED
      BY <1>3, <3>3, <3>4, <3>5 DEF ConnStep, SenderStep
  <2> QED
    BY <2>1, <2>2
<1>4. ASSUME NEW t \in Streams, PasserStep(t)
      PROVE  IdleHoldNothing'
  <2>1. UNCHANGED <<conn, conn_msg>>
    BY <1>4 DEF PasserStep, PasserRecv, PasserPass, connVars
  <2>2. /\ passer \in [Streams -> {"none", "recv", "pass", "done"}]
        /\ passer_msg \in [Streams -> Option(ConnectionEvents)]
    BY DEF TypeInv, TypeOK
  <2>3. /\ \A s \in Streams \ {t} :
            passer'[s] = passer[s] /\ passer_msg'[s] = passer_msg[s]
        /\ passer'[t] # "pass" => passer_msg'[t] = None
    <3>1. CASE PasserRecv(t)
      BY <2>2, <3>1 DEF PasserRecv
    <3>2. CASE PasserPass(t)
      BY <2>2, <3>2 DEF PasserPass
    <3> QED
      BY <1>4, <3>1, <3>2 DEF PasserStep
  <2> QED
    BY <2>1, <2>3
<1>5. CASE ServerStep
  BY <1>1, <1>5
     DEF ServerStep, RecvClose, RecvGetListenAddress, AskAddr, GotAddr,
         RecvGetClients, RecvSend, ForwardToConnection, RecvNewConnection,
         RecvConnectionEvent, EmitEvent, CloseConnection, ConnectionsClosed,
         CloseAcceptor, CloseListener, linkVars, connVars, passerVars
<1>6. CASE \/ ListenerStep \/ AcceptorStep \/ HandshakeFails
           \/ \E s \in Streams : ListenerAccept(s)
  BY <1>1, <1>6
     DEF ListenerStep, HandleNewStream, ListenerMessage, AcceptorStep,
         AcceptorMessage, PassNewConnection, HandshakeFails, ListenerAccept,
         linkVars, connVars, passerVars
<1>7. ASSUME NEW c, CallerStep(c) \/ Timeout(c) PROVE IdleHoldNothing'
  BY <1>1, <1>7 DEF CallerStep, Accept, Refuse, Return, Timeout, linkVars,
                    connVars, passerVars
<1>8. CASE HandleDrop \/ UserRecv \/ UserDrop \/ UNCHANGED vars
  BY <1>1, <1>8 DEF HandleDrop, UserRecv, UserDrop, vars, linkVars, connVars,
                    passerVars
<1> QED
  BY <1>2, <1>3, <1>4, <1>5, <1>6, <1>7, <1>8 DEF Next, ClientStep

(* Only the server and the user change what the user can take: the server    *)
(* adds the event it holds while the user listens, the user takes the first  *)
(* or gives up all.                                                          *)
LEMMA OutChanges ==
    ASSUME TypeInv, DropEmpties, [Next]_vars
    PROVE  /\ DropEmpties'
           /\ user' = "listening" => user = "listening"
           /\ \/ Out' = Out
              \/ /\ EmitEvent /\ user = "listening"
                 /\ Out' = Append(Out, Get(server_event))
              \/ UserDrop /\ Out' = delivered
<1> USE DEF DropEmpties
<1>1. delivered \in Seq(ServerEvents) /\ tx \in Seq(ServerEvents)
  BY DEF TypeInv, TypeOK
<1>2. CASE UNCHANGED <<tx, user, delivered>>
  BY <1>2 DEF Out
<1>3. CASE UserRecv
  <2>1. Append(delivered, Head(tx)) \o Tail(tx) = delivered \o tx
    BY <1>1, <1>3, HeadMoves DEF UserRecv
  <2> QED
    BY <1>3, <2>1 DEF UserRecv, Out
<1>4. CASE UserDrop
  <2>1. delivered \o << >> = delivered
    BY <1>1
  <2> QED
    BY <1>4, <2>1 DEF UserDrop, Out
<1>5. CASE EmitEvent
  <2>1. CASE user = "gone"
    BY <1>2, <1>5, <2>1 DEF EmitEvent
  <2>2. CASE user = "listening"
    <3> DEFINE m == Get(server_event)
    <3>1. m \in ServerEvents
      BY <1>5, OptionCases DEF EmitEvent, TypeInv, TypeOK, Carried
    <3>2. tx' = Append(tx, m) /\ UNCHANGED <<user, delivered>>
      BY <1>5, <2>2 DEF EmitEvent
    <3> HIDE DEF m
    <3>3. delivered \o Append(tx, m) = Append(delivered \o tx, m)
      BY <1>1, <3>1
    <3> QED
      BY <1>5, <2>2, <3>2, <3>3 DEF Out, m
  <2> QED
    BY <2>1, <2>2 DEF TypeInv, TypeOK
<1>6. CASE ServerStep
  BY <1>2, <1>5, <1>6
     DEF ServerStep, RecvClose, RecvGetListenAddress, AskAddr, GotAddr,
         RecvGetClients, RecvSend, ForwardToConnection, RecvNewConnection,
         RecvConnectionEvent, CloseConnection, ConnectionsClosed,
         CloseAcceptor, CloseListener, userVars
<1>7. CASE ListenerStep \/ AcceptorStep \/ HandshakeOk \/ HandshakeFails
  BY <1>2, <1>7
     DEF ListenerStep, HandleNewStream, ListenerMessage, AcceptorStep,
         AcceptorMessage, PassNewConnection, HandshakeOk, HandshakeFails,
         userVars
<1>8. ASSUME NEW t \in Streams,
             \/ ConnReply(t) \/ ConnRead(t) \/ ConnPeerClose(t)
             \/ ConnStep(t) \/ SenderStep(t) \/ PasserStep(t) \/ ListenerAccept(t)
      PROVE  UNCHANGED <<tx, user, delivered>>
  BY <1>8
     DEF ConnReply, ConnRead, ConnPeerClose, ConnStep, ConnTake, ConnEmit,
         SenderStep, ConnSent, ConnClose, PasserStep, PasserRecv, PasserPass,
         ListenerAccept, userVars
<1>9. ASSUME NEW c, CallerStep(c) \/ Timeout(c)
      PROVE  UNCHANGED <<tx, user, delivered>>
  BY <1>9 DEF CallerStep, Accept, Refuse, Return, Timeout, userVars
<1>10. CASE HandleDrop \/ UNCHANGED vars
  BY <1>2, <1>10 DEF HandleDrop, vars, userVars
<1> QED
  BY <1>2, <1>3, <1>4, <1>6, <1>7, <1>8, <1>9, <1>10 DEF Next, ClientStep

(* The first events of a queue stay where they are when one is added. *)
LEMMA EventsOfAppend ==
    ASSUME NEW q \in Seq(ServerEvents), NEW m \in ServerEvents, NEW s \in Streams
    PROVE  /\ \A n \in 0 .. Len(q) :
                EventsOf(s, Append(q, m), n) = EventsOf(s, q, n)
           /\ EventsOf(s, Append(q, m), Len(Append(q, m)))
                = EventsOf(s, q, Len(q)) \cup From(s, Some(m))
<1> DEFINE z == Append(q, m)
<1>1. /\ Len(z) = Len(q) + 1 /\ Len(q) \in Nat
      /\ \A i \in 1 .. Len(q) : z[i] = q[i]
      /\ z[Len(q) + 1] = m
  OBVIOUS
<1> HIDE DEF z
<1>2. \A n \in 0 .. Len(q) : EventsOf(s, z, n) = EventsOf(s, q, n)
  <2>1. \A n \in 0 .. Len(q) : \A i \in 1 .. n : i \in 1 .. Len(q)
    BY <1>1
  <2> QED
    BY <1>1, <2>1 DEF EventsOf
<1>3. \A e : Some(m) = Some(ConnectionEvent(s, e)) <=> m = ConnectionEvent(s, e)
  BY SomeInjective
<1>4. 1 .. Len(q) + 1 = 1 .. Len(q) \cup {Len(q) + 1}
  BY <1>1
<1>5. \A e : (\E i \in 1 .. Len(q) + 1 : z[i] = ConnectionEvent(s, e))
                <=> \/ \E i \in 1 .. Len(q) : q[i] = ConnectionEvent(s, e)
                    \/ m = ConnectionEvent(s, e)
  BY <1>1, <1>4
<1>6. EventsOf(s, z, Len(z)) = EventsOf(s, q, Len(q)) \cup From(s, Some(m))
  BY <1>1, <1>3, <1>5 DEF EventsOf, From
<1> QED
  BY <1>2, <1>6 DEF z

(* A connection's count of messages read only grows. *)
LEMMA ReadGrows ==
    ASSUME TypeInv, [Next]_vars, NEW s \in Streams
    PROVE  /\ read[s] \in Nat
           /\ read'[s] = read[s] \/ (ConnRead(s) /\ read'[s] = read[s] + 1)
<1>1. read[s] \in Nat
  BY DEF TypeInv, TypeOK
<1>2. CASE UNCHANGED read
  BY <1>1, <1>2
<1>3. ASSUME NEW t \in Streams, ConnRead(t)
      PROVE  read'[s] = read[s] \/ (ConnRead(s) /\ read'[s] = read[s] + 1)
  BY <1>3 DEF ConnRead, TypeInv, TypeOK
<1>4. ASSUME NEW t \in Streams,
             \/ ConnReply(t) \/ ConnPeerClose(t)
             \/ ConnStep(t) \/ SenderStep(t) \/ PasserStep(t) \/ ListenerAccept(t)
      PROVE  UNCHANGED read
  BY <1>4
     DEF ConnReply, ConnPeerClose, ConnStep, ConnTake, ConnEmit, SenderStep,
         ConnSent, ConnClose, PasserStep, PasserRecv, PasserPass,
         ListenerAccept, linkVars, connVars
<1>5. CASE ServerStep
  BY <1>2, <1>5
     DEF ServerStep, RecvClose, RecvGetListenAddress, AskAddr, GotAddr,
         RecvGetClients, RecvSend, ForwardToConnection, RecvNewConnection,
         RecvConnectionEvent, EmitEvent, CloseConnection, ConnectionsClosed,
         CloseAcceptor, CloseListener, linkVars, connVars
<1>6. CASE ListenerStep \/ AcceptorStep \/ HandshakeOk \/ HandshakeFails
  BY <1>2, <1>6
     DEF ListenerStep, HandleNewStream, ListenerMessage, AcceptorStep,
         AcceptorMessage, PassNewConnection, HandshakeOk, HandshakeFails,
         linkVars, connVars
<1>7. ASSUME NEW c, CallerStep(c) \/ Timeout(c) PROVE UNCHANGED read
  BY <1>7 DEF CallerStep, Accept, Refuse, Return, Timeout, linkVars, connVars
<1>8. CASE HandleDrop \/ UserRecv \/ UserDrop \/ UNCHANGED vars
  BY <1>2, <1>8 DEF HandleDrop, UserRecv, UserDrop, vars, linkVars, connVars
<1> QED
  BY <1>1, <1>2, <1>3, <1>4, <1>5, <1>6, <1>7, <1>8 DEF Next, ClientStep

(* What the user has and can take stays in order: the event the server adds  *)
(* is the next one of its connection.                                        *)
LEMMA OutOrderNext ==
    ASSUME TypeInv, OrderInv, [Next]_vars
    PROVE  OutInOrder'
<1> SUFFICES ASSUME NEW s \in Streams, NEW e \in ConnectionEvents,
                    NEW j \in DOMAIN Out', Out'[j] = ConnectionEvent(s, e)
             PROVE  Follows(read'[s], e, EventsOf(s, Out', j - 1))
  BY DEF OutInOrder, Follows, EventsOf
<1>1. Follows(read[s], e, EventsOf(s, Out', j - 1))
        => Follows(read'[s], e, EventsOf(s, Out', j - 1))
  BY ReadGrows, FollowsLater
<1>2. \A i \in DOMAIN Out : Out[i] = ConnectionEvent(s, e)
            => Follows(read[s], e, EventsOf(s, Out, i - 1))
  BY DEF OrderInv, OutInOrder
<1>3. /\ delivered \in Seq(ServerEvents) /\ tx \in Seq(ServerEvents)
      /\ Out \in Seq(ServerEvents)
  BY ConcatProperties DEF TypeInv, TypeOK, Out
<1>4. CASE Out' = Out
  <2> DEFINE q == Out'
  <2>1. q = Out /\ j \in DOMAIN q /\ q[j] = ConnectionEvent(s, e)
    BY <1>4
  <2>2. Follows(read[s], e, EventsOf(s, q, j - 1))
    <3> HIDE DEF q
    <3> QED
      BY <1>2, <2>1
  <2> QED
    BY <1>1, <2>2
<1>5. CASE UserDrop /\ Out' = delivered
  <2> DEFINE q == Out'
  <2>1. q = delivered /\ j \in DOMAIN q /\ q[j] = ConnectionEvent(s, e)
    BY <1>5
  <2>2. q = delivered /\ j \in DOMAIN delivered /\ delivered[j] = ConnectionEvent(s, e)
    <3> HIDE DEF q
    <3> QED
      BY <2>1
  <2>3. /\ Len(Out) = Len(delivered) + Len(tx)
        /\ Len(delivered) \in Nat /\ Len(tx) \in Nat
        /\ \A i \in 1 .. Len(delivered) : Out[i] = delivered[i]
        /\ DOMAIN Out = 1 .. Len(Out) /\ DOMAIN delivered = 1 .. Len(delivered)
    BY <1>3, ConcatProperties DEF Out
  <2>4. j \in DOMAIN Out /\ Out[j] = delivered[j]
    BY <2>2, <2>3
  <2>5. \A i \in 1 .. j - 1 : Out[i] = delivered[i]
    BY <2>2, <2>3
  <2>6. EventsOf(s, Out, j - 1) = EventsOf(s, delivered, j - 1)
    BY <2>5 DEF EventsOf
  <2>7. Follows(read[s], e, EventsOf(s, delivered, j - 1))
    BY <1>2, <2>2, <2>4, <2>6
  <2>8. Follows(read[s], e, EventsOf(s, q, j - 1))
    <3> HIDE DEF q
    <3> QED
      BY <2>2, <2>7
  <2> QED
    BY <1>1, <2>8
<1>6. CASE EmitEvent /\ user = "listening" /\ Out' = Append(Out, Get(server_event))
  <2> DEFINE q == Out'
             m == Get(server_event)
  <2>1. m \in ServerEvents /\ server_event = Some(m)
    BY <1>6, OptionCases DEF EmitEvent, TypeInv, TypeOK, Carried
  <2>2. q = Append(Out, m) /\ j \in DOMAIN q /\ q[j] = ConnectionEvent(s, e)
    BY <1>6
  <2> HIDE DEF q, m
  <2>3. /\ Len(q) = Len(Out) + 1 /\ Len(Out) \in Nat /\ j \in 1 .. Len(q)
        /\ \A i \in 1 .. Len(Out) : q[i] = Out[i]
        /\ q[Len(Out) + 1] = m
        /\ DOMAIN Out = 1 .. Len(Out)
    BY <1>3, <2>1, <2>2
  <2>4. \A n \in 0 .. Len(Out) : EventsOf(s, q, n) = EventsOf(s, Out, n)
    BY <1>3, <2>1, <2>2, EventsOfAppend
  <2>5. CASE j <= Len(Out)
    <3>1. j \in DOMAIN Out /\ Out[j] = ConnectionEvent(s, e) /\ j - 1 \in 0 .. Len(Out)
      BY <2>2, <2>3, <2>5
    <3>2. Follows(read[s], e, EventsOf(s, q, j - 1))
      BY <1>2, <2>4, <3>1
    <3> QED
      BY <1>1, <3>2 DEF q
  <2>6. CASE j > Len(Out)
    <3>1. j = Len(Out) + 1 /\ j - 1 = Len(Out) /\ j - 1 \in 0 .. Len(Out)
      BY <2>3, <2>6
    <3>2. e \in From(s, server_event)
      BY <2>1, <2>2, <2>3, <3>1 DEF From
    <3>3. InLine(s)
      BY <1>6 DEF OrderInv, NothingLost, EmitEvent, LoopStates
    <3>4. Follows(read[s], e, OutOf(s))
      BY <3>2, <3>3 DEF InLine, Line
    <3>5. Follows(read[s], e, EventsOf(s, q, j - 1))
      BY <2>4, <3>1, <3>4 DEF OutOf
    <3> QED
      BY <1>1, <3>5 DEF q
  <2> QED
    BY <2>3, <2>5, <2>6
<1> QED
  BY <1>4, <1>5, <1>6, OutChanges DEF OrderInv

(* A step that moves none of a connection's events leaves them in line. *)
LEMMA LineStays ==
    ASSUME NEW s \in Streams, InLine(s), CloseEnds(s), read'[s] = read[s],
           UNCHANGED <<OutOf(s), From(s, server_event), From(s, rx)>>,
           passer_msg'[s] = passer_msg[s], event_rx'[s] = event_rx[s],
           conn_msg'[s] = conn_msg[s],
           conn[s] = "done" => conn'[s] = "done",
           passer'[s] = "done" => passer[s] = "done" \/ conn[s] = "done"
    PROVE  InLine(s)' /\ CloseEnds(s)'
<1>1. InLine(s)'
  BY DEF InLine
<1>2. Emitted(s)' = Emitted(s)
  BY DEF Emitted
<1> QED
  BY <1>1, <1>2 DEF CloseEnds

(* The server takes an event from its channel or hands it to the user. *)
LEMMA ServerInLine ==
    ASSUME TypeInv, OrderInv, [Next]_vars, ServerStep,
           NEW s \in Streams, InLine(s), CloseEnds(s), server' \in LoopStates,
           user = "listening"
    PROVE  InLine(s)' /\ CloseEnds(s)'
<1>1. /\ UNCHANGED <<read, conn, conn_msg, passer, passer_msg, event_rx>>
      /\ UNCHANGED delivered
  BY
     DEF ServerStep, RecvClose, RecvGetListenAddress, AskAddr, GotAddr,
         RecvGetClients, RecvSend, ForwardToConnection, RecvNewConnection,
         RecvConnectionEvent, EmitEvent, CloseConnection, ConnectionsClosed,
         CloseAcceptor, CloseListener, linkVars, connVars, passerVars,
         userVars
<1>2. CASE RecvConnectionEvent
  <2>1. server_event = None /\ server_event' = rx /\ rx' = None /\ UNCHANGED tx
    BY <1>2 DEF RecvConnectionEvent, OrderInv, EventIsServed
  <2>2. /\ From(s, server_event) = {} /\ From(s, server_event)' = From(s, rx)
        /\ From(s, rx)' = {}
    BY <2>1, FromCases
  <2>3. OutOf(s)' = OutOf(s)
    BY <1>1, <2>1 DEF OutOf, Out
  <2>4. InLine(s)'
    BY <1>1, <2>2, <2>3, LineMoves DEF InLine
  <2>5. Emitted(s)' = Emitted(s)
    BY <1>1, <2>2, <2>3 DEF Emitted
  <2> QED
    BY <1>1, <2>4, <2>5 DEF CloseEnds
<1>3. CASE EmitEvent
  <2> DEFINE m == Get(server_event)
  <2>1. m \in ServerEvents /\ server_event = Some(m)
    BY <1>3, OptionCases DEF EmitEvent, TypeInv, TypeOK, Carried
  <2>2. tx' = Append(tx, m) /\ server_event' = None /\ UNCHANGED rx
    BY <1>3 DEF EmitEvent
  <2> HIDE DEF m
  <2>3. delivered \in Seq(ServerEvents) /\ tx \in Seq(ServerEvents)
    BY DEF TypeInv, TypeOK
  <2>4. delivered \o Append(tx, m) = Append(delivered \o tx, m)
    BY <2>1, <2>3
  <2>5. Out \in Seq(ServerEvents) /\ Out' = Append(Out, m)
    BY <1>1, <2>2, <2>3, <2>4, ConcatProperties DEF Out
  <2>6. OutOf(s)' = OutOf(s) \cup From(s, server_event)
    BY <2>1, <2>5, EventsOfAppend DEF OutOf
  <2>7. From(s, server_event)' = {} /\ From(s, rx)' = From(s, rx)
    BY <2>2, FromCases
  <2>8. InLine(s)'
    BY <1>1, <2>6, <2>7, LineMoves DEF InLine
  <2>9. Emitted(s)' = Emitted(s)
    BY <1>1, <2>6, <2>7 DEF Emitted
  <2> QED
    BY <1>1, <2>8, <2>9 DEF CloseEnds
<1>4. CASE RecvNewConnection
  <2>1. PICK t \in Streams : /\ rx = Some(NewConnection(t))
                             /\ server_event' = server_event \/ server_event' = rx
    BY <1>4 DEF RecvNewConnection
  <2>2. server_event = None /\ rx' = None /\ UNCHANGED tx
    BY <1>4 DEF RecvNewConnection, userVars, OrderInv, EventIsServed
  <2>3. /\ From(s, server_event) = {} /\ From(s, server_event)' = {}
        /\ From(s, rx) = {} /\ From(s, rx)' = {}
    BY <2>1, <2>2, FromCases
  <2> QED
    BY <1>1, <2>2, <2>3, LineStays DEF OutOf, Out
<1>5. CASE RecvGetListenAddress \/ RecvGetClients \/ RecvSend
  <2>1. PICK c \in Calls : rx = Some(c)
    BY <1>5 DEF RecvGetListenAddress, RecvGetClients, RecvSend, Calls, Asks
  <2>2. rx' = None /\ UNCHANGED <<server_event, tx>>
    BY <1>5
       DEF RecvGetListenAddress, RecvGetClients, RecvSend, serverVars,
           userVars
  <2>3. From(s, rx) = {} /\ From(s, rx)' = {}
    BY <2>1, <2>2, FromCases
  <2> QED
    BY <1>1, <2>2, <2>3, LineStays DEF OutOf, Out, From
<1>6. CASE AskAddr \/ GotAddr \/ ForwardToConnection
  <2>1. UNCHANGED <<rx, server_event, tx>>
    BY <1>6 DEF AskAddr, GotAddr, ForwardToConnection, userVars
  <2> QED
    BY <1>1, <2>1, LineStays DEF OutOf, Out, From
<1> QED
  BY <1>2, <1>3, <1>4, <1>5, <1>6
     DEF ServerStep, RecvClose, CloseConnection, ConnectionsClosed,
         CloseAcceptor, CloseListener, Break, LoopStates

(* A connection reads the next message, or closes, and emits the event; its  *)
(* passer takes it and hands it to the server.                               *)
LEMMA ConnectionInLine ==
    ASSUME TypeInv, OrderInv, NEW s \in Streams, InLine(s), CloseEnds(s),
           server \in LoopStates,
           \/ ConnRead(s) \/ ConnClose(s) \/ ConnEmit(s)
           \/ PasserRecv(s) \/ PasserPass(s)
    PROVE  InLine(s)' /\ CloseEnds(s)'
<1>1. UNCHANGED <<OutOf(s), From(s, server_event)>>
  BY DEF ConnRead, ConnClose, ConnEmit, PasserRecv, PasserPass, serverVars,
         userVars, OutOf, Out, From
<1>2. /\ conn[s] # "emit" => conn_msg[s] = None
      /\ passer[s] # "pass" => passer_msg[s] = None
  BY DEF OrderInv, IdleHoldNothing
<1>3. read[s] \in Nat /\ Held(None) = {} /\ From(s, None) = {}
  BY FromCases DEF TypeInv, TypeOK
<1>4. CASE ConnRead(s) \/ ConnClose(s)
  <2>1. /\ UNCHANGED <<rx, passer_msg, event_rx, passer>>
        /\ conn[s] # "emit" /\ conn[s] # "done" /\ conn'[s] = "emit"
    BY <1>4 DEF ConnRead, ConnClose, passerVars, TypeInv, TypeOK
  <2>2. Held(conn_msg[s]) = {}
    BY <1>2, <1>3, <2>1
  <2>3. CloseMsg \notin Emitted(s)
    BY <2>1 DEF CloseEnds
  <2>4. Emitted(s)' = Emitted(s)
    BY <1>1, <2>1 DEF Emitted, From
  <2>5. /\ Line(read[s] + 1, OutOf(s), From(s, server_event), From(s, rx),
                Held(passer_msg[s]), Held(event_rx[s]), {Message(read[s] + 1)})
        /\ Line(read[s], OutOf(s), From(s, server_event), From(s, rx),
                Held(passer_msg[s]), Held(event_rx[s]), {CloseMsg})
    BY <1>3, <2>2, <2>3, LineGrows DEF InLine, Emitted
  <2>6. CASE ConnRead(s)
    <3>1. read[s] + 1 \in 1 .. MaxMessages
      BY <2>6, ServerAssumption DEF ConnRead, TypeInv, TypeOK
    <3>2. /\ read'[s] = read[s] + 1
          /\ conn_msg'[s] = Some(Message(read[s] + 1))
      BY <2>6 DEF ConnRead, TypeInv, TypeOK
    <3>3. Held(conn_msg'[s]) = {Message(read[s] + 1)}
      BY <3>1, <3>2, FromCases DEF ConnectionEvents
    <3>4. InLine(s)'
      BY <1>1, <2>1, <2>5, <3>2, <3>3 DEF InLine, From
    <3> QED
      BY <2>1, <2>3, <2>4, <3>4 DEF CloseEnds
  <2>7. CASE ConnClose(s)
    <3>1. read'[s] = read[s] /\ conn_msg'[s] = Some(CloseMsg)
      BY <2>7 DEF ConnClose, TypeInv, TypeOK
    <3>2. Held(conn_msg'[s]) = {CloseMsg}
      BY <3>1, FromCases DEF ConnectionEvents
    <3>3. InLine(s)'
      BY <1>1, <2>1, <2>5, <3>1, <3>2 DEF InLine, From
    <3> QED
      BY <2>1, <2>3, <2>4, <3>3 DEF CloseEnds
  <2> QED
    BY <1>4, <2>6, <2>7
<1>5. CASE ConnEmit(s)
  <2>1. passer[s] # "done"
    BY <1>5 DEF ConnEmit, CloseEnds
  <2>2. /\ UNCHANGED <<rx, passer_msg, passer, read>>
        /\ event_rx[s] = None /\ event_rx'[s] = conn_msg[s]
        /\ conn_msg'[s] = None
        /\ conn[s] = "emit"
        /\ conn_msg[s] = Some(CloseMsg) => conn'[s] = "done"
    BY <1>5, <2>1 DEF ConnEmit, TypeInv, TypeOK
  <2>3. /\ Held(event_rx[s]) = {} /\ Held(event_rx'[s]) = Held(conn_msg[s])
        /\ Held(conn_msg'[s]) = {}
    BY <1>3, <2>2
  <2>4. InLine(s)'
    <3>1. Line(read[s], OutOf(s), From(s, server_event), From(s, rx),
               Held(passer_msg[s]), Held(conn_msg[s]), {})
      BY <2>3, LineMoves DEF InLine
    <3> QED
      BY <1>1, <2>2, <2>3, <3>1 DEF InLine, From
  <2>5. Emitted(s)' = Emitted(s) \cup Held(conn_msg[s])
    BY <1>1, <2>2, <2>3 DEF Emitted, From
  <2>6. CloseMsg \in Held(conn_msg[s]) => conn_msg[s] = Some(CloseMsg)
    BY DEF Held
  <2> QED
    BY <2>1, <2>2, <2>4, <2>5, <2>6 DEF CloseEnds
<1>6. CASE PasserRecv(s)
  <2>1. UNCHANGED <<rx, read, conn, conn_msg>> /\ passer[s] = "recv"
    BY <1>6 DEF PasserRecv, connVars
  <2>2. CASE event_rx[s] = None /\ conn[s] = "done"
    <3>1. /\ passer_msg'[s] = passer_msg[s] /\ event_rx'[s] = event_rx[s]
          /\ From(s, rx)' = From(s, rx)
      BY <1>6, <2>1, <2>2 DEF PasserRecv, From
    <3> QED
      BY <1>1, <2>1, <2>2, <3>1, LineStays
  <2>3. CASE event_rx[s] # None
    <3>1. /\ passer_msg[s] = None /\ passer_msg'[s] = event_rx[s]
          /\ event_rx'[s] = None /\ passer'[s] = "pass"
      BY <1>2, <1>6, <2>1, <2>3 DEF PasserRecv, TypeInv, TypeOK
    <3>2. /\ Held(passer_msg[s]) = {} /\ Held(event_rx'[s]) = {}
          /\ Held(passer_msg'[s]) = Held(event_rx[s])
      BY <1>3, <3>1
    <3>3. InLine(s)'
      <4>1. Line(read[s], OutOf(s), From(s, server_event), From(s, rx),
                 Held(event_rx[s]), {}, Held(conn_msg[s]))
        BY <3>2, LineMoves DEF InLine
      <4> QED
        BY <1>1, <2>1, <3>2, <4>1 DEF InLine, From
    <3>4. Emitted(s)' = Emitted(s)
      BY <1>1, <2>1, <3>2 DEF Emitted, From
    <3> QED
      BY <2>1, <3>1, <3>3, <3>4 DEF CloseEnds
  <2> QED
    BY <1>6, <2>2, <2>3 DEF PasserRecv
<1>7. CASE PasserPass(s)
  <2> DEFINE e == Get(passer_msg[s])
  <2>1. e \in ConnectionEvents /\ passer_msg[s] = Some(e)
    BY <1>7, OptionCases DEF PasserPass, TypeInv, TypeOK, Carried
  <2>2. /\ UNCHANGED <<read, conn, conn_msg, event_rx>>
        /\ rx = None /\ rx' = Some(ConnectionEvent(s, e))
        /\ passer_msg'[s] = None /\ passer'[s] = "recv"
    BY <1>7 DEF PasserPass, connVars, LoopStates, TypeInv, TypeOK
  <2> HIDE DEF e
  <2>3. /\ From(s, rx) = {} /\ From(s, rx)' = {e}
        /\ Held(passer_msg[s]) = {e} /\ Held(passer_msg'[s]) = {}
    <3>1. From(s, Some(ConnectionEvent(s, e))) = {e} /\ Held(Some(e)) = {e}
      BY <2>1, FromCases
    <3> QED
      BY <1>3, <2>1, <2>2, <3>1
  <2>4. InLine(s)'
    <3>1. Line(read[s], OutOf(s), From(s, server_event), {e}, {},
               Held(event_rx[s]), Held(conn_msg[s]))
      BY <2>3, LineMoves DEF InLine
    <3> QED
      BY <1>1, <2>2, <2>3, <3>1 DEF InLine
  <2>5. Emitted(s)' = Emitted(s)
    BY <1>1, <2>2, <2>3 DEF Emitted
  <2> QED
    BY <2>2, <2>4, <2>5 DEF CloseEnds
<1> QED
  BY <1>4, <1>5, <1>6, <1>7

(* What the other connections, the tasks of the listener and the callers do  *)
(* leaves a connection's events in line.                                     *)
LEMMA OthersInLine ==
    ASSUME TypeInv, StreamInv, PasserStarted, [Next]_vars, ~ServerStep, ~UserDrop,
           NEW s \in Streams, InLine(s), CloseEnds(s),
           ~ConnRead(s), ~ConnClose(s), ~ConnEmit(s), ~PasserRecv(s),
           ~PasserPass(s), DropEmpties
    PROVE  InLine(s)' /\ CloseEnds(s)'
<1>1. conn[s] = "done" => conn'[s] = "done"
  BY StartedStays
<1>2. UNCHANGED server_event
  BY OnlyServer DEF serverVars
<1>3. UNCHANGED <<OutOf(s), From(s, server_event)>>
  <2>1. Out' = Out
    BY OutChanges DEF ServerStep
  <2> QED
    BY <1>2, <2>1 DEF OutOf, From
<1>4. ASSUME read'[s] = read[s], From(s, rx)' = From(s, rx),
             passer_msg'[s] = passer_msg[s], event_rx'[s] = event_rx[s],
             conn_msg'[s] = conn_msg[s],
             passer'[s] = "done" => passer[s] = "done"
      PROVE  InLine(s)' /\ CloseEnds(s)'
  BY <1>1, <1>3, <1>4, LineStays
<1>5. rx = None => From(s, rx) = {}
  BY FromCases
<1>6. ASSUME NEW t \in Streams, t # s,
             ConnRead(t) \/ ConnClose(t) \/ ConnEmit(t) \/ PasserRecv(t)
      PROVE  InLine(s)' /\ CloseEnds(s)'
  <2>1. UNCHANGED rx
    BY <1>6 DEF ConnRead, ConnClose, ConnEmit, PasserRecv
  <2>2. /\ read'[s] = read[s] /\ conn_msg'[s] = conn_msg[s]
        /\ passer_msg'[s] = passer_msg[s] /\ event_rx'[s] = event_rx[s]
        /\ passer'[s] = passer[s]
    BY <1>6
       DEF ConnRead, ConnClose, ConnEmit, PasserRecv, connVars, passerVars,
           TypeInv, TypeOK
  <2> QED
    BY <1>4, <2>1, <2>2 DEF From
<1>7. ASSUME NEW t \in Streams, t # s, PasserPass(t)
      PROVE  InLine(s)' /\ CloseEnds(s)'
  <2> DEFINE e == Get(passer_msg[t])
  <2>1. e \in ConnectionEvents
    BY <1>7, OptionCases DEF PasserPass, TypeInv, TypeOK, Carried
  <2>2. \/ rx' = rx
        \/ rx = None /\ rx' = Some(ConnectionEvent(t, e))
    BY <1>7 DEF PasserPass
  <2> HIDE DEF e
  <2>3. From(s, Some(ConnectionEvent(t, e))) = {}
    BY <1>7, <2>1, FromCases
  <2>4. From(s, rx)' = From(s, rx)
    BY <1>5, <2>2, <2>3 DEF From
  <2>5. /\ read'[s] = read[s] /\ conn_msg'[s] = conn_msg[s]
        /\ passer_msg'[s] = passer_msg[s] /\ event_rx'[s] = event_rx[s]
        /\ passer'[s] = passer[s]
    BY <1>7 DEF PasserPass, connVars, TypeInv, TypeOK
  <2> QED
    BY <1>4, <2>4, <2>5
<1>8. ASSUME NEW t \in Streams,
             \/ ConnReply(t) \/ ConnPeerClose(t) \/ ConnTake(t)
             \/ ConnSent(t) \/ ListenerAccept(t)
      PROVE  InLine(s)' /\ CloseEnds(s)'
  <2>1. UNCHANGED <<rx, read, conn_msg, passer_msg, event_rx, passer>>
    BY <1>8
       DEF ConnReply, ConnPeerClose, ConnTake, ConnSent, ListenerAccept,
           linkVars, connVars, passerVars
  <2> QED
    BY <1>4, <2>1 DEF From
<1>9. CASE HandshakeOk
  <2>1. UNCHANGED <<rx, read, conn_msg, passer_msg, event_rx>>
    BY <1>9 DEF HandshakeOk
  <2>2. passer'[s] = "done" => passer[s] = "done"
    BY <1>9 DEF HandshakeOk, TypeInv, TypeOK
  <2> QED
    BY <1>4, <2>1, <2>2 DEF From
<1>10. CASE ListenerStep \/ AcceptorStep \/ HandshakeFails
  <2>1. UNCHANGED <<read, conn_msg, passer_msg, event_rx, passer>>
    BY <1>10 DEF ListenerStep, HandleNewStream, ListenerMessage, AcceptorStep,
                 AcceptorMessage, PassNewConnection, HandshakeFails, linkVars,
                 connVars, passerVars
  <2>2. rx' = rx \/ (rx = None /\ rx' = Some(NewConnection(Get(acceptor_msg))))
    BY <1>10 DEF ListenerStep, HandleNewStream, ListenerMessage, AcceptorStep,
                 AcceptorMessage, PassNewConnection, HandshakeFails
  <2>3. From(s, Some(NewConnection(Get(acceptor_msg)))) = {}
    BY FromCases
  <2>4. From(s, rx)' = From(s, rx)
    BY <1>5, <2>2, <2>3 DEF From
  <2> QED
    BY <1>4, <2>1, <2>4
<1>11. ASSUME NEW c \in Calls, CallerStep(c) \/ Timeout(c)
       PROVE  InLine(s)' /\ CloseEnds(s)'
  <2>1. UNCHANGED <<read, conn_msg, passer_msg, event_rx, passer>>
    BY <1>11 DEF CallerStep, Accept, Refuse, Return, Timeout, linkVars,
                 connVars, passerVars
  <2>2. rx' = rx \/ (rx = None /\ rx' = Some(c))
    BY <1>11 DEF CallerStep, Accept, Refuse, Return, Timeout
  <2>3. From(s, Some(c)) = {}
    BY FromCases
  <2>4. From(s, rx)' = From(s, rx)
    BY <1>5, <2>2, <2>3 DEF From
  <2> QED
    BY <1>4, <2>1, <2>4
<1>12. CASE HandleDrop \/ UserRecv \/ UNCHANGED vars
  <2>1. UNCHANGED <<rx, read, conn_msg, passer_msg, event_rx, passer>>
    BY <1>12 DEF HandleDrop, UserRecv, vars, linkVars, connVars, passerVars
  <2> QED
    BY <1>4, <2>1 DEF From
<1> QED
  BY <1>6, <1>7, <1>8, <1>9, <1>10, <1>11, <1>12
     DEF Next, ClientStep, ConnStep, SenderStep, PasserStep, Calls, Asks

(* Every step keeps the order of the connections' events. *)
LEMMA OrderNext ==
    ASSUME TypeInv, StreamInv, PasserStarted, OrderInv, [Next]_vars
    PROVE  OrderInv'
<1>1. EventIsServed' /\ IdleHoldNothing' /\ OutInOrder'
  BY EventServedNext, IdleNext, OutOrderNext DEF OrderInv
<1>2. DropEmpties' /\ (user' = "listening" => user = "listening")
  BY OutChanges DEF OrderInv
<1>3. server' \in LoopStates => server \in LoopStates
  <2>1. CASE ServerStep
    BY <2>1
       DEF ServerStep, RecvClose, RecvGetListenAddress, AskAddr, GotAddr,
           RecvGetClients, RecvSend, ForwardToConnection, RecvNewConnection,
           RecvConnectionEvent, EmitEvent, CloseConnection, ConnectionsClosed,
           CloseAcceptor, CloseListener, LoopStates
  <2>2. CASE ~ServerStep
    BY <2>2, OnlyServer DEF serverVars
  <2> QED
    BY <2>1, <2>2
<1>4. ASSUME user' = "listening", server' \in LoopStates, NEW s \in Streams
      PROVE  InLine(s)' /\ CloseEnds(s)'
  <2>1. user = "listening" /\ server \in LoopStates /\ InLine(s) /\ CloseEnds(s)
    BY <1>2, <1>3, <1>4 DEF OrderInv, NothingLost
  <2>2. ~UserDrop
    BY <1>4 DEF UserDrop
  <2>3. CASE ServerStep
    BY <1>4, <2>1, <2>3, ServerInLine
  <2>4. CASE \/ ConnRead(s) \/ ConnClose(s) \/ ConnEmit(s)
             \/ PasserRecv(s) \/ PasserPass(s)
    BY <2>1, <2>4, ConnectionInLine
  <2> QED
    BY <2>1, <2>2, <2>3, <2>4, OthersInLine DEF OrderInv
<1>5. NothingLost'
  BY <1>4 DEF NothingLost
<1> QED
  BY <1>1, <1>2, <1>5 DEF OrderInv

(* The server starts with nothing read and nothing on its way. *)
LEMMA OrderInit == Init => OrderInv
<1> SUFFICES ASSUME Init PROVE OrderInv
  OBVIOUS
<1>1. EventIsServed /\ IdleHoldNothing /\ DropEmpties
  BY DEF Init, EventIsServed, IdleHoldNothing, DropEmpties
<1>2. Out = << >> /\ Len(Out) = 0
  BY DEF Init, Out
<1>3. OutInOrder
  <2> HIDE DEF Out
  <2> QED
    BY <1>2 DEF OutInOrder
<1>4. ASSUME NEW s \in Streams PROVE InLine(s) /\ CloseEnds(s)
  <2>1. OutOf(s) = {}
    BY <1>2 DEF OutOf, EventsOf
  <2>2. /\ From(s, server_event) = {} /\ From(s, rx) = {}
        /\ Held(passer_msg[s]) = {} /\ Held(event_rx[s]) = {}
        /\ Held(conn_msg[s]) = {}
    BY FromCases DEF Init
  <2>3. Line(read[s], {}, {}, {}, {}, {}, {})
    BY DEF Init, Line
  <2> QED
    BY <2>1, <2>2, <2>3 DEF InLine, CloseEnds, Emitted, Init
<1> QED
  BY <1>1, <1>3, <1>4 DEF OrderInv, NothingLost

(* The user receives the events of each connection in the order they were    *)
(* read, without a gap, and at most one ConnectionClose, the last.           *)
THEOREM EventsStayInOrder == Spec => []EventsInOrder
<1>1. Init => PasserStarted
  BY DEF Init, PasserStarted
<1>2. TypeInv /\ OrderInv => EventsInOrder
  <2> SUFFICES ASSUME TypeInv, OrderInv,
                      NEW s \in Streams, NEW e \in ConnectionEvents,
                      NEW j \in DOMAIN delivered,
                      delivered[j] = ConnectionEvent(s, e)
               PROVE  Follows(read[s], e, EventsOf(s, delivered, j - 1))
    BY DEF EventsInOrder
  <2>1. delivered \in Seq(ServerEvents) /\ tx \in Seq(ServerEvents)
    BY DEF TypeInv, TypeOK
  <2>2. /\ Len(Out) = Len(delivered) + Len(tx)
        /\ Len(delivered) \in Nat /\ Len(tx) \in Nat
        /\ \A i \in 1 .. Len(delivered) : Out[i] = delivered[i]
        /\ DOMAIN Out = 1 .. Len(Out) /\ DOMAIN delivered = 1 .. Len(delivered)
    BY <2>1, ConcatProperties DEF Out
  <2>3. j \in DOMAIN Out /\ Out[j] = delivered[j]
    BY <2>2
  <2>4. \A i \in 1 .. j - 1 : Out[i] = delivered[i]
    BY <2>2
  <2>5. EventsOf(s, Out, j - 1) = EventsOf(s, delivered, j - 1)
    BY <2>4 DEF EventsOf
  <2> QED
    BY <2>3, <2>5 DEF OrderInv, OutInOrder
<1>3. TypeInv /\ CallInv /\ PasserStarted /\ [Next]_vars => PasserStarted'
  BY PasserStartedNext DEF CallInv
<1>4. TypeInv /\ CallInv /\ PasserStarted /\ OrderInv /\ [Next]_vars => OrderInv'
  BY OrderNext DEF CallInv
<1> QED
  BY <1>1, <1>2, <1>3, <1>4, OrderInit, TypeInit, TypeNext, CallInvInit,
     CallInvNext, PTL DEF Spec
=============================================================================
