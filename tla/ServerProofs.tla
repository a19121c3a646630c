---------------------------- MODULE ServerProofs ----------------------------
(***************************************************************************)
(* Proofs about module Server, for any streams, addresses and calls.       *)
(***************************************************************************)
EXTENDS Server, ChannelProofs, FiniteSetTheorems, TLAPS

(* No message to the Listener or the Acceptor is mistaken for a Close. *)
LEMMA MessagesDiffer ==
    /\ None # Some(CloseMsg)
    /\ Some(GetAddress) # Some(CloseMsg)
    /\ \A s : Some(NewStream(s)) # Some(CloseMsg)
  BY DEF None, Some, CloseMsg, GetAddress, NewStream

(* No step ends the Listener or the Acceptor, or tells one to close, before  *)
(* Server::run has come to close the Listener.                               *)
LEMMA TasksNext == TasksOutliveLoop /\ [Next]_vars => TasksOutliveLoop'
<1> SUFFICES ASSUME TasksOutliveLoop, [Next]_vars,
                    server' \notin {"close_listener", "done"}
             PROVE  /\ listener' # "done" /\ listener_rx' # Some(CloseMsg)
                    /\ acceptor' # "done" /\ acceptor_rx' # Some(CloseMsg)
  BY DEF TasksOutliveLoop
<1> USE DEF serverVars, listenVars, listenerVars, acceptorVars
(* A step of a task outside the server's listening side touches neither. *)
<1>1. CASE UNCHANGED <<server, listenerVars, acceptorVars>>
  BY <1>1 DEF TasksOutliveLoop
<1>2. CASE ServerStep
  <2>1. CASE \/ RecvClose \/ RecvGetListenAddress \/ RecvGetClients
             \/ RecvSend \/ RecvNewConnection \/ RecvConnectionEvent
    BY <2>1
       DEF TasksOutliveLoop, RecvClose, RecvGetListenAddress, RecvGetClients,
           RecvSend, RecvNewConnection, RecvConnectionEvent
  <2>2. CASE AskAddr
    BY <2>2, MessagesDiffer DEF TasksOutliveLoop, AskAddr
  <2>3. CASE GotAddr \/ ForwardToConnection \/ EmitEvent
    BY <2>3 DEF TasksOutliveLoop, GotAddr, ForwardToConnection, EmitEvent
  <2>4. CASE CloseConnection \/ ConnectionsClosed
    BY <2>4 DEF TasksOutliveLoop, CloseConnection, ConnectionsClosed
  <2>5. CASE CloseAcceptor \/ CloseListener
    BY <2>5 DEF CloseAcceptor, CloseListener
  <2> QED
    BY <1>2, <2>1, <2>2, <2>3, <2>4, <2>5 DEF ServerStep
<1>3. CASE ListenerStep
  <2>1. CASE HandleNewStream
    BY <2>1, MessagesDiffer DEF TasksOutliveLoop, HandleNewStream
  <2>2. CASE ListenerMessage
    BY <2>2, MessagesDiffer DEF TasksOutliveLoop, ListenerMessage
  <2> QED
    BY <1>3, <2>1, <2>2 DEF ListenerStep
<1>4. CASE AcceptorStep
  <2>1. CASE AcceptorMessage
    BY <2>1, MessagesDiffer DEF TasksOutliveLoop, AcceptorMessage
  <2>2. CASE PassNewConnection
    BY <2>2 DEF TasksOutliveLoop, PassNewConnection
  <2> QED
    BY <1>4, <2>1, <2>2 DEF AcceptorStep
<1>5. CASE \E s \in Streams : ConnStep(s) \/ SenderStep(s) \/ PasserStep(s)
  BY <1>1, <1>5 DEF ConnStep, ConnTake, ConnEmit, SenderStep, ConnSent,
                    ConnClose, PasserStep, PasserRecv, PasserPass
<1>6. CASE ClientStep
  <2>1. CASE HandshakeOk \/ HandshakeFails
    BY <2>1 DEF TasksOutliveLoop, HandshakeOk, HandshakeFails
  <2>2. CASE \E s \in Streams : ListenerAccept(s)
    BY <2>2 DEF TasksOutliveLoop, ListenerAccept
  <2>3. CASE \E s \in Streams : ConnReply(s) \/ ConnRead(s) \/ ConnPeerClose(s)
    BY <1>1, <2>3 DEF ConnReply, ConnRead, ConnPeerClose
  <2> QED
    BY <1>5, <1>6, <2>1, <2>2, <2>3 DEF ClientStep
<1>7. CASE \E c \in Calls : CallerStep(c)
  BY <1>1, <1>7 DEF CallerStep, Accept, Refuse, Return
<1>8. CASE \E r \in Requests : Timeout(r)
  BY <1>1, <1>8 DEF Timeout
<1>9. CASE HandleDrop \/ UserRecv \/ UserDrop
  BY <1>1, <1>9 DEF HandleDrop, UserRecv, UserDrop
<1>10. CASE UNCHANGED vars
  BY <1>1, <1>10 DEF vars
<1> QED
  BY <1>2, <1>3, <1>4, <1>5, <1>6, <1>7, <1>8, <1>9, <1>10 DEF Next

(* The Listener and the Acceptor outlive the loop of Server::run and the     *)
(* closing of the connections, for every instance.                           *)
THEOREM TasksOutlive == Spec => []TasksOutliveLoop
<1>1. Init => TasksOutliveLoop
  BY MessagesDiffer DEF Init, TasksOutliveLoop
<1> QED
  BY <1>1, TasksNext, PTL DEF Spec
-----------------------------------------------------------------------------
(* Type correctness. *)

(* Whatever order the HashMap yields its entries in, it is a sequence of     *)
(* connections.                                                              *)
LEMMA OrdersType == Orders(Registered) \subseteq Seq(Streams)
<1>1. Registered \subseteq Streams /\ IsFiniteSet(Streams)
  BY ServerAssumption DEF Registered
<1>2. Cardinality(Registered) \in Nat
  BY <1>1, FS_Subset, FS_CardinalityType
<1> QED
  BY <1>1, <1>2 DEF Orders

(* oneshot::Sender::send or drop leaves a state of a oneshot. *)
LEMMA ResolveType ==
    ASSUME oneshot \in [Asks -> {"open", "Ok", "Canceled", "Dropped"}],
           NEW R, NEW v \in {"Ok", "Canceled", "Dropped"}
    PROVE  Resolve(R, v) \in [Asks -> {"open", "Ok", "Canceled", "Dropped"}]
  BY DEF Resolve

(* A task suspended at an await that hands a message on holds that message,  *)
(* and the call the server forwards is for a connection that is listed.      *)
Carried ==
    /\ server = "event" => server_event # None
    /\ server = "forward" =>
            \E c \in Requests \cup Events : /\ server_call = Some(c)
                                          /\ connections[To[c]] # None
    /\ listener = "new_stream" => listener_msg # None
    /\ acceptor \in {"handshake", "new_connection"} => acceptor_msg # None
    /\ \A s \in Streams : conn[s] = "emit" => conn_msg[s] # None
    /\ \A s \in Streams : passer[s] = "pass" => passer_msg[s] # None

TypeInv == TypeOK /\ Carried

(* Server::new leaves every channel empty and every task at its first await. *)
LEMMA TypeInit == Init => TypeInv
  BY ServerAssumption, NoneInOption
     DEF Init, TypeInv, TypeOK, Carried, Calls, Asks, LoopStates, ServerStates

(* TypeOK and Carried, one part for each group of variables. *)
CallsTyped ==
    /\ call \in [Calls -> {"sending", "waiting", "Ok", "SendError",
                           "RecvError", "Canceled", "Timeout"}]
    /\ oneshot \in [Asks -> {"open", "Ok", "Canceled", "Dropped"}]
    /\ handle \in {"held", "dropped"}

ServerTyped ==
    /\ server \in ServerStates
    /\ server_event \in Option(ServerEvents)
    /\ server_call \in Option(Calls)
    /\ connections \in [Addrs -> Option(Streams)]
    /\ closing \in Seq(Streams)
    /\ server = "event" => server_event # None
    /\ server = "forward" =>
            \E c \in Requests \cup Events : /\ server_call = Some(c)
                                          /\ connections[To[c]] # None

ListenTyped ==
    /\ listener \in {"select", "new_stream", "done"}
    /\ listener_msg \in Option(Streams)
    /\ listener_rx \in Option({GetAddress, CloseMsg})
    /\ addr_reply \in {"none", "sent"}
    /\ acceptor \in {"recv", "handshake", "new_connection", "done"}
    /\ acceptor_msg \in Option(Streams)
    /\ acceptor_rx \in Option({NewStream(s) : s \in Streams} \cup {CloseMsg})
    /\ fresh \in SUBSET Streams
    /\ listener = "new_stream" => listener_msg # None
    /\ acceptor \in {"handshake", "new_connection"} => acceptor_msg # None

ConnTyped ==
    /\ conn \in [Streams -> {"none", "run", "send", "emit", "close", "done"}]
    /\ conn_msg \in [Streams -> Option(ConnectionEvents)]
    /\ \A s \in Streams : conn[s] = "emit" => conn_msg[s] # None

HeldTyped ==
    /\ conn_rx \in [Streams -> Option(Requests \cup Events \cup {CloseMsg})]
    /\ pending \in [Streams -> SUBSET Requests]
    /\ read \in [Streams -> 0 .. MaxMessages]

PasserTyped ==
    /\ event_rx \in [Streams -> Option(ConnectionEvents)]
    /\ passer \in [Streams -> {"none", "recv", "pass", "done"}]
    /\ passer_msg \in [Streams -> Option(ConnectionEvents)]
    /\ \A s \in Streams : passer[s] = "pass" => passer_msg[s] # None

UserTyped ==
    /\ tx \in Seq(ServerEvents)
    /\ user \in {"listening", "gone"}
    /\ delivered \in Seq(ServerEvents)
    /\ seen_close \in SUBSET Streams

RxTyped == rx \in Option(Calls \cup TaskMessages)

(* The parts make up the whole. *)
LEMMA TypeParts ==
    TypeInv <=> /\ CallsTyped /\ ServerTyped /\ ListenTyped /\ ConnTyped
                /\ HeldTyped /\ PasserTyped /\ UserTyped /\ RxTyped
  BY Zenon DEF TypeInv, TypeOK, Carried, CallsTyped, ServerTyped, ListenTyped,
               ConnTyped, HeldTyped, PasserTyped, UserTyped, RxTyped

(* Every step keeps the types: of the parts it leaves alone, and of the      *)
(* ones it changes.                                                          *)
LEMMA TypeNext == TypeInv /\ [Next]_vars => TypeInv'
<1> SUFFICES ASSUME TypeInv, [Next]_vars PROVE TypeInv'
  OBVIOUS
<1>a. /\ CallsTyped /\ ServerTyped /\ ListenTyped /\ ConnTyped
      /\ HeldTyped /\ PasserTyped /\ UserTyped /\ RxTyped
  BY TypeParts
<1>b. ASSUME CallsTyped', ServerTyped', ListenTyped', ConnTyped',
             HeldTyped', PasserTyped', UserTyped', RxTyped'
      PROVE  TypeInv'
  BY <1>b, TypeParts, PTL
<1>c. /\ UNCHANGED callVars => CallsTyped'
      /\ UNCHANGED serverVars => ServerTyped'
      /\ UNCHANGED listenVars => ListenTyped'
      /\ UNCHANGED <<conn, conn_msg>> => ConnTyped'
      /\ UNCHANGED <<conn_rx, pending, read>> => HeldTyped'
      /\ UNCHANGED passerVars => PasserTyped'
      /\ UNCHANGED userVars => UserTyped'
      /\ UNCHANGED rx => RxTyped'
  <2>1. UNCHANGED callVars => CallsTyped'
    BY <1>a DEF CallsTyped, callVars
  <2>2. UNCHANGED serverVars => ServerTyped'
    BY <1>a DEF ServerTyped, serverVars
  <2>3. UNCHANGED listenVars => ListenTyped'
    BY <1>a DEF ListenTyped, listenVars, listenerVars, acceptorVars
  <2>4. UNCHANGED <<conn, conn_msg>> => ConnTyped'
    BY <1>a DEF ConnTyped
  <2>5. UNCHANGED <<conn_rx, pending, read>> => HeldTyped'
    BY <1>a DEF HeldTyped
  <2>6. UNCHANGED passerVars => PasserTyped'
    BY <1>a DEF PasserTyped, passerVars
  <2>7. UNCHANGED userVars => UserTyped'
    BY <1>a DEF UserTyped, userVars
  <2>8. UNCHANGED rx => RxTyped'
    BY <1>a DEF RxTyped
  <2> QED
    BY <2>1, <2>2, <2>3, <2>4, <2>5, <2>6, <2>7, <2>8
<1>d. ASSUME UNCHANGED linkVars PROVE ConnTyped' /\ HeldTyped' /\ PasserTyped'
  BY <1>c, <1>d DEF linkVars, connVars
<1>e. UNCHANGED handle /\ UNCHANGED call
        /\ (\E R, v : v \in {"Ok", "Canceled", "Dropped"} /\ oneshot' = Resolve(R, v))
          => CallsTyped'
  BY <1>a, ResolveType DEF CallsTyped
<1>f. rx' = None => RxTyped'
  BY NoneInOption DEF RxTyped
<1>0. /\ None \in Option(ConnectionEvents)
      /\ None \in Option(Requests \cup Events \cup {CloseMsg})
      /\ None \in Option(Streams) /\ None \in Option(ServerEvents)
      /\ None \in Option(Calls)
  BY NoneInOption
<1>1. CASE RecvClose
  <2>1. ServerTyped'
    BY <1>1, <1>a, OrdersType DEF RecvClose, Break, ServerTyped, ServerStates
  <2> QED
    BY <1>1, <1>b, <1>c, <1>d, <1>f, <2>1 DEF RecvClose
<1>2. CASE RecvGetListenAddress
  <2>1. rx \in Option(Calls)
    BY <1>2, SomeInOption DEF RecvGetListenAddress, Calls, Asks
  <2>2. ServerTyped'
    BY <1>2, <1>a, <2>1
       DEF RecvGetListenAddress, ServerTyped, ServerStates, LoopStates
  <2> QED
    BY <1>2, <1>b, <1>c, <1>d, <1>f, <2>2 DEF RecvGetListenAddress
<1>3. CASE AskAddr
  <2>1. ServerTyped'
    BY <1>3, <1>a DEF AskAddr, ServerTyped, ServerStates, LoopStates
  <2>2. ListenTyped'
    BY <1>3, <1>a, SomeInOption DEF AskAddr, ListenTyped, acceptorVars
  <2> QED
    BY <1>3, <1>b, <1>c, <1>d, <2>1, <2>2 DEF AskAddr
<1>4. CASE GotAddr
  <2>1. ServerTyped'
    BY <1>4, <1>a, <1>0 DEF GotAddr, ServerTyped, ServerStates, LoopStates
  <2>2. ListenTyped'
    BY <1>4, <1>a DEF GotAddr, ListenTyped, acceptorVars
  <2>3. CallsTyped'
    BY <1>4, <1>e DEF GotAddr
  <2> QED
    BY <1>4, <1>b, <1>c, <1>d, <2>1, <2>2, <2>3 DEF GotAddr
<1>5. CASE RecvGetClients
  <2>1. CallsTyped'
    BY <1>5, <1>e DEF RecvGetClients
  <2> QED
    BY <1>5, <1>b, <1>c, <1>d, <1>f, <2>1 DEF RecvGetClients
<1>6. CASE RecvSend
  <2>1. PICK c \in Requests \cup Events : RecvSend!2!(c)
    BY <1>6 DEF RecvSend
  <2>2. Some(c) \in Option(Calls)
    BY SomeInOption DEF Calls, Asks
  <2>3. CallsTyped'
    <3>1. UNCHANGED <<call, handle>>
      BY <1>6 DEF RecvSend
    <3> QED
      BY <1>c, <1>e, <2>1, <3>1 DEF callVars
  <2>4. UNCHANGED <<server_event, connections, closing>> /\ server = "recv"
    BY <1>6 DEF RecvSend
  <2>5. ServerTyped'
    BY <1>a, <2>1, <2>2, <2>4 DEF ServerTyped, ServerStates, LoopStates
  <2> QED
    BY <1>6, <1>b, <1>c, <1>d, <1>f, <2>3, <2>5 DEF RecvSend
<1>7. CASE ForwardToConnection
  <2>1. PICK c \in Requests \cup Events :
                server_call = Some(c) /\ connections[To[c]] # None
    BY <1>7, <1>a DEF ForwardToConnection, ServerTyped
  <2>2. Get(server_call) = c /\ To[c] \in Addrs
    BY <2>1, GetSome, ServerAssumption
  <2>3. Get(connections[To[c]]) \in Streams
    BY <1>a, <2>1, <2>2, OptionCases DEF ServerTyped
  <2>4. Some(c) \in Option(Requests \cup Events \cup {CloseMsg})
    BY SomeInOption
  <2>5. HeldTyped'
    BY <1>7, <1>a, <2>2, <2>3, <2>4 DEF ForwardToConnection, HeldTyped
  <2>6. connections' \in [Addrs -> Option(Streams)]
    BY <1>7, <1>a, <1>0, <2>2 DEF ForwardToConnection, ServerTyped
  <2>7. ServerTyped'
    BY <1>7, <1>a, <1>0, <2>6
       DEF ForwardToConnection, ServerTyped, ServerStates, LoopStates
  <2>8. CallsTyped'
    <3>1. UNCHANGED oneshot \/ oneshot' = Resolve({Get(server_call)}, "Dropped")
      BY <1>7 DEF ForwardToConnection
    <3> QED
      BY <1>7, <1>c, <1>e, <3>1 DEF ForwardToConnection, callVars
  <2> QED
    BY <1>7, <1>b, <1>c, <2>5, <2>7, <2>8 DEF ForwardToConnection
<1>8. CASE RecvNewConnection
  <2>1. PICK s \in Streams : RecvNewConnection!2!(s)
    BY <1>8 DEF RecvNewConnection
  <2>2. Some(s) \in Option(Streams) /\ AddrOf[s] \in Addrs
    BY SomeInOption, ServerAssumption
  <2>3. connections' \in [Addrs -> Option(Streams)]
    BY <1>a, <2>1, <2>2 DEF ServerTyped
  <2>4. rx # None /\ rx \in Option(ServerEvents)
    BY <2>1, SomeInOption, SomeIsNotNone DEF ServerEvents, TaskMessages
  <2>5. ServerTyped'
    BY <1>8, <1>a, <2>1, <2>3, <2>4
       DEF RecvNewConnection, ServerTyped, ServerStates, LoopStates
  <2> QED
    BY <1>8, <1>b, <1>c, <1>d, <1>f, <2>5 DEF RecvNewConnection
<1>9. CASE RecvConnectionEvent
  <2>1. PICK s \in Streams, e \in ConnectionEvents :
                RecvConnectionEvent!2!(s, e)
    BY <1>9 DEF RecvConnectionEvent
  <2>2. rx # None /\ rx \in Option(ServerEvents)
    BY <2>1, SomeInOption, SomeIsNotNone DEF ServerEvents, TaskMessages
  <2>3. AddrOf[s] \in Addrs
    BY ServerAssumption
  <2>4. connections' \in [Addrs -> Option(Streams)]
    BY <1>a, <1>0, <2>1, <2>3 DEF ServerTyped
  <2>5. ServerTyped'
    BY <1>9, <1>a, <2>2, <2>4
       DEF RecvConnectionEvent, ServerTyped, ServerStates, LoopStates
  <2>6. UserTyped'
    BY <1>9, <1>a, <2>1 DEF RecvConnectionEvent, UserTyped
  <2> QED
    BY <1>9, <1>b, <1>c, <1>d, <1>f, <2>5, <2>6 DEF RecvConnectionEvent
<1>10. CASE EmitEvent
  <2>1. Append(tx, Get(server_event)) \in Seq(ServerEvents)
    BY <1>10, <1>a, OptionCases, AppendType
       DEF EmitEvent, ServerTyped, UserTyped
  <2>2. UserTyped'
    BY <1>10, <1>a, <2>1 DEF EmitEvent, UserTyped
  <2>3. closing' \in Seq(Streams) /\ server' \in {"recv", "close_conns"}
    BY <1>10, <1>a, OrdersType DEF EmitEvent, Break, ServerTyped
  <2>4. ServerTyped'
    BY <1>10, <1>a, <1>0, <2>3
       DEF EmitEvent, ServerTyped, ServerStates, LoopStates
  <2> QED
    BY <1>10, <1>b, <1>c, <1>d, <2>2, <2>4 DEF EmitEvent
<1>11. CASE CloseConnection
  <2>1. Head(closing) \in Streams /\ Tail(closing) \in Seq(Streams)
    BY <1>11, <1>a DEF CloseConnection, ServerTyped
  <2>2. Some(CloseMsg) \in Option(Requests \cup Events \cup {CloseMsg})
    BY SomeInOption
  <2>3. HeldTyped'
    BY <1>11, <1>a, <2>1, <2>2 DEF CloseConnection, HeldTyped
  <2>4. ServerTyped'
    BY <1>11, <1>a, <2>1 DEF CloseConnection, ServerTyped
  <2> QED
    BY <1>11, <1>b, <1>c, <2>3, <2>4 DEF CloseConnection
<1>12. CASE ConnectionsClosed
  <2>1. ServerTyped'
    BY <1>12, <1>a DEF ConnectionsClosed, ServerTyped, ServerStates
  <2> QED
    BY <1>12, <1>b, <1>c, <1>d, <2>1 DEF ConnectionsClosed
<1>13. CASE CloseAcceptor
  <2>1. ServerTyped'
    BY <1>13, <1>a DEF CloseAcceptor, ServerTyped, ServerStates
  <2>2. ListenTyped'
    BY <1>13, <1>a, SomeInOption DEF CloseAcceptor, ListenTyped, listenerVars
  <2> QED
    BY <1>13, <1>b, <1>c, <1>d, <2>1, <2>2 DEF CloseAcceptor
<1>14. CASE CloseListener
  <2>1. ServerTyped'
    BY <1>14, <1>a DEF CloseListener, ServerTyped, ServerStates
  <2>2. ListenTyped'
    BY <1>14, <1>a, SomeInOption DEF CloseListener, ListenTyped, acceptorVars
  <2>3. CallsTyped'
    BY <1>14, <1>e DEF CloseListener
  <2> QED
    BY <1>14, <1>b, <1>c, <1>d, <1>f, <2>1, <2>2, <2>3 DEF CloseListener
<1>15. CASE HandleNewStream
  <2>1. Get(listener_msg) \in Streams
    BY <1>15, <1>a, OptionCases DEF HandleNewStream, ListenTyped
  <2>2. Some(NewStream(Get(listener_msg)))
            \in Option({NewStream(s) : s \in Streams} \cup {CloseMsg})
    BY <2>1, SomeInOption
  <2>3. ListenTyped'
    BY <1>15, <1>a, <1>0, <2>2, NoneInOption DEF HandleNewStream, ListenTyped
  <2> QED
    BY <1>15, <1>b, <1>c, <1>d, <2>3 DEF HandleNewStream
<1>16. CASE ListenerMessage
  <2>1. ListenTyped'
    BY <1>16, <1>a, NoneInOption
       DEF ListenerMessage, ListenTyped, acceptorVars
  <2> QED
    BY <1>16, <1>b, <1>c, <1>d, <2>1 DEF ListenerMessage
<1>17. CASE AcceptorMessage
  <2>1. \A s \in Streams : Some(s) \in Option(Streams) /\ Some(s) # None
    BY SomeInOption, SomeIsNotNone
  <2>2. ListenTyped'
    BY <1>17, <1>a, <2>1, NoneInOption
       DEF AcceptorMessage, ListenTyped, listenerVars
  <2> QED
    BY <1>17, <1>b, <1>c, <1>d, <2>2 DEF AcceptorMessage
<1>18. CASE HandshakeOk
  <2>1. Get(acceptor_msg) \in Streams
    BY <1>18, <1>a, OptionCases DEF HandshakeOk, ListenTyped
  <2>2. ListenTyped'
    BY <1>18, <1>a DEF HandshakeOk, ListenTyped, listenerVars
  <2>3. ConnTyped'
    BY <1>18, <1>a, <2>1 DEF HandshakeOk, ConnTyped
  <2>4. PasserTyped'
    BY <1>18, <1>a, <2>1 DEF HandshakeOk, PasserTyped
  <2> QED
    BY <1>18, <1>b, <1>c, <2>2, <2>3, <2>4 DEF HandshakeOk
<1>19. CASE HandshakeFails
  <2>1. ListenTyped'
    BY <1>19, <1>a, <1>0 DEF HandshakeFails, ListenTyped, listenerVars
  <2> QED
    BY <1>19, <1>b, <1>c, <1>d, <2>1 DEF HandshakeFails
<1>20. CASE PassNewConnection
  <2>1. Get(acceptor_msg) \in Streams
    BY <1>20, <1>a, OptionCases DEF PassNewConnection, ListenTyped
  <2>2. Some(NewConnection(Get(acceptor_msg))) \in Option(Calls \cup TaskMessages)
    BY <2>1, SomeInOption DEF TaskMessages
  <2>3. RxTyped'
    BY <1>20, <1>a, <2>2 DEF PassNewConnection, RxTyped
  <2>4. ListenTyped'
    BY <1>20, <1>a, <1>0, NoneInOption
       DEF PassNewConnection, ListenTyped, listenerVars
  <2> QED
    BY <1>20, <1>b, <1>c, <1>d, <2>3, <2>4 DEF PassNewConnection
<1>21. ASSUME NEW s \in Streams, ListenerAccept(s) PROVE TypeInv'
  <2>1. ListenTyped'
    BY <1>21, <1>a, SomeInOption, SomeIsNotNone
       DEF ListenerAccept, ListenTyped, acceptorVars
  <2> QED
    BY <1>21, <1>b, <1>c, <1>d, <2>1 DEF ListenerAccept
<1>22. ASSUME NEW s \in Streams, ConnTake(s) PROVE TypeInv'
  <2>1. conn_rx' \in [Streams -> Option(Requests \cup Events \cup {CloseMsg})]
    BY <1>22, <1>a, <1>0 DEF ConnTake, HeldTyped
  <2>2. pending' \in [Streams -> SUBSET Requests]
    <3>1. \/ pending' = pending
          \/ /\ Get(conn_rx[s]) \in Requests
             /\ pending' = [pending EXCEPT ![s] = @ \cup {Get(conn_rx[s])}]
      BY <1>22 DEF ConnTake
    <3>2. Get(conn_rx[s]) \in Requests
            => pending[s] \cup {Get(conn_rx[s])} \in SUBSET Requests
      BY <1>a DEF HeldTyped
    <3> QED
      BY <1>a, <3>1, <3>2 DEF HeldTyped
  <2>3. HeldTyped'
    BY <1>22, <1>a, <2>1, <2>2 DEF ConnTake, HeldTyped
  <2>4. ConnTyped'
    BY <1>22, <1>a DEF ConnTake, ConnTyped
  <2>5. CallsTyped'
    <3>1. UNCHANGED oneshot \/ \E R : oneshot' = Resolve(R, "Dropped")
      BY <1>22 DEF ConnTake
    <3> QED
      BY <1>22, <1>c, <1>e, <3>1 DEF ConnTake, callVars
  <2> QED
    BY <1>22, <1>b, <1>c, <2>3, <2>4, <2>5 DEF ConnTake
<1>23. ASSUME NEW s \in Streams, ConnReply(s) PROVE TypeInv'
  <2>1. CallsTyped'
    BY <1>23, <1>e DEF ConnReply
  <2>2. HeldTyped'
    BY <1>23, <1>a DEF ConnReply, HeldTyped
  <2> QED
    BY <1>23, <1>b, <1>c, <2>1, <2>2 DEF ConnReply
<1>24. ASSUME NEW s \in Streams, ConnRead(s) PROVE TypeInv'
  <2>1. read[s] + 1 \in 1 .. MaxMessages /\ read[s] + 1 \in 0 .. MaxMessages
    BY <1>24, <1>a, ServerAssumption DEF ConnRead, HeldTyped
  <2>2. /\ Some(Message(read[s] + 1)) \in Option(ConnectionEvents)
        /\ Some(Message(read[s] + 1)) # None
    BY <2>1, SomeInOption, SomeIsNotNone DEF ConnectionEvents
  <2>3. HeldTyped'
    BY <1>24, <1>a, <2>1 DEF ConnRead, HeldTyped
  <2>4. ConnTyped'
    BY <1>24, <1>a, <2>2 DEF ConnRead, ConnTyped
  <2> QED
    BY <1>24, <1>b, <1>c, <2>3, <2>4 DEF ConnRead
<1>25. ASSUME NEW s \in Streams, ConnPeerClose(s) PROVE TypeInv'
  <2>1. ConnTyped'
    BY <1>25, <1>a DEF ConnPeerClose, ConnTyped
  <2> QED
    BY <1>25, <1>b, <1>c, <2>1 DEF ConnPeerClose
<1>26. ASSUME NEW s \in Streams, ConnClose(s) PROVE TypeInv'
  <2>1. Some(CloseMsg) \in Option(ConnectionEvents) /\ Some(CloseMsg) # None
    BY SomeInOption, SomeIsNotNone DEF ConnectionEvents
  <2>2. CallsTyped'
    BY <1>26, <1>e DEF ConnClose
  <2>3. HeldTyped'
    BY <1>26, <1>a DEF ConnClose, HeldTyped
  <2>4. ConnTyped'
    BY <1>26, <1>a, <2>1 DEF ConnClose, ConnTyped
  <2> QED
    BY <1>26, <1>b, <1>c, <2>2, <2>3, <2>4 DEF ConnClose
<1>27. ASSUME NEW s \in Streams, ConnEmit(s) PROVE TypeInv'
  <2>1. CallsTyped'
    <3>1. UNCHANGED oneshot \/ \E R : oneshot' = Resolve(R, "Dropped")
      BY <1>27 DEF ConnEmit
    <3> QED
      BY <1>27, <1>c, <1>e, <3>1 DEF ConnEmit, callVars
  <2>2. HeldTyped'
    BY <1>27, <1>a, <1>0 DEF ConnEmit, HeldTyped
  <2>3. conn_msg[s] \in Option(ConnectionEvents)
    BY <1>a DEF ConnTyped
  <2>4. PasserTyped'
    BY <1>27, <1>a, <2>3 DEF ConnEmit, PasserTyped
  <2>5. ConnTyped'
    BY <1>27, <1>a, <1>0 DEF ConnEmit, ConnTyped
  <2> QED
    BY <1>27, <1>b, <1>c, <2>1, <2>2, <2>4, <2>5 DEF ConnEmit
<1>28. ASSUME NEW s \in Streams, PasserRecv(s) PROVE TypeInv'
  <2>1. event_rx[s] \in Option(ConnectionEvents)
    BY <1>a DEF PasserTyped
  <2>2. PasserTyped'
    BY <1>28, <1>a, <1>0, <2>1 DEF PasserRecv, PasserTyped
  <2> QED
    BY <1>28, <1>b, <1>c, <2>2 DEF PasserRecv, connVars
<1>29. ASSUME NEW s \in Streams, PasserPass(s) PROVE TypeInv'
  <2>1. Get(passer_msg[s]) \in ConnectionEvents
    BY <1>29, <1>a, OptionCases DEF PasserPass, PasserTyped
  <2>2. Some(ConnectionEvent(s, Get(passer_msg[s])))
            \in Option(Calls \cup TaskMessages)
    BY <2>1, SomeInOption DEF TaskMessages
  <2>3. RxTyped'
    BY <1>29, <1>a, <2>2 DEF PasserPass, RxTyped
  <2>4. PasserTyped'
    BY <1>29, <1>a, <1>0 DEF PasserPass, PasserTyped
  <2> QED
    BY <1>29, <1>b, <1>c, <2>3, <2>4 DEF PasserPass, connVars
<1>30. ASSUME NEW c \in Calls, Accept(c) PROVE TypeInv'
  <2>1. CallsTyped'
    BY <1>30, <1>a DEF Accept, CallsTyped
  <2>2. RxTyped'
    BY <1>30, SomeInOption DEF Accept, RxTyped
  <2> QED
    BY <1>30, <1>b, <1>c, <1>d, <2>1, <2>2 DEF Accept
<1>31. ASSUME NEW c \in Calls, Refuse(c) \/ (c \in Asks /\ Return(c)) \/ Timeout(c)
       PROVE TypeInv'
  <2>1. CallsTyped'
    BY <1>31, <1>a DEF Refuse, Return, Timeout, CallsTyped
  <2> QED
    BY <1>31, <1>b, <1>c, <1>d, <2>1 DEF Refuse, Return, Timeout
<1>32. CASE HandleDrop
  <2>1. CallsTyped'
    BY <1>32, <1>a DEF HandleDrop, CallsTyped
  <2> QED
    BY <1>32, <1>b, <1>c, <1>d, <2>1 DEF HandleDrop
<1>33. CASE UserRecv
  <2>1. Head(tx) \in ServerEvents /\ Tail(tx) \in Seq(ServerEvents)
    BY <1>33, <1>a DEF UserRecv, UserTyped
  <2>2. delivered' \in Seq(ServerEvents)
    BY <1>33, <1>a, <2>1, AppendType DEF UserRecv, UserTyped
  <2>3. UserTyped'
    BY <1>33, <1>a, <2>1, <2>2 DEF UserRecv, UserTyped
  <2> QED
    BY <1>33, <1>b, <1>c, <1>d, <2>3 DEF UserRecv
<1>34. CASE UserDrop
  <2>1. UserTyped'
    BY <1>34, <1>a DEF UserDrop, UserTyped
  <2> QED
    BY <1>34, <1>b, <1>c, <1>d, <2>1 DEF UserDrop
<1>35. ASSUME NEW s \in Streams, ConnSent(s) PROVE TypeInv'
  <2>1. ConnTyped'
    BY <1>35, <1>a DEF ConnSent, ConnTyped
  <2> QED
    BY <1>35, <1>b, <1>c, <2>1 DEF ConnSent
<1>36. CASE UNCHANGED vars
  BY <1>36, <1>b, <1>c, <1>d DEF vars
<1> QED
  BY <1>1, <1>2, <1>3, <1>4, <1>5, <1>6, <1>7, <1>8, <1>9, <1>10, <1>11,
     <1>12, <1>13, <1>14, <1>15, <1>16, <1>17, <1>18, <1>19, <1>20, <1>21,
     <1>22, <1>23, <1>24, <1>25, <1>26, <1>27, <1>28, <1>29, <1>30, <1>31,
     <1>32, <1>33, <1>34, <1>35, <1>36
     DEF Next, ServerStep, ListenerStep, AcceptorStep, ClientStep, ConnStep,
         SenderStep, PasserStep, CallerStep, Calls, Asks

(* Every variable of the server keeps its type: in particular a task that    *)
(* hands a message on has one, and a call is forwarded only to a connection  *)
(* that is listed.                                                           *)
THEOREM TypeCorrect == Spec => []TypeOK
<1>1. TypeInv => TypeOK
  BY DEF TypeInv
<1> QED
  BY <1>1, TypeInit, TypeNext, PTL DEF Spec

-----------------------------------------------------------------------------
(* The cyclic waits of the server. *)

Handshaking(s) == acceptor = "handshake" /\ acceptor_msg = Some(s)

(* A stream waits in one place, in the network, with the Listener, in the    *)
(* Acceptor's channel or in its handshake, and only then has it no           *)
(* connection yet: no handshake starts a connection a second time.           *)
StreamInv ==
    /\ \A s \in fresh : /\ conn[s] = "none" /\ listener_msg # Some(s)
                        /\ acceptor_rx # Some(NewStream(s)) /\ ~Handshaking(s)
    /\ \A s \in Streams : listener_msg = Some(s) =>
            /\ conn[s] = "none"
            /\ acceptor_rx # Some(NewStream(s)) /\ ~Handshaking(s)
    /\ \A s \in Streams : acceptor_rx = Some(NewStream(s)) =>
            conn[s] = "none" /\ ~Handshaking(s)
    /\ \A s \in Streams : Handshaking(s) => conn[s] = "none"

(* A stream is told by its message to the Acceptor. *)
LEMMA NewStreamInjective ==
    \A s, t : Some(NewStream(s)) = Some(NewStream(t)) => s = t
<1>1. \A s : Get(Some(NewStream(s))).stream = s
  BY GetSome DEF NewStream
<1> QED
  BY <1>1

(* Every step keeps the streams apart. *)
LEMMA StreamNext == TypeInv /\ StreamInv /\ [Next]_vars => StreamInv'
<1> SUFFICES ASSUME TypeInv, StreamInv, [Next]_vars PROVE StreamInv'
  OBVIOUS
<1> USE DEF StreamInv, Handshaking
<1>1. CASE /\ UNCHANGED <<fresh, listener_msg, acceptor, acceptor_msg>>
           /\ UNCHANGED acceptor_rx \/ acceptor_rx' = Some(CloseMsg)
           /\ \A s \in Streams : conn[s] = "none" => conn'[s] = "none"
  BY <1>1, MessagesDiffer DEF TypeInv, TypeOK
<1>2. CASE HandleNewStream
  <2>1. PICK s \in Streams : listener_msg = Some(s) /\ Get(listener_msg) = s
    BY <1>2, OptionCases DEF HandleNewStream, TypeInv, TypeOK, Carried
  <2>2. \/ acceptor_rx' = Some(NewStream(s))
        \/ acceptor_rx' = acceptor_rx
    BY <1>2, <2>1 DEF HandleNewStream
  <2>3. /\ listener_msg' = None
        /\ UNCHANGED <<fresh, acceptor, acceptor_msg, conn>>
    BY <1>2 DEF HandleNewStream, linkVars, connVars
  <2> QED
    BY <2>1, <2>2, <2>3, SomeIsNotNone, NewStreamInjective
<1>3. ASSUME NEW s \in Streams, ListenerAccept(s) PROVE StreamInv'
  <2>1. /\ s \in fresh /\ fresh' = fresh \ {s} /\ listener_msg' = Some(s)
        /\ UNCHANGED <<acceptor, acceptor_msg, acceptor_rx, conn>>
    BY <1>3 DEF ListenerAccept, acceptorVars, linkVars, connVars
  <2> QED
    BY <2>1, SomeInjective DEF TypeInv, TypeOK
<1>4. CASE AcceptorMessage
  <2>1. /\ acceptor_rx' = None /\ acceptor = "recv"
        /\ UNCHANGED <<fresh, listener_msg, conn>>
    BY <1>4 DEF AcceptorMessage, listenerVars, linkVars, connVars
  <2>2. CASE acceptor' = "done"
    BY <2>1, <2>2, SomeIsNotNone
  <2>3. CASE acceptor' # "done"
    <3>1. PICK s \in Streams : /\ acceptor_rx = Some(NewStream(s))
                               /\ acceptor_msg' = Some(s)
      BY <1>4, <2>3 DEF AcceptorMessage
    <3>2. \A t \in Streams : Handshaking(t)' => t = s
      BY <3>1, SomeInjective
    <3> QED
      BY <2>1, <3>1, <3>2, SomeIsNotNone DEF TypeInv, TypeOK
  <2> QED
    BY <2>2, <2>3
<1>5. CASE HandshakeOk
  <2>1. PICK s \in Streams : acceptor_msg = Some(s) /\ Get(acceptor_msg) = s
    BY <1>5, OptionCases DEF HandshakeOk, TypeInv, TypeOK, Carried
  <2>2. /\ acceptor = "handshake" /\ acceptor' = "new_connection"
        /\ conn' = [conn EXCEPT ![s] = "run"]
        /\ UNCHANGED <<fresh, listener_msg, acceptor_rx, acceptor_msg>>
    BY <1>5, <2>1 DEF HandshakeOk, listenerVars
  <2> QED
    BY <2>1, <2>2 DEF TypeInv, TypeOK
<1>6. CASE HandshakeFails \/ PassNewConnection
  <2>1. /\ acceptor' # "handshake"
        /\ acceptor_rx' = acceptor_rx \/ acceptor_rx' = None
        /\ UNCHANGED <<fresh, listener_msg, conn>>
    BY <1>6 DEF HandshakeFails, PassNewConnection, listenerVars, linkVars,
                connVars
  <2> QED
    BY <2>1, SomeIsNotNone
<1>7. CASE ServerStep
  BY <1>1, <1>7
     DEF ServerStep, RecvClose, RecvGetListenAddress, AskAddr, GotAddr,
         RecvGetClients, RecvSend, ForwardToConnection, RecvNewConnection,
         RecvConnectionEvent, EmitEvent, CloseConnection, ConnectionsClosed,
         CloseAcceptor, CloseListener, listenVars, listenerVars, acceptorVars,
         linkVars, connVars
<1>8. CASE ListenerMessage
  BY <1>1, <1>8 DEF ListenerMessage, acceptorVars, linkVars, connVars
<1>9. ASSUME NEW s \in Streams,
             \/ ConnReply(s) \/ ConnRead(s) \/ ConnPeerClose(s)
             \/ ConnStep(s) \/ SenderStep(s)
      PROVE  StreamInv'
  <2>1. UNCHANGED listenVars
    BY <1>9
       DEF ConnReply, ConnRead, ConnPeerClose, ConnStep, ConnTake, ConnEmit,
           SenderStep, ConnSent, ConnClose
  <2>2. conn[s] # "none" /\ \A t \in Streams \ {s} : conn'[t] = conn[t]
    BY <1>9
       DEF ConnReply, ConnRead, ConnPeerClose, ConnStep, ConnTake, ConnEmit,
           SenderStep, ConnSent, ConnClose, TypeInv, TypeOK
  <2> QED
    BY <1>1, <2>1, <2>2 DEF listenVars, listenerVars, acceptorVars
<1>10. CASE UNCHANGED <<listenVars, conn>>
  BY <1>1, <1>10 DEF listenVars, listenerVars, acceptorVars
<1>11. ASSUME NEW s \in Streams, PasserStep(s) PROVE StreamInv'
  BY <1>10, <1>11 DEF PasserStep, PasserRecv, PasserPass, connVars
<1>12. ASSUME NEW c, CallerStep(c) \/ Timeout(c) PROVE StreamInv'
  BY <1>10, <1>12
     DEF CallerStep, Accept, Refuse, Return, Timeout, linkVars, connVars
<1>13. CASE HandleDrop \/ UserRecv \/ UserDrop \/ UNCHANGED vars
  BY <1>10, <1>13 DEF HandleDrop, UserRecv, UserDrop, vars, linkVars, connVars
<1> QED
  BY <1>2, <1>3, <1>4, <1>5, <1>6, <1>7, <1>8, <1>9, <1>11, <1>12, <1>13
     DEF Next, ListenerStep, AcceptorStep, ClientStep

(* What the server waits for in a blocked connection does not change by a    *)
(* step of any other task.                                                   *)
LEMMA BlockedConnection ==
    ASSUME TypeInv, StreamInv, NEW s \in Streams, ConnectionBlocked(s),
           server # "done", [Next]_vars, ~ServerStep
    PROVE  ConnectionBlocked(s)' /\ UNCHANGED serverVars
<1> USE DEF ConnectionBlocked
<1>1. CASE UNCHANGED <<rx, serverVars, linkVars>>
  BY <1>1 DEF linkVars, connVars, passerVars
<1>2. CASE ListenerStep
  BY <1>1, <1>2 DEF ListenerStep, HandleNewStream, ListenerMessage
<1>3. CASE AcceptorStep
  <2>1. UNCHANGED <<serverVars, linkVars>> /\ rx' # None
    BY <1>3, SomeIsNotNone
       DEF AcceptorStep, AcceptorMessage, PassNewConnection
  <2> QED
    BY <2>1 DEF linkVars, connVars, passerVars
<1>4. CASE HandshakeOk
  <2>1. Handshaking(Get(acceptor_msg)) /\ Get(acceptor_msg) \in Streams
    BY <1>4, OptionCases
       DEF HandshakeOk, Handshaking, TypeInv, TypeOK, Carried
  <2>2. Get(acceptor_msg) # s
    BY <2>1 DEF StreamInv
  <2> QED
    BY <1>4, <2>1, <2>2 DEF HandshakeOk, TypeInv, TypeOK
<1>5. CASE HandshakeFails \/ \E t \in Streams : ListenerAccept(t)
  BY <1>1, <1>5 DEF HandshakeFails, ListenerAccept
<1>6. ASSUME NEW t \in Streams,
             \/ ConnReply(t) \/ ConnRead(t) \/ ConnPeerClose(t)
             \/ ConnStep(t) \/ SenderStep(t)
      PROVE  ConnectionBlocked(s)' /\ UNCHANGED serverVars
  <2>1. CASE t = s
    BY <1>6, <2>1
       DEF ConnReply, ConnRead, ConnPeerClose, ConnStep, ConnTake, ConnEmit,
           SenderStep, ConnSent, ConnClose
  <2>2. CASE t # s
    <3>1. UNCHANGED <<rx, serverVars, passer>>
      BY <1>6
         DEF ConnReply, ConnRead, ConnPeerClose, ConnStep, ConnTake, ConnEmit,
             SenderStep, ConnSent, ConnClose, passerVars
    <3>2. conn'[s] = conn[s] /\ conn_rx'[s] = conn_rx[s]
      BY <1>6, <2>2
         DEF ConnReply, ConnRead, ConnPeerClose, ConnStep, ConnTake, ConnEmit,
             SenderStep, ConnSent, ConnClose, TypeInv, TypeOK
    <3>3. event_rx'[s] = event_rx[s]
      BY <1>6, <2>2
         DEF ConnReply, ConnRead, ConnPeerClose, ConnStep, ConnTake, ConnEmit,
             SenderStep, ConnSent, ConnClose, passerVars, TypeInv, TypeOK
    <3> QED
      BY <3>1, <3>2, <3>3
  <2> QED
    BY <2>1, <2>2
<1>7. ASSUME NEW t \in Streams, PasserStep(t)
      PROVE  ConnectionBlocked(s)' /\ UNCHANGED serverVars
  <2>1. UNCHANGED <<serverVars, connVars>> /\ rx' # None
    BY <1>7, SomeIsNotNone DEF PasserStep, PasserRecv, PasserPass
  <2>2. passer'[s] = passer[s] /\ event_rx'[s] = event_rx[s]
    BY <1>7 DEF PasserStep, PasserRecv, PasserPass, TypeInv, TypeOK
  <2> QED
    BY <2>1, <2>2 DEF connVars
<1>8. ASSUME NEW c, CallerStep(c) \/ Timeout(c)
      PROVE  ConnectionBlocked(s)' /\ UNCHANGED serverVars
  BY <1>8, SomeIsNotNone
     DEF CallerStep, Accept, Refuse, Return, Timeout, linkVars, connVars,
         passerVars
<1>9. CASE HandleDrop \/ UserRecv \/ UserDrop \/ UNCHANGED vars
  BY <1>1, <1>9 DEF HandleDrop, UserRecv, UserDrop, vars
<1> QED
  BY <1>2, <1>3, <1>4, <1>5, <1>6, <1>7, <1>8, <1>9 DEF Next, ClientStep

(* Nor does what it waits for in a blocked Acceptor, and the Listener, if it *)
(* waits for the Acceptor, goes on waiting.                                  *)
LEMMA BlockedAcceptor ==
    ASSUME AcceptorBlocked, server # "done", [Next]_vars, ~ServerStep
    PROVE  /\ AcceptorBlocked' /\ UNCHANGED serverVars
           /\ listener = "new_stream" => UNCHANGED listenerVars
<1> USE DEF AcceptorBlocked, listenVars, acceptorVars, listenerVars
<1>1. CASE UNCHANGED <<rx, serverVars, listenVars>>
  BY <1>1
<1>2. CASE ListenerStep
  BY <1>2 DEF ListenerStep, HandleNewStream, ListenerMessage
<1>3. CASE AcceptorStep \/ HandshakeOk \/ HandshakeFails
  BY <1>3 DEF AcceptorStep, AcceptorMessage, PassNewConnection, HandshakeOk,
              HandshakeFails
<1>4. CASE \E s \in Streams : ListenerAccept(s)
  BY <1>4 DEF ListenerAccept
<1>5. CASE \E s \in Streams : \/ ConnReply(s) \/ ConnRead(s)
                              \/ ConnPeerClose(s) \/ ConnStep(s) \/ SenderStep(s)
  BY <1>1, <1>5
     DEF ConnReply, ConnRead, ConnPeerClose, ConnStep, ConnTake, ConnEmit,
         SenderStep, ConnSent, ConnClose
<1>6. CASE \E s \in Streams : PasserStep(s)
  BY <1>6, SomeIsNotNone DEF PasserStep, PasserRecv, PasserPass
<1>7. ASSUME NEW c, CallerStep(c) \/ Timeout(c)
      PROVE  /\ AcceptorBlocked' /\ UNCHANGED serverVars
             /\ UNCHANGED listenerVars
  BY <1>7, SomeIsNotNone DEF CallerStep, Accept, Refuse, Return, Timeout
<1>8. CASE HandleDrop \/ UserRecv \/ UserDrop \/ UNCHANGED vars
  BY <1>1, <1>8 DEF HandleDrop, UserRecv, UserDrop, vars
<1> QED
  BY <1>2, <1>3, <1>4, <1>5, <1>6, <1>7, <1>8 DEF Next, ClientStep

(* The server itself cannot move while it waits, and the others keep it      *)
(* waiting.                                                                  *)
LEMMA ServerWaitNext ==
    TypeInv /\ StreamInv /\ ServerWait /\ [Next]_vars => ServerWait'
<1> SUFFICES ASSUME TypeInv, StreamInv, ServerWait, [Next]_vars
             PROVE  ServerWait'
  OBVIOUS
<1> USE DEF serverVars
<1>1. CASE /\ server = "forward"
           /\ ConnectionBlocked(Get(connections[To[Get(server_call)]]))
  <2> DEFINE s == Get(connections[To[Get(server_call)]])
  <2>1. s \in Streams
    <3>1. PICK c \in Requests \cup Events :
                    server_call = Some(c) /\ connections[To[c]] # None
      BY <1>1 DEF TypeInv, Carried
    <3>2. Get(server_call) = c /\ To[c] \in Addrs
      BY <3>1, GetSome, ServerAssumption
    <3> QED
      BY <3>1, <3>2, OptionCases DEF TypeInv, TypeOK
  <2>2. conn[s] # "done" /\ conn_rx[s] # None
    BY <1>1 DEF ConnectionBlocked
  <2>3. ~ForwardToConnection
    BY <2>2 DEF ForwardToConnection
  <2>4. ~ServerStep
    BY <1>1, <2>3
       DEF ServerStep, RecvClose, RecvGetListenAddress, AskAddr, GotAddr,
           RecvGetClients, RecvSend, RecvNewConnection, RecvConnectionEvent,
           EmitEvent, CloseConnection, ConnectionsClosed, CloseAcceptor,
           CloseListener
  <2>5. PICK t \in Streams : t = s
    BY <2>1
  <2>6. ConnectionBlocked(t)
    BY <1>1, <2>5
  <2>7. ConnectionBlocked(t)' /\ UNCHANGED serverVars
    BY <1>1, <2>4, <2>6, BlockedConnection
  <2>8. Get(connections[To[Get(server_call)]])' = t
    BY <2>5, <2>7
  <2> QED
    BY <1>1, <2>7, <2>8 DEF ServerWait, ConnectionBlocked
<1>2. CASE /\ server = "close_conns" /\ closing # << >>
           /\ ConnectionBlocked(Head(closing))
  <2>1. Head(closing) \in Streams
    BY <1>2 DEF TypeInv, TypeOK
  <2>2. ~ServerStep
    BY <1>2
       DEF ConnectionBlocked, ServerStep, RecvClose, RecvGetListenAddress,
           AskAddr, GotAddr, RecvGetClients, RecvSend, ForwardToConnection,
           RecvNewConnection, RecvConnectionEvent, EmitEvent, CloseConnection,
           ConnectionsClosed, CloseAcceptor, CloseListener
  <2>3. PICK t \in Streams : t = Head(closing)
    BY <2>1
  <2>4. ConnectionBlocked(t)
    BY <1>2, <2>3
  <2>5. ConnectionBlocked(t)' /\ UNCHANGED serverVars
    BY <1>2, <2>2, <2>4, BlockedConnection
  <2>6. Head(closing)' = t
    BY <2>3, <2>5
  <2> QED
    BY <1>2, <2>5, <2>6 DEF ServerWait, ConnectionBlocked
<1>3. CASE server = "close_acceptor" /\ AcceptorBlocked
  <2>1. ~ServerStep
    BY <1>3
       DEF AcceptorBlocked, ServerStep, RecvClose, RecvGetListenAddress,
           AskAddr, GotAddr, RecvGetClients, RecvSend, ForwardToConnection,
           RecvNewConnection, RecvConnectionEvent, EmitEvent, CloseConnection,
           ConnectionsClosed, CloseAcceptor, CloseListener
  <2> QED
    BY <1>3, <2>1, BlockedAcceptor DEF ServerWait
<1>4. CASE /\ server = "wait_addr" /\ addr_reply = "none"
           /\ listener = "new_stream" /\ AcceptorBlocked
  <2>1. ~ServerStep
    BY <1>4
       DEF ServerStep, RecvClose, RecvGetListenAddress, AskAddr, GotAddr,
           RecvGetClients, RecvSend, ForwardToConnection, RecvNewConnection,
           RecvConnectionEvent, EmitEvent, CloseConnection, ConnectionsClosed,
           CloseAcceptor, CloseListener
  <2> QED
    BY <1>4, <2>1, BlockedAcceptor DEF ServerWait, listenerVars
<1> QED
  BY <1>1, <1>2, <1>3, <1>4 DEF ServerWait

(* Once the server waits for a task that waits for the server, through a     *)
(* connection and its passer, through the Acceptor, or through Listener and  *)
(* Acceptor, no step of any task, caller, user or client ends the wait, for  *)
(* any number of streams and calls: the server answers nobody again.         *)
THEOREM ServerWaitForever == Spec => ServerWaitIsForever
<1>1. Init => StreamInv
  BY SomeIsNotNone DEF Init, StreamInv, Handshaking
<1>2. TypeInv /\ StreamInv /\ [Next]_vars => [ServerWait => ServerWait']_vars
  BY ServerWaitNext
<1> QED
  BY <1>1, <1>2, TypeInit, TypeNext, StreamNext, PTL
     DEF Spec, ServerWaitIsForever
=============================================================================
