------------------------------- MODULE Server -------------------------------
(***************************************************************************)
(* The websocket server: the task Server::run, the Listener that accepts   *)
(* TCP streams, the Acceptor that upgrades them, one passer per connection *)
(* that carries the connection's events to the server, and the callers     *)
(* that hold a ServerHandle.                                               *)
(*                                                                         *)
(* As in module Connection, a task advances from one await to the next in  *)
(* one step and its variable names the await it is suspended at.  A        *)
(* connection, with its Sender and Receiver, is reduced to what the server *)
(* sees of it: the channel of its handle, the requests it has not answered *)
(* and the event channel that its passer drains.  Its Sender may keep it   *)
(* waiting as long as it likes.                                            *)
(***************************************************************************)
EXTENDS Channel, Naturals, Sequences, FiniteSets

CONSTANTS
    Streams,        \* TCP streams that clients open
    Addrs,          \* client addresses
    AddrOf,         \* the address a stream comes from
    Requests,       \* calls of ServerHandle::request and request_timeout
    TimedRequests,  \* the ones of them made through request_timeout
    Events,         \* calls of ServerHandle::event
    To,             \* the address a request or an event is meant for
    AddrCalls,      \* calls of get_listen_address
    ClientCalls,    \* calls of get_clients
    Closers,        \* calls of ServerHandle::close
    EventCap,       \* capacity of the server's event channel
    MaxMessages     \* bound: requests and events a client sends

ASSUME ServerAssumption ==
    /\ IsFiniteSet(Streams)
    /\ AddrOf \in [Streams -> Addrs]
    /\ To \in [Requests \cup Events -> Addrs]
    /\ TimedRequests \subseteq Requests
    /\ EventCap \in Nat \ {0}
    /\ MaxMessages \in Nat

VARIABLES
    call,           \* what each call of the handle is doing or has returned
    oneshot,        \* the oneshot of a call that waits for an answer
    handle,         \* whether the user still holds a ServerHandle
    rx,             \* channel of ServerMessages
    server,         \* Server::run
    server_event,   \* the ServerEvent it is passing to the user
    server_call,    \* the call it is serving across an await
    connections,    \* HashMap<SocketAddr, ConnectionHdl>
    closing,        \* connections still to be closed, in the map's order
    listener, listener_msg, listener_rx,    \* Listener::run
    addr_reply,     \* the oneshot of ListenerHandle::get_addr
    acceptor, acceptor_msg, acceptor_rx,    \* Acceptor::run
    fresh,          \* streams no client has opened yet
    conn, conn_msg, \* Connection::run of each stream
    conn_rx,        \* channel ConnectionHdl -> Connection
    pending,        \* the requests in its reply_map
    read,           \* messages it has read from its client
    event_rx,       \* channel Connection -> passer
    passer, passer_msg,     \* pass_messages of each stream
    tx,             \* the channel of ServerEvents, drained by the user
    user,           \* whether the user still holds its receiver
    delivered,      \* history: ServerEvents the user has received
    seen_close      \* history: streams whose Close the server has handled

callVars == <<call, oneshot, handle>>
serverVars == <<server, server_event, server_call, connections, closing>>
listenerVars == <<listener, listener_msg, listener_rx, addr_reply>>
acceptorVars == <<acceptor, acceptor_msg, acceptor_rx>>
listenVars == <<listenerVars, acceptorVars, fresh>>
connVars == <<conn, conn_msg, conn_rx, pending, read>>
passerVars == <<event_rx, passer, passer_msg>>
linkVars == <<connVars, passerVars>>
userVars == <<tx, user, delivered, seen_close>>
vars == <<callVars, rx, serverVars, listenVars, linkVars, userVars>>

-----------------------------------------------------------------------------
(* Messages. *)

Asks == Requests \cup AddrCalls \cup ClientCalls
Calls == Asks \cup Events \cup Closers

(* connection::ConnectionEvent.  Requests and events of a client are passed *)
(* on alike; the n-th one read from it is numbered n.                       *)
Message(n) == [kind |-> "Message", n |-> n]
ConnectionEvents == {Message(n) : n \in 1 .. MaxMessages} \cup {CloseMsg}

(* ServerMessage: the calls themselves, and what the Acceptor and the       *)
(* passers send.  A sender is named by its stream, which gives its address. *)
NewConnection(s) == [kind |-> "NewConnection", from |-> s]
ConnectionEvent(s, e) == [kind |-> "ConnectionEvent", from |-> s, event |-> e]
TaskMessages == {NewConnection(s) : s \in Streams}
    \cup {ConnectionEvent(s, e) : s \in Streams, e \in ConnectionEvents}

(* A call that waits for an answer is not one of event or close, and the    *)
(* variants of ServerMessage and ConnectionMessage are told apart.          *)
ASSUME CallsAssumption ==
    /\ Asks \cap (Events \cup Closers) = {}
    /\ Calls \cap TaskMessages = {}
    /\ CloseMsg \notin Calls

(* ServerEvent::NewConnection, and ConnectionClose, ConnectionRequest and   *)
(* ConnectionEvent, which are the event itself with its address.            *)
ServerEvents == TaskMessages

NewStream(s) == [kind |-> "NewStream", stream |-> s]
GetAddress == [kind |-> "GetAddress"]

LoopStates == {"recv", "event", "forward", "ask_addr", "wait_addr"}
ServerStates == LoopStates \cup
    {"close_conns", "close_acceptor", "close_listener", "done"}

TypeOK ==
    /\ call \in [Calls -> {"sending", "waiting", "Ok", "SendError",
                           "RecvError", "Canceled", "Timeout"}]
    /\ oneshot \in [Asks -> {"open", "Ok", "Canceled", "Dropped"}]
    /\ handle \in {"held", "dropped"}
    /\ rx \in Option(Calls \cup TaskMessages)
    /\ server \in ServerStates
    /\ server_event \in Option(ServerEvents)
    /\ server_call \in Option(Calls)
    /\ connections \in [Addrs -> Option(Streams)]
    /\ closing \in Seq(Streams)
    /\ listener \in {"select", "new_stream", "done"}
    /\ listener_msg \in Option(Streams)
    /\ listener_rx \in Option({GetAddress, CloseMsg})
    /\ addr_reply \in {"none", "sent"}
    /\ acceptor \in {"recv", "handshake", "new_connection", "done"}
    /\ acceptor_msg \in Option(Streams)
    /\ acceptor_rx \in Option({NewStream(s) : s \in Streams} \cup {CloseMsg})
    /\ fresh \in SUBSET Streams
    /\ conn \in [Streams -> {"none", "run", "send", "emit", "close", "done"}]
    /\ conn_msg \in [Streams -> Option(ConnectionEvents)]
    /\ conn_rx \in [Streams -> Option(Requests \cup Events \cup {CloseMsg})]
    /\ pending \in [Streams -> SUBSET Requests]
    /\ read \in [Streams -> 0 .. MaxMessages]
    /\ event_rx \in [Streams -> Option(ConnectionEvents)]
    /\ passer \in [Streams -> {"none", "recv", "pass", "done"}]
    /\ passer_msg \in [Streams -> Option(ConnectionEvents)]
    /\ tx \in Seq(ServerEvents)
    /\ user \in {"listening", "gone"}
    /\ delivered \in Seq(ServerEvents)
    /\ seen_close \in SUBSET Streams

Init ==
    /\ call = [c \in Calls |-> "sending"]
    /\ oneshot = [c \in Asks |-> "open"]
    /\ handle = "held"
    /\ rx = None
    /\ server = "recv" /\ server_event = None /\ server_call = None
    /\ connections = [a \in Addrs |-> None] /\ closing = << >>
    /\ listener = "select" /\ listener_msg = None /\ listener_rx = None
    /\ addr_reply = "none"
    /\ acceptor = "recv" /\ acceptor_msg = None /\ acceptor_rx = None
    /\ fresh = Streams
    /\ conn = [s \in Streams |-> "none"]
    /\ conn_msg = [s \in Streams |-> None]
    /\ conn_rx = [s \in Streams |-> None]
    /\ pending = [s \in Streams |-> {}]
    /\ read = [s \in Streams |-> 0]
    /\ event_rx = [s \in Streams |-> None]
    /\ passer = [s \in Streams |-> "none"]
    /\ passer_msg = [s \in Streams |-> None]
    /\ tx = << >> /\ user = "listening" /\ delivered = << >>
    /\ seen_close = {}

-----------------------------------------------------------------------------
(* The callers: ServerHandle.  As in Connection, a call not made yet is one *)
(* that has not reached the channel.                                        *)

(* self.tx.send(..).await succeeds; request, get_listen_address and         *)
(* get_clients go on to wait for their oneshot.                             *)
Accept(c) ==
    /\ call[c] = "sending"
    /\ handle = "held"
    /\ server # "done"
    /\ rx = None
    /\ rx' = Some(c)
    /\ call' = [call EXCEPT ![c] = IF c \in Asks THEN "waiting" ELSE "Ok"]
    /\ UNCHANGED <<oneshot, handle, serverVars, listenVars, linkVars,
                   userVars>>

(* The send fails: the Server dropped its receiver. *)
Refuse(c) ==
    /\ call[c] = "sending"
    /\ handle = "held"
    /\ server = "done"
    /\ call' = [call EXCEPT ![c] = "SendError"]
    /\ UNCHANGED <<oneshot, handle, rx, serverVars, listenVars, linkVars,
                   userVars>>

(* rx.await returns the answer, or RecvError if its sender was dropped. *)
Return(c) ==
    /\ call[c] = "waiting"
    /\ oneshot[c] # "open"
    /\ call' = [call EXCEPT ![c] = IF oneshot[c] = "Dropped" THEN "RecvError"
                                                             ELSE oneshot[c]]
    /\ UNCHANGED <<oneshot, handle, rx, serverVars, listenVars, linkVars,
                   userVars>>

(* request_timeout gives up on a request that is not ready. *)
Timeout(r) ==
    /\ r \in TimedRequests
    /\ handle = "held"
    /\ \/ call[r] = "sending"
       \/ call[r] = "waiting" /\ oneshot[r] = "open"
    /\ call' = [call EXCEPT ![r] = "Timeout"]
    /\ UNCHANGED <<oneshot, handle, rx, serverVars, listenVars, linkVars,
                   userVars>>

(* The user drops the last ServerHandle; a call in progress borrows it. *)
HandleDrop ==
    /\ handle = "held"
    /\ \A c \in Calls : call[c] # "waiting"
    /\ handle' = "dropped"
    /\ UNCHANGED <<call, oneshot, rx, serverVars, listenVars, linkVars,
                   userVars>>

-----------------------------------------------------------------------------
(* Server::run.  The branch of its loop for a closed channel is left out:   *)
(* the Acceptor holds a sender of that channel as long as the loop runs     *)
(* (TasksOutliveLoop).                                                      *)

(* oneshot::Sender::send or drop: it has an effect only while the caller *)
(* waits.                                                                *)
Resolve(R, v) ==
    [c \in Asks |-> IF c \in R /\ call[c] = "waiting" THEN v ELSE oneshot[c]]

Registered == {s \in Streams : connections[AddrOf[s]] = Some(s)}

(* The orders in which the HashMap may yield its entries. *)
Orders(S) ==
    {q \in [1 .. Cardinality(S) -> S] :
        \A s \in S : \E i \in DOMAIN q : q[i] = s}

(* The loop ends: connections.iter() is about to yield its first entry. *)
Break ==
    /\ server' = "close_conns"
    /\ closing' \in Orders(Registered)

(* handle_message, Close. *)
RecvClose ==
    /\ server = "recv"
    /\ \E c \in Closers : rx = Some(c)
    /\ rx' = None
    /\ Break
    /\ UNCHANGED <<callVars, server_event, server_call, connections,
                   listenVars, linkVars, userVars>>

(* handle_message, GetListenAddress: get_addr follows. *)
RecvGetListenAddress ==
    /\ server = "recv"
    /\ \E c \in AddrCalls : rx = Some(c)
    /\ server_call' = rx
    /\ rx' = None
    /\ server' = "ask_addr"
    /\ UNCHANGED <<callVars, server_event, connections, closing, listenVars,
                   linkVars, userVars>>

(* get_addr: the message to the Listener, and the answer from it. *)
AskAddr ==
    /\ server = "ask_addr"
    /\ listener_rx = None
    /\ listener_rx' = Some(GetAddress)
    /\ server' = "wait_addr"
    /\ UNCHANGED <<callVars, rx, server_event, server_call, connections,
                   closing, listener, listener_msg, addr_reply, acceptorVars,
                   fresh, linkVars, userVars>>

(* Mutant: the address is not sent back to the caller. *)
GotAddrUnanswered ==
    /\ server = "wait_addr"
    /\ addr_reply = "sent"
    /\ addr_reply' = "none"
    /\ server_call' = None
    /\ server' = "recv"
    /\ UNCHANGED <<callVars, rx, server_event, connections, closing, listener,
                   listener_msg, listener_rx, acceptorVars, fresh, linkVars,
                   userVars>>

GotAddr ==
    /\ server = "wait_addr"
    /\ addr_reply = "sent"
    /\ addr_reply' = "none"
    /\ oneshot' = Resolve({Get(server_call)}, "Ok")
    /\ server_call' = None
    /\ server' = "recv"
    /\ UNCHANGED <<call, handle, rx, server_event, connections, closing,
                   listener, listener_msg, listener_rx, acceptorVars, fresh,
                   linkVars, userVars>>

(* handle_message, GetClients. *)
RecvGetClients ==
    /\ server = "recv"
    /\ \E c \in ClientCalls :
        /\ rx = Some(c)
        /\ oneshot' = Resolve({c}, "Ok")
    /\ rx' = None
    /\ UNCHANGED <<call, handle, serverVars, listenVars, linkVars, userVars>>

(* handle_message, SendRequest and SendEvent.  An unknown address drops the *)
(* message, and a request's oneshot with it.                                *)
RecvSend ==
    /\ server = "recv"
    /\ \E c \in Requests \cup Events :
        /\ rx = Some(c)
        /\ \/ /\ connections[To[c]] # None
              /\ server_call' = Some(c)
              /\ server' = "forward"
              /\ UNCHANGED oneshot
           \/ /\ connections[To[c]] = None
              /\ oneshot' = Resolve({c}, "Dropped")
              /\ UNCHANGED <<server, server_call>>
    /\ rx' = None
    /\ UNCHANGED <<call, handle, server_event, connections, closing,
                   listenVars, linkVars, userVars>>

(* Mutant: try_send, whose error for a full channel removes the entry. *)
ForwardToConnectionOrRemove ==
    /\ server = "forward"
    /\ LET c == Get(server_call)
           s == Get(connections[To[c]]) IN
        \/ /\ conn[s] # "done"
           /\ conn_rx[s] = None
           /\ conn_rx' = [conn_rx EXCEPT ![s] = Some(c)]
           /\ UNCHANGED <<oneshot, connections>>
        \/ /\ conn[s] = "done" \/ conn_rx[s] # None
           /\ connections' = [connections EXCEPT ![To[c]] = None]
           /\ oneshot' = Resolve({c}, "Dropped")
           /\ UNCHANGED conn_rx
    /\ server' = "recv" /\ server_call' = None
    /\ UNCHANGED <<call, handle, rx, server_event, closing, listenVars, conn,
                   conn_msg, pending, read, passerVars, userVars>>

(* connection_hdl.request_with_sender(..).await or event(..).await; a       *)
(* connection that has ended is removed.                                    *)
ForwardToConnection ==
    /\ server = "forward"
    /\ LET c == Get(server_call)
           s == Get(connections[To[c]]) IN
        \/ /\ conn[s] # "done"
           /\ conn_rx[s] = None
           /\ conn_rx' = [conn_rx EXCEPT ![s] = Some(c)]
           /\ UNCHANGED <<oneshot, connections>>
        \/ /\ conn[s] = "done"
           /\ connections' = [connections EXCEPT ![To[c]] = None]
           /\ oneshot' = Resolve({c}, "Dropped")
           /\ UNCHANGED conn_rx
    /\ server' = "recv" /\ server_call' = None
    /\ UNCHANGED <<call, handle, rx, server_event, closing, listenVars, conn,
                   conn_msg, pending, read, passerVars, userVars>>

(* new_connection up to its await.  A second connection from an address is  *)
(* refused: its handle is dropped and nothing else is done about it.        *)
RecvNewConnection ==
    /\ server = "recv"
    /\ \E s \in Streams :
        /\ rx = Some(NewConnection(s))
        /\ \/ /\ connections[AddrOf[s]] # None
              /\ UNCHANGED <<server, server_event, connections>>
           \/ /\ connections[AddrOf[s]] = None
              /\ connections' = [connections EXCEPT ![AddrOf[s]] = Some(s)]
              /\ server_event' = rx
              /\ server' = "event"
    /\ rx' = None
    /\ UNCHANGED <<callVars, server_call, closing, listenVars, linkVars,
                   userVars>>

(* connection_event up to its await.  Close removes the entry of its        *)
(* address, whichever connection is there.                                  *)
RecvConnectionEvent ==
    /\ server = "recv"
    /\ \E s \in Streams, e \in ConnectionEvents :
        /\ rx = Some(ConnectionEvent(s, e))
        /\ \/ /\ e = CloseMsg
              /\ connections' = [connections EXCEPT ![AddrOf[s]] = None]
              /\ seen_close' = seen_close \cup {s}
           \/ /\ e # CloseMsg
              /\ UNCHANGED <<connections, seen_close>>
    /\ server_event' = rx
    /\ rx' = None
    /\ server' = "event"
    /\ UNCHANGED <<callVars, server_call, closing, listenVars, linkVars, tx,
                   user, delivered>>

(* Mutant: try_send, which drops the event when the user is slow. *)
EmitEventOrDrop ==
    /\ server = "event"
    /\ tx' = IF Len(tx) < EventCap THEN Append(tx, Get(server_event)) ELSE tx
    /\ server' = "recv" /\ server_event' = None
    /\ UNCHANGED <<callVars, rx, server_call, connections, closing, listenVars,
                   linkVars, user, delivered, seen_close>>

(* self.tx.send(..).await.  A user that is gone ends the loop, unless the   *)
(* event was NewConnection.                                                 *)
EmitEvent ==
    /\ server = "event"
    /\ \/ /\ user = "listening"
          /\ Len(tx) < EventCap
          /\ tx' = Append(tx, Get(server_event))
          /\ server' = "recv"
          /\ UNCHANGED closing
       \/ /\ user = "gone"
          /\ Get(server_event).kind = "NewConnection"
          /\ server' = "recv"
          /\ UNCHANGED <<tx, closing>>
       \/ /\ user = "gone"
          /\ Get(server_event).kind # "NewConnection"
          /\ Break
          /\ UNCHANGED tx
    /\ server_event' = None
    /\ UNCHANGED <<callVars, rx, server_call, connections, listenVars,
                   linkVars, user, delivered, seen_close>>

(* Mutant: only the first connection is closed. *)
CloseFirstConnection ==
    /\ server = "close_conns"
    /\ closing # << >>
    /\ conn_rx[Head(closing)] = None
    /\ conn_rx' = [conn_rx EXCEPT ![Head(closing)] = Some(CloseMsg)]
    /\ closing' = << >>
    /\ UNCHANGED <<callVars, rx, server, server_event, server_call,
                   connections, listenVars, conn, conn_msg, pending, read,
                   passerVars, userVars>>

(* for (addr, connection_hdl) in self.connections.iter(): close().await; an *)
(* error is logged.                                                         *)
CloseConnection ==
    /\ server = "close_conns"
    /\ closing # << >>
    /\ LET s == Head(closing) IN
        \/ /\ conn[s] # "done"
           /\ conn_rx[s] = None
           /\ conn_rx' = [conn_rx EXCEPT ![s] = Some(CloseMsg)]
        \/ /\ conn[s] = "done"
           /\ UNCHANGED conn_rx
    /\ closing' = Tail(closing)
    /\ UNCHANGED <<callVars, rx, server, server_event, server_call,
                   connections, listenVars, conn, conn_msg, pending, read,
                   passerVars, userVars>>

(* Mutant: the server waits for the Acceptor to be idle. *)
ConnectionsClosedAcceptorIdle ==
    /\ server = "close_conns"
    /\ closing = << >>
    /\ acceptor = "recv"
    /\ server' = "close_acceptor"
    /\ UNCHANGED <<callVars, rx, server_event, server_call, connections,
                   closing, listenVars, linkVars, userVars>>

(* The loop over the connections is over. *)
ConnectionsClosed ==
    /\ server = "close_conns"
    /\ closing = << >>
    /\ server' = "close_acceptor"
    /\ UNCHANGED <<callVars, rx, server_event, server_call, connections,
                   closing, listenVars, linkVars, userVars>>

(* self.acceptor_hdl.close().await *)
CloseAcceptor ==
    /\ server = "close_acceptor"
    /\ acceptor_rx = None
    /\ acceptor_rx' = Some(CloseMsg)
    /\ server' = "close_listener"
    /\ UNCHANGED <<callVars, rx, server_event, server_call, connections,
                   closing, listenerVars, acceptor, acceptor_msg, fresh,
                   linkVars, userVars>>

(* Mutant: the message left in the channel is leaked, not dropped. *)
CloseListenerLeaks ==
    /\ server = "close_listener"
    /\ server' = "done"
    /\ rx' = None
    /\ UNCHANGED <<callVars, server_event, server_call, connections, closing,
                   listenVars, linkVars, userVars>>

(* self.listener_hdl.close().await, then run returns and drops its          *)
(* receiver, with the message that may still be in it.                      *)
CloseListener ==
    /\ server = "close_listener"
    /\ \/ /\ listener # "done"
          /\ listener_rx = None
          /\ listener_rx' = Some(CloseMsg)
       \/ /\ listener = "done"
          /\ UNCHANGED listener_rx
    /\ server' = "done"
    /\ rx' = None
    /\ oneshot' = Resolve({c \in Asks : rx = Some(c)}, "Dropped")
    /\ UNCHANGED <<call, handle, server_event, server_call, connections,
                   closing, listener, listener_msg, addr_reply, acceptorVars,
                   fresh, linkVars, userVars>>

-----------------------------------------------------------------------------
(* Listener::run. *)

(* The connection is open, as its client and its user see it. *)
Live(s) ==
    \/ conn[s] \in {"run", "send"}
    \/ conn[s] = "emit" /\ conn_msg[s] # Some(CloseMsg)

(* A stream that came and went: its handshake failed or its connection has  *)
(* closed the websocket.  Only then can its address be used again.          *)
Gone(s) ==
    /\ s \notin fresh
    /\ listener_msg # Some(s)
    /\ acceptor_rx # Some(NewStream(s))
    /\ ~(acceptor = "handshake" /\ acceptor_msg = Some(s))
    /\ ~Live(s) /\ conn[s] # "close"

(* socket.accept() yields a stream; an error is logged and the loop goes on. *)
ListenerAccept(s) ==
    /\ listener = "select"
    /\ s \in fresh
    /\ \A t \in Streams \ fresh : AddrOf[t] = AddrOf[s] => Gone(t)
    /\ fresh' = fresh \ {s}
    /\ listener' = "new_stream" /\ listener_msg' = Some(s)
    /\ UNCHANGED <<callVars, rx, serverVars, listener_rx, addr_reply,
                   acceptorVars, linkVars, userVars>>

(* handle_new_stream: the loop ends when the Acceptor is gone. *)
HandleNewStream ==
    /\ listener = "new_stream"
    /\ \/ /\ acceptor # "done"
          /\ acceptor_rx = None
          /\ acceptor_rx' = Some(NewStream(Get(listener_msg)))
          /\ listener' = "select"
          /\ UNCHANGED listener_rx
       \/ /\ acceptor = "done"
          /\ listener' = "done"
          /\ listener_rx' = None
          /\ UNCHANGED acceptor_rx
    /\ listener_msg' = None
    /\ UNCHANGED <<callVars, rx, serverVars, addr_reply, acceptor,
                   acceptor_msg, fresh, linkVars, userVars>>

(* handle_message: GetAddress is answered, Close ends the loop. *)
ListenerMessage ==
    /\ listener = "select"
    /\ \/ /\ listener_rx = Some(GetAddress)
          /\ addr_reply' = "sent"
          /\ UNCHANGED listener
       \/ /\ listener_rx = Some(CloseMsg)
          /\ listener' = "done"
          /\ UNCHANGED addr_reply
    /\ listener_rx' = None
    /\ UNCHANGED <<callVars, rx, serverVars, listener_msg, acceptorVars,
                   fresh, linkVars, userVars>>

-----------------------------------------------------------------------------
(* Acceptor::run. *)

(* handle_message: a stream is upgraded, Close ends the loop. *)
AcceptorMessage ==
    /\ acceptor = "recv"
    /\ \/ \E s \in Streams :
            /\ acceptor_rx = Some(NewStream(s))
            /\ acceptor' = "handshake" /\ acceptor_msg' = Some(s)
       \/ /\ acceptor_rx = Some(CloseMsg)
          /\ acceptor' = "done" /\ UNCHANGED acceptor_msg
    /\ acceptor_rx' = None
    /\ UNCHANGED <<callVars, rx, serverVars, listenerVars, fresh, linkVars,
                   userVars>>

(* accept_async(..).await succeeds: the connection and its passer start. *)
HandshakeOk ==
    /\ acceptor = "handshake"
    /\ LET s == Get(acceptor_msg) IN
        /\ conn' = [conn EXCEPT ![s] = "run"]
        /\ passer' = [passer EXCEPT ![s] = "recv"]
    /\ acceptor' = "new_connection"
    /\ UNCHANGED <<callVars, rx, serverVars, listenerVars, acceptor_msg,
                   acceptor_rx, fresh, conn_msg, conn_rx, pending, read,
                   event_rx, passer_msg, userVars>>

(* Mutant: a failed handshake ends the Acceptor. *)
HandshakeFailsEnds ==
    /\ acceptor = "handshake"
    /\ acceptor' = "done" /\ acceptor_msg' = None
    /\ UNCHANGED <<callVars, rx, serverVars, listenerVars, acceptor_rx, fresh,
                   linkVars, userVars>>

(* accept_async(..).await fails. *)
HandshakeFails ==
    /\ acceptor = "handshake"
    /\ acceptor' = "recv" /\ acceptor_msg' = None
    /\ UNCHANGED <<callVars, rx, serverVars, listenerVars, acceptor_rx, fresh,
                   linkVars, userVars>>

(* self.server_hdl.new_connection(..).await; without a server the task ends, *)
(* and a stream still in its channel is dropped.                             *)
PassNewConnection ==
    /\ acceptor = "new_connection"
    /\ \/ /\ server # "done"
          /\ rx = None
          /\ rx' = Some(NewConnection(Get(acceptor_msg)))
          /\ acceptor' = "recv"
          /\ UNCHANGED acceptor_rx
       \/ /\ server = "done"
          /\ acceptor' = "done"
          /\ acceptor_rx' = None
          /\ UNCHANGED rx
    /\ acceptor_msg' = None
    /\ UNCHANGED <<callVars, serverVars, listenerVars, fresh, linkVars,
                   userVars>>

-----------------------------------------------------------------------------
(* The connections, as module Connection describes them, and their passers. *)

(* handle_external up to its await: an event or a request goes to the       *)
(* Sender, Close ends the loop.  A request gets an entry in reply_map, or    *)
(* loses its oneshot if the entry of another has its id.                    *)
ConnTake(s) ==
    /\ conn[s] = "run"
    /\ conn_rx[s] # None
    /\ \/ /\ Get(conn_rx[s]) \in Requests
          /\ pending' = [pending EXCEPT ![s] = @ \cup {Get(conn_rx[s])}]
          /\ conn' = [conn EXCEPT ![s] = "send"]
          /\ UNCHANGED oneshot
       \/ /\ Get(conn_rx[s]) \in Requests
          /\ pending[s] # {}
          /\ oneshot' = Resolve({Get(conn_rx[s])}, "Dropped")
          /\ UNCHANGED <<conn, pending>>
       \/ /\ Get(conn_rx[s]) \in Events
          /\ conn' = [conn EXCEPT ![s] = "send"]
          /\ UNCHANGED <<oneshot, pending>>
       \/ /\ conn_rx[s] = Some(CloseMsg)
          /\ conn' = [conn EXCEPT ![s] = "close"]
          /\ UNCHANGED <<oneshot, pending>>
    /\ conn_rx' = [conn_rx EXCEPT ![s] = None]
    /\ UNCHANGED <<call, handle, rx, serverVars, listenVars, conn_msg, read,
                   passerVars, userVars>>

(* self.sender_hdl.send(..).await returns: the Sender, which may be waiting  *)
(* for the client or for the connection itself, had room.                    *)
ConnSent(s) ==
    /\ conn[s] = "send"
    /\ conn' = [conn EXCEPT ![s] = "run"]
    /\ UNCHANGED <<callVars, rx, serverVars, listenVars, conn_msg, conn_rx,
                   pending, read, passerVars, userVars>>

(* handle_internal_reply. *)
ConnReply(s) ==
    /\ conn[s] = "run"
    /\ \E r \in pending[s] :
        /\ pending' = [pending EXCEPT ![s] = @ \ {r}]
        /\ oneshot' = Resolve({r}, "Ok")
    /\ UNCHANGED <<call, handle, rx, serverVars, listenVars, conn, conn_msg,
                   conn_rx, read, passerVars, userVars>>

(* handle_internal_request and handle_internal_event up to their await. *)
ConnRead(s) ==
    /\ conn[s] = "run"
    /\ read[s] < MaxMessages
    /\ read' = [read EXCEPT ![s] = @ + 1]
    /\ conn_msg' = [conn_msg EXCEPT ![s] = Some(Message(read[s] + 1))]
    /\ conn' = [conn EXCEPT ![s] = "emit"]
    /\ UNCHANGED <<callVars, rx, serverVars, listenVars, conn_rx, pending,
                   passerVars, userVars>>

(* InternalMessage::Close, after the client has closed. *)
ConnPeerClose(s) ==
    /\ conn[s] = "run"
    /\ conn' = [conn EXCEPT ![s] = "close"]
    /\ UNCHANGED <<callVars, rx, serverVars, listenVars, conn_msg, conn_rx,
                   pending, read, passerVars, userVars>>

(* Mutant: the requests are not canceled. *)
ConnCloseForgets(s) ==
    /\ conn[s] = "close"
    /\ conn_msg' = [conn_msg EXCEPT ![s] = Some(CloseMsg)]
    /\ conn' = [conn EXCEPT ![s] = "emit"]
    /\ UNCHANGED <<callVars, rx, serverVars, listenVars, conn_rx, pending,
                   read, passerVars, userVars>>

(* close(), whose await of the Sender may never return either, and then      *)
(* cancel_requests().                                                        *)
ConnClose(s) ==
    /\ conn[s] = "close"
    /\ oneshot' = Resolve(pending[s], "Canceled")
    /\ pending' = [pending EXCEPT ![s] = {}]
    /\ conn_msg' = [conn_msg EXCEPT ![s] = Some(CloseMsg)]
    /\ conn' = [conn EXCEPT ![s] = "emit"]
    /\ UNCHANGED <<call, handle, rx, serverVars, listenVars, conn_rx, read,
                   passerVars, userVars>>

(* event_tx.send(..).await, which fails when the passer has ended.  After   *)
(* Close run returns and drops what is still in the connection's channel.   *)
ConnEmit(s) ==
    /\ conn[s] = "emit"
    /\ \/ /\ passer[s] # "done"
          /\ event_rx[s] = None
          /\ event_rx' = [event_rx EXCEPT ![s] = conn_msg[s]]
       \/ /\ passer[s] = "done"
          /\ UNCHANGED event_rx
    /\ \/ /\ conn_msg[s] = Some(CloseMsg)
          /\ conn' = [conn EXCEPT ![s] = "done"]
          /\ conn_rx' = [conn_rx EXCEPT ![s] = None]
          /\ oneshot' = Resolve({r \in Requests : conn_rx[s] = Some(r)},
                                "Dropped")
       \/ /\ conn_msg[s] # Some(CloseMsg)
          /\ conn' = [conn EXCEPT ![s] = IF passer[s] = "done" THEN "close"
                                                              ELSE "run"]
          /\ UNCHANGED <<conn_rx, oneshot>>
    /\ conn_msg' = [conn_msg EXCEPT ![s] = None]
    /\ UNCHANGED <<call, handle, rx, serverVars, listenVars, pending, read,
                   passer, passer_msg, userVars>>

(* pass_messages: rx.recv() yields an event, or None after the connection. *)
PasserRecv(s) ==
    /\ passer[s] = "recv"
    /\ \/ /\ event_rx[s] # None
          /\ passer' = [passer EXCEPT ![s] = "pass"]
          /\ passer_msg' = [passer_msg EXCEPT ![s] = event_rx[s]]
          /\ event_rx' = [event_rx EXCEPT ![s] = None]
       \/ /\ event_rx[s] = None
          /\ conn[s] = "done"
          /\ passer' = [passer EXCEPT ![s] = "done"]
          /\ UNCHANGED <<event_rx, passer_msg>>
    /\ UNCHANGED <<callVars, rx, serverVars, listenVars, connVars, userVars>>

(* Mutant: try_send, which drops the event when the server is busy. *)
PasserPassOrDrop(s) ==
    /\ passer[s] = "pass"
    /\ rx' = IF rx = None /\ server # "done"
               THEN Some(ConnectionEvent(s, Get(passer_msg[s]))) ELSE rx
    /\ passer' = [passer EXCEPT ![s] = "recv"]
    /\ passer_msg' = [passer_msg EXCEPT ![s] = None]
    /\ UNCHANGED <<callVars, serverVars, listenVars, connVars, event_rx,
                   userVars>>

(* Mutant: unbounded channels, which never make a sender wait. *)
PasserPassUnbounded(s) ==
    /\ passer[s] = "pass"
    /\ server # "done"
    /\ rx' = rx \o Some(ConnectionEvent(s, Get(passer_msg[s])))
    /\ passer' = [passer EXCEPT ![s] = "recv"]
    /\ passer_msg' = [passer_msg EXCEPT ![s] = None]
    /\ UNCHANGED <<callVars, serverVars, listenVars, connVars, event_rx,
                   userVars>>

(* Mutant: without a server the passer keeps the connection's events. *)
PasserPassParks(s) ==
    /\ passer[s] = "pass"
    /\ server # "done"
    /\ rx = None
    /\ rx' = Some(ConnectionEvent(s, Get(passer_msg[s])))
    /\ passer' = [passer EXCEPT ![s] = "recv"]
    /\ passer_msg' = [passer_msg EXCEPT ![s] = None]
    /\ UNCHANGED <<callVars, serverVars, listenVars, connVars, event_rx,
                   userVars>>

(* server_hdl.new_connection_event(..).await; without a server it ends. *)
PasserPass(s) ==
    /\ passer[s] = "pass"
    /\ \/ /\ server # "done"
          /\ rx = None
          /\ rx' = Some(ConnectionEvent(s, Get(passer_msg[s])))
          /\ passer' = [passer EXCEPT ![s] = "recv"]
          /\ UNCHANGED event_rx
       \/ /\ server = "done"
          /\ passer' = [passer EXCEPT ![s] = "done"]
          /\ event_rx' = [event_rx EXCEPT ![s] = None]
          /\ UNCHANGED rx
    /\ passer_msg' = [passer_msg EXCEPT ![s] = None]
    /\ UNCHANGED <<callVars, serverVars, listenVars, connVars, userVars>>

-----------------------------------------------------------------------------
(* The user of the server. *)

UserRecv ==
    /\ tx # << >>
    /\ tx' = Tail(tx)
    /\ delivered' = Append(delivered, Head(tx))
    /\ UNCHANGED <<callVars, rx, serverVars, listenVars, linkVars, user,
                   seen_close>>

UserDrop ==
    /\ user = "listening"
    /\ user' = "gone"
    /\ tx' = << >>
    /\ UNCHANGED <<callVars, rx, serverVars, listenVars, linkVars, delivered,
                   seen_close>>

-----------------------------------------------------------------------------

ServerStep ==
    \/ RecvClose \/ RecvGetListenAddress \/ AskAddr \/ GotAddr
    \/ RecvGetClients \/ RecvSend \/ ForwardToConnection
    \/ RecvNewConnection \/ RecvConnectionEvent \/ EmitEvent
    \/ CloseConnection \/ ConnectionsClosed \/ CloseAcceptor \/ CloseListener

ListenerStep == HandleNewStream \/ ListenerMessage

AcceptorStep == AcceptorMessage \/ PassNewConnection

ConnStep(s) == ConnTake(s) \/ ConnEmit(s)

SenderStep(s) == ConnSent(s) \/ ConnClose(s)

PasserStep(s) == PasserRecv(s) \/ PasserPass(s)

CallerStep(c) == Accept(c) \/ Refuse(c) \/ (c \in Asks /\ Return(c))

(* What the clients and the network decide. *)
ClientStep ==
    \/ HandshakeOk \/ HandshakeFails
    \/ \E s \in Streams :
            \/ ListenerAccept(s) \/ SenderStep(s)
            \/ ConnReply(s) \/ ConnRead(s) \/ ConnPeerClose(s)

Next ==
    \/ ServerStep \/ ListenerStep \/ AcceptorStep \/ ClientStep
    \/ \E s \in Streams : ConnStep(s) \/ PasserStep(s)
    \/ \E c \in Calls : CallerStep(c)
    \/ \E r \in Requests : Timeout(r)
    \/ HandleDrop \/ UserRecv \/ UserDrop

Spec == Init /\ [][Next]_vars

(***************************************************************************)
(* Fairness.  tokio polls every task that can make progress, and the user  *)
(* keeps draining the event channel.  Nothing is assumed of the clients,   *)
(* one of which may open a stream and never finish the handshake, or never *)
(* read what a connection's Sender writes to it, nor of the closers: the   *)
(* user may never call close.                                              *)
(***************************************************************************)
Fairness ==
    /\ WF_vars(ServerStep)
    /\ WF_vars(ListenerStep)
    /\ WF_vars(AcceptorStep)
    /\ WF_vars(UserRecv)
    /\ \A s \in Streams : WF_vars(ConnStep(s)) /\ WF_vars(PasserStep(s))
    /\ \A c \in Calls \ Closers : WF_vars(CallerStep(c))

FairSpec == Spec /\ Fairness

(* With clients that read, and Senders that therefore take every message. *)
PromptSpec == FairSpec /\ \A s \in Streams : WF_vars(SenderStep(s))

-----------------------------------------------------------------------------
(* Properties. *)

(* The Listener and the Acceptor outlive the loop of Server::run and the    *)
(* closing of the connections: they end only after the Close that run sends  *)
(* them, so get_addr never fails, acceptor_hdl.close() never fails, and the  *)
(* Acceptor's sender keeps self.rx.recv() from ever yielding None.           *)
TasksOutliveLoop ==
    server \notin {"close_listener", "done"}
        => /\ listener # "done" /\ listener_rx # Some(CloseMsg)
           /\ acceptor # "done" /\ acceptor_rx # Some(CloseMsg)

(* A caller that waits on an open oneshot is known to a holder that can      *)
(* still resolve it: the server's channel, the server itself across an       *)
(* await, or the channel or the reply_map of a connection that still runs.   *)
NoCallForgotten ==
    \A c \in Asks :
        call[c] = "waiting" /\ oneshot[c] = "open"
            => \/ rx = Some(c) /\ server # "done"
               \/ server_call = Some(c) /\ server \in LoopStates
               \/ \E s \in Streams :
                    /\ conn[s] \notin {"none", "done"}
                    /\ conn_rx[s] = Some(c) \/ c \in pending[s]

(* The events of a connection among the first n of a queue. *)
EventsOf(s, q, n) ==
    {e \in ConnectionEvents : \E i \in 1 .. n : q[i] = ConnectionEvent(s, e)}

(* Of a connection that has read n messages, e comes next after the events  *)
(* in S: a message after all before it and no other event, Close once.      *)
Follows(n, e, S) ==
    \/ e = CloseMsg /\ CloseMsg \notin S
    \/ \E k \in 1 .. n : e = Message(k) /\ S = {Message(i) : i \in 1 .. k - 1}

(* The user receives the events of a connection in the order they were read, *)
(* without a gap, and at most one ConnectionClose, after which no more come, *)
(* although the passers, the Acceptor and the callers share one channel.     *)
EventsInOrder ==
    \A s \in Streams, e \in ConnectionEvents, j \in DOMAIN delivered :
        delivered[j] = ConnectionEvent(s, e)
            => Follows(read[s], e, EventsOf(s, delivered, j - 1))

(* The connections the user has been told of. *)
Announced == {s \in Streams :
                \E i \in DOMAIN delivered : delivered[i] = NewConnection(s)}

(* What the comment on Server.connections says: it lists the connections     *)
(* that are currently connected.  A connection the user was told of is there *)
(* as long as it is open, so a call can reach it.  This holds while no two   *)
(* streams share an address.                                                 *)
ConnectedAreListed == \A s \in Announced : Live(s) => s \in Registered

(* When the server goes on to close the Acceptor, every connection the user  *)
(* was told of has been told to close or is closing already.  One that was   *)
(* still on its way to the server, or refused, is not told by anyone.        *)
AnnouncedAreClosed ==
    server \in {"close_acceptor", "close_listener", "done"}
        => \A s \in Announced : Live(s) => conn_rx[s] = Some(CloseMsg)

(* The connection cannot take from its channel, its passer from the event    *)
(* channel, nor anyone from the server's channel.                            *)
ConnectionBlocked(s) ==
    /\ conn_rx[s] # None
    /\ conn[s] = "emit" /\ event_rx[s] # None
    /\ passer[s] = "pass" /\ rx # None

(* The Acceptor cannot take from its channel, nor anyone from the server's. *)
AcceptorBlocked ==
    acceptor_rx # None /\ acceptor = "new_connection" /\ rx # None

(* The server waits for a task that waits for the server: for a connection,  *)
(* in send_request, send_event or at close; for the Acceptor, at close; for  *)
(* the Listener, in get_listen_address, while it waits for the Acceptor.     *)
ServerWait ==
    \/ /\ server = "forward"
       /\ ConnectionBlocked(Get(connections[To[Get(server_call)]]))
    \/ /\ server = "close_conns" /\ closing # << >>
       /\ ConnectionBlocked(Head(closing))
    \/ /\ server = "close_acceptor"
       /\ AcceptorBlocked
    \/ /\ server = "wait_addr" /\ addr_reply = "none" /\ listener = "new_stream"
       /\ AcceptorBlocked

(* Nothing ends such a wait: no task takes from a channel of the cycle. *)
ServerWaitIsForever == [][ServerWait => ServerWait']_vars

(* The server waits for the Acceptor, which waits for a client. *)
HandshakeWait ==
    /\ acceptor = "handshake" /\ acceptor_rx # None
    /\ \/ server = "close_acceptor"
       \/ server = "wait_addr" /\ addr_reply = "none" /\ listener = "new_stream"

(* The connection waits for its Sender: for a client that does not read, or  *)
(* in the cyclic wait of module Connection.                                  *)
Stalled(s) == conn[s] \in {"send", "close"}

(* The server waits for such a connection. *)
StallWait ==
    \/ /\ server = "forward"
       /\ LET s == Get(connections[To[Get(server_call)]])
          IN  Stalled(s) /\ conn_rx[s] # None
    \/ /\ server = "close_conns" /\ closing # << >>
       /\ LET s == Head(closing) IN Stalled(s) /\ conn_rx[s] # None

(* Nothing of the server is left but stalled connections: run has returned,  *)
(* and of the callers and the connections the user was told of, only those   *)
(* remain that a stalled connection holds up.                                *)
ShutDown ==
    /\ server = "done"
    /\ \A c \in Asks :
            call[c] = "waiting"
                => \E s \in Streams : /\ Stalled(s)
                                      /\ conn_rx[s] = Some(c) \/ c \in pending[s]
    /\ \A s \in Announced : conn[s] = "done" \/ Stalled(s)

(* A server that accepted a close, or left its loop because the user is      *)
(* gone, comes to its end, and with it every caller that still waits, on a   *)
(* oneshot dropped with the server's channel or held by a connection, and    *)
(* every connection, even one whose passer was about to hand the server an   *)
(* event.  The exceptions are a wait for a task that waits for the server, a *)
(* client that never finishes its handshake, and a connection whose Sender   *)
(* never takes what it is given: that one stays, with its callers, and so    *)
(* does the server if it waits for room in that connection's channel.        *)
ShutdownCompletes ==
    \A c \in Closers :
        <>(call[c] = "Ok" \/ server \notin LoopStates)
            => \/ <>[]ShutDown \/ <>ServerWait
               \/ <>[]HandshakeWait \/ <>[]StallWait

(* What the comment on Server::run says of the close message: once it has    *)
(* been received the function exits.                                         *)
CloseEndsServer == server = "close_conns" ~> server = "done"

(* The other half of that comment, which the test of get_clients checks: a   *)
(* connection whose Close the server has handled is not in the list.         *)
ClosedNotListed == \A s \in seen_close : s \notin Registered

(* What the test of get_listen_address says: a running server answers it. *)
ListenAddressAnswered ==
    \A c \in AddrCalls : call[c] = "waiting" ~> call[c] # "waiting"

-----------------------------------------------------------------------------
(* What Server assumes of a connection. *)

View(s) == INSTANCE ConnectionView
    WITH Messages <- {Message(n) : n \in 1 .. MaxMessages},
         EventCap <- 1,
         waiting <- {r \in Requests : call[r] = "waiting"},
         oneshot <- [r \in Requests |-> oneshot[r]],
         rx <- conn_rx[s],
         conn <- IF conn[s] = "none" THEN "run" ELSE conn[s],
         conn_msg <- conn_msg[s],
         pending <- pending[s],
         event_rx <- event_rx[s],
         owner <- IF passer[s] = "done" THEN "gone" ELSE "listening"

(* Each stream behaves as ConnectionView.  Of the connection this says that  *)
(* it does nothing the view does not do; of the server, the passers and the  *)
(* callers that they meet it only through its handle, its event channel and  *)
(* the oneshots it does not hold.                                            *)
ConnectionsAreViews ==
    /\ \A s \in Streams : View(s)!ViewInit
    /\ [][\A s \in Streams : [View(s)!ViewNext]_(View(s)!viewVars)]_vars
=============================================================================
