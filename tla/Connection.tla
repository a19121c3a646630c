----------------------------- MODULE Connection -----------------------------
(***************************************************************************)
(* One websocket connection of the library: the task Connection::run, the  *)
(* tasks Sender::run and Receiver::run it spawns, the four channels        *)
(* between them, the callers that hold a ConnectionHdl, and the user that  *)
(* drains the event channel and completes the peer's requests.             *)
(*                                                                         *)
(* A task advances from one await to the next in one step.  Its variable   *)
(* (conn, sender, receiver) names the await it is suspended at and the     *)
(* matching _msg variable the message it carries across that await.  The   *)
(* websocket (tokio-tungstenite) and the peer are external: the peer is    *)
(* another user of the library, so it answers a request it has received    *)
(* with the id that request carried, once, several times or never.         *)
(***************************************************************************)
EXTENDS Channel, Naturals, Sequences, FiniteSets

CONSTANTS
    Requests,       \* calls of request, request_timeout or request_with_sender
    TimedRequests,  \* the ones of them made through request_timeout
    Events,         \* calls of ConnectionHdl::event
    Closers,        \* calls of ConnectionHdl::close
    IdSpace,        \* number of values of the usize next_id, 2^64 in the code
    EventCap,       \* capacity of the event channel, chosen by the user
    MaxFrames,      \* bound: frames the peer sends over the connection's life
    MaxReplies      \* bound: times the user completes one RequestHandle

ASSUME ConstantsAssumption ==
    /\ TimedRequests \subseteq Requests
    /\ Requests \cap Events = {}
    /\ Requests \cap Closers = {}
    /\ Events \cap Closers = {}
    /\ CloseMsg \notin Requests
    /\ IdSpace \in Nat \ {0}
    /\ EventCap \in Nat \ {0}
    /\ MaxFrames \in Nat
    /\ MaxReplies \in Nat

VARIABLES
    call,           \* what each call of the handle is doing or has returned
    oneshot,        \* state of the oneshot a request waits on
    reply,          \* data of an Ok reply: the request the peer answered
    rx,             \* channel ConnectionHdl -> Connection
    conn, conn_msg, \* Connection::run
    next_id, reply_map,
    internal,       \* channel InternalHdl -> Connection
    receiver, receiver_msg,  \* Receiver::run
    receiver_rx,    \* channel ReceiverHdl -> Receiver
    sender, sender_msg,      \* Sender::run
    sender_rx,      \* channel SenderHdl -> Sender
    event_rx,       \* the channel event_tx feeds, drained by the user
    user,           \* whether the user still holds the event receiver
    handles,        \* RequestHandles the user has received
    ws,             \* whether the peer's end of the websocket has closed
    frames,         \* frames read so far
    accepted,       \* history: calls in the order the channel accepted them
    sent,           \* history: messages written to the websocket, in order
    lost,           \* history: messages whose write failed, in order
    replies,        \* history: how often complete returned Ok on each handle
    arrived,        \* history: the peer's requests and events, as they came
    delivered       \* history: ConnectionEvents the user has received

callVars == <<call, oneshot, reply>>
connVars == <<conn, conn_msg, next_id, reply_map>>
receiverVars == <<receiver, receiver_msg, receiver_rx>>
senderVars == <<sender, sender_msg, sender_rx>>
userVars == <<event_rx, user, handles, replies, delivered>>
wireVars == <<ws, frames, sent, lost, arrived, accepted>>
vars == <<callVars, rx, connVars, internal, receiverVars, senderVars,
          userVars, wireVars>>

-----------------------------------------------------------------------------
(* Messages. *)

Calls == Requests \cup Events \cup Closers
Ids == 0 .. IdSpace - 1
TheirIds == 1 .. MaxFrames

(* internal::Message as we send it.  A request carries the id that next_id *)
(* had; a reply carries the id of the peer's request.                      *)
OurMsg == [kind : {"Request"}, id : Ids, data : Requests]
            \cup [kind : {"Event"}, data : Events]
            \cup [kind : {"Reply"}, n : TheirIds]

(* internal::Message as we receive it, in two parts: what is passed on to  *)
(* the user, and replies.  The n-th frame read is numbered n, which keeps  *)
(* the peer's messages apart; a reply's data is the request it answers.    *)
UserMsg == [kind : {"Request", "Event"}, n : TheirIds]
ReplyMsg == [kind : {"Reply"}, id : Ids, data : Requests]

CallStates == {"sending", "waiting", "Ok", "SendError", "RecvError",
               "Canceled", "Timeout"}
ConnStates == {"select", "send", "emit", "close_receiver", "close_sender",
               "cancel", "emit_close", "done"}
ReceiverStates == {"select", "forward", "notify", "done"}
SenderStates == {"recv", "write", "notify", "closing", "done"}

(* The loop of Connection::run, before ControlFlow::Break. *)
Running == conn \in {"select", "send", "emit"}

TypeOK ==
    /\ call \in [Calls -> CallStates]
    /\ oneshot \in [Requests -> {"open", "Ok", "Canceled", "Dropped"}]
    /\ reply \in [Requests -> Option(Requests)]
    /\ rx \in Option(Calls)
    /\ conn \in ConnStates
    /\ conn_msg \in Option(OurMsg \cup UserMsg)
    /\ next_id \in Ids
    /\ reply_map \in [Ids -> Option(Requests)]
    /\ internal \in Option(UserMsg \cup ReplyMsg \cup {CloseMsg})
    /\ receiver \in ReceiverStates
    /\ receiver_msg \in Option(UserMsg \cup ReplyMsg)
    /\ receiver_rx \in Option({CloseMsg})
    /\ sender \in SenderStates
    /\ sender_msg \in Option(OurMsg)
    /\ sender_rx \in Option(OurMsg \cup {CloseMsg})
    /\ event_rx \in Seq(UserMsg \cup {CloseMsg})
    /\ user \in {"listening", "gone"}
    /\ handles \in SUBSET TheirIds
    /\ ws \in {"open", "closed"}
    /\ frames \in 0 .. MaxFrames
    /\ accepted \in Seq(Calls)
    /\ sent \in Seq(OurMsg)
    /\ lost \in Seq(OurMsg)
    /\ replies \in [TheirIds -> 0 .. MaxReplies]
    /\ arrived \in Seq(UserMsg)
    /\ delivered \in Seq(UserMsg \cup {CloseMsg})

Init ==
    /\ call = [c \in Calls |-> "sending"]
    /\ oneshot = [r \in Requests |-> "open"]
    /\ reply = [r \in Requests |-> None]
    /\ rx = None
    /\ conn = "select" /\ conn_msg = None
    /\ next_id = 0 /\ reply_map = [i \in Ids |-> None]
    /\ internal = None
    /\ receiver = "select" /\ receiver_msg = None /\ receiver_rx = None
    /\ sender = "recv" /\ sender_msg = None /\ sender_rx = None
    /\ event_rx = << >> /\ user = "listening" /\ handles = {}
    /\ ws = "open" /\ frames = 0
    /\ accepted = << >> /\ sent = << >> /\ lost = << >>
    /\ replies = [k \in TheirIds |-> 0]
    /\ arrived = << >> /\ delivered = << >>

-----------------------------------------------------------------------------
(* The callers: ConnectionHdl.  A call that has not been made yet is one    *)
(* whose task has not reached the channel yet, so all of them start there.  *)

(* self.tx.send(..).await succeeds: event and close return, request goes on *)
(* to wait for the oneshot.                                                 *)
Accept(c) ==
    /\ call[c] = "sending"
    /\ conn # "done"
    /\ rx = None
    /\ rx' = Some(c)
    /\ call' = [call EXCEPT ![c] = IF c \in Requests THEN "waiting" ELSE "Ok"]
    /\ accepted' = Append(accepted, c)
    /\ UNCHANGED <<oneshot, reply, connVars, internal, receiverVars,
                   senderVars, userVars, ws, frames, sent, lost, arrived>>

(* self.tx.send(..).await fails: the Connection dropped its receiver. *)
Refuse(c) ==
    /\ call[c] = "sending"
    /\ conn = "done"
    /\ call' = [call EXCEPT ![c] = "SendError"]
    /\ UNCHANGED <<oneshot, reply, rx, connVars, internal, receiverVars,
                   senderVars, userVars, wireVars>>

(* rx.await returns: the reply, the cancellation, or RecvError when the *)
(* sending half was dropped.                                            *)
Return(r) ==
    /\ call[r] = "waiting"
    /\ oneshot[r] # "open"
    /\ call' = [call EXCEPT ![r] = IF oneshot[r] = "Dropped" THEN "RecvError"
                                                             ELSE oneshot[r]]
    /\ UNCHANGED <<oneshot, reply, rx, connVars, internal, receiverVars,
                   senderVars, userVars, wireVars>>

(* tokio::time::timeout polls the request before the clock, so it gives up  *)
(* only on a request that is not ready; dropping the future gives back the  *)
(* place in the channel's queue or the receiving half of the oneshot.       *)
Timeout(r) ==
    /\ r \in TimedRequests
    /\ \/ call[r] = "sending"
       \/ call[r] = "waiting" /\ oneshot[r] = "open"
    /\ call' = [call EXCEPT ![r] = "Timeout"]
    /\ UNCHANGED <<oneshot, reply, rx, connVars, internal, receiverVars,
                   senderVars, userVars, wireVars>>

-----------------------------------------------------------------------------
(* Connection::run. *)

(* oneshot::Sender::send or drop: it has an effect only while the caller *)
(* still holds the receiving half.                                       *)
Resolve(R, v) ==
    [r \in Requests |-> IF r \in R /\ call[r] = "waiting" THEN v
                                                          ELSE oneshot[r]]

(* handle_external, ConnectionMessage::Event. *)
HandleEvent ==
    /\ conn = "select"
    /\ \E e \in Events :
        /\ rx = Some(e)
        /\ conn_msg' = Some([kind |-> "Event", data |-> e])
    /\ rx' = None
    /\ conn' = "send"
    /\ UNCHANGED <<callVars, next_id, reply_map, internal, receiverVars,
                   senderVars, userVars, wireVars>>

(* Mutant: next_id is not advanced and the entry in use is overwritten. *)
SendRequestSameId(r) ==
    /\ UNCHANGED next_id
    /\ reply_map' = [reply_map EXCEPT ![next_id] = Some(r)]
    /\ conn_msg' = Some([kind |-> "Request", id |-> next_id, data |-> r])
    /\ conn' = "send"
    /\ UNCHANGED oneshot

(* send_request up to its await: an id still in use drops the oneshot.       *)
(* next_id wraps, as in a release build.                                     *)
SendRequest(r) ==
    /\ next_id' = (next_id + 1) % IdSpace
    /\ \/ /\ reply_map[next_id] # None
          /\ oneshot' = Resolve({r}, "Dropped")
          /\ UNCHANGED <<conn, conn_msg, reply_map>>
       \/ /\ reply_map[next_id] = None
          /\ reply_map' = [reply_map EXCEPT ![next_id] = Some(r)]
          /\ conn_msg' = Some([kind |-> "Request", id |-> next_id, data |-> r])
          /\ conn' = "send"
          /\ UNCHANGED oneshot

(* handle_external, ConnectionMessage::Request. *)
HandleRequest ==
    /\ conn = "select"
    /\ \E r \in Requests :
        /\ rx = Some(r)
        /\ SendRequest(r)
    /\ rx' = None
    /\ UNCHANGED <<call, reply, internal, receiverVars, senderVars, userVars,
                   wireVars>>

(* handle_external, ConnectionMessage::Close. *)
HandleClose ==
    /\ conn = "select"
    /\ \E c \in Closers : rx = Some(c)
    /\ rx' = None
    /\ conn' = "close_receiver"
    /\ UNCHANGED <<callVars, conn_msg, next_id, reply_map, internal,
                   receiverVars, senderVars, userVars, wireVars>>

(* Mutant: try_send, which drops the message when the channel is full. *)
PassToSenderOrDrop ==
    /\ conn = "send"
    /\ sender_rx' = IF sender_rx = None THEN conn_msg ELSE sender_rx
    /\ conn' = "select" /\ conn_msg' = None
    /\ UNCHANGED <<callVars, rx, next_id, reply_map, internal, receiverVars,
                   sender, sender_msg, userVars, wireVars>>

(* Mutant: the message replaces one the Sender has not taken yet. *)
PassToSenderOverwrites ==
    /\ conn = "send"
    /\ sender # "done"
    /\ sender_rx' = conn_msg
    /\ conn' = "select" /\ conn_msg' = None
    /\ UNCHANGED <<callVars, rx, next_id, reply_map, internal, receiverVars,
                   sender, sender_msg, userVars, wireVars>>

(* Mutant: unbounded channels, which never make a sender wait. *)
PassToSenderUnbounded ==
    /\ conn = "send"
    /\ sender_rx' = sender_rx \o conn_msg
    /\ conn' = "select" /\ conn_msg' = None
    /\ UNCHANGED <<callVars, rx, next_id, reply_map, internal, receiverVars,
                   sender, sender_msg, userVars, wireVars>>

(* self.sender_hdl.send(..).await, of an event or a request.  It cannot      *)
(* fail: the Sender ends only after a Close, which Connection sends last     *)
(* (SenderOutlivesLoop).                                                     *)
PassToSender ==
    /\ conn = "send"
    /\ sender # "done"
    /\ sender_rx = None
    /\ sender_rx' = conn_msg
    /\ conn' = "select" /\ conn_msg' = None
    /\ UNCHANGED <<callVars, rx, next_id, reply_map, internal, receiverVars,
                   sender, sender_msg, userVars, wireVars>>

(* handle_internal_new_message, a request or an event: on to the user. *)
HandleInternalUserMsg ==
    /\ conn = "select"
    /\ \E m \in UserMsg : internal = Some(m)
    /\ conn_msg' = internal
    /\ internal' = None
    /\ conn' = "emit"
    /\ UNCHANGED <<callVars, rx, next_id, reply_map, receiverVars, senderVars,
                   userVars, wireVars>>

(* handle_internal_reply: the first reply takes the entry out of reply_map, *)
(* any later one finds no request.                                          *)
HandleInternalReply ==
    /\ conn = "select"
    /\ \E m \in ReplyMsg :
        /\ internal = Some(m)
        /\ \/ /\ reply_map[m.id] # None
              /\ LET r == Get(reply_map[m.id]) IN
                    /\ oneshot' = Resolve({r}, "Ok")
                    /\ reply' = [reply EXCEPT ![r] = Some(m.data)]
              /\ reply_map' = [reply_map EXCEPT ![m.id] = None]
           \/ /\ reply_map[m.id] = None
              /\ UNCHANGED <<oneshot, reply, reply_map>>
    /\ internal' = None
    /\ UNCHANGED <<call, rx, conn, conn_msg, next_id, receiverVars,
                   senderVars, userVars, wireVars>>

(* handle_internal, InternalMessage::Close. *)
HandleInternalClose ==
    /\ conn = "select"
    /\ internal = Some(CloseMsg)
    /\ internal' = None
    /\ conn' = "close_receiver"
    /\ UNCHANGED <<callVars, rx, conn_msg, next_id, reply_map, receiverVars,
                   senderVars, userVars, wireVars>>

(* Mutant: try_send, which drops the event when the user is slow. *)
EmitOrDrop ==
    /\ conn = "emit"
    /\ event_rx' = IF user = "listening" /\ Len(event_rx) < EventCap
                     THEN Append(event_rx, Get(conn_msg)) ELSE event_rx
    /\ conn' = "select"
    /\ conn_msg' = None
    /\ UNCHANGED <<callVars, rx, next_id, reply_map, internal, receiverVars,
                   senderVars, user, handles, replies, delivered, wireVars>>

(* self.event_tx.send(..).await, which breaks the loop when the user has *)
(* dropped the receiver.                                                 *)
Emit ==
    /\ conn = "emit"
    /\ \/ /\ user = "listening"
          /\ Len(event_rx) < EventCap
          /\ event_rx' = Append(event_rx, Get(conn_msg))
          /\ conn' = "select"
       \/ /\ user = "gone"
          /\ conn' = "close_receiver"
          /\ UNCHANGED event_rx
    /\ conn_msg' = None
    /\ UNCHANGED <<callVars, rx, next_id, reply_map, internal, receiverVars,
                   senderVars, user, handles, replies, delivered, wireVars>>

(* close(): self.receiver_hdl.close().await; an error is ignored. *)
CloseReceiver ==
    /\ conn = "close_receiver"
    /\ \/ /\ receiver # "done"
          /\ receiver_rx = None
          /\ receiver_rx' = Some(CloseMsg)
       \/ /\ receiver = "done"
          /\ UNCHANGED receiver_rx
    /\ conn' = "close_sender"
    /\ UNCHANGED <<callVars, rx, conn_msg, next_id, reply_map, internal,
                   receiver, receiver_msg, senderVars, userVars, wireVars>>

(* Mutant: only the Receiver is told to close. *)
CloseSenderSkipped ==
    /\ conn = "close_sender"
    /\ conn' = "cancel"
    /\ UNCHANGED <<callVars, rx, conn_msg, next_id, reply_map, internal,
                   receiverVars, senderVars, userVars, wireVars>>

(* close(): self.sender_hdl.close().await. *)
CloseSender ==
    /\ conn = "close_sender"
    /\ sender_rx = None
    /\ sender_rx' = Some(CloseMsg)
    /\ conn' = "cancel"
    /\ UNCHANGED <<callVars, rx, conn_msg, next_id, reply_map, internal,
                   receiverVars, sender, sender_msg, userVars, wireVars>>

(* The requests whose oneshot is in reply_map. *)
Pending == {r \in Requests : \E i \in Ids : reply_map[i] = Some(r)}

(* Mutant: the requests are not canceled. *)
CancelRequestsSkipped ==
    /\ conn = "cancel"
    /\ conn' = "emit_close"
    /\ UNCHANGED <<callVars, rx, conn_msg, next_id, reply_map, internal,
                   receiverVars, senderVars, userVars, wireVars>>

(* Mutant: reply_map is cleared, which drops the oneshots. *)
CancelRequestsByDrop ==
    /\ conn = "cancel"
    /\ oneshot' = Resolve(Pending, "Dropped")
    /\ reply_map' = [i \in Ids |-> None]
    /\ conn' = "emit_close"
    /\ UNCHANGED <<call, reply, rx, conn_msg, next_id, internal, receiverVars,
                   senderVars, userVars, wireVars>>

(* Mutant: the requests are answered with an empty reply instead. *)
CancelRequestsByReply ==
    /\ conn = "cancel"
    /\ oneshot' = Resolve(Pending, "Ok")
    /\ reply_map' = [i \in Ids |-> None]
    /\ conn' = "emit_close"
    /\ UNCHANGED <<call, reply, rx, conn_msg, next_id, internal, receiverVars,
                   senderVars, userVars, wireVars>>

(* cancel_requests. *)
CancelRequests ==
    /\ conn = "cancel"
    /\ oneshot' = Resolve(Pending, "Canceled")
    /\ reply_map' = [i \in Ids |-> None]
    /\ conn' = "emit_close"
    /\ UNCHANGED <<call, reply, rx, conn_msg, next_id, internal, receiverVars,
                   senderVars, userVars, wireVars>>

(* event_tx.send(Close).await, then run returns and drops its receivers: a  *)
(* request left in the channel loses its oneshot, and no one takes from     *)
(* internal any more.                                                       *)
EmitClose ==
    /\ conn = "emit_close"
    /\ \/ /\ user = "listening"
          /\ Len(event_rx) < EventCap
          /\ event_rx' = Append(event_rx, CloseMsg)
       \/ /\ user = "gone"
          /\ UNCHANGED event_rx
    /\ conn' = "done"
    /\ oneshot' = Resolve({r \in Requests : rx = Some(r)}, "Dropped")
    /\ rx' = None
    /\ internal' = None
    /\ UNCHANGED <<call, reply, conn_msg, next_id, reply_map, receiverVars,
                   senderVars, user, handles, replies, delivered, wireVars>>

-----------------------------------------------------------------------------
(* Receiver::run. *)

(* ws_receiver.next() yields a text that deserializes: new_message follows. *)
ReadMessage(m) ==
    /\ receiver = "select"
    /\ frames < MaxFrames
    /\ frames' = frames + 1
    /\ receiver' = "forward"
    /\ receiver_msg' = Some(m)
    /\ UNCHANGED <<callVars, rx, connVars, internal, receiver_rx, senderVars,
                   userVars, ws, sent, lost, accepted>>

ReadUserMsg(k) ==
    LET m == [kind |-> k, n |-> frames + 1] IN
        /\ ReadMessage(m)
        /\ arrived' = Append(arrived, m)

(* The peer replies to the i-th message we sent, a request, under its id. *)
ReadReply(i) ==
    /\ sent[i].kind = "Request"
    /\ ReadMessage([kind |-> "Reply", id |-> sent[i].id,
                    data |-> sent[i].data])
    /\ UNCHANGED arrived

(* An error other than a closed connection, a frame that is not text, or    *)
(* text that does not deserialize (a close frame among them): logged only.  *)
SkipFrame ==
    /\ receiver = "select"
    /\ frames < MaxFrames
    /\ frames' = frames + 1
    /\ UNCHANGED <<callVars, rx, connVars, internal, receiverVars, senderVars,
                   userVars, ws, sent, lost, arrived, accepted>>

(* Mutant: the Receiver ends without a word to the Connection. *)
ReadEndSilently ==
    /\ receiver = "select"
    /\ ws = "closed"
    /\ receiver' = "done"
    /\ UNCHANGED <<callVars, rx, connVars, internal, receiver_msg,
                   receiver_rx, senderVars, userVars, wireVars>>

(* The end of the stream, or an error that means it. *)
ReadEnd ==
    /\ receiver = "select"
    /\ ws = "closed"
    /\ receiver' = "notify"
    /\ UNCHANGED <<callVars, rx, connVars, internal, receiver_msg,
                   receiver_rx, senderVars, userVars, wireVars>>

(* InternalHdl: the send waits for room and is void once Connection is gone. *)
PassToConnection(m) ==
    \/ /\ conn # "done"
       /\ internal = None
       /\ internal' = Some(m)
    \/ /\ conn = "done"
       /\ UNCHANGED internal

(* self.connection_handle.new_message(m).await *)
Forward ==
    /\ receiver = "forward"
    /\ PassToConnection(Get(receiver_msg))
    /\ receiver' = "select" /\ receiver_msg' = None
    /\ UNCHANGED <<callVars, rx, connVars, receiver_rx, senderVars, userVars,
                   wireVars>>

(* self.connection_handle.close().await, then the task ends. *)
ReceiverNotify ==
    /\ receiver = "notify"
    /\ PassToConnection(CloseMsg)
    /\ receiver' = "done"
    /\ UNCHANGED <<callVars, rx, connVars, receiver_msg, receiver_rx,
                   senderVars, userVars, wireVars>>

(* handle_connection_message, ReceiverMessage::Close. *)
ReceiverClose ==
    /\ receiver = "select"
    /\ receiver_rx = Some(CloseMsg)
    /\ receiver_rx' = None
    /\ receiver' = "done"
    /\ UNCHANGED <<callVars, rx, connVars, internal, receiver_msg, senderVars,
                   userVars, wireVars>>

-----------------------------------------------------------------------------
(* Sender::run. *)

(* handle_message: a message is serialized and written, Close closes. *)
SenderTake ==
    /\ sender = "recv"
    /\ sender_rx # None
    /\ \/ /\ sender_rx # Some(CloseMsg)
          /\ sender' = "write" /\ sender_msg' = sender_rx
       \/ /\ sender_rx = Some(CloseMsg)
          /\ sender' = "closing" /\ UNCHANGED sender_msg
    /\ sender_rx' = None
    /\ UNCHANGED <<callVars, rx, connVars, internal, receiverVars, userVars,
                   wireVars>>

(* ws_sender.send(..).await succeeds. *)
WriteOk ==
    /\ sender = "write"
    /\ sent' = Append(sent, Get(sender_msg))
    /\ sender' = "recv" /\ sender_msg' = None
    /\ UNCHANGED <<callVars, rx, connVars, internal, receiverVars, sender_rx,
                   userVars, ws, frames, lost, arrived, accepted>>

(* Mutant: a write that went out but reported an error is tried again. *)
WriteLostRetried ==
    /\ sender = "write"
    /\ sent' = Append(sent, Get(sender_msg))
    /\ UNCHANGED <<callVars, rx, connVars, internal, receiverVars, senderVars,
                   userVars, ws, frames, lost, arrived, accepted>>

(* to_string fails, or the write fails with an error that is only logged. *)
WriteLost ==
    /\ sender = "write"
    /\ lost' = Append(lost, Get(sender_msg))
    /\ sender' = "recv" /\ sender_msg' = None
    /\ UNCHANGED <<callVars, rx, connVars, internal, receiverVars, sender_rx,
                   userVars, ws, frames, sent, arrived, accepted>>

(* Mutant: the Sender ends at the first write to a closed websocket. *)
WriteClosedEnds ==
    /\ sender = "write"
    /\ ws = "closed"
    /\ lost' = Append(lost, Get(sender_msg))
    /\ sender' = "done" /\ sender_msg' = None
    /\ UNCHANGED <<callVars, rx, connVars, internal, receiverVars, sender_rx,
                   userVars, ws, frames, sent, arrived, accepted>>

(* ConnectionClosed, Protocol or Utf8: the write fails because the peer has *)
(* closed, and the Sender goes on to tell the Connection.                   *)
WriteClosed ==
    /\ sender = "write"
    /\ ws = "closed"
    /\ lost' = Append(lost, Get(sender_msg))
    /\ sender' = "notify" /\ sender_msg' = None
    /\ UNCHANGED <<callVars, rx, connVars, internal, receiverVars, sender_rx,
                   userVars, ws, frames, sent, arrived, accepted>>

(* Mutant: try_send, which gives up when the channel is full. *)
SenderNotifyOrDrop ==
    /\ sender = "notify"
    /\ internal' = IF internal = None /\ conn # "done"
                     THEN Some(CloseMsg) ELSE internal
    /\ sender' = "recv"
    /\ UNCHANGED <<callVars, rx, connVars, receiverVars, sender_msg,
                   sender_rx, userVars, wireVars>>

(* self.connection_hdl.close().await *)
SenderNotify ==
    /\ sender = "notify"
    /\ PassToConnection(CloseMsg)
    /\ sender' = "recv"
    /\ UNCHANGED <<callVars, rx, connVars, receiverVars, sender_msg,
                   sender_rx, userVars, wireVars>>

(* ws_sender.close().await, then the task ends and drops its receiver. *)
SenderClose ==
    /\ sender = "closing"
    /\ sender' = "done"
    /\ sender_rx' = None
    /\ UNCHANGED <<callVars, rx, connVars, internal, receiverVars, sender_msg,
                   userVars, wireVars>>

-----------------------------------------------------------------------------
(* The user of the connection, and the peer. *)

UserRecv ==
    /\ event_rx # << >>
    /\ event_rx' = Tail(event_rx)
    /\ delivered' = Append(delivered, Head(event_rx))
    /\ handles' = handles \cup {k \in TheirIds :
                        Head(event_rx) = [kind |-> "Request", n |-> k]}
    /\ UNCHANGED <<callVars, rx, connVars, internal, receiverVars, senderVars,
                   user, replies, wireVars>>

(* The user drops the receiving end of the event channel. *)
UserDrop ==
    /\ user = "listening"
    /\ user' = "gone"
    /\ event_rx' = << >>
    /\ UNCHANGED <<callVars, rx, connVars, internal, receiverVars, senderVars,
                   handles, replies, delivered, wireVars>>

(* RequestHandle::complete, Ok: the reply is in the Sender's channel.  It    *)
(* borrows the handle, so the user may complete it again.  A complete that   *)
(* fails, because the Sender has ended, changes nothing.                     *)
Complete(k) ==
    /\ replies[k] < MaxReplies
    /\ sender # "done"
    /\ sender_rx = None
    /\ sender_rx' = Some([kind |-> "Reply", n |-> k])
    /\ replies' = [replies EXCEPT ![k] = @ + 1]
    /\ UNCHANGED <<callVars, rx, connVars, internal, receiverVars, sender,
                   sender_msg, event_rx, user, handles, delivered, wireVars>>

PeerClose ==
    /\ ws = "open"
    /\ ws' = "closed"
    /\ UNCHANGED <<callVars, rx, connVars, internal, receiverVars, senderVars,
                   userVars, frames, sent, lost, arrived, accepted>>

-----------------------------------------------------------------------------

ConnStep ==
    \/ HandleEvent \/ HandleRequest \/ HandleClose \/ PassToSender
    \/ HandleInternalUserMsg \/ HandleInternalReply \/ HandleInternalClose
    \/ Emit \/ CloseReceiver \/ CloseSender \/ CancelRequests \/ EmitClose

ReceiverStep ==
    \/ \E k \in {"Request", "Event"} : ReadUserMsg(k)
    \/ \E i \in DOMAIN sent : ReadReply(i)
    \/ SkipFrame \/ ReadEnd \/ Forward \/ ReceiverNotify \/ ReceiverClose

SenderStep ==
    \/ SenderTake \/ WriteOk \/ WriteLost \/ WriteClosed
    \/ SenderNotify \/ SenderClose

CallerStep(c) == Accept(c) \/ Refuse(c) \/ (c \in Requests /\ Return(c))

UserStep ==
    \/ UserRecv \/ UserDrop
    \/ \E k \in handles : Complete(k)

Next ==
    \/ ConnStep \/ ReceiverStep \/ SenderStep \/ UserStep \/ PeerClose
    \/ \E c \in Calls : CallerStep(c)
    \/ \E r \in Requests : Timeout(r)

Spec == Init /\ [][Next]_vars

(***************************************************************************)
(* Fairness.  tokio polls a task that can make progress, so each of the    *)
(* three tasks and each caller is weakly fair; a write to the websocket    *)
(* completes or fails; the user keeps draining the event channel.  Nothing *)
(* is assumed of the peer, which may never send, reply or close, nor of    *)
(* the closers: the user may never call close.                             *)
(***************************************************************************)
Fairness ==
    /\ WF_vars(ConnStep)
    /\ WF_vars(ReadEnd \/ ReceiverClose)
    /\ WF_vars(Forward \/ ReceiverNotify)
    /\ WF_vars(SenderStep)
    /\ WF_vars(UserRecv)
    /\ \A c \in Requests \cup Events : WF_vars(CallerStep(c))

FairSpec == Spec /\ Fairness

-----------------------------------------------------------------------------
(* Properties. *)

(* The Sender task outlives the loop of Connection::run and the two sends of *)
(* close(): sender_hdl.send never fails inside the loop, the internal channel *)
(* never loses its last sender, and so the select! of Connection::run, which *)
(* has no else branch, never finds both branches disabled and panics.        *)
SenderOutlivesLoop ==
    conn \in {"select", "send", "emit", "close_receiver", "close_sender"}
        => /\ sender \notin {"closing", "done"}
           /\ sender_rx # Some(CloseMsg)

(* A caller that waits on an open oneshot is known to exactly one holder     *)
(* that will resolve it: the channel to the Connection, or one entry of      *)
(* reply_map; and to none once run has returned.  It covers the id that      *)
(* comes round again in send_request, the cancellation at close, and the     *)
(* request still queued when run returns.                                    *)
NoRequestForgotten ==
    \A r \in Requests :
        call[r] = "waiting" /\ oneshot[r] = "open"
            => /\ conn # "done"
               /\ \/ /\ rx = Some(r)
                     /\ r \notin Pending
                  \/ /\ rx # Some(r)
                     /\ \E i \in Ids : /\ reply_map[i] = Some(r)
                                       /\ \A j \in Ids : reply_map[j] = Some(r)
                                                           => i = j

(* The Ok a request returns is the peer's answer to that request, however    *)
(* replies are duplicated or reordered against the requests in reply_map.    *)
OkIsOwnAnswer ==
    \A r \in Requests : call[r] = "Ok" => reply[r] = Some(r)

(* Position in the order in which the channel accepted the calls. *)
Rank(c) == CHOOSE i \in DOMAIN accepted : accepted[i] = c

(* Our requests and events leave on the wire in the order the handle         *)
(* accepted them and none leaves twice, although Connection, Sender and the  *)
(* users of RequestHandle::complete share the Sender's channel.              *)
WireInOrder ==
    \A i, j \in DOMAIN sent :
        i < j /\ sent[i].kind # "Reply" /\ sent[j].kind # "Reply"
            => Rank(sent[i].data) < Rank(sent[j].data)

(* The peer's messages on their way to the user, in order: a channel, or a  *)
(* task's hands, holds at most one.                                          *)
OnItsWay(c) == IF c # None /\ Get(c) \in UserMsg THEN c ELSE << >>
InTransit == event_rx \o OnItsWay(conn_msg) \o OnItsWay(internal)
                      \o OnItsWay(receiver_msg)

(* What the user receives is a prefix of what the peer sent, in order and    *)
(* without a gap, followed by at most one Close, after which nothing comes.  *)
(* As long as the loop runs and the user listens, nothing is lost on the way *)
(* through Receiver, Connection and the event channel.                       *)
DeliveredInOrder ==
    /\ \E n \in 0 .. Len(arrived) :
        \/ delivered = SubSeq(arrived, 1, n)
        \/ delivered = Append(SubSeq(arrived, 1, n), CloseMsg)
    /\ Running /\ user = "listening" => delivered \o InTransit = arrived

(* What the Sender has been given and not yet dropped, the oldest first. *)
Given == sender_msg \o sender_rx

Count(q, m) == Cardinality({i \in DOMAIN q : q[i] = m})

(* A request stays in reply_map only if its frame is still under way, has    *)
(* been written, or was lost in a write that failed, be it one the Sender    *)
(* merely logs or one that tells it of the closed websocket.                 *)
PendingIsAccountedFor ==
    \A i \in Ids, r \in Requests :
        reply_map[i] = Some(r)
            => LET m == [kind |-> "Request", id |-> i, data |-> r]
               IN  conn_msg = Some(m) \/ Count(sent \o lost \o Given, m) = 1

(* An Ok of RequestHandle::complete stands for one reply frame: written, its *)
(* write failed, or still with the Sender.  Only after the Sender has taken  *)
(* a Close can a reply that was acknowledged vanish.                         *)
RepliesAreAccountedFor ==
    \A k \in TheirIds :
        LET n == Count(sent \o lost \o Given, [kind |-> "Reply", n |-> k])
        IN  n <= replies[k] /\ (n = replies[k] \/ sender \in {"closing", "done"})

(* The Connection waits for room in the Sender's channel while the Sender    *)
(* waits for room in the Connection's.                                       *)
CyclicWait ==
    /\ conn \in {"send", "close_sender"}
    /\ sender = "notify"
    /\ sender_rx # None
    /\ internal # None

(* Nothing in the library ends that wait: no task takes from either channel. *)
CyclicWaitIsForever == [][CyclicWait => CyclicWait']_vars

(* Once the loop has ended the Connection gets to the end of run, and after  *)
(* it the Sender and the Receiver end too, unless the cyclic wait forms.     *)
CloseCompletes ==
    ~Running ~> \/ conn = "done" /\ sender = "done" /\ receiver = "done"
                \/ CyclicWait

(* When the peer has closed, every caller gets an answer or an error: its    *)
(* request is not left waiting, unless the cyclic wait forms.                *)
RequestsEndAfterPeerClose ==
    \A r \in Requests :
        (ws = "closed" /\ call[r] \in {"sending", "waiting"})
            ~> (call[r] \notin {"sending", "waiting"} \/ CyclicWait)

(* What the comment on Receiver says of a close message or an unhandleable   *)
(* error: it closes the connection.  Connection::run then returns.           *)
PeerCloseEndsConnection == ws = "closed" ~> conn = "done"

-----------------------------------------------------------------------------
(* Refinement: what the handle promises its callers. *)

(* A call is pending from the first send to the return of request. *)
StatusOf(s) == IF s \in {"sending", "waiting"} THEN "pending" ELSE s

Status == [r \in Requests |-> StatusOf(call[r])]

Transmitted ==
    {r \in Requests : \E i \in DOMAIN sent :
                            sent[i].kind = "Request" /\ sent[i].data = r}

Promise == INSTANCE RequestPromise
             WITH status <- Status, transmitted <- Transmitted

(* The connection keeps the promise of RequestPromise: a request is written  *)
(* at most once, its caller gets one outcome, Ok only after the write, and   *)
(* SendError or RecvError only when it never was and never will be written.  *)
KeepsPromise == Promise!PromiseSpec

(* The connection as ConnectionView describes it: telling the two tasks to  *)
(* close is part of closing.                                                *)
View == INSTANCE ConnectionView
    WITH Messages <- UserMsg,
         waiting <- {r \in Requests : call[r] = "waiting"},
         rx <- IF \E c \in Closers : rx = Some(c) THEN Some(CloseMsg) ELSE rx,
         conn <- CASE conn = "select" -> "run"
                   [] conn = "send" -> "send"
                   [] conn \in {"emit", "emit_close"} -> "emit"
                   [] conn \in {"close_receiver", "close_sender", "cancel"}
                        -> "close"
                   [] OTHER -> "done",
         conn_msg <- CASE conn = "emit" -> conn_msg
                       [] conn = "emit_close" -> Some(CloseMsg)
                       [] OTHER -> None,
         pending <- Pending,
         owner <- user

(* The tasks of a connection implement the view that module Server takes of  *)
(* it: each request it holds is resolved once and in one of the four ways,   *)
(* the cancellation comes before the event Close, and Close is the last.     *)
ImplementsView == View!ViewSpec
=============================================================================
