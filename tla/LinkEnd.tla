------------------------------ MODULE LinkEnd ------------------------------
(***************************************************************************)
(* One end of a websocket whose other end runs the same library, with the  *)
(* user of examples/ticker_client.rs: main makes its calls one after       *)
(* another, receive_events takes the events and completes the requests,    *)
(* one after another.                                                      *)
(*                                                                         *)
(* Between the ends TCP holds WireCap messages in each direction: a write  *)
(* waits for room, a read for a message.  The messages this end reads are  *)
(* those the other end has written (peer_sent), in order, and the          *)
(* websocket closes when the other end's Sender has closed it.  Until then *)
(* no write fails and every frame deserializes.                            *)
(***************************************************************************)
EXTENDS Connection

CONSTANTS
    Program,        \* the calls main makes, in their order
    WireCap         \* messages the buffers of one direction hold

VARIABLES
    peer_sent, peer_frames, peer_sender     \* sent, frames, sender of the peer

(* The loop of main: a call is made when the one before it has returned, and *)
(* a SendError ends the loop.                                                *)
Call(i) ==
    /\ \A j \in 1 .. i - 1 :
            call[Program[j]] \notin {"sending", "waiting", "SendError"}
    /\ CallerStep(Program[i])

MainCall == \E i \in DOMAIN Program : Program[i] \notin Closers /\ Call(i)
MainClose == \E i \in DOMAIN Program : Program[i] \in Closers /\ Call(i)

(* The requests receive_events has taken and not completed, at most one. *)
Owed == {k \in handles : replies[k] = 0}

(* receive_events: rx.recv().await, or complete(..).await, whose error is    *)
(* logged.                                                                   *)
ReceiveEvents ==
    \/ (Owed = {} \/ sender = "done") /\ UserRecv
    \/ \E k \in Owed : Complete(k)

Room == Len(sent) - peer_frames < WireCap

Write ==
    \/ Room /\ WriteOk
    \/ ws = "closed" /\ (WriteLost \/ WriteClosed)

(* The next message off the wire.  A reply names the frame its request came *)
(* in, which is the position the request has in sent.                       *)
Read ==
    /\ frames < Len(peer_sent)
    /\ LET m == peer_sent[frames + 1] IN
        \/ /\ m.kind = "Reply"
           /\ \E i \in DOMAIN sent : m.n = i /\ ReadReply(i)
        \/ \E k \in {"Request", "Event"} : m.kind = k /\ ReadUserMsg(k)

(* The peer's Close frame, or the end of its TCP stream. *)
LinkClose == peer_sender = "done" /\ PeerClose

EndSender == SenderTake \/ Write \/ SenderNotify \/ SenderClose

EndReceiver == Read \/ ReadEnd \/ Forward \/ ReceiverNotify \/ ReceiverClose

(* What this end does by itself, and with the user's close. *)
EndWork ==
    \/ MainCall \/ ReceiveEvents \/ ConnStep \/ EndSender \/ EndReceiver
    \/ LinkClose

EndNext == EndWork \/ MainClose

-----------------------------------------------------------------------------

(* The Sender waits for the peer to read. *)
WriteBlocked == sender = "write" /\ ~Room /\ ws = "open"

(* The Connection waits for the Sender, itself or through receive_events. *)
ConnBlocked ==
    /\ sender_rx # None
    /\ \/ conn \in {"send", "close_sender"}
       \/ conn = "emit" /\ Len(event_rx) = EventCap /\ Owed # {}

(* Nothing more is read: the Receiver waits for the Connection or has ended. *)
ReadBlocked ==
    \/ receiver = "forward" /\ internal # None /\ ConnBlocked
    \/ receiver = "done"

EndBlocked == WriteBlocked /\ ReadBlocked
=============================================================================
