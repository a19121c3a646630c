-------------------------------- MODULE Link --------------------------------
(***************************************************************************)
(* Two ends of one websocket: a client that called client::connect and the *)
(* connection it talks to.  Each is an instance of LinkEnd over variables  *)
(* of its own.                                                             *)
(***************************************************************************)
EXTENDS Channel, Naturals, Sequences, FiniteSets

CONSTANTS
    RequestsA, EventsA, ClosersA, ProgramA, MaxFramesA,     \* of end A
    RequestsB, EventsB, ClosersB, ProgramB, MaxFramesB,     \* of end B
    IdSpace, EventCap, WireCap, MaxReplies

(* The calls of an end are of one kind each, and its program makes them. *)
EndAssumption(Requests, Events, Closers, Program) ==
    /\ Requests \cap Events = {}
    /\ Requests \cap Closers = {}
    /\ Events \cap Closers = {}
    /\ CloseMsg \notin Requests
    /\ Program \in Seq(Requests \cup Events \cup Closers)

ASSUME LinkAssumption ==
    /\ EndAssumption(RequestsA, EventsA, ClosersA, ProgramA)
    /\ EndAssumption(RequestsB, EventsB, ClosersB, ProgramB)
    /\ IdSpace \in Nat \ {0}
    /\ EventCap \in Nat \ {0}
    /\ MaxFramesA \in Nat
    /\ MaxFramesB \in Nat
    /\ MaxReplies \in Nat

VARIABLES
    a_call, a_oneshot, a_reply, a_rx, a_conn, a_conn_msg, a_next_id,
    a_reply_map, a_internal, a_receiver, a_receiver_msg, a_receiver_rx,
    a_sender, a_sender_msg, a_sender_rx, a_event_rx, a_user, a_handles,
    a_ws, a_frames, a_accepted, a_sent, a_lost, a_replies, a_arrived,
    a_delivered,
    b_call, b_oneshot, b_reply, b_rx, b_conn, b_conn_msg, b_next_id,
    b_reply_map, b_internal, b_receiver, b_receiver_msg, b_receiver_rx,
    b_sender, b_sender_msg, b_sender_rx, b_event_rx, b_user, b_handles,
    b_ws, b_frames, b_accepted, b_sent, b_lost, b_replies, b_arrived,
    b_delivered

A == INSTANCE LinkEnd
    WITH TimedRequests <- {}, Requests <- RequestsA, Events <- EventsA,
         Closers <- ClosersA, Program <- ProgramA, MaxFrames <- MaxFramesA,
         call <- a_call, oneshot <- a_oneshot, reply <- a_reply, rx <- a_rx,
         conn <- a_conn, conn_msg <- a_conn_msg, next_id <- a_next_id,
         reply_map <- a_reply_map, internal <- a_internal,
         receiver <- a_receiver, receiver_msg <- a_receiver_msg,
         receiver_rx <- a_receiver_rx, sender <- a_sender,
         sender_msg <- a_sender_msg, sender_rx <- a_sender_rx,
         event_rx <- a_event_rx, user <- a_user, handles <- a_handles,
         ws <- a_ws, frames <- a_frames, accepted <- a_accepted,
         sent <- a_sent, lost <- a_lost, replies <- a_replies,
         arrived <- a_arrived, delivered <- a_delivered,
         peer_sent <- b_sent, peer_frames <- b_frames,
         peer_sender <- b_sender

B == INSTANCE LinkEnd
    WITH TimedRequests <- {}, Requests <- RequestsB, Events <- EventsB,
         Closers <- ClosersB, Program <- ProgramB, MaxFrames <- MaxFramesB,
         call <- b_call, oneshot <- b_oneshot, reply <- b_reply, rx <- b_rx,
         conn <- b_conn, conn_msg <- b_conn_msg, next_id <- b_next_id,
         reply_map <- b_reply_map, internal <- b_internal,
         receiver <- b_receiver, receiver_msg <- b_receiver_msg,
         receiver_rx <- b_receiver_rx, sender <- b_sender,
         sender_msg <- b_sender_msg, sender_rx <- b_sender_rx,
         event_rx <- b_event_rx, user <- b_user, handles <- b_handles,
         ws <- b_ws, frames <- b_frames, accepted <- b_accepted,
         sent <- b_sent, lost <- b_lost, replies <- b_replies,
         arrived <- b_arrived, delivered <- b_delivered,
         peer_sent <- a_sent, peer_frames <- a_frames,
         peer_sender <- a_sender

aVars ==
    <<a_call, a_oneshot, a_reply, a_rx, a_conn, a_conn_msg, a_next_id,
      a_reply_map, a_internal, a_receiver, a_receiver_msg,
      a_receiver_rx, a_sender, a_sender_msg, a_sender_rx, a_event_rx,
      a_user, a_handles, a_ws, a_frames, a_accepted, a_sent, a_lost,
      a_replies, a_arrived, a_delivered>>
bVars ==
    <<b_call, b_oneshot, b_reply, b_rx, b_conn, b_conn_msg, b_next_id,
      b_reply_map, b_internal, b_receiver, b_receiver_msg,
      b_receiver_rx, b_sender, b_sender_msg, b_sender_rx, b_event_rx,
      b_user, b_handles, b_ws, b_frames, b_accepted, b_sent, b_lost,
      b_replies, b_arrived, b_delivered>>
linkVars == <<aVars, bVars>>

(* client::connect and accept_async have succeeded at both ends. *)
LinkInit == A!Init /\ B!Init

LinkNext ==
    \/ A!EndNext /\ UNCHANGED bVars
    \/ B!EndNext /\ UNCHANGED aVars

LinkSpec == LinkInit /\ [][LinkNext]_linkVars

-----------------------------------------------------------------------------
(* Properties. *)

(* End to end, B's user receives the requests and events that A's handle     *)
(* accepted, in order, without a gap and none twice, although each passes    *)
(* through five tasks and is numbered anew on the way: the i-th it receives  *)
(* is the i-th call that was accepted.                                       *)
ReceivedInOrder ==
    \A i \in DOMAIN b_delivered :
        b_delivered[i] # CloseMsg
            => /\ i \in DOMAIN a_accepted
               /\ a_sent[b_delivered[i].n].data = a_accepted[i]

(* Ok is an answer B's user gave: the request reached it and its handle has  *)
(* been completed.                                                           *)
OkWasCompleted ==
    \A r \in RequestsA :
        a_call[r] = "Ok" => \E n \in DOMAIN a_sent :
                            /\ a_sent[n].kind = "Request" /\ a_sent[n].data = r
                            /\ \E i \in DOMAIN b_delivered :
                                b_delivered[i] = [kind |-> "Request", n |-> n]
                            /\ b_replies[n] = 1

(* Each end's Sender waits for the other end to read, and neither reads: its *)
(* Receiver waits for the Connection, which waits for that Sender, or has    *)
(* already been closed.                                                      *)
LinkStall == A!EndBlocked /\ B!EndBlocked

(* Nothing at either end ends the stall. *)
LinkStallIsForever == [][LinkStall => LinkStall']_linkVars

(* Nothing is left to do but to close.  The programs are finite and every   *)
(* step uses up a call, a message or a state of a task that does not come    *)
(* back, so every run of a link comes to rest, and what holds at rest is     *)
(* what eventually comes about.                                              *)
AtRest ==
    ~ENABLED (\/ A!EndWork /\ UNCHANGED bVars
              \/ B!EndWork /\ UNCHANGED aVars)

(* As long as nobody closes, a program of A that has no close runs to its    *)
(* end: every call returns and every event and request of it reaches B's     *)
(* user, unless the ends stall.                                              *)
EverythingArrives ==
    A!Running /\ B!Running /\ AtRest
        => \/ LinkStall
           \/ /\ Len(b_delivered) = Len(ProgramA)
              /\ \A r \in RequestsA : a_call[r] = "Ok"

(* When B has closed so has A in the end, and A's requests have ended,       *)
(* unless the ends stall or the cyclic wait forms at A.                      *)
PeerEnds ==
    b_conn = "done" /\ AtRest
        => \/ /\ a_conn = "done"
              /\ \A r \in RequestsA : a_call[r] # "waiting"
           \/ LinkStall \/ A!CyclicWait

(* The peer of module Connection, which may send anything a user of the      *)
(* library can cause, stands for a peer that runs the library: both ends of  *)
(* a link behave as module Connection allows.                                *)
EndsAreConnections == A!Spec /\ B!Spec
=============================================================================
