--------------------------- MODULE ConnectionView ---------------------------
(***************************************************************************)
(* A connection as its owner sees it, through its ConnectionHdl, the       *)
(* oneshots of its requests and the event channel, without Sender,         *)
(* Receiver, ids and frames.  Module Server is written against this view;  *)
(* module Connection is shown to implement it.                             *)
(*                                                                         *)
(* A request the connection holds, in its channel or awaiting its reply,   *)
(* leaves it once: answered or refused an id while the loop runs, canceled *)
(* with all others that await a reply when the loop has ended, or dropped  *)
(* with the channel when run returns.                                      *)
(*                                                                         *)
(* Each message it passes to its Sender, a Close included, it may never    *)
(* get rid of: the Sender may wait for a peer that does not read, or for   *)
(* the Connection.                                                         *)
(***************************************************************************)
EXTENDS Channel, Naturals, Sequences

CONSTANTS
    Requests, Events,
    Messages,       \* what a client may send
    EventCap

VARIABLES
    waiting,        \* requests whose caller still holds the oneshot
    oneshot,        \* the state of each request's oneshot
    rx,             \* channel of the handle
    conn,           \* "run", "send", "emit", "close" or "done"
    conn_msg,       \* the event it is passing to the owner
    pending,        \* requests that await a reply
    event_rx,       \* the event channel
    owner           \* "listening" while it holds that channel's receiver

oneshots == <<waiting, oneshot>>
events == <<event_rx, owner>>
viewVars == <<oneshots, rx, conn, conn_msg, pending, events>>

ViewInit ==
    /\ \A r \in Requests : oneshot[r] = "open"
    /\ rx = None
    /\ conn = "run" /\ conn_msg = None /\ pending = {}
    /\ event_rx = << >> /\ owner = "listening"

Resolve(R, v) ==
    oneshot' = [r \in Requests |-> IF r \in R \cap waiting THEN v
                                                           ELSE oneshot[r]]

(* A request is given an id, or dropped if the next id is still in use by   *)
(* one that awaits its reply.  Requests and events go on to the Sender.     *)
Take ==
    /\ conn = "run"
    /\ \/ \E r \in Requests :
            /\ rx = Some(r)
            /\ \/ /\ pending' = pending \cup {r} /\ conn' = "send"
                  /\ UNCHANGED oneshot
               \/ /\ pending # {} /\ Resolve({r}, "Dropped")
                  /\ UNCHANGED <<pending, conn>>
       \/ /\ \E e \in Events : rx = Some(e)
          /\ conn' = "send" /\ UNCHANGED <<oneshot, pending>>
       \/ /\ rx = Some(CloseMsg)
          /\ conn' = "close" /\ UNCHANGED <<oneshot, pending>>
    /\ rx' = None
    /\ UNCHANGED <<waiting, conn_msg, events>>

(* The Sender's channel has room. *)
Sent ==
    /\ conn = "send"
    /\ conn' = "run"
    /\ UNCHANGED <<oneshots, rx, conn_msg, pending, events>>

Reply ==
    /\ conn = "run"
    /\ \E r \in pending : Resolve({r}, "Ok") /\ pending' = pending \ {r}
    /\ UNCHANGED <<waiting, rx, conn, conn_msg, events>>

Read ==
    /\ conn = "run"
    /\ \E m \in Messages : conn_msg' = Some(m)
    /\ conn' = "emit"
    /\ UNCHANGED <<oneshots, rx, pending, events>>

PeerClose ==
    /\ conn = "run"
    /\ conn' = "close"
    /\ UNCHANGED <<oneshots, rx, conn_msg, pending, events>>

(* The Sender has room for a Close too: the requests are canceled. *)
Close ==
    /\ conn = "close"
    /\ Resolve(pending, "Canceled") /\ pending' = {}
    /\ conn_msg' = Some(CloseMsg) /\ conn' = "emit"
    /\ UNCHANGED <<waiting, rx, events>>

(* After its last event, Close, the connection is done and its channel gone. *)
Emit ==
    /\ conn = "emit"
    /\ \/ /\ owner = "listening"
          /\ Len(event_rx) < EventCap
          /\ event_rx' = event_rx \o conn_msg
       \/ owner = "gone" /\ UNCHANGED event_rx
    /\ \/ /\ conn_msg = Some(CloseMsg)
          /\ conn' = "done" /\ rx' = None
          /\ Resolve({r \in Requests : rx = Some(r)}, "Dropped")
       \/ /\ conn_msg # Some(CloseMsg)
          /\ conn' = IF owner = "listening" THEN "run" ELSE "close"
          /\ UNCHANGED <<rx, oneshot>>
    /\ conn_msg' = None
    /\ UNCHANGED <<waiting, pending, owner>>

(* What the owner and the callers do.  A call is sent only to a connection  *)
(* that is not done; the owner takes an event or gives up the receiver;     *)
(* oneshots of requests that are elsewhere may be resolved there.           *)
Outside ==
    /\ \/ UNCHANGED rx
       \/ conn # "done" /\ rx = None /\ rx' # None
    /\ \/ UNCHANGED events
       \/ event_rx # << >> /\ event_rx' = Tail(event_rx) /\ UNCHANGED owner
       \/ owner = "listening" /\ owner' = "gone" /\ event_rx' = << >>
    /\ \A r \in pending : oneshot'[r] = oneshot[r]
    /\ \A r \in Requests : rx = Some(r) => oneshot'[r] = oneshot[r]
    /\ UNCHANGED <<conn, conn_msg, pending>>

ViewNext == Take \/ Sent \/ Reply \/ Read \/ PeerClose \/ Close \/ Emit \/ Outside

ViewSpec == ViewInit /\ [][ViewNext]_viewVars
=============================================================================
