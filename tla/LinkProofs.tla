----------------------------- MODULE LinkProofs -----------------------------
(***************************************************************************)
(* Proofs about module Link, for any programs and any buffers between the  *)
(* ends: each end is a connection, the stall is for good, and what end A   *)
(* sends to end B arrives in order and is what A gets answers to.          *)
(***************************************************************************)
EXTENDS Link, SequenceTheorems, TLAPS

(* The two ends again, with what is proved of a connection. *)
PA == INSTANCE ConnectionPromiseProofs
    WITH TimedRequests <- {}, Requests <- RequestsA, Events <- EventsA,
         Closers <- ClosersA, MaxFrames <- MaxFramesA, call <- a_call,
         oneshot <- a_oneshot, reply <- a_reply, rx <- a_rx, conn <- a_conn,
         conn_msg <- a_conn_msg, next_id <- a_next_id,
         reply_map <- a_reply_map, internal <- a_internal,
         receiver <- a_receiver, receiver_msg <- a_receiver_msg,
         receiver_rx <- a_receiver_rx, sender <- a_sender,
         sender_msg <- a_sender_msg, sender_rx <- a_sender_rx,
         event_rx <- a_event_rx, user <- a_user, handles <- a_handles,
         ws <- a_ws, frames <- a_frames, accepted <- a_accepted,
         sent <- a_sent, lost <- a_lost, replies <- a_replies,
         arrived <- a_arrived, delivered <- a_delivered

PB == INSTANCE ConnectionPromiseProofs
    WITH TimedRequests <- {}, Requests <- RequestsB, Events <- EventsB,
         Closers <- ClosersB, MaxFrames <- MaxFramesB, call <- b_call,
         oneshot <- b_oneshot, reply <- b_reply, rx <- b_rx, conn <- b_conn,
         conn_msg <- b_conn_msg, next_id <- b_next_id,
         reply_map <- b_reply_map, internal <- b_internal,
         receiver <- b_receiver, receiver_msg <- b_receiver_msg,
         receiver_rx <- b_receiver_rx, sender <- b_sender,
         sender_msg <- b_sender_msg, sender_rx <- b_sender_rx,
         event_rx <- b_event_rx, user <- b_user, handles <- b_handles,
         ws <- b_ws, frames <- b_frames, accepted <- b_accepted,
         sent <- b_sent, lost <- b_lost, replies <- b_replies,
         arrived <- b_arrived, delivered <- b_delivered

-----------------------------------------------------------------------------
(* Each end is a connection. *)

(* A step of end A is a step of a connection. *)
LEMMA EndStepA == A!EndNext => A!Next
  BY LinkAssumption
     DEF EndAssumption, A!EndNext, A!EndWork, A!MainCall, A!MainClose, A!Call,
         A!ReceiveEvents, A!Owed, A!EndSender, A!Write, A!EndReceiver,
         A!Read, A!LinkClose, A!Next, A!ReceiverStep, A!SenderStep,
         A!UserStep, A!Calls

(* A step of end B is a step of a connection. *)
LEMMA EndStepB == B!EndNext => B!Next
  BY LinkAssumption
     DEF EndAssumption, B!EndNext, B!EndWork, B!MainCall, B!MainClose, B!Call,
         B!ReceiveEvents, B!Owed, B!EndSender, B!Write, B!EndReceiver,
         B!Read, B!LinkClose, B!Next, B!ReceiverStep, B!SenderStep,
         B!UserStep, B!Calls

(* The variables of an end are those of its connection. *)
LEMMA EndVars == /\ UNCHANGED aVars => UNCHANGED A!vars
                 /\ UNCHANGED bVars => UNCHANGED B!vars
  BY DEF aVars, bVars, A!vars, A!callVars, A!connVars, A!receiverVars,
         A!senderVars, A!userVars, A!wireVars, B!vars, B!callVars, B!connVars,
         B!receiverVars, B!senderVars, B!userVars, B!wireVars

(* Whatever the two users do and however TCP delays their messages, each end *)
(* of a link behaves as module Connection allows: the peer of that module,   *)
(* which answers and sends at will, stands for a peer that runs the library, *)
(* and what is proved of one connection holds of both ends.                  *)
THEOREM EndsImplementConnection == LinkSpec => EndsAreConnections
<1>1. LinkInit => A!Init /\ B!Init
  BY DEF LinkInit
<1>2. [LinkNext]_linkVars => [A!Next]_A!vars /\ [B!Next]_B!vars
  BY EndStepA, EndStepB, EndVars DEF LinkNext, linkVars
<1> QED
  BY <1>1, <1>2, PTL DEF LinkSpec, EndsAreConnections, A!Spec, B!Spec

(* A connection's step is the same in both instances for end A, and so are  *)
(* its variables and its initial state.                                      *)
LEMMA StepA == A!Next => PA!Next
  BY DEF A!None, PA!None, A!Some, PA!Some, A!Get, PA!Get, A!CloseMsg,
         PA!CloseMsg, A!Next, PA!Next, A!ConnStep, PA!ConnStep, A!HandleEvent,
         PA!HandleEvent, A!HandleRequest, PA!HandleRequest, A!SendRequest,
         PA!SendRequest, A!Resolve, PA!Resolve, A!HandleClose, PA!HandleClose,
         A!PassToSender, PA!PassToSender, A!HandleInternalUserMsg,
         PA!HandleInternalUserMsg, A!HandleInternalReply,
         PA!HandleInternalReply, A!HandleInternalClose,
         PA!HandleInternalClose, A!Emit, PA!Emit, A!CloseReceiver,
         PA!CloseReceiver, A!CloseSender, PA!CloseSender, A!CancelRequests,
         PA!CancelRequests, A!Pending, PA!Pending, A!EmitClose, PA!EmitClose,
         A!ReceiverStep, PA!ReceiverStep, A!ReadUserMsg, PA!ReadUserMsg,
         A!ReadReply, PA!ReadReply, A!ReadMessage, PA!ReadMessage,
         A!SkipFrame, PA!SkipFrame, A!ReadEnd, PA!ReadEnd, A!PassToConnection,
         PA!PassToConnection, A!Forward, PA!Forward, A!ReceiverNotify,
         PA!ReceiverNotify, A!ReceiverClose, PA!ReceiverClose, A!SenderStep,
         PA!SenderStep, A!SenderTake, PA!SenderTake, A!WriteOk, PA!WriteOk,
         A!WriteLost, PA!WriteLost, A!WriteClosed, PA!WriteClosed,
         A!SenderNotify, PA!SenderNotify, A!SenderClose, PA!SenderClose,
         A!UserStep, PA!UserStep, A!UserRecv, PA!UserRecv, A!UserDrop,
         PA!UserDrop, A!Complete, PA!Complete, A!PeerClose, PA!PeerClose,
         A!CallerStep, PA!CallerStep, A!Accept, PA!Accept, A!Refuse,
         PA!Refuse, A!Return, PA!Return, A!Timeout, PA!Timeout, A!Calls,
         PA!Calls, A!Ids, PA!Ids, A!TheirIds, PA!TheirIds, A!UserMsg,
         PA!UserMsg, A!ReplyMsg, PA!ReplyMsg, A!callVars, PA!callVars,
         A!connVars, PA!connVars, A!receiverVars, PA!receiverVars,
         A!senderVars, PA!senderVars, A!userVars, PA!userVars, A!wireVars,
         PA!wireVars

(* The variables of end A. *)
LEMMA VarsA == UNCHANGED A!vars => UNCHANGED PA!vars
  BY DEF A!vars, PA!vars, A!callVars, PA!callVars, A!connVars, PA!connVars,
         A!receiverVars, PA!receiverVars, A!senderVars, PA!senderVars,
         A!userVars, PA!userVars, A!wireVars, PA!wireVars

(* A connection's step is the same in both instances for end B, and so are  *)
(* its variables and its initial state.                                      *)
LEMMA StepB == B!Next => PB!Next
  BY DEF B!None, PB!None, B!Some, PB!Some, B!Get, PB!Get, B!CloseMsg,
         PB!CloseMsg, B!Next, PB!Next, B!ConnStep, PB!ConnStep, B!HandleEvent,
         PB!HandleEvent, B!HandleRequest, PB!HandleRequest, B!SendRequest,
         PB!SendRequest, B!Resolve, PB!Resolve, B!HandleClose, PB!HandleClose,
         B!PassToSender, PB!PassToSender, B!HandleInternalUserMsg,
         PB!HandleInternalUserMsg, B!HandleInternalReply,
         PB!HandleInternalReply, B!HandleInternalClose,
         PB!HandleInternalClose, B!Emit, PB!Emit, B!CloseReceiver,
         PB!CloseReceiver, B!CloseSender, PB!CloseSender, B!CancelRequests,
         PB!CancelRequests, B!Pending, PB!Pending, B!EmitClose, PB!EmitClose,
         B!ReceiverStep, PB!ReceiverStep, B!ReadUserMsg, PB!ReadUserMsg,
         B!ReadReply, PB!ReadReply, B!ReadMessage, PB!ReadMessage,
         B!SkipFrame, PB!SkipFrame, B!ReadEnd, PB!ReadEnd, B!PassToConnection,
         PB!PassToConnection, B!Forward, PB!Forward, B!ReceiverNotify,
         PB!ReceiverNotify, B!ReceiverClose, PB!ReceiverClose, B!SenderStep,
         PB!SenderStep, B!SenderTake, PB!SenderTake, B!WriteOk, PB!WriteOk,
         B!WriteLost, PB!WriteLost, B!WriteClosed, PB!WriteClosed,
         B!SenderNotify, PB!SenderNotify, B!SenderClose, PB!SenderClose,
         B!UserStep, PB!UserStep, B!UserRecv, PB!UserRecv, B!UserDrop,
         PB!UserDrop, B!Complete, PB!Complete, B!PeerClose, PB!PeerClose,
         B!CallerStep, PB!CallerStep, B!Accept, PB!Accept, B!Refuse,
         PB!Refuse, B!Return, PB!Return, B!Timeout, PB!Timeout, B!Calls,
         PB!Calls, B!Ids, PB!Ids, B!TheirIds, PB!TheirIds, B!UserMsg,
         PB!UserMsg, B!ReplyMsg, PB!ReplyMsg, B!callVars, PB!callVars,
         B!connVars, PB!connVars, B!receiverVars, PB!receiverVars,
         B!senderVars, PB!senderVars, B!userVars, PB!userVars, B!wireVars,
         PB!wireVars

(* The variables of end B. *)
LEMMA VarsB == UNCHANGED B!vars => UNCHANGED PB!vars
  BY DEF B!vars, PB!vars, B!callVars, PB!callVars, B!connVars, PB!connVars,
         B!receiverVars, PB!receiverVars, B!senderVars, PB!senderVars,
         B!userVars, PB!userVars, B!wireVars, PB!wireVars

(* The initial state of end A. *)
LEMMA InitsA == A!Init => PA!Init
  BY DEF A!None, PA!None, A!Init, PA!Init, A!Calls, PA!Calls, A!Ids, PA!Ids,
         A!TheirIds, PA!TheirIds

(* The initial state of end B. *)
LEMMA InitsB == B!Init => PB!Init
  BY DEF B!None, PB!None, B!Init, PB!Init, B!Calls, PB!Calls, B!Ids, PB!Ids,
         B!TheirIds, PB!TheirIds

(* The assumptions of module Connection hold of both ends. *)
LEMMA EndConstants == PA!ConstantsAssumption /\ PB!ConstantsAssumption
  BY LinkAssumption
     DEF EndAssumption, PA!ConstantsAssumption, PB!ConstantsAssumption,
         CloseMsg, PA!CloseMsg, PB!CloseMsg

(* What is proved of a connection holds of either end; what needs ids that   *)
(* do not come round, of end A when it has enough of them.                   *)
LEMMA EndInvariants ==
    /\ LinkSpec => []PA!EndInv /\ []PB!EndInv
    /\ PA!EnoughIds => (LinkSpec => []PA!GapInv)
<1>1. LinkSpec => PA!Spec /\ PB!Spec
  BY EndsImplementConnection, StepA, VarsA, InitsA, StepB, VarsB, InitsB, PTL
     DEF EndsAreConnections, A!Spec, B!Spec, PA!Spec, PB!Spec
<1>2. PA!Spec => []PA!EndInv
  BY PA!EndInvariant, EndConstants
<1>3. PB!Spec => []PB!EndInv
  BY PB!EndInvariant, EndConstants
<1>4. PA!EnoughIds => (PA!Spec => []PA!GapInv)
  BY PA!GapInvariant, EndConstants
<1> QED
  BY <1>1, <1>2, <1>3, <1>4, PTL

-----------------------------------------------------------------------------
(* The stall. *)

(* While end A waits for its peer to read and does not read itself, none of *)
(* its steps writes, reads or ends its Sender, and it goes on waiting.       *)
LEMMA BlockedA ==
    ASSUME A!EndBlocked, a_user = "listening", A!EndNext,
           b_sender # "done", UNCHANGED bVars
    PROVE  A!EndBlocked' /\ UNCHANGED <<a_frames, a_sent, a_sender>>
<1> USE DEF A!EndBlocked, A!WriteBlocked, A!ReadBlocked, A!ConnBlocked,
            A!Room, A!Owed, A!callVars, A!connVars,
            A!receiverVars, A!senderVars, A!userVars, A!wireVars,
            bVars
<1>1. ~A!EndSender /\ ~A!LinkClose
  BY DEF A!EndSender, A!SenderTake, A!Write, A!WriteOk, A!WriteLost,
         A!WriteClosed, A!SenderNotify, A!SenderClose, A!LinkClose
<1>2. ~A!EndReceiver
  BY DEF A!EndReceiver, A!Read, A!ReadUserMsg, A!ReadReply,
         A!ReadMessage, A!ReadEnd, A!Forward, A!PassToConnection,
         A!ReceiverNotify, A!ReceiverClose
<1>3. CASE A!MainCall \/ A!MainClose
  BY <1>3 DEF A!MainCall, A!MainClose, A!Call, A!CallerStep,
              A!Accept, A!Refuse, A!Return
<1>4. CASE A!ReceiveEvents
  BY <1>4 DEF A!ReceiveEvents, A!UserRecv, A!Complete
<1>5. CASE A!ConnStep
  <2>1. UNCHANGED <<a_frames, a_sent, a_sender, a_ws, a_receiver>>
    BY <1>5
       DEF A!ConnStep, A!HandleEvent, A!HandleRequest, A!HandleClose,
           A!PassToSender, A!HandleInternalUserMsg,
           A!HandleInternalReply, A!HandleInternalClose, A!Emit,
           A!CloseReceiver, A!CloseSender, A!CancelRequests,
           A!EmitClose
  <2>2. a_receiver # "done" => FALSE
    BY <1>5, LinkAssumption
       DEF EndAssumption, A!ConnStep, A!HandleEvent, A!HandleRequest,
           A!HandleClose,
           A!PassToSender, A!HandleInternalUserMsg,
           A!HandleInternalReply, A!HandleInternalClose, A!Emit,
           A!CloseReceiver, A!CloseSender, A!CancelRequests,
           A!EmitClose
  <2> QED
    BY <2>1, <2>2
<1> QED
  BY <1>1, <1>2, <1>3, <1>4, <1>5 DEF A!EndNext, A!EndWork

(* While end B waits for its peer to read and does not read itself, none of *)
(* its steps writes, reads or ends its Sender, and it goes on waiting.       *)
LEMMA BlockedB ==
    ASSUME B!EndBlocked, b_user = "listening", B!EndNext,
           a_sender # "done", UNCHANGED aVars
    PROVE  B!EndBlocked' /\ UNCHANGED <<b_frames, b_sent, b_sender>>
<1> USE DEF B!EndBlocked, B!WriteBlocked, B!ReadBlocked, B!ConnBlocked,
            B!Room, B!Owed, B!callVars, B!connVars,
            B!receiverVars, B!senderVars, B!userVars, B!wireVars,
            aVars
<1>1. ~B!EndSender /\ ~B!LinkClose
  BY DEF B!EndSender, B!SenderTake, B!Write, B!WriteOk, B!WriteLost,
         B!WriteClosed, B!SenderNotify, B!SenderClose, B!LinkClose
<1>2. ~B!EndReceiver
  BY DEF B!EndReceiver, B!Read, B!ReadUserMsg, B!ReadReply,
         B!ReadMessage, B!ReadEnd, B!Forward, B!PassToConnection,
         B!ReceiverNotify, B!ReceiverClose
<1>3. CASE B!MainCall \/ B!MainClose
  BY <1>3 DEF B!MainCall, B!MainClose, B!Call, B!CallerStep,
              B!Accept, B!Refuse, B!Return
<1>4. CASE B!ReceiveEvents
  BY <1>4 DEF B!ReceiveEvents, B!UserRecv, B!Complete
<1>5. CASE B!ConnStep
  <2>1. UNCHANGED <<b_frames, b_sent, b_sender, b_ws, b_receiver>>
    BY <1>5
       DEF B!ConnStep, B!HandleEvent, B!HandleRequest, B!HandleClose,
           B!PassToSender, B!HandleInternalUserMsg,
           B!HandleInternalReply, B!HandleInternalClose, B!Emit,
           B!CloseReceiver, B!CloseSender, B!CancelRequests,
           B!EmitClose
  <2>2. b_receiver # "done" => FALSE
    BY <1>5, LinkAssumption
       DEF EndAssumption, B!ConnStep, B!HandleEvent, B!HandleRequest,
           B!HandleClose,
           B!PassToSender, B!HandleInternalUserMsg,
           B!HandleInternalReply, B!HandleInternalClose, B!Emit,
           B!CloseReceiver, B!CloseSender, B!CancelRequests,
           B!EmitClose
  <2> QED
    BY <2>1, <2>2
<1> QED
  BY <1>1, <1>2, <1>3, <1>4, <1>5 DEF B!EndNext, B!EndWork

(* No step of end A gives up its event channel. *)
LEMMA ListeningA == A!EndNext => UNCHANGED a_user
  BY DEF A!EndNext, A!EndWork, A!MainCall, A!MainClose, A!Call,
         A!CallerStep, A!Accept, A!Refuse, A!Return, A!ReceiveEvents,
         A!UserRecv, A!Complete, A!EndSender, A!SenderTake, A!Write,
         A!WriteOk, A!WriteLost, A!WriteClosed, A!SenderNotify,
         A!SenderClose, A!EndReceiver, A!Read, A!ReadUserMsg,
         A!ReadReply, A!ReadMessage, A!ReadEnd, A!Forward,
         A!ReceiverNotify, A!ReceiverClose, A!LinkClose, A!PeerClose,
         A!ConnStep, A!HandleEvent, A!HandleRequest, A!HandleClose,
         A!PassToSender, A!HandleInternalUserMsg, A!HandleInternalReply,
         A!HandleInternalClose, A!Emit, A!CloseReceiver, A!CloseSender,
         A!CancelRequests, A!EmitClose, A!userVars

(* No step of end B gives up its event channel. *)
LEMMA ListeningB == B!EndNext => UNCHANGED b_user
  BY DEF B!EndNext, B!EndWork, B!MainCall, B!MainClose, B!Call,
         B!CallerStep, B!Accept, B!Refuse, B!Return, B!ReceiveEvents,
         B!UserRecv, B!Complete, B!EndSender, B!SenderTake, B!Write,
         B!WriteOk, B!WriteLost, B!WriteClosed, B!SenderNotify,
         B!SenderClose, B!EndReceiver, B!Read, B!ReadUserMsg,
         B!ReadReply, B!ReadMessage, B!ReadEnd, B!Forward,
         B!ReceiverNotify, B!ReceiverClose, B!LinkClose, B!PeerClose,
         B!ConnStep, B!HandleEvent, B!HandleRequest, B!HandleClose,
         B!PassToSender, B!HandleInternalUserMsg, B!HandleInternalReply,
         B!HandleInternalClose, B!Emit, B!CloseReceiver, B!CloseSender,
         B!CancelRequests, B!EmitClose, B!userVars

(* Both users of a link keep their event channel. *)
Listening == a_user = "listening" /\ b_user = "listening"

(* No step of either end ends the stall of both. *)
LEMMA StallNext == Listening /\ LinkStall /\ [LinkNext]_linkVars => LinkStall'
<1> SUFFICES ASSUME Listening, LinkStall, [LinkNext]_linkVars PROVE LinkStall'
  OBVIOUS
<1> USE DEF Listening, LinkStall
<1>1. a_sender # "done" /\ b_sender # "done"
  BY DEF A!EndBlocked, A!WriteBlocked, B!EndBlocked, B!WriteBlocked
<1>2. CASE A!EndNext /\ UNCHANGED bVars
  <2>1. A!EndBlocked' /\ UNCHANGED <<a_frames, a_sent, a_sender>>
    BY <1>1, <1>2, BlockedA
  <2>2. B!EndBlocked'
    BY <1>2, <2>1
       DEF bVars, B!EndBlocked, B!WriteBlocked, B!ReadBlocked, B!ConnBlocked,
           B!Room, B!Owed
  <2> QED
    BY <2>1, <2>2
<1>3. CASE B!EndNext /\ UNCHANGED aVars
  <2>1. B!EndBlocked' /\ UNCHANGED <<b_frames, b_sent, b_sender>>
    BY <1>1, <1>3, BlockedB
  <2>2. A!EndBlocked'
    BY <1>3, <2>1
       DEF aVars, A!EndBlocked, A!WriteBlocked, A!ReadBlocked, A!ConnBlocked,
           A!Room, A!Owed
  <2> QED
    BY <2>1, <2>2
<1>4. CASE UNCHANGED linkVars
  BY <1>4
     DEF linkVars, aVars, bVars, A!EndBlocked, A!WriteBlocked, A!ReadBlocked,
         A!ConnBlocked, A!Room, A!Owed, B!EndBlocked, B!WriteBlocked,
         B!ReadBlocked, B!ConnBlocked, B!Room, B!Owed
<1> QED
  BY <1>2, <1>3, <1>4 DEF LinkNext

(* Once each Sender waits for the other end to read and neither end reads,   *)
(* the link is stuck for good, whatever the programs, the buffers and the    *)
(* capacity of the event channels are.                                       *)
THEOREM StallForever == LinkSpec => LinkStallIsForever
<1>1. LinkInit => Listening
  BY DEF LinkInit, A!Init, B!Init, Listening
<1>2. Listening /\ [LinkNext]_linkVars => Listening'
  BY ListeningA, ListeningB DEF LinkNext, linkVars, aVars, bVars, Listening
<1>3. Listening /\ [LinkNext]_linkVars => [LinkStall => LinkStall']_linkVars
  BY StallNext
<1> QED
  BY <1>1, <1>2, <1>3, PTL DEF LinkSpec, LinkStallIsForever

-----------------------------------------------------------------------------
(* The wire from A to B. *)

(* A message that has come to B is the i-th call A's handle accepted. *)
Shown(m, i) ==
    /\ m.n \in DOMAIN a_sent
    /\ i \in DOMAIN a_accepted
    /\ a_sent[m.n].data = a_accepted[i]

(* B has read what A has written, up to a point.  A's websocket is closed    *)
(* only when B's Sender has ended, and before that no write of A fails.      *)
WireOpen ==
    /\ b_frames \in 0 .. Len(a_sent)
    /\ a_ws = "closed" => b_sender = "done"
    /\ a_lost # << >> => a_ws = "closed"

(* What has arrived at B is what A wrote, but for the replies. *)
ArrivedAsSent ==
    /\ \A i \in DOMAIN b_arrived :
            /\ b_arrived[i].n \in 1 .. b_frames
            /\ a_sent[b_arrived[i].n].kind = b_arrived[i].kind
    /\ \A n \in 1 .. b_frames :
            a_sent[n].kind # "Reply"
                => \E i \in DOMAIN b_arrived : b_arrived[i].n = n

(* As long as B's loop runs it comes in the order of A's calls, and so does  *)
(* what B's user can receive, for good.                                      *)
ArrivedInOrder ==
    /\ PB!Running => \A i \in DOMAIN b_arrived : Shown(b_arrived[i], i)
    /\ \A i \in DOMAIN PB!Out :
            PB!Out[i] = CloseMsg \/ Shown(PB!Out[i], i)

WireInv == WireOpen /\ ArrivedAsSent /\ ArrivedInOrder

(* What A has accepted and written stays as it is. *)
LEMMA GrowsA ==
    ASSUME PA!EndInv, [PA!Next]_PA!vars
    PROVE  /\ Len(a_sent) \in Nat /\ Len(a_sent') \in Nat
           /\ Len(a_sent) <= Len(a_sent')
           /\ DOMAIN a_sent = 1 .. Len(a_sent)
           /\ DOMAIN a_sent' = 1 .. Len(a_sent')
           /\ \A i \in DOMAIN a_sent : i \in DOMAIN a_sent'
                                         /\ a_sent'[i] = a_sent[i]
           /\ \A i \in DOMAIN a_accepted :
                    i \in DOMAIN a_accepted' /\ a_accepted'[i] = a_accepted[i]
<1>1. PA!TypeInv /\ PA!TypeInv'
  BY PA!TypeNext, EndConstants DEF PA!EndInv
<1>2. /\ a_sent \in Seq(PA!OurMsg) /\ a_accepted \in Seq(PA!Calls)
      /\ a_sent' \in Seq(PA!OurMsg) /\ a_accepted' \in Seq(PA!Calls)
  BY <1>1 DEF PA!TypeInv, PA!TypeOK, PA!OurMsg, PA!Calls, PA!Ids, PA!TheirIds
<1>3. PA!Starts(a_sent, a_sent') /\ PA!Starts(a_accepted, a_accepted')
  BY <1>1, PA!HistoriesGrow, EndConstants DEF PA!EndInv
<1>4. ASSUME NEW S, NEW p \in Seq(S), NEW q \in Seq(S), PA!Starts(p, q)
      PROVE  /\ Len(p) \in Nat /\ Len(q) \in Nat /\ Len(p) <= Len(q)
             /\ DOMAIN p = 1 .. Len(p) /\ DOMAIN q = 1 .. Len(q)
             /\ \A i \in DOMAIN p : i \in DOMAIN q /\ q[i] = p[i]
  BY <1>4 DEF PA!Starts
<1> QED
  BY <1>2, <1>3, <1>4

(* A's websocket is closed by the end of B's Sender, and no write of A fails *)
(* before.                                                                   *)
LEMMA ClosesA ==
    A!EndNext => /\ a_ws' = a_ws \/ (a_ws' = "closed" /\ b_sender = "done")
                 /\ a_lost' = a_lost \/ (a_ws = "closed" /\ a_ws' = a_ws)
  BY DEF A!EndNext, A!EndWork, A!MainCall, A!MainClose, A!Call,
         A!CallerStep, A!Accept, A!Refuse, A!Return, A!ReceiveEvents,
         A!UserRecv, A!Complete, A!EndSender, A!SenderTake, A!Write,
         A!WriteOk, A!WriteLost, A!WriteClosed, A!SenderNotify,
         A!SenderClose, A!EndReceiver, A!Read, A!ReadUserMsg,
         A!ReadReply, A!ReadMessage, A!ReadEnd, A!Forward,
         A!ReceiverNotify, A!ReceiverClose, A!LinkClose, A!PeerClose,
         A!ConnStep, A!HandleEvent, A!HandleRequest, A!HandleClose,
         A!PassToSender, A!HandleInternalUserMsg, A!HandleInternalReply,
         A!HandleInternalClose, A!Emit, A!CloseReceiver, A!CloseSender,
         A!CancelRequests, A!EmitClose, A!wireVars

(* Only a read brings B anything. *)
LEMMA ReadsB == B!EndNext => B!Read \/ UNCHANGED <<b_frames, b_arrived>>
  BY DEF B!EndNext, B!EndWork, B!MainCall, B!MainClose, B!Call,
         B!CallerStep, B!Accept, B!Refuse, B!Return, B!ReceiveEvents,
         B!UserRecv, B!Complete, B!EndSender, B!SenderTake, B!Write,
         B!WriteOk, B!WriteLost, B!WriteClosed, B!SenderNotify,
         B!SenderClose, B!EndReceiver, B!ReadEnd, B!Forward,
         B!ReceiverNotify, B!ReceiverClose, B!LinkClose, B!PeerClose,
         B!ConnStep, B!HandleEvent, B!HandleRequest, B!HandleClose,
         B!PassToSender, B!HandleInternalUserMsg, B!HandleInternalReply,
         B!HandleInternalClose, B!Emit, B!CloseReceiver, B!CloseSender,
         B!CancelRequests, B!EmitClose, B!wireVars

(* A step of A leaves what has come to B as it was. *)
LEMMA WireNextA ==
    ASSUME PA!EndInv, WireInv, A!EndNext, UNCHANGED bVars
    PROVE  WireInv'
<1>1. [PA!Next]_PA!vars
  BY EndStepA, StepA
<1>2. /\ Len(a_sent) \in Nat /\ Len(a_sent') \in Nat
      /\ Len(a_sent) <= Len(a_sent')
      /\ DOMAIN a_sent = 1 .. Len(a_sent)
      /\ DOMAIN a_sent' = 1 .. Len(a_sent')
      /\ \A i \in DOMAIN a_sent :
            i \in DOMAIN a_sent' /\ a_sent'[i] = a_sent[i]
      /\ \A i \in DOMAIN a_accepted :
            i \in DOMAIN a_accepted' /\ a_accepted'[i] = a_accepted[i]
  BY <1>1, GrowsA
<1>3. UNCHANGED <<b_frames, b_arrived, b_sender, b_conn, b_delivered,
                  b_event_rx>>
  BY DEF bVars
<1>4. UNCHANGED <<PB!Out, PB!Running>>
  BY <1>3 DEF PB!Out, PB!Running
<1>5. \A m, i : Shown(m, i) => Shown(m, i)'
  BY <1>2 DEF Shown
<1>6. WireOpen'
  BY <1>2, <1>3, ClosesA DEF WireInv, WireOpen
<1>7. ArrivedAsSent'
  <2>1. \A n \in 1 .. b_frames : a_sent'[n] = a_sent[n]
    BY <1>2 DEF WireInv, WireOpen
  <2> QED
    BY <1>3, <2>1 DEF WireInv, ArrivedAsSent
<1>8. ArrivedInOrder'
  BY <1>3, <1>4, <1>5 DEF WireInv, ArrivedInOrder
<1> QED
  BY <1>6, <1>7, <1>8 DEF WireInv

(* While B's loop runs no write of A has failed, so the next message on the  *)
(* wire, if it is no reply, is the next call of A's handle.                  *)
LEMMA NextInLine ==
    ASSUME PA!EndInv, PA!GapInv, PB!EndInv, WireInv, PB!Running,
           NEW n \in DOMAIN a_sent, n = b_frames + 1, a_sent[n].kind # "Reply"
    PROVE  /\ Len(b_arrived) + 1 \in DOMAIN a_accepted
           /\ a_accepted[Len(b_arrived) + 1] = a_sent[n].data
<1>1. a_lost = << >>
  BY DEF PB!EndInv, PB!SenderOutlivesLoop, PB!Running, WireInv, WireOpen
<1>2. PICK k \in DOMAIN a_accepted :
         /\ a_accepted[k] = a_sent[n].data
         /\ \A j \in 1 .. k - 1 :
              \E p \in 1 .. n - 1 : /\ a_sent[p].kind # "Reply"
                                    /\ a_sent[p].data = a_accepted[j]
  BY <1>1, PA!WireIsWhole, EndConstants DEF PA!EndInv, PA!GapInv
<1>3. /\ Len(b_arrived) \in Nat /\ DOMAIN b_arrived = 1 .. Len(b_arrived)
      /\ \A i \in DOMAIN b_arrived : b_arrived[i].kind \in {"Request", "Event"}
  <2>1. b_arrived \in Seq(PB!UserMsg)
    BY DEF PB!EndInv, PB!TypeInv, PB!TypeOK, PB!UserMsg, PB!TheirIds
  <2>2. \A i \in DOMAIN b_arrived : b_arrived[i] \in PB!UserMsg
    BY <2>1
  <2> QED
    BY <2>1, <2>2 DEF PB!UserMsg
<1>4. /\ DOMAIN a_sent = 1 .. Len(a_sent) /\ Len(a_sent) \in Nat
      /\ DOMAIN a_accepted = 1 .. Len(a_accepted) /\ Len(a_accepted) \in Nat
      /\ b_frames \in 0 .. Len(a_sent)
  <2>1. a_sent \in Seq(PA!OurMsg) /\ a_accepted \in Seq(PA!Calls)
    BY DEF PA!EndInv, PA!TypeInv, PA!TypeOK, PA!OurMsg, PA!Calls, PA!Ids,
           PA!TheirIds
  <2> QED
    BY <2>1 DEF WireInv, WireOpen
<1>5. k > Len(b_arrived)
  <2> SUFFICES ASSUME k <= Len(b_arrived) PROVE FALSE
    BY <1>3, <1>4
  <2> DEFINE p == b_arrived[k].n
  <2>1. k \in DOMAIN b_arrived
    BY <1>3, <1>4
  <2>2. p \in 1 .. b_frames /\ a_sent[p].kind # "Reply"
    BY <1>3, <2>1 DEF WireInv, ArrivedAsSent
  <2>3. a_sent[p].data = a_accepted[k]
    BY <2>1 DEF WireInv, ArrivedInOrder, Shown
  <2>4. p \in DOMAIN a_sent /\ p < n
    BY <1>4, <2>2
  <2> HIDE DEF p
  <2>5. a_sent[p].data # a_sent[n].data
    BY <2>2, <2>4, PA!WrittenOnce, EndConstants DEF PA!EndInv
  <2> QED
    BY <1>2, <2>3, <2>5
<1>6. k <= Len(b_arrived) + 1
  <2> SUFFICES ASSUME Len(b_arrived) + 1 < k PROVE FALSE
    BY <1>3, <1>4
  <2> DEFINE j == Len(b_arrived) + 1
  <2>1. j \in 1 .. k - 1 /\ j \in DOMAIN a_accepted
    BY <1>3, <1>4
  <2>2. PICK p \in 1 .. n - 1 : /\ a_sent[p].kind # "Reply"
                                /\ a_sent[p].data = a_accepted[j]
    BY <1>2, <2>1
  <2>3. p \in 1 .. b_frames
    BY <1>4, <2>2
  <2>4. PICK i \in DOMAIN b_arrived : b_arrived[i].n = p
    BY <2>2, <2>3 DEF WireInv, ArrivedAsSent
  <2>5. i \in DOMAIN a_accepted /\ a_accepted[i] = a_accepted[j]
    BY <2>2, <2>4 DEF WireInv, ArrivedInOrder, Shown
  <2>6. i = j
    BY <2>1, <2>5 DEF PA!EndInv, PA!OrderInv, PA!AcceptedOnce
  <2> QED
    BY <1>3, <2>4, <2>6
<1> QED
  BY <1>2, <1>3, <1>4, <1>5, <1>6

(* A step of B keeps what it has read in order. *)
LEMMA WireNextB ==
    ASSUME PA!EndInv, PA!GapInv, PB!EndInv, WireInv, B!EndNext, UNCHANGED aVars
    PROVE  WireInv'
<1>1. [PB!Next]_PB!vars
  BY EndStepB, StepB
<1>2. UNCHANGED <<a_sent, a_accepted, a_ws, a_lost>>
  BY DEF aVars
<1>3. /\ PB!Running' => PB!Running
      /\ b_sender = "done" => b_sender' = "done"
  BY <1>1, PB!HistoriesGrow, EndConstants DEF PB!EndInv
<1>4. \A m, i : Shown(m, i)' <=> Shown(m, i)
  BY <1>2 DEF Shown
<1>5. /\ b_arrived \in Seq(PB!UserMsg) /\ Len(b_arrived) \in Nat
      /\ DOMAIN b_arrived = 1 .. Len(b_arrived)
      /\ Len(a_sent) \in Nat /\ DOMAIN a_sent = 1 .. Len(a_sent)
  <2>1. b_arrived \in Seq(PB!UserMsg)
    BY DEF PB!EndInv, PB!TypeInv, PB!TypeOK, PB!UserMsg, PB!TheirIds
  <2>2. a_sent \in Seq(PA!OurMsg)
    BY DEF PA!EndInv, PA!TypeInv, PA!TypeOK, PA!OurMsg, PA!Ids, PA!TheirIds
  <2> QED
    BY <2>1, <2>2
<1>6. b_frames \in 0 .. Len(a_sent)
  BY DEF WireInv, WireOpen
<1> DEFINE n == b_frames + 1
<1>7. \/ UNCHANGED <<b_frames, b_arrived>>
      \/ /\ b_frames' = n /\ n \in DOMAIN a_sent
         /\ a_sent[n].kind = "Reply" /\ b_arrived' = b_arrived
      \/ /\ b_frames' = n /\ n \in DOMAIN a_sent
         /\ a_sent[n].kind \in {"Request", "Event"}
         /\ b_arrived' = Append(b_arrived, [kind |-> a_sent[n].kind, n |-> n])
  <2>1. ASSUME B!Read PROVE b_frames < Len(a_sent)
    BY <2>1 DEF B!Read
  <2>2. b_frames < Len(a_sent) => n \in DOMAIN a_sent
    BY <1>5, <1>6
  <2>3. ASSUME NEW i, B!ReadReply(i)
        PROVE  b_frames' = n /\ b_arrived' = b_arrived
    BY <2>3 DEF B!ReadReply, B!ReadMessage
  <2>4. ASSUME NEW k, B!ReadUserMsg(k)
        PROVE  /\ b_frames' = n
               /\ b_arrived' = Append(b_arrived, [kind |-> k, n |-> n])
    BY <2>4 DEF B!ReadUserMsg, B!ReadMessage
  <2> QED
    BY <2>1, <2>2, <2>3, <2>4, ReadsB DEF B!Read
<1>8. WireOpen'
  BY <1>2, <1>3, <1>5, <1>6, <1>7 DEF WireInv, WireOpen
<1>9. ArrivedAsSent' /\ (PB!Running => \A i \in DOMAIN b_arrived' :
                                           Shown(b_arrived'[i], i))
  <2>1. CASE UNCHANGED <<b_frames, b_arrived>>
    BY <1>2, <1>3, <2>1 DEF WireInv, ArrivedAsSent, ArrivedInOrder
  <2>2. CASE /\ b_frames' = n /\ a_sent[n].kind = "Reply"
             /\ b_arrived' = b_arrived
    BY <1>2, <1>3, <1>6, <2>2 DEF WireInv, ArrivedAsSent, ArrivedInOrder
  <2>3. CASE /\ b_frames' = n /\ n \in DOMAIN a_sent
             /\ a_sent[n].kind \in {"Request", "Event"}
             /\ b_arrived' =
                    Append(b_arrived, [kind |-> a_sent[n].kind, n |-> n])
    <3> DEFINE m == [kind |-> a_sent[n].kind, n |-> n]
    <3>1. /\ DOMAIN b_arrived' = 1 .. Len(b_arrived) + 1
          /\ \A i \in 1 .. Len(b_arrived) : b_arrived'[i] = b_arrived[i]
          /\ b_arrived'[Len(b_arrived) + 1] = m
      BY <1>5, <2>3
    <3>2. m.n = n /\ m.kind = a_sent[n].kind
      OBVIOUS
    <3> HIDE DEF m
    <3>3. ArrivedAsSent'
      <4>1. \A i \in DOMAIN b_arrived' :
                /\ b_arrived'[i].n \in 1 .. n
                /\ a_sent[b_arrived'[i].n].kind = b_arrived'[i].kind
        BY <1>5, <1>6, <3>1, <3>2 DEF WireInv, ArrivedAsSent
      <4>2. \A p \in 1 .. b_frames : a_sent[p].kind # "Reply"
                => \E i \in DOMAIN b_arrived' : b_arrived'[i].n = p
        BY <1>5, <3>1 DEF WireInv, ArrivedAsSent
      <4>3. Len(b_arrived) + 1 \in DOMAIN b_arrived'
        BY <1>5, <3>1
      <4>4. \A p \in 1 .. n : a_sent[p].kind # "Reply"
                => \E i \in DOMAIN b_arrived' : b_arrived'[i].n = p
        BY <1>6, <3>1, <3>2, <4>2, <4>3
      <4> QED
        BY <1>2, <2>3, <4>1, <4>4 DEF ArrivedAsSent
    <3>4. ASSUME PB!Running, NEW i \in DOMAIN b_arrived'
          PROVE  Shown(b_arrived'[i], i)
      <4>1. CASE i \in DOMAIN b_arrived
        BY <1>3, <1>5, <3>1, <3>4, <4>1 DEF WireInv, ArrivedInOrder
      <4>2. CASE i = Len(b_arrived) + 1
        BY <1>3, <2>3, <3>1, <3>2, <3>4, <4>2, NextInLine DEF Shown
      <4> QED
        BY <1>5, <3>1, <4>1, <4>2
    <3> QED
      BY <3>3, <3>4
  <2> QED
    BY <1>7, <2>1, <2>2, <2>3
<1>10. ASSUME NEW i \in DOMAIN PB!Out', PB!Out'[i] # CloseMsg
       PROVE  Shown(PB!Out'[i], i)
  <2>1. \/ i \in DOMAIN PB!Out /\ PB!Out'[i] = PB!Out[i]
        \/ PB!Running /\ i \in DOMAIN b_arrived' /\ PB!Out'[i] = b_arrived'[i]
    BY <1>1, <1>10, PB!OutGrows, EndConstants
       DEF PB!EndInv, CloseMsg, PB!CloseMsg
  <2> QED
    BY <1>9, <1>10, <2>1 DEF WireInv, ArrivedInOrder
<1> QED
  BY <1>3, <1>4, <1>8, <1>9, <1>10 DEF WireInv, ArrivedInOrder

(* The ids of end A do not come round: next_id is a usize, so it would take  *)
(* 2^64 requests.                                                            *)
EnoughIdsA == IsFiniteSet(RequestsA) /\ Cardinality(RequestsA) <= IdSpace

(* That is what the proofs about its connection ask for. *)
LEMMA EnoughIdsOfA == EnoughIdsA => PA!EnoughIds
  BY DEF EnoughIdsA, PA!EnoughIds, PA!IsFiniteSet, IsFiniteSet,
         PA!Cardinality, Cardinality

(* The i-th message B's user receives is the i-th request or event that A's  *)
(* handle accepted, whatever the programs of both ends, the replies between  *)
(* the messages, the buffers of the wire and the moment of a close: none is  *)
(* lost before one that arrives, none comes twice and none overtakes.        *)
THEOREM ReceivesInOrder == EnoughIdsA => (LinkSpec => []ReceivedInOrder)
<1> SUFFICES ASSUME EnoughIdsA PROVE LinkSpec => []ReceivedInOrder
  OBVIOUS
<1>1. PA!EnoughIds
  BY EnoughIdsOfA
<1>2. LinkInit => WireInv
  <2> SUFFICES ASSUME LinkInit PROVE WireInv
    OBVIOUS
  <2>1. PB!Out = << >>
    BY DEF LinkInit, B!Init, PB!Out
  <2> QED
    BY <2>1
       DEF LinkInit, A!Init, B!Init, WireInv, WireOpen, ArrivedAsSent,
           ArrivedInOrder
<1>3. PA!EndInv /\ PA!GapInv /\ PB!EndInv /\ WireInv /\ [LinkNext]_linkVars
        => WireInv'
  <2> SUFFICES ASSUME PA!EndInv, PA!GapInv, PB!EndInv, WireInv,
                      [LinkNext]_linkVars
               PROVE  WireInv'
    OBVIOUS
  <2>1. CASE UNCHANGED linkVars
    BY <2>1
       DEF linkVars, aVars, bVars, WireInv, WireOpen, ArrivedAsSent,
           ArrivedInOrder, Shown, PB!Out, PB!Running
  <2> QED
    BY <2>1, WireNextA, WireNextB DEF LinkNext
<1>4. PB!EndInv /\ WireInv => ReceivedInOrder
  <2> SUFFICES ASSUME PB!EndInv, WireInv,
                      NEW i \in DOMAIN b_delivered, b_delivered[i] # CloseMsg
               PROVE  /\ i \in DOMAIN a_accepted
                      /\ a_sent[b_delivered[i].n].data = a_accepted[i]
    BY DEF ReceivedInOrder
  <2>1. \E S : b_delivered \in Seq(S) /\ b_event_rx \in Seq(S)
    BY DEF PB!EndInv, PB!TypeInv, PB!TypeOK
  <2>2. i \in DOMAIN PB!Out /\ PB!Out[i] = b_delivered[i]
    BY <2>1 DEF PB!Out
  <2> QED
    BY <2>2 DEF WireInv, ArrivedInOrder, Shown
<1> QED
  BY <1>1, <1>2, <1>3, <1>4, EndInvariants, PTL DEF LinkSpec

-----------------------------------------------------------------------------
(* Answers end to end. *)

(* The request that came to B in frame n has reached B's user, which has     *)
(* completed its handle, once.                                               *)
Reached(n) ==
    \E i \in DOMAIN b_delivered :
        b_delivered[i] = [kind |-> "Request", n |-> n]
Completed(n) == n \in PB!TheirIds /\ Reached(n) /\ b_replies[n] = 1

(* A reply on its way to A was caused by complete, and so was the answer A   *)
(* has read or given to its caller.                                          *)
AnswersInv ==
    /\ \A k \in b_handles : Reached(k)
    /\ \A k \in PB!RepliesOut : Completed(k)
    /\ \A d \in PA!AnswersIn :
            \E n \in DOMAIN a_sent : /\ a_sent[n].kind = "Request"
                                     /\ a_sent[n].data = d
                                     /\ Completed(n)

(* Only a read takes a frame off the wire. *)
LEMMA ReadsA == A!EndNext => A!Read \/ UNCHANGED a_frames
  BY DEF A!EndNext, A!EndWork, A!MainCall, A!MainClose, A!Call,
         A!CallerStep, A!Accept, A!Refuse, A!Return, A!ReceiveEvents,
         A!UserRecv, A!Complete, A!EndSender, A!SenderTake, A!Write,
         A!WriteOk, A!WriteLost, A!WriteClosed, A!SenderNotify,
         A!SenderClose, A!EndReceiver, A!ReadEnd, A!Forward,
         A!ReceiverNotify, A!ReceiverClose, A!LinkClose, A!PeerClose,
         A!ConnStep, A!HandleEvent, A!HandleRequest, A!HandleClose,
         A!PassToSender, A!HandleInternalUserMsg, A!HandleInternalReply,
         A!HandleInternalClose, A!Emit, A!CloseReceiver, A!CloseSender,
         A!CancelRequests, A!EmitClose, A!wireVars

(* B's user receives or completes one request that is owed, or neither. *)
LEMMA CompletesB ==
    B!EndNext => \/ UNCHANGED <<b_handles, b_delivered, b_replies>>
                 \/ B!UserRecv
                 \/ \E k \in B!Owed : B!Complete(k)
  BY DEF B!EndNext, B!EndWork, B!MainCall, B!MainClose, B!Call,
         B!CallerStep, B!Accept, B!Refuse, B!Return, B!ReceiveEvents,
         B!EndSender, B!SenderTake, B!Write,
         B!WriteOk, B!WriteLost, B!WriteClosed, B!SenderNotify,
         B!SenderClose, B!EndReceiver, B!Read, B!ReadUserMsg,
         B!ReadReply, B!ReadMessage, B!ReadEnd, B!Forward,
         B!ReceiverNotify, B!ReceiverClose, B!LinkClose, B!PeerClose,
         B!ConnStep, B!HandleEvent, B!HandleRequest, B!HandleClose,
         B!PassToSender, B!HandleInternalUserMsg, B!HandleInternalReply,
         B!HandleInternalClose, B!Emit, B!CloseReceiver, B!CloseSender,
         B!CancelRequests, B!EmitClose, B!userVars

(* The answer A reads is one B's user gave. *)
LEMMA AnswersNextA ==
    ASSUME PA!EndInv, PB!EndInv, AnswersInv, A!EndNext, UNCHANGED bVars
    PROVE  AnswersInv'
<1>1. [PA!Next]_PA!vars
  BY EndStepA, StepA
<1>2. \A i \in DOMAIN a_sent : i \in DOMAIN a_sent' /\ a_sent'[i] = a_sent[i]
  BY <1>1, GrowsA
<1>3. UNCHANGED <<b_handles, b_delivered, b_replies, b_sent, b_sender_msg,
                  b_sender_rx>>
  BY DEF bVars
<1>4. PB!RepliesOut' = PB!RepliesOut /\ \A n : Completed(n)' <=> Completed(n)
  BY <1>3 DEF PB!RepliesOut, PB!ReplyTo, Completed, Reached, PB!TheirIds
<1>5. ASSUME NEW d \in PA!AnswersIn', d \notin PA!AnswersIn
      PROVE  \E n \in DOMAIN a_sent : /\ a_sent[n].kind = "Request"
                                      /\ a_sent[n].data = d
                                      /\ Completed(n)
  <2>1. PICK i \in DOMAIN a_sent : PA!ReadReply(i) /\ a_sent[i].data = d
    BY <1>1, <1>5, PA!AnswersInNext, EndConstants DEF PA!EndInv
  <2> DEFINE Answer(j) == [kind |-> "Reply", id |-> a_sent[j].id,
                           data |-> a_sent[j].data]
  <2>2. a_frames' = a_frames + 1 /\ a_receiver_msg' = Some(Answer(i))
    BY <2>1 DEF PA!ReadReply, PA!ReadMessage, PA!Some, Some
  <2>3. a_frames' # a_frames
    BY <2>2 DEF PA!EndInv, PA!TypeInv, PA!TypeOK
  <2>4. A!Read
    BY <2>3, ReadsA
  <2> DEFINE m == b_sent[a_frames + 1]
  <2>5. a_frames + 1 \in DOMAIN b_sent /\ m \in PB!OurMsg
    <3>1. b_sent \in Seq(PB!OurMsg) /\ a_frames \in Nat
      BY DEF PB!EndInv, PB!TypeInv, PB!TypeOK, PB!OurMsg, PB!Ids, PB!TheirIds,
             PA!EndInv, PA!TypeInv, PA!TypeOK
    <3>2. a_frames < Len(b_sent)
      BY <2>4 DEF A!Read
    <3>3. a_frames + 1 \in DOMAIN b_sent
      BY <3>1, <3>2
    <3> QED
      BY <3>1, <3>3
  <2>6. \A k \in {"Request", "Event"} : ~A!ReadUserMsg(k)
    <3> SUFFICES ASSUME NEW k \in {"Request", "Event"}, A!ReadUserMsg(k)
                 PROVE  FALSE
      OBVIOUS
    <3>1. a_receiver_msg' = Some([kind |-> k, n |-> a_frames + 1])
      BY DEF A!ReadUserMsg, A!ReadMessage, A!Some, Some
    <3>2. Answer(i) = [kind |-> k, n |-> a_frames + 1]
      BY <2>2, <3>1 DEF Some
    <3>3. Answer(i).kind = k
      BY <3>2
    <3> QED
      BY <3>3
  <2>7. PICK j \in DOMAIN a_sent :
            m.n = j /\ A!ReadReply(j) /\ m.kind = "Reply"
    BY <2>4, <2>6 DEF A!Read
  <2>8. a_sent[j].kind = "Request" /\ a_receiver_msg' = Some(Answer(j))
    BY <2>7 DEF A!ReadReply, A!ReadMessage, A!Some, Some
  <2>9. a_sent[j].data = d
    <3>1. Answer(j) = Answer(i)
      BY <2>2, <2>8 DEF Some
    <3>2. Answer(j).data = a_sent[j].data /\ Answer(i).data = a_sent[i].data
      OBVIOUS
    <3> QED
      BY <2>1, <3>1, <3>2
  <2>10. j \in PB!RepliesOut
    <3>1. m = PB!ReplyTo(j) /\ j \in PB!TheirIds
      BY <2>5, <2>7 DEF PB!OurMsg, PB!ReplyTo
    <3> QED
      BY <2>5, <3>1 DEF PB!RepliesOut, PB!TheirIds
  <2> QED
    BY <2>8, <2>9, <2>10 DEF AnswersInv
<1> QED
  BY <1>2, <1>3, <1>4, <1>5 DEF AnswersInv, Reached

(* B's user completes only what it has received, and once. *)
LEMMA AnswersNextB ==
    ASSUME PB!EndInv, AnswersInv, B!EndNext, UNCHANGED aVars
    PROVE  AnswersInv'
<1>1. [PB!Next]_PB!vars
  BY EndStepB, StepB
<1>2. UNCHANGED <<a_sent, a_internal, a_receiver_msg, a_reply>>
  BY DEF aVars
<1>3. PA!AnswersIn' = PA!AnswersIn
  BY <1>2 DEF PA!AnswersIn
<1>4. /\ b_replies \in [PB!TheirIds -> 0 .. MaxReplies]
      /\ b_handles \subseteq PB!TheirIds
  BY DEF PB!EndInv, PB!TypeInv, PB!TypeOK, PB!TheirIds
<1>5. \E S : b_delivered \in Seq(S) /\ b_event_rx \in Seq(S)
  BY DEF PB!EndInv, PB!TypeInv, PB!TypeOK
<1>6. /\ \A n : Reached(n) => Reached(n)'
      /\ \A k \in b_handles' : k \in b_handles \/ Reached(k)'
  <2>1. CASE UNCHANGED <<b_handles, b_delivered>>
    BY <2>1 DEF Reached
  <2>2. CASE B!UserRecv
    <3> DEFINE e == Head(b_event_rx)
    <3>1. /\ b_event_rx # << >> /\ b_delivered' = Append(b_delivered, e)
          /\ b_handles' = b_handles \cup {k \in B!TheirIds :
                                e = [kind |-> "Request", n |-> k]}
      BY <2>2 DEF B!UserRecv
    <3>2. PICK S : b_delivered \in Seq(S) /\ b_event_rx \in Seq(S)
      BY <1>5
    <3>3. e \in S
      BY <3>1, <3>2, HeadTailProperties
    <3> HIDE DEF e
    <3>4. /\ DOMAIN b_delivered = 1 .. Len(b_delivered)
          /\ Len(b_delivered) \in Nat
          /\ DOMAIN b_delivered' = 1 .. Len(b_delivered) + 1
          /\ \A i \in 1 .. Len(b_delivered) : b_delivered'[i] = b_delivered[i]
          /\ b_delivered'[Len(b_delivered) + 1] = e
      BY <3>1, <3>2, <3>3
    <3>5. Len(b_delivered) + 1 \in DOMAIN b_delivered'
            /\ \A i \in DOMAIN b_delivered : i \in DOMAIN b_delivered'
      BY <3>4
    <3> QED
      BY <3>1, <3>4, <3>5 DEF Reached
  <2>3. CASE \E k \in B!Owed : B!Complete(k)
    BY <2>3 DEF B!Complete, Reached
  <2> QED
    BY <2>1, <2>2, <2>3, CompletesB
<1>7. /\ \A k \in PB!TheirIds : b_replies[k] = 1 => b_replies'[k] = 1
      /\ \A k \in PB!TheirIds : b_replies'[k] \in {b_replies[k], 1}
  <2>1. CASE \E k \in B!Owed : B!Complete(k)
    <3>1. PICK j \in B!Owed : B!Complete(j)
      BY <2>1
    <3>2. b_replies[j] = 0 /\ b_replies' = [b_replies EXCEPT ![j] = @ + 1]
      BY <3>1 DEF B!Owed, B!Complete
    <3> QED
      BY <1>4, <3>2
  <2>2. CASE UNCHANGED b_replies
    BY <2>2
  <2> QED
    BY <2>1, <2>2, CompletesB DEF B!UserRecv
<1>8. \A k \in PB!RepliesOut' : Completed(k)'
  <2> SUFFICES ASSUME NEW k \in PB!RepliesOut' PROVE Completed(k)'
    OBVIOUS
  <2>1. k \in PB!TheirIds
    BY DEF PB!RepliesOut, PB!TheirIds
  <2>2. CASE k \in PB!RepliesOut
    BY <1>6, <1>7, <2>1, <2>2 DEF AnswersInv, Completed, PB!TheirIds
  <2>3. CASE k \notin PB!RepliesOut
    <3>1. k \in b_handles /\ PB!Complete(k)
      BY <1>1, <2>3, PB!RepliesOutNext, EndConstants
         DEF PB!EndInv, PB!OrderInv
    <3>2. b_replies'[k] = b_replies[k] + 1
      BY <1>4, <2>1, <3>1 DEF PB!Complete
    <3>3. b_replies[k] \in Nat
      BY <1>4, <2>1
    <3>4. b_replies'[k] = 1
      BY <1>7, <2>1, <3>2, <3>3
    <3> QED
      BY <1>6, <2>1, <3>1, <3>4 DEF AnswersInv, Completed, PB!TheirIds
  <2> QED
    BY <2>2, <2>3
<1>9. \A n : Completed(n) => Completed(n)'
  BY <1>6, <1>7 DEF Completed, PB!TheirIds
<1> QED
  BY <1>2, <1>3, <1>6, <1>8, <1>9 DEF AnswersInv

(* An Ok that request returns at A is an answer of B's user to that request: *)
(* it was written, B's user received it, and completed its handle once.      *)
THEOREM AnswersComeFromPeer == EnoughIdsA => (LinkSpec => []OkWasCompleted)
<1> SUFFICES ASSUME EnoughIdsA PROVE LinkSpec => []OkWasCompleted
  OBVIOUS
<1>1. PA!EnoughIds
  BY EnoughIdsOfA
<1>2. LinkInit => AnswersInv
  <2> SUFFICES ASSUME LinkInit PROVE AnswersInv
    OBVIOUS
  <2>1. PB!RepliesOut = {} /\ PA!AnswersIn = {}
    BY DEF LinkInit, A!Init, B!Init, PB!RepliesOut, PA!AnswersIn, A!None,
           B!None, PA!Some, PB!Some
  <2> QED
    BY <2>1 DEF LinkInit, B!Init, AnswersInv
<1>3. PA!EndInv /\ PB!EndInv /\ AnswersInv /\ [LinkNext]_linkVars
        => AnswersInv'
  <2> SUFFICES ASSUME PA!EndInv, PB!EndInv, AnswersInv, [LinkNext]_linkVars
               PROVE  AnswersInv'
    OBVIOUS
  <2>1. CASE UNCHANGED linkVars
    <3>1. /\ UNCHANGED <<a_sent, a_internal, a_receiver_msg, a_reply>>
          /\ UNCHANGED <<b_handles, b_delivered, b_replies, b_sent,
                         b_sender_msg, b_sender_rx>>
      BY <2>1 DEF linkVars, aVars, bVars
    <3> QED
      BY <3>1
         DEF AnswersInv, Completed, Reached, PB!RepliesOut, PA!AnswersIn
  <2> QED
    BY <2>1, AnswersNextA, AnswersNextB DEF LinkNext
<1>4. PA!GapInv /\ AnswersInv => OkWasCompleted
  <2> SUFFICES ASSUME PA!GapInv, AnswersInv, NEW r \in RequestsA,
                      a_call[r] = "Ok"
               PROVE  \E n \in DOMAIN a_sent :
                        /\ a_sent[n].kind = "Request" /\ a_sent[n].data = r
                        /\ \E i \in DOMAIN b_delivered :
                            b_delivered[i] = [kind |-> "Request", n |-> n]
                        /\ b_replies[n] = 1
    BY DEF OkWasCompleted
  <2>1. a_reply[r] = PA!Some(r)
    BY DEF PA!GapInv, PA!AnswerInv, PA!AnsweredIsOwn
  <2>2. r \in PA!AnswersIn
    BY <2>1 DEF PA!AnswersIn
  <2> QED
    BY <2>2 DEF AnswersInv, Completed, Reached
<1> QED
  BY <1>1, <1>2, <1>3, <1>4, EndInvariants, PTL DEF LinkSpec
=============================================================================
