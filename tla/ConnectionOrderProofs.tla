------------------------ MODULE ConnectionOrderProofs ------------------------
(***************************************************************************)
(* The order of our messages: what Connection accepts from its handle, it  *)
(* writes to the websocket in that order and once.                         *)
(***************************************************************************)
EXTENDS ConnectionProofs, SequenceTheorems

-----------------------------------------------------------------------------
(* The line a call moves along: the channel of the handle, the hands of the  *)
(* Connection, the channel of the Sender, the hands of the Sender, the wire. *)

(* The messages that stand for a call of the handle. *)
CallMsg == {m \in OurMsg : m.kind # "Reply"}

(* The call a channel, or a task's hands, holds. *)
Held(c) == {d \in Calls : \E m \in CallMsg : c = Some(m) /\ m.data = d}

Queued == {c \in Calls : rx = Some(c)}

Written == {d \in Calls : \E i \in DOMAIN sent : sent[i].kind # "Reply"
                                                    /\ sent[i].data = d}

Accepted == {c \in Calls : \E i \in DOMAIN accepted : accepted[i] = c}

(* What is in S was accepted before what is in T. *)
Precedes(S, T) ==
    \A i, j \in DOMAIN accepted : accepted[i] \in S /\ accepted[j] \in T => i < j

(* The line is ordered from its end, the wire, to its beginning. *)
Ordered(W, S, R, C, Q) ==
    /\ W \cup S \cup R \cup C \cup Q \subseteq Accepted
    /\ Precedes(W, S \cup R \cup C \cup Q)
    /\ Precedes(S, R \cup C \cup Q)
    /\ Precedes(R, C \cup Q)
    /\ Precedes(C, Q)

(* A task holds a message only across the await that hands it on, and the    *)
(* Connection hands the Sender no reply.                                     *)
HandsAreFree ==
    /\ conn \notin {"send", "emit"} => conn_msg = None
    /\ conn = "send" => Get(conn_msg) \in CallMsg
    /\ receiver # "forward" => receiver_msg = None
    /\ sender # "write" => sender_msg = None

(* The channel accepts a call once, and not one that has failed to send. *)
AcceptedOnce ==
    /\ \A i, j \in DOMAIN accepted : accepted[i] = accepted[j] => i = j
    /\ \A c \in Accepted : call[c] \notin {"sending", "SendError"}

InLine == Ordered(Written, Held(sender_msg), Held(sender_rx), Held(conn_msg),
                  Queued)

(* WireInOrder, in terms of positions in accepted. *)
SentInOrder ==
    \A i, j \in DOMAIN sent :
        i < j /\ sent[i].kind # "Reply" /\ sent[j].kind # "Reply"
            => Precedes({sent[i].data}, {sent[j].data})

OrderInv == HandsAreFree /\ AcceptedOnce /\ InLine /\ SentInOrder

-----------------------------------------------------------------------------
(* A task takes a message into its hands when they are free and hands it on  *)
(* whole.                                                                    *)
LEMMA HandsNext == TypeInv /\ HandsAreFree /\ [Next]_vars => HandsAreFree'
<1> SUFFICES ASSUME TypeInv, HandsAreFree, [Next]_vars PROVE HandsAreFree'
  OBVIOUS
<1> USE DEF HandsAreFree
<1>1. CASE HandleEvent
  BY <1>1, GetSome DEF HandleEvent, OurMsg, CallMsg, receiverVars, senderVars
<1>2. CASE HandleRequest
  <2>1. PICK r \in Requests : SendRequest(r)
    BY <1>2 DEF HandleRequest
  <2>2. [kind |-> "Request", id |-> next_id, data |-> r] \in CallMsg
    BY DEF CallMsg, OurMsg, TypeInv, TypeOK
  <2> QED
    BY <1>2, <2>1, <2>2, GetSome
       DEF HandleRequest, SendRequest, receiverVars, senderVars
<1>3. CASE ConnStep /\ ~HandleEvent /\ ~HandleRequest
  BY <1>3
     DEF ConnStep, HandleClose, PassToSender, HandleInternalUserMsg,
         HandleInternalReply, HandleInternalClose, Emit, CloseReceiver,
         CloseSender, CancelRequests, EmitClose, receiverVars, senderVars
<1>4. CASE SenderStep
  BY <1>4 DEF SenderStep, SenderTake, WriteOk, WriteLost, WriteClosed,
              SenderNotify, SenderClose, connVars, receiverVars
<1>5. CASE ReceiverStep
  BY <1>5 DEF ReceiverStep, ReadUserMsg, ReadReply, ReadMessage, SkipFrame,
              ReadEnd, Forward, ReceiverNotify, ReceiverClose, connVars,
              receiverVars, senderVars
<1>6. CASE UserStep \/ PeerClose \/ UNCHANGED vars
  BY <1>6 DEF UserStep, UserRecv, UserDrop, Complete, PeerClose, vars,
              connVars, receiverVars, senderVars
<1>7. ASSUME NEW c, CallerStep(c) \/ Timeout(c) PROVE HandsAreFree'
  BY <1>7 DEF CallerStep, Accept, Refuse, Return, Timeout, connVars,
              receiverVars, senderVars
<1> QED
  BY <1>1, <1>2, <1>3, <1>4, <1>5, <1>6, <1>7 DEF Next

-----------------------------------------------------------------------------
(* What an empty and a full channel contribute to the line. *)
LEMMA HeldNone == Held(None) = {}
  BY SomeIsNotNone DEF Held

(* A message of ours stands for its call. *)
LEMMA HeldSome == \A m \in CallMsg : Held(Some(m)) = {m.data}
  BY SomeInjective DEF Held, CallMsg, OurMsg, Calls

(* A reply, a Close or a message of the peer stands for no call. *)
LEMMA HeldOther == \A m : m \notin CallMsg => Held(Some(m)) = {}
  BY SomeInjective DEF Held

(* A message of the peer for the user is none of our calls. *)
LEMMA UserMsgIsNoCall == \A m \in UserMsg : m \notin CallMsg
  BY DEF UserMsg, CallMsg, OurMsg

(* A write adds what the Sender held to what was written. *)
LEMMA WrittenNext ==
    ASSUME NEW m \in OurMsg, sent \in Seq(OurMsg), sent' = Append(sent, m)
    PROVE  Written' = Written \cup Held(Some(m))
<1>1. /\ DOMAIN sent = 1 .. Len(sent) /\ DOMAIN sent' = 1 .. Len(sent) + 1
      /\ Len(sent) \in Nat
      /\ \A i \in 1 .. Len(sent) : sent'[i] = sent[i]
      /\ sent'[Len(sent) + 1] = m
  OBVIOUS
<1>2. CASE m.kind # "Reply"
  <2>1. m.data \in Calls
    BY <1>2 DEF OurMsg, Calls
  <2>2. Held(Some(m)) = {m.data}
    BY <1>2, HeldSome DEF CallMsg
  <2> QED
    BY <1>1, <1>2, <2>1, <2>2 DEF Written
<1>3. CASE m.kind = "Reply"
  <2>1. Held(Some(m)) = {}
    BY <1>3, HeldOther DEF CallMsg
  <2> QED
    BY <1>1, <1>3, <2>1 DEF Written
<1> QED
  BY <1>2, <1>3

(* The line stays ordered when one place hands on to the next, free, place,  *)
(* and when a message leaves it.                                             *)
LEMMA LineMoves ==
    ASSUME NEW W, NEW S, NEW R, NEW C, NEW Q, Ordered(W, S, R, C, Q)
    PROVE  /\ Ordered(W \cup S, {}, R, C, Q)
           /\ Ordered(W, {}, R, C, Q)
           /\ Ordered(W, S, {}, C, Q)
           /\ Ordered(W, S, R, C, {})
           /\ S = {} => Ordered(W, R, {}, C, Q)
           /\ R = {} => Ordered(W, S, C, {}, Q)
           /\ C = {} => \A T \in SUBSET Q : Ordered(W, S, R, T, {})
  BY Zenon DEF Ordered, Precedes

(* A new call stands behind all others in the line. *)
LEMMA LineGrows ==
    ASSUME NEW W, NEW S, NEW R, NEW C, NEW c \in Calls,
           accepted \in Seq(Calls), accepted' = Append(accepted, c),
           c \notin Accepted, Ordered(W, S, R, C, {})
    PROVE  /\ Ordered(W, S, R, C, {c})'
           /\ Accepted' = Accepted \cup {c}
           /\ \A i \in DOMAIN accepted' :
                 \/ i \in DOMAIN accepted /\ accepted'[i] = accepted[i]
                 \/ i = Len(accepted) + 1 /\ accepted'[i] = c
           /\ \A T, U \in SUBSET Accepted : Precedes(T, U) => Precedes(T, U)'
<1>1. /\ DOMAIN accepted = 1 .. Len(accepted)
      /\ DOMAIN accepted' = 1 .. Len(accepted) + 1
      /\ Len(accepted) \in Nat
      /\ \A i \in 1 .. Len(accepted) : accepted'[i] = accepted[i]
      /\ accepted'[Len(accepted) + 1] = c
  OBVIOUS
<1>2. Accepted' = Accepted \cup {c}
  BY <1>1 DEF Accepted
<1>3. \A i \in DOMAIN accepted' :
         \/ i \in DOMAIN accepted /\ accepted'[i] = accepted[i]
         \/ i = Len(accepted) + 1 /\ accepted'[i] = c
  BY <1>1
<1>4. \A T, U \in SUBSET Accepted : Precedes(T, U) => Precedes(T, U)'
  BY <1>3 DEF Precedes
<1>5. \A T, U \in SUBSET Accepted :
         Precedes(T, U) => Precedes(T, U \cup {c})'
  <2> SUFFICES ASSUME NEW T \in SUBSET Accepted, NEW U \in SUBSET Accepted,
                      Precedes(T, U),
                      NEW i \in DOMAIN accepted', NEW j \in DOMAIN accepted',
                      accepted'[i] \in T, accepted'[j] \in U \cup {c}
               PROVE  i < j
    BY DEF Precedes
  <2>1. i \in DOMAIN accepted /\ accepted'[i] = accepted[i]
    BY <1>3
  <2>2. CASE j \in DOMAIN accepted /\ accepted'[j] = accepted[j]
    <3>1. accepted[j] # c
      BY <2>2 DEF Accepted
    <3> QED
      BY <2>1, <2>2, <3>1 DEF Precedes
  <2>3. CASE j = Len(accepted) + 1
    BY <1>1, <2>1, <2>3
  <2> QED
    BY <1>3, <2>2, <2>3
<1> DEFINE U1 == S \cup R \cup C
           U2 == R \cup C
<1>6. /\ W \subseteq Accepted /\ S \subseteq Accepted /\ R \subseteq Accepted
      /\ C \subseteq Accepted
      /\ Precedes(W, U1) /\ Precedes(S, U2) /\ Precedes(R, C) /\ Precedes(C, {})
  BY DEF Ordered, Precedes
<1>7. /\ Precedes(W, U1 \cup {c})' /\ Precedes(S, U2 \cup {c})'
      /\ Precedes(R, C \cup {c})' /\ Precedes(C, {} \cup {c})'
  BY <1>5, <1>6
<1>8. {} \cup {c} = {c}
  OBVIOUS
<1>9. Ordered(W, S, R, C, {c})'
  BY <1>2, <1>6, <1>7, <1>8 DEF Ordered
<1> QED
  BY <1>2, <1>3, <1>4, <1>9

-----------------------------------------------------------------------------
(* Nothing is in the line at first. *)
LEMMA OrderInit == Init => OrderInv
  BY SomeIsNotNone, HeldNone
     DEF Init, OrderInv, HandsAreFree, AcceptedOnce, Accepted, InLine,
         Ordered, Precedes, Queued, Written, SentInOrder

(* A step that leaves the line and the accepted calls alone keeps the order; *)
(* so does one that only takes a place of the line out of it.                *)
LEMMA OrderNext == TypeInv /\ OrderInv /\ [Next]_vars => OrderInv'
<1> SUFFICES ASSUME TypeInv, OrderInv, [Next]_vars PROVE OrderInv'
  OBVIOUS
<1> USE DEF OrderInv
<1>1. HandsAreFree'
  BY HandsNext
<1>2. /\ rx \in Option(Calls) /\ accepted \in Seq(Calls)
      /\ call \in [Calls -> CallStates] /\ sent \in Seq(OurMsg)
      /\ sender_msg \in Option(OurMsg)
      /\ sender_rx \in Option(OurMsg \cup {CloseMsg})
  BY DEF TypeInv, TypeOK
<1> DEFINE Line == Ordered(Written, Held(sender_msg), Held(sender_rx),
                           Held(conn_msg), Queued)
<1>3. ASSUME accepted' = accepted, sent' = sent,
             \A c \in Accepted : call'[c] \notin {"sending", "SendError"},
             Line'
      PROVE  OrderInv'
  BY <1>1, <1>3 DEF AcceptedOnce, Accepted, InLine, SentInOrder, Precedes
<1>4. /\ Held(sender_msg)' = Held(sender_msg')
      /\ Held(sender_rx)' = Held(sender_rx')
      /\ Held(conn_msg)' = Held(conn_msg')
  BY DEF Held
<1>5. rx' = rx => Queued' = Queued
  BY DEF Queued
<1>6. sent' = sent => Written' = Written
  BY DEF Written
<1>7. rx' = None => Queued' = {}
  BY SomeIsNotNone DEF Queued
<1>8. ASSUME NEW W, NEW S, NEW R, NEW C, NEW Q, accepted' = accepted
      PROVE  Ordered(W, S, R, C, Q)' <=> Ordered(W, S, R, C, Q)
  BY <1>8 DEF Ordered, Precedes, Accepted
<1>9. Line
  BY DEF InLine
<1>10. ASSUME call' = call PROVE \A c \in Accepted : call'[c] \notin {"sending", "SendError"}
  BY <1>10 DEF AcceptedOnce
<1>11. CASE UNCHANGED <<call, accepted, sent, sender_msg, sender_rx, rx>>
            /\ (conn_msg' = conn_msg \/ Held(conn_msg) = Held(conn_msg'))
  BY <1>3, <1>4, <1>5, <1>6, <1>8, <1>9, <1>10, <1>11
<1>12. CASE HandleEvent
  <2>1. PICK e \in Events :
           rx = Some(e) /\ conn_msg' = Some([kind |-> "Event", data |-> e])
    BY <1>12 DEF HandleEvent
  <2>2. [kind |-> "Event", data |-> e] \in CallMsg
    BY DEF CallMsg, OurMsg
  <2>3. Held(conn_msg') = {e}
    BY <2>1, <2>2, HeldSome
  <2>4. e \in Queued
    BY <2>1 DEF Queued, Calls
  <2>5. Held(conn_msg) = {}
    BY <1>12, HeldNone DEF HandsAreFree, HandleEvent
  <2>6. Ordered(Written, Held(sender_msg), Held(sender_rx), {e}, {})
    <3>1. \A T \in SUBSET Queued :
             Ordered(Written, Held(sender_msg), Held(sender_rx), T, {})
      BY <1>9, <2>5, LineMoves
    <3>2. {e} \in SUBSET Queued
      BY <2>4
    <3> QED
      BY <3>1, <3>2
  <2>7. UNCHANGED <<call, accepted, sent, sender_msg, sender_rx>> /\ rx' = None
    BY <1>12 DEF HandleEvent, callVars, wireVars, senderVars
  <2> QED
    BY <1>3, <1>4, <1>6, <1>7, <1>8, <1>10, <2>3, <2>6, <2>7
<1>13. CASE HandleRequest
  <2>1. PICK r \in Requests : rx = Some(r) /\ SendRequest(r)
    BY <1>13 DEF HandleRequest
  <2>2. r \in Queued
    BY <2>1 DEF Queued, Calls
  <2>3. Held(conn_msg) = {}
    BY <1>13, HeldNone DEF HandsAreFree, HandleRequest
  <2>4. [kind |-> "Request", id |-> next_id, data |-> r] \in CallMsg
    BY DEF CallMsg, OurMsg, TypeInv, TypeOK
  <2>5. Held(conn_msg') = {} \/ Held(conn_msg') = {r}
    BY <2>1, <2>3, <2>4, HeldSome DEF SendRequest
  <2>6. /\ Ordered(Written, Held(sender_msg), Held(sender_rx), {r}, {})
        /\ Ordered(Written, Held(sender_msg), Held(sender_rx), {}, {})
    <3>1. \A T \in SUBSET Queued :
             Ordered(Written, Held(sender_msg), Held(sender_rx), T, {})
      BY <1>9, <2>3, LineMoves
    <3>2. {r} \in SUBSET Queued /\ {} \in SUBSET Queued
      BY <2>2
    <3> QED
      BY <3>1, <3>2
  <2>7. UNCHANGED <<call, accepted, sent, sender_msg, sender_rx>> /\ rx' = None
    BY <1>13 DEF HandleRequest, wireVars, senderVars
  <2> QED
    BY <1>3, <1>4, <1>6, <1>7, <1>8, <1>10, <2>5, <2>6, <2>7
<1>14. CASE HandleClose \/ EmitClose
  <2>1. /\ UNCHANGED <<call, accepted, sent, sender_msg, sender_rx, conn_msg>>
        /\ rx' = None
    BY <1>14 DEF HandleClose, EmitClose, callVars, wireVars, senderVars
  <2>2. Ordered(Written, Held(sender_msg), Held(sender_rx), Held(conn_msg), {})
    BY <1>9, LineMoves
  <2> QED
    BY <1>3, <1>4, <1>6, <1>7, <1>8, <1>10, <2>1, <2>2
<1>15. CASE PassToSender
  <2>1. /\ UNCHANGED <<call, accepted, sent, sender_msg, rx>>
        /\ sender_rx = None /\ sender_rx' = conn_msg /\ conn_msg' = None
    BY <1>15 DEF PassToSender, callVars, wireVars
  <2>2. Ordered(Written, Held(sender_msg), Held(conn_msg), {}, Queued)
    BY <1>9, <2>1, HeldNone, LineMoves
  <2> QED
    BY <1>3, <1>4, <1>5, <1>6, <1>8, <1>10, <2>1, <2>2, HeldNone
<1>16. CASE HandleInternalUserMsg
  <2>1. Held(conn_msg) = {}
    BY <1>16, HeldNone DEF HandsAreFree, HandleInternalUserMsg
  <2>3. Held(conn_msg') = {}
    BY <1>16, UserMsgIsNoCall, HeldOther DEF HandleInternalUserMsg
  <2> QED
    BY <1>11, <1>16, <2>1, <2>3
       DEF HandleInternalUserMsg, callVars, wireVars, senderVars
<1>17. CASE HandleInternalReply \/ HandleInternalClose \/ CloseReceiver
              \/ CancelRequests
  BY <1>11, <1>17
     DEF HandleInternalReply, HandleInternalClose, CloseReceiver,
         CancelRequests, callVars, wireVars, senderVars
<1>18. CASE Emit
  <2>1. Get(conn_msg) \notin CallMsg /\ conn_msg = Some(Get(conn_msg))
    BY <1>18, OptionCases, UserMsgIsNoCall DEF Emit, TypeInv, TypeOK, Carried
  <2>2. Held(conn_msg) = {} /\ Held(conn_msg') = {}
    BY <1>18, <2>1, HeldOther, HeldNone DEF Emit
  <2> QED
    BY <1>11, <1>18, <2>2 DEF Emit, callVars, wireVars, senderVars
<1>19. CASE CloseSender
  <2>1. Held(sender_rx) = {} /\ Held(sender_rx') = {}
    BY <1>19, HeldNone, HeldOther DEF CloseSender, CallMsg, OurMsg, CloseMsg
  <2>2. UNCHANGED <<call, accepted, sent, sender_msg, rx, conn_msg>>
    BY <1>19 DEF CloseSender, callVars, wireVars
  <2> QED
    BY <1>3, <1>4, <1>5, <1>6, <1>8, <1>9, <1>10, <2>1, <2>2
<1>20. ASSUME NEW k \in handles, Complete(k) PROVE OrderInv'
  <2>1. Held(sender_rx) = {} /\ Held(sender_rx') = {}
    BY <1>20, HeldNone, HeldOther DEF Complete, CallMsg
  <2>2. UNCHANGED <<call, accepted, sent, sender_msg, rx, conn_msg>>
    BY <1>20 DEF Complete, callVars, connVars, wireVars
  <2> QED
    BY <1>3, <1>4, <1>5, <1>6, <1>8, <1>9, <1>10, <2>1, <2>2
<1>21. CASE SenderTake
  <2>1. /\ UNCHANGED <<call, accepted, sent, rx, conn_msg>>
        /\ sender_rx' = None /\ sender_msg = None
    BY <1>21 DEF SenderTake, HandsAreFree, callVars, connVars, wireVars
  <2>2. Held(sender_rx') = {} /\ Held(sender_msg) = {}
    BY <2>1, HeldNone
  <2>3. CASE sender_msg' = sender_rx
    <3>1. Ordered(Written, Held(sender_rx), {}, Held(conn_msg), Queued)
      BY <1>9, <2>2, LineMoves
    <3> QED
      BY <1>3, <1>4, <1>5, <1>6, <1>8, <1>10, <2>1, <2>2, <2>3, <3>1
  <2>4. CASE sender_msg' = sender_msg
    <3>1. Ordered(Written, Held(sender_msg), {}, Held(conn_msg), Queued)
      BY <1>9, LineMoves
    <3> QED
      BY <1>3, <1>4, <1>5, <1>6, <1>8, <1>10, <2>1, <2>2, <2>4, <3>1
  <2> QED
    BY <1>21, <2>3, <2>4 DEF SenderTake
<1>22. CASE WriteOk
  <2> DEFINE m == Get(sender_msg)
  <2>1. /\ UNCHANGED <<call, accepted, sender_rx, rx, conn_msg>>
        /\ sender_msg' = None /\ sent' = Append(sent, m)
    BY <1>22 DEF WriteOk, callVars, connVars
  <2>2. m \in OurMsg /\ sender_msg = Some(m)
    BY <1>2, <1>22, OptionCases DEF WriteOk, TypeInv, Carried
  <2> HIDE DEF m
  <2>3. /\ DOMAIN sent = 1 .. Len(sent) /\ DOMAIN sent' = 1 .. Len(sent) + 1
        /\ Len(sent) \in Nat
        /\ \A i \in 1 .. Len(sent) : sent'[i] = sent[i]
        /\ sent'[Len(sent) + 1] = m
    BY <1>2, <2>1, <2>2
  <2>4. m.kind # "Reply" => Held(sender_msg) = {m.data}
    BY <2>2, HeldSome DEF CallMsg
  <2>5. Written' = Written \cup Held(sender_msg)
    BY <1>2, <2>1, <2>2, WrittenNext
  <2>6. Line'
    <3>1. Ordered(Written \cup Held(sender_msg), {}, Held(sender_rx),
                  Held(conn_msg), Queued)
      BY <1>9, LineMoves
    <3> QED
      BY <1>4, <1>5, <1>8, <2>1, <2>5, <3>1, HeldNone
  <2>7. SentInOrder'
    <3> SUFFICES ASSUME NEW i \in DOMAIN sent', NEW j \in DOMAIN sent', i < j,
                        sent'[i].kind # "Reply", sent'[j].kind # "Reply"
                 PROVE  Precedes({sent'[i].data}, {sent'[j].data})
      BY <2>1 DEF SentInOrder, Precedes
    <3>1. i \in DOMAIN sent /\ sent'[i] = sent[i]
      BY <2>3
    <3>2. CASE j \in DOMAIN sent
      BY <2>3, <3>1, <3>2 DEF SentInOrder
    <3>3. CASE j = Len(sent) + 1
      <4>1. Held(sender_msg) = {sent'[j].data}
        BY <2>3, <2>4, <3>3
      <4>2. sent[i].data \in Written
        <5>1. sent[i] \in OurMsg
          BY <1>2, <3>1
        <5> QED
          BY <3>1, <5>1 DEF Written, OurMsg, Calls
      <4> QED
        BY <1>9, <3>1, <4>1, <4>2 DEF Ordered, Precedes
    <3> QED
      BY <2>3, <3>2, <3>3
  <2>8. AcceptedOnce'
    BY <2>1 DEF AcceptedOnce, Accepted
  <2> QED
    BY <1>1, <2>6, <2>7, <2>8 DEF InLine
<1>23. CASE WriteLost \/ WriteClosed
  <2>1. /\ UNCHANGED <<call, accepted, sent, sender_rx, rx, conn_msg>>
        /\ sender_msg' = None
    BY <1>23 DEF WriteLost, WriteClosed, callVars, connVars
  <2>2. Ordered(Written, {}, Held(sender_rx), Held(conn_msg), Queued)
    BY <1>9, LineMoves
  <2> QED
    BY <1>3, <1>4, <1>5, <1>6, <1>8, <1>10, <2>1, <2>2, HeldNone
<1>24. CASE SenderClose
  <2>1. /\ UNCHANGED <<call, accepted, sent, sender_msg, rx, conn_msg>>
        /\ sender_rx' = None
    BY <1>24 DEF SenderClose, callVars, connVars, wireVars
  <2>2. Ordered(Written, Held(sender_msg), {}, Held(conn_msg), Queued)
    BY <1>9, LineMoves
  <2> QED
    BY <1>3, <1>4, <1>5, <1>6, <1>8, <1>10, <2>1, <2>2, HeldNone
<1>25. CASE SenderNotify \/ PeerClose \/ UserRecv \/ UserDrop \/ UNCHANGED vars
  BY <1>11, <1>25
     DEF SenderNotify, PeerClose, UserRecv, UserDrop, vars, callVars, connVars,
         wireVars, senderVars
<1>26. CASE ReceiverStep
  BY <1>11, <1>26
     DEF ReceiverStep, ReadUserMsg, ReadReply, ReadMessage, SkipFrame,
         ReadEnd, Forward, ReceiverNotify, ReceiverClose, callVars, connVars,
         wireVars, senderVars
<1>27. ASSUME NEW c \in Calls, Accept(c) PROVE OrderInv'
  <2>1. /\ rx = None /\ rx' = Some(c) /\ call[c] = "sending"
        /\ call' = [call EXCEPT ![c] = IF c \in Requests THEN "waiting" ELSE "Ok"]
        /\ accepted' = Append(accepted, c)
        /\ UNCHANGED <<sent, sender_msg, sender_rx, conn_msg>>
    BY <1>27 DEF Accept, connVars, senderVars
  <2>2. c \notin Accepted
    BY <2>1 DEF AcceptedOnce
  <2>3. Queued = {} /\ Queued' = {c}
    BY <2>1, SomeIsNotNone, SomeInjective DEF Queued
  <2>4. Ordered(Written, Held(sender_msg), Held(sender_rx), Held(conn_msg), {})
    BY <1>9, <2>3
  <2>5. /\ Ordered(Written, Held(sender_msg), Held(sender_rx),
                   Held(conn_msg), {c})'
        /\ Accepted' = Accepted \cup {c}
        /\ \A i \in DOMAIN accepted' :
              \/ i \in DOMAIN accepted /\ accepted'[i] = accepted[i]
              \/ i = Len(accepted) + 1 /\ accepted'[i] = c
        /\ \A T, U \in SUBSET Accepted : Precedes(T, U) => Precedes(T, U)'
    <3> DEFINE W == Written
               S == Held(sender_msg)
               R == Held(sender_rx)
               C == Held(conn_msg)
    <3>1. W' = W /\ S' = S /\ R' = R /\ C' = C
      BY <1>4, <1>6, <2>1
    <3>2. Ordered(W, S, R, C, {})
      BY <2>4
    <3> HIDE DEF W, S, R, C
    <3> QED
      BY <1>2, <2>1, <2>2, <3>1, <3>2, LineGrows DEF W, S, R, C
  <2>6. Line'
    BY <2>3, <2>5
  <2>7. AcceptedOnce'
    <3>1. \A i \in DOMAIN accepted : accepted[i] # c
      BY <2>2, <1>2 DEF Accepted
    <3>2. \A d \in Accepted : d # c
      BY <2>2
    <3>3. \A d \in Accepted' : call'[d] \notin {"sending", "SendError"}
      BY <1>2, <2>1, <2>5, <3>2 DEF AcceptedOnce, Accepted
    <3> QED
      BY <2>5, <3>1, <3>3 DEF AcceptedOnce
  <2>8. SentInOrder'
    <3>1. \A i \in DOMAIN sent : sent[i].kind # "Reply"
                                   => {sent[i].data} \subseteq Accepted
      <4> SUFFICES ASSUME NEW i \in DOMAIN sent, sent[i].kind # "Reply"
                   PROVE  sent[i].data \in Accepted
        OBVIOUS
      <4>1. sent[i] \in OurMsg
        BY <1>2
      <4>2. sent[i].data \in Written
        BY <4>1 DEF Written, OurMsg, Calls
      <4> QED
        BY <1>9, <4>2 DEF Ordered
    <3> QED
      BY <2>1, <2>5, <3>1 DEF SentInOrder
  <2> QED
    BY <1>1, <2>6, <2>7, <2>8 DEF InLine
<1>28. ASSUME NEW c \in Calls,
              Refuse(c) \/ (c \in Requests /\ Return(c)) \/ Timeout(c)
       PROVE  OrderInv'
  <2>1. UNCHANGED <<accepted, sent, sender_msg, sender_rx, rx, conn_msg>>
    BY <1>28 DEF Refuse, Return, Timeout, connVars, senderVars, wireVars
  <2>2. \A d \in Calls : call'[d] = call[d] \/ (d = c /\ call[d] = "sending")
                          \/ call'[d] \notin {"sending", "SendError"}
    BY <1>2, <1>28 DEF Refuse, Return, Timeout, TypeInv, TypeOK
  <2>3. \A d \in Accepted : call'[d] \notin {"sending", "SendError"}
    BY <2>2 DEF AcceptedOnce, Accepted
  <2> QED
    BY <1>3, <1>4, <1>5, <1>6, <1>8, <1>9, <2>1, <2>3
<1> QED
  BY <1>12, <1>13, <1>14, <1>15, <1>16, <1>17, <1>18, <1>19, <1>20, <1>21,
     <1>22, <1>23, <1>24, <1>25, <1>26, <1>27, <1>28
     DEF Next, ConnStep, SenderStep, UserStep, CallerStep, Calls

(* Our requests and events leave on the wire in the order in which the       *)
(* handle accepted them, and none leaves twice, whatever replies the users   *)
(* put into the Sender's channel in between and whatever writes fail.        *)
THEOREM WritesInOrder == Spec => []WireInOrder
<1>1. TypeInv /\ OrderInv => WireInOrder
  <2> SUFFICES ASSUME TypeInv, OrderInv,
                      NEW i \in DOMAIN sent, NEW j \in DOMAIN sent, i < j,
                      sent[i].kind # "Reply", sent[j].kind # "Reply"
               PROVE  Rank(sent[i].data) < Rank(sent[j].data)
    BY DEF WireInOrder
  <2>1. ASSUME NEW k \in DOMAIN sent, sent[k].kind # "Reply"
        PROVE  /\ Rank(sent[k].data) \in DOMAIN accepted
               /\ accepted[Rank(sent[k].data)] = sent[k].data
    <3>1. sent[k] \in OurMsg
      BY DEF TypeInv, TypeOK
    <3>2. sent[k].data \in Written
      BY <2>1, <3>1 DEF Written, OurMsg, Calls
    <3>3. sent[k].data \in Accepted
      BY <3>2 DEF OrderInv, InLine, Ordered
    <3> QED
      BY <3>3 DEF Accepted, Rank
  <2> QED
    BY <2>1 DEF OrderInv, SentInOrder, Precedes
<1> QED
  BY <1>1, TypeInit, TypeNext, OrderInit, OrderNext, PTL DEF Spec

-----------------------------------------------------------------------------
(* The order of the peer's messages. *)

EventMsg == UserMsg \cup {CloseMsg}

(* p is the beginning of q. *)
Starts(p, q) == Len(p) <= Len(q) /\ \A i \in 1 .. Len(p) : p[i] = q[i]

(* What the user has received or can still receive. *)
Out == delivered \o event_rx

(* It is the beginning of what has arrived, with Close after it once run has *)
(* returned.                                                                 *)
OutInOrder ==
    \E p \in Seq(UserMsg) :
        /\ Starts(p, arrived)
        /\ Out = p \/ (conn = "done" /\ Out = Append(p, CloseMsg))

NothingLost == Running /\ user = "listening" => delivered \o InTransit = arrived

DropEmpties == user = "gone" => event_rx = << >>

DeliveryInv == OutInOrder /\ NothingLost /\ DropEmpties

(* What an empty channel, one with a message for the user and one with       *)
(* another message have on its way to the user.                              *)
LEMMA WayOf ==
    /\ OnItsWay(None) = << >>
    /\ \A m \in UserMsg : OnItsWay(Some(m)) = << m >>
    /\ \A m : m \notin UserMsg => OnItsWay(Some(m)) = << >>
  BY GetSome, SomeIsNotNone DEF OnItsWay, Some

(* What is on its way is a sequence of the peer's messages. *)
LEMMA WayType ==
    ASSUME NEW S, NEW c \in Option(S)
    PROVE  OnItsWay(c) \in Seq(UserMsg)
<1>1. CASE c = None
  BY <1>1, WayOf
<1>2. ASSUME NEW m \in S, c = Some(m) PROVE OnItsWay(c) \in Seq(UserMsg)
  <2>1. CASE m \in UserMsg
    <3>1. << m >> \in Seq(UserMsg)
      BY <2>1
    <3> QED
      BY <1>2, <2>1, <3>1, WayOf
  <2>2. CASE m \notin UserMsg
    <3>1. OnItsWay(c) = << >>
      BY <1>2, <2>2, WayOf
    <3> QED
      BY <3>1
  <2> QED
    BY <2>1, <2>2
<1> QED
  BY <1>1, <1>2, OptionCases

(* Neither our messages, nor a Close, nor a reply go to the user. *)
LEMMA NotForUser ==
    /\ \A m \in CallMsg : m \notin UserMsg
    /\ \A m \in ReplyMsg : m \notin UserMsg
    /\ CloseMsg \notin UserMsg
  BY DEF CallMsg, OurMsg, UserMsg, ReplyMsg, CloseMsg

(* The beginning of a beginning is a beginning. *)
LEMMA StartsOfConcat ==
    ASSUME NEW S, NEW p \in Seq(S), NEW q \in Seq(S)
    PROVE  Starts(p, p \o q)
<1>1. Len(p \o q) = Len(p) + Len(q) /\ Len(p) \in Nat /\ Len(q) \in Nat
  BY ConcatProperties
<1>2. \A i \in 1 .. Len(p) : (p \o q)[i] = p[i]
  BY ConcatProperties
<1> QED
  BY <1>1, <1>2 DEF Starts

(* The places between the wire and the user, put one after the other. *)
Places(d, e, c, i, r) == d \o (((e \o c) \o i) \o r)

(* A message that moves from one place to the next, free, place leaves the   *)
(* whole as it is.                                                           *)
LEMMA PlacesMove ==
    ASSUME NEW S, NEW d \in Seq(S), NEW e \in Seq(S), NEW c \in Seq(S),
           NEW i \in Seq(S), NEW r \in Seq(S)
    PROVE  /\ Places(d, e, << >>, i, r) = Places(d, e, i, << >>, r)
           /\ Places(d, e, c, << >>, r) = Places(d, e, c, r, << >>)
           /\ Places(d, e, c, i, r) = Places(d, e \o c, << >>, i, r)
  BY DEF Places

(* A message that is read comes last. *)
LEMMA LastComesLast ==
    ASSUME NEW S, NEW d \in Seq(S), NEW x \in Seq(S), NEW m \in S
    PROVE  d \o (x \o << m >>) = Append(d \o (x \o << >>), m)
  OBVIOUS

(* The sequences the places hold. *)
LEMMA PlacesType ==
    ASSUME TypeInv
    PROVE  /\ delivered \in Seq(EventMsg) /\ event_rx \in Seq(EventMsg)
           /\ OnItsWay(conn_msg) \in Seq(EventMsg)
           /\ OnItsWay(internal) \in Seq(EventMsg)
           /\ OnItsWay(receiver_msg) \in Seq(EventMsg)
           /\ arrived \in Seq(UserMsg)
<1>1. /\ conn_msg \in Option(OurMsg \cup UserMsg)
      /\ internal \in Option(UserMsg \cup ReplyMsg \cup {CloseMsg})
      /\ receiver_msg \in Option(UserMsg \cup ReplyMsg)
  BY DEF TypeInv, TypeOK
<1>2. /\ OnItsWay(conn_msg) \in Seq(UserMsg)
      /\ OnItsWay(internal) \in Seq(UserMsg)
      /\ OnItsWay(receiver_msg) \in Seq(UserMsg)
  BY <1>1, WayType
<1>3. UserMsg \subseteq EventMsg
  BY DEF EventMsg
<1>4. \A q \in Seq(UserMsg) : q \in Seq(EventMsg)
  BY <1>3, SeqMonotonic
<1> QED
  BY <1>2, <1>4 DEF TypeInv, TypeOK, EventMsg

(* What is behind the event channel. *)
Rest == (OnItsWay(conn_msg) \o OnItsWay(internal)) \o OnItsWay(receiver_msg)

(* What the user has received or can receive comes before it. *)
LEMMA OutComesFirst ==
    ASSUME TypeInv
    PROVE  /\ Out \in Seq(EventMsg) /\ Rest \in Seq(EventMsg)
           /\ delivered \o InTransit = Out \o Rest
<1> DEFINE d == delivered
           e == event_rx
           c == OnItsWay(conn_msg)
           i == OnItsWay(internal)
           r == OnItsWay(receiver_msg)
           p == c \o i
           q == p \o r
<1>1. /\ d \in Seq(EventMsg) /\ e \in Seq(EventMsg) /\ c \in Seq(EventMsg)
      /\ i \in Seq(EventMsg) /\ r \in Seq(EventMsg)
  BY PlacesType
<1>2. delivered \o InTransit = d \o (((e \o c) \o i) \o r)
  BY DEF InTransit
<1> HIDE DEF d, e, c, i, r
<1>3. p \in Seq(EventMsg)
  BY <1>1
<1>4. (e \o c) \o i = e \o p
  BY <1>1
<1> HIDE DEF p
<1>5. q \in Seq(EventMsg)
  BY <1>1, <1>3
<1>6. (e \o p) \o r = e \o q
  BY <1>1, <1>3
<1> HIDE DEF q
<1>7. d \o (e \o q) = (d \o e) \o q
  BY <1>1, <1>5
<1>8. d \o e \in Seq(EventMsg)
  BY <1>1
<1>9. Out = d \o e /\ Rest = q
  BY DEF Out, Rest, p, q, d, e, c, i, r
<1>10. d \o (((e \o c) \o i) \o r) = (d \o e) \o q
  BY <1>4, <1>6, <1>7, Zenon
<1> QED
  BY <1>2, <1>5, <1>8, <1>9, <1>10, Zenon

(* As long as the loop runs and the user listens, what has arrived is what   *)
(* the user has received and what is on its way, in order.                   *)
LEMMA LostNext ==
    ASSUME TypeInv, HandsAreFree, NothingLost, [Next]_vars
    PROVE  NothingLost'
<1> DEFINE Flow == Places(delivered, event_rx, OnItsWay(conn_msg),
                          OnItsWay(internal), OnItsWay(receiver_msg))
<1>1. /\ Flow = delivered \o InTransit
      /\ Flow' = Places(delivered', event_rx', OnItsWay(conn_msg'),
                        OnItsWay(internal'), OnItsWay(receiver_msg'))
      /\ (delivered \o InTransit)' = Flow'
  BY DEF Places, InTransit, OnItsWay
<1> HIDE DEF Flow
<1> SUFFICES ASSUME Running', user' = "listening" PROVE Flow' = arrived'
  BY <1>1 DEF NothingLost
<1>2. /\ delivered \in Seq(EventMsg) /\ event_rx \in Seq(EventMsg)
      /\ OnItsWay(conn_msg) \in Seq(EventMsg)
      /\ OnItsWay(internal) \in Seq(EventMsg)
      /\ OnItsWay(receiver_msg) \in Seq(EventMsg)
      /\ arrived \in Seq(UserMsg)
  BY PlacesType
<1>3. Running /\ user = "listening"
  <2>1. user = "listening"
    BY DEF Next, ConnStep, HandleEvent, HandleRequest, HandleClose,
           PassToSender, HandleInternalUserMsg, HandleInternalReply,
           HandleInternalClose, Emit, CloseReceiver, CloseSender,
           CancelRequests, EmitClose, ReceiverStep, ReadUserMsg, ReadReply,
           ReadMessage, SkipFrame, ReadEnd, Forward, ReceiverNotify,
           ReceiverClose, SenderStep, SenderTake, WriteOk, WriteLost,
           WriteClosed, SenderNotify, SenderClose, UserStep, UserRecv,
           UserDrop, Complete, PeerClose, CallerStep, Accept, Refuse, Return,
           Timeout, vars, userVars
  <2>2. ASSUME ConnStep PROVE Running
    BY <2>2
       DEF Running, ConnStep, HandleEvent, HandleRequest, HandleClose,
           PassToSender, HandleInternalUserMsg, HandleInternalReply,
           HandleInternalClose, Emit, CloseReceiver, CloseSender,
           CancelRequests, EmitClose
  <2>3. ASSUME ~ConnStep PROVE Running
    BY <2>3
       DEF Running, Next, ReceiverStep, ReadUserMsg, ReadReply, ReadMessage,
           SkipFrame, ReadEnd, Forward, ReceiverNotify, ReceiverClose,
           SenderStep, SenderTake, WriteOk, WriteLost, WriteClosed,
           SenderNotify, SenderClose, UserStep, UserRecv, UserDrop, Complete,
           PeerClose, CallerStep, Accept, Refuse, Return, Timeout, vars,
           connVars
  <2> QED
    BY <2>1, <2>2, <2>3
<1>4. Flow = arrived
  BY <1>1, <1>3 DEF NothingLost
<1>5. Flow = Places(delivered, event_rx, OnItsWay(conn_msg),
                    OnItsWay(internal), OnItsWay(receiver_msg))
  BY DEF Flow
<1>6. ASSUME UNCHANGED <<delivered, event_rx, arrived>>,
             OnItsWay(conn_msg') = OnItsWay(conn_msg),
             OnItsWay(internal') = OnItsWay(internal),
             OnItsWay(receiver_msg') = OnItsWay(receiver_msg)
      PROVE  Flow' = arrived'
  BY <1>1, <1>4, <1>5, <1>6
<1>7. CASE HandleEvent \/ HandleRequest
  <2>1. UNCHANGED <<delivered, event_rx, arrived, internal, receiver_msg>>
    BY <1>7 DEF HandleEvent, HandleRequest, userVars, wireVars, receiverVars
  <2>2. OnItsWay(conn_msg) = << >>
    BY <1>7, WayOf DEF HandleEvent, HandleRequest, HandsAreFree
  <2>3. OnItsWay(conn_msg') = << >>
    <3>1. \/ conn_msg' = conn_msg
          \/ \E m \in CallMsg : conn_msg' = Some(m)
      <4>1. CASE HandleEvent
        BY <4>1 DEF HandleEvent, CallMsg, OurMsg
      <4>2. CASE HandleRequest
        <5>1. PICK q \in Requests : SendRequest(q)
          BY <4>2 DEF HandleRequest
        <5>2. [kind |-> "Request", id |-> next_id, data |-> q] \in CallMsg
          BY DEF CallMsg, OurMsg, TypeInv, TypeOK
        <5> QED
          BY <5>1, <5>2 DEF SendRequest
      <4> QED
        BY <1>7, <4>1, <4>2
    <3> QED
      BY <2>2, <3>1, WayOf, NotForUser
  <2> QED
    BY <1>6, <2>1, <2>2, <2>3
<1>8. CASE PassToSender
  <2>1. /\ UNCHANGED <<delivered, event_rx, arrived, internal, receiver_msg>>
        /\ conn_msg' = None
    BY <1>8 DEF PassToSender, userVars, wireVars, receiverVars
  <2>2. conn_msg = Some(Get(conn_msg)) /\ Get(conn_msg) \in CallMsg
    BY <1>8, OptionCases DEF PassToSender, TypeInv, TypeOK, Carried, HandsAreFree
  <2>3. OnItsWay(conn_msg) = << >>
    BY <2>2, WayOf, NotForUser
  <2> QED
    BY <1>6, <2>1, <2>3, WayOf
<1>9. CASE HandleInternalUserMsg
  <2>1. /\ UNCHANGED <<delivered, event_rx, arrived, receiver_msg>>
        /\ conn_msg = None /\ conn_msg' = internal /\ internal' = None
    BY <1>9 DEF HandleInternalUserMsg, userVars, wireVars, receiverVars, HandsAreFree
  <2>2. Flow' = Places(delivered, event_rx, OnItsWay(internal), << >>,
                       OnItsWay(receiver_msg))
    BY <1>1, <2>1, WayOf
  <2>3. Flow = Places(delivered, event_rx, << >>, OnItsWay(internal),
                      OnItsWay(receiver_msg))
    BY <1>5, <2>1, WayOf
  <2>4. Flow' = Flow
    BY <1>2, <2>2, <2>3, PlacesMove
  <2> QED
    BY <1>4, <2>1, <2>4
<1>10. CASE HandleInternalReply
  <2>1. /\ UNCHANGED <<delivered, event_rx, arrived, receiver_msg, conn_msg>>
        /\ internal' = None
        /\ \E m \in ReplyMsg : internal = Some(m)
    BY <1>10 DEF HandleInternalReply, userVars, wireVars, receiverVars
  <2>2. OnItsWay(internal) = << >> /\ OnItsWay(internal') = << >>
    BY <2>1, WayOf, NotForUser
  <2> QED
    BY <1>6, <2>1, <2>2
<1>11. CASE Emit
  <2> DEFINE m == Get(conn_msg)
  <2>1. conn_msg = Some(m) /\ m \in UserMsg
    BY <1>11, OptionCases DEF Emit, TypeInv, TypeOK, Carried
  <2>2. /\ UNCHANGED <<delivered, arrived, receiver_msg, internal>>
        /\ conn_msg' = None /\ event_rx' = Append(event_rx, m)
    BY <1>3, <1>11 DEF Emit, userVars, wireVars, receiverVars
  <2> HIDE DEF m
  <2>3. OnItsWay(conn_msg) = << m >> /\ OnItsWay(conn_msg') = << >>
    BY <2>1, <2>2, WayOf
  <2>4. event_rx' = event_rx \o << m >>
    BY <1>2, <2>1, <2>2 DEF EventMsg
  <2>5. Flow' = Places(delivered, event_rx \o OnItsWay(conn_msg), << >>,
                       OnItsWay(internal), OnItsWay(receiver_msg))
    BY <1>1, <2>2, <2>3, <2>4, Zenon
  <2>6. Flow = Flow'
    BY <1>2, <1>5, <2>5, PlacesMove
  <2> QED
    BY <1>4, <2>2, <2>6
<1>12. CASE HandleClose \/ HandleInternalClose \/ CloseReceiver \/ CloseSender
              \/ CancelRequests \/ EmitClose
  BY <1>12 DEF HandleClose, HandleInternalClose, CloseReceiver, CloseSender,
               CancelRequests, EmitClose, Running
<1>13. ASSUME NEW k \in {"Request", "Event"}, ReadUserMsg(k) PROVE Flow' = arrived'
  <2> DEFINE m == [kind |-> k, n |-> frames + 1]
  <2>1. /\ UNCHANGED <<delivered, event_rx, conn_msg, internal>>
        /\ receiver_msg = None /\ receiver_msg' = Some(m)
        /\ arrived' = Append(arrived, m)
    BY <1>13 DEF ReadUserMsg, ReadMessage, userVars, connVars, HandsAreFree
  <2>2. m \in UserMsg
    BY <1>13, ConstantsAssumption
       DEF ReadUserMsg, ReadMessage, UserMsg, TheirIds, TypeInv, TypeOK
  <2> HIDE DEF m
  <2>3. OnItsWay(receiver_msg') = << m >> /\ OnItsWay(receiver_msg) = << >>
    BY <2>1, <2>2, WayOf
  <2>4. << m >> \in Seq(EventMsg)
    BY <2>2 DEF EventMsg
  <2>5. Flow' = Places(delivered, event_rx, OnItsWay(conn_msg),
                       OnItsWay(internal), << m >>)
    BY <1>1, <2>1, <2>3
  <2>6. Flow = Places(delivered, event_rx, OnItsWay(conn_msg),
                      OnItsWay(internal), << >>)
    BY <1>5, <2>3
  <2> DEFINE x == (event_rx \o OnItsWay(conn_msg)) \o OnItsWay(internal)
  <2>7. /\ x \in Seq(EventMsg) /\ m \in EventMsg
        /\ Flow' = delivered \o (x \o << m >>)
        /\ Flow = delivered \o (x \o << >>)
    BY <1>2, <2>2, <2>5, <2>6 DEF Places, EventMsg
  <2> HIDE DEF x
  <2>8. Flow' = Append(Flow, m)
    BY <1>2, <2>7, LastComesLast
  <2> QED
    BY <1>4, <2>1, <2>8
<1>14. ASSUME NEW i \in DOMAIN sent, ReadReply(i) PROVE Flow' = arrived'
  <2> DEFINE m == [kind |-> "Reply", id |-> sent[i].id, data |-> sent[i].data]
  <2>1. /\ UNCHANGED <<delivered, event_rx, conn_msg, internal, arrived>>
        /\ receiver_msg = None /\ receiver_msg' = Some(m)
    BY <1>14 DEF ReadReply, ReadMessage, userVars, connVars, HandsAreFree
  <2>2. m \notin UserMsg
    BY DEF UserMsg
  <2> HIDE DEF m
  <2> QED
    BY <1>6, <2>1, <2>2, WayOf
<1>15. CASE Forward
  <2>1. receiver_msg = Some(Get(receiver_msg))
    BY <1>15, OptionCases DEF Forward, TypeInv, TypeOK, Carried
  <2>2. conn # "done"
    BY <1>3 DEF Running
  <2>3. /\ UNCHANGED <<delivered, event_rx, conn_msg, arrived>>
        /\ internal = None /\ internal' = receiver_msg /\ receiver_msg' = None
    BY <1>15, <2>1, <2>2 DEF Forward, PassToConnection, userVars, connVars, wireVars
  <2>4. Flow = Places(delivered, event_rx, OnItsWay(conn_msg), << >>,
                      OnItsWay(receiver_msg))
    BY <1>5, <2>3, WayOf
  <2>5. Flow' = Places(delivered, event_rx, OnItsWay(conn_msg),
                       OnItsWay(receiver_msg), << >>)
    BY <1>1, <2>3, WayOf
  <2>6. Flow' = Flow
    BY <1>2, <2>4, <2>5, PlacesMove
  <2> QED
    BY <1>4, <2>3, <2>6
<1>16. CASE ReceiverNotify \/ SenderNotify
  <2>1. /\ UNCHANGED <<delivered, event_rx, conn_msg, arrived, receiver_msg>>
        /\ \/ internal' = internal
           \/ internal = None /\ internal' = Some(CloseMsg)
    BY <1>16 DEF ReceiverNotify, SenderNotify, PassToConnection, userVars,
                 connVars, wireVars, receiverVars
  <2> QED
    BY <1>6, <2>1, WayOf, NotForUser
<1>17. CASE UserRecv
  <2>1. /\ UNCHANGED <<conn_msg, arrived, receiver_msg, internal>>
        /\ event_rx # << >> /\ event_rx' = Tail(event_rx)
        /\ delivered' = Append(delivered, Head(event_rx))
    BY <1>17 DEF UserRecv, connVars, wireVars, receiverVars
  <2>2. delivered' \o event_rx' = delivered \o event_rx
    BY <1>2, <2>1, HeadMoves
  <2>3. Out' = Out /\ Rest' = Rest
    BY <2>1, <2>2 DEF Out, Rest, OnItsWay
  <2>4. TypeInv' => (delivered \o InTransit = Out \o Rest)'
    BY OutComesFirst, PTL
  <2>5. Flow' = (Out \o Rest)'
    BY <1>1, <2>4, TypeNext
  <2>6. Flow' = Flow
    BY <1>1, <2>3, <2>5, OutComesFirst
  <2> QED
    BY <1>4, <2>1, <2>6
<1>18. CASE UserDrop
  BY <1>18 DEF UserDrop
<1>19. CASE SkipFrame \/ ReadEnd \/ ReceiverClose \/ SenderTake \/ WriteOk
              \/ WriteLost \/ WriteClosed \/ SenderClose \/ PeerClose
              \/ (\E k \in handles : Complete(k)) \/ UNCHANGED vars
  <2>1. UNCHANGED <<delivered, event_rx, arrived, conn_msg, internal, receiver_msg>>
    BY <1>19
       DEF SkipFrame, ReadEnd, ReceiverClose, SenderTake, WriteOk, WriteLost,
           WriteClosed, SenderClose, PeerClose, Complete, vars, userVars,
           wireVars, connVars, receiverVars
  <2> QED
    BY <1>6, <2>1
<1>20. ASSUME NEW c, CallerStep(c) \/ Timeout(c) PROVE Flow' = arrived'
  <2>1. UNCHANGED <<delivered, event_rx, arrived, conn_msg, internal, receiver_msg>>
    BY <1>20 DEF CallerStep, Accept, Refuse, Return, Timeout, userVars,
                 wireVars, connVars, receiverVars
  <2> QED
    BY <1>6, <2>1
<1> QED
  BY <1>7, <1>8, <1>9, <1>10, <1>11, <1>12, <1>13, <1>14, <1>15, <1>16, <1>17,
     <1>18, <1>19, <1>20
     DEF Next, ConnStep, ReceiverStep, SenderStep, UserStep

(* The beginning of a sequence of the peer's messages is one. *)
LEMMA BeginningType ==
    ASSUME NEW S, NEW U, NEW p \in Seq(S), NEW q \in Seq(U), Starts(p, q)
    PROVE  p \in Seq(U)
<1>1. Len(p) \in Nat /\ DOMAIN p = 1 .. Len(p) /\ Len(q) \in Nat
  OBVIOUS
<1>2. \A i \in 1 .. Len(p) : p[i] \in U
  <2> SUFFICES ASSUME NEW i \in 1 .. Len(p) PROVE p[i] \in U
    OBVIOUS
  <2>1. i \in 1 .. Len(q) /\ p[i] = q[i]
    BY <1>1 DEF Starts
  <2> QED
    BY <2>1
<1>3. p \in [1 .. Len(p) -> U]
  BY <1>1, <1>2
<1> QED
  BY <1>1, <1>3

(* A beginning stays one when another message arrives. *)
LEMMA StartsGrows ==
    ASSUME NEW S, NEW U, NEW p \in Seq(S), NEW q \in Seq(U), NEW m \in U, Starts(p, q)
    PROVE  Starts(p, Append(q, m))
<1>1. /\ Len(p) \in Nat /\ Len(q) \in Nat /\ Len(Append(q, m)) = Len(q) + 1
      /\ \A i \in 1 .. Len(q) : Append(q, m)[i] = q[i]
  OBVIOUS
<1> QED
  BY <1>1 DEF Starts

(* What the user was given is the beginning of what it can be given. *)
LEMMA CutBehind ==
    ASSUME NEW S, NEW d \in Seq(S), NEW e \in Seq(S), NEW p \in Seq(S), NEW m \in S,
           d \o e = p \/ d \o e = Append(p, m)
    PROVE  Starts(d, p) \/ (d = Append(p, m) /\ d \o e = Append(p, m))
<1> DEFINE x == d \o e
<1>1. /\ Len(d) \in Nat /\ Len(e) \in Nat /\ Len(p) \in Nat
      /\ x \in Seq(S) /\ Len(x) = Len(d) + Len(e)
      /\ \A i \in 1 .. Len(d) : x[i] = d[i]
  BY ConcatProperties
<1>2. x = p \/ x = Append(p, m)
  OBVIOUS
<1>3. e = << >> => x = d
  OBVIOUS
<1> HIDE DEF x
<1>4. CASE x = p
  BY <1>1, <1>4 DEF Starts
<1>5. CASE x = Append(p, m)
  <2>1. Len(x) = Len(p) + 1 /\ \A i \in 1 .. Len(p) : x[i] = p[i]
    BY <1>5
  <2>2. CASE Len(d) <= Len(p)
    BY <1>1, <2>1, <2>2 DEF Starts
  <2>3. CASE Len(d) > Len(p)
    <3>1. Len(e) = 0
      BY <1>1, <2>1, <2>3
    <3>2. e = << >>
      BY <3>1, EmptySeq
    <3> QED
      BY <1>3, <1>5, <3>2 DEF x
  <2> QED
    BY <1>1, <2>2, <2>3
<1> QED
  BY <1>2, <1>4, <1>5

(* So is what it has received when the rest is lost with its receiver. *)
LEMMA DeliveredStarts ==
    ASSUME TypeInv, NEW p \in Seq(UserMsg), Out = p \/ Out = Append(p, CloseMsg)
    PROVE  ~Starts(delivered, p) => delivered = Append(p, CloseMsg) /\ Out = delivered
<1> DEFINE d == delivered
           e == event_rx
           m == CloseMsg
<1>1. d \in Seq(EventMsg) /\ e \in Seq(EventMsg) /\ m \in EventMsg
  BY PlacesType DEF EventMsg
<1>2. p \in Seq(EventMsg)
  BY SeqMonotonic DEF EventMsg
<1>3. d \o e = p \/ d \o e = Append(p, m)
  BY DEF Out
<1> HIDE DEF d, e, m
<1>4. Starts(d, p) \/ (d = Append(p, m) /\ d \o e = Append(p, m))
  BY <1>1, <1>2, <1>3, CutBehind
<1>5. ~Starts(d, p) => d = Append(p, m) /\ d \o e = d
  BY <1>4
<1> QED
  BY <1>5 DEF d, e, m, Out

(* What the user can receive stays the beginning of what has arrived. *)
LEMMA OutNext ==
    ASSUME TypeInv, HandsAreFree, DeliveryInv, [Next]_vars
    PROVE  OutInOrder'
<1>1. /\ delivered \in Seq(EventMsg) /\ event_rx \in Seq(EventMsg)
      /\ arrived \in Seq(UserMsg) /\ CloseMsg \in EventMsg
  BY PlacesType DEF EventMsg
<1>2. PICK p \in Seq(UserMsg) :
         /\ Starts(p, arrived)
         /\ Out = p \/ (conn = "done" /\ Out = Append(p, CloseMsg))
  BY DEF DeliveryInv, OutInOrder
<1>3. p \in Seq(EventMsg)
  BY <1>2, SeqMonotonic DEF EventMsg
<1>4. ASSUME UNCHANGED Out, conn = "done" => conn' = "done",
             arrived' = arrived \/ \E m \in UserMsg : arrived' = Append(arrived, m)
      PROVE  OutInOrder'
  <2>1. Starts(p, arrived')
    <3>1. CASE arrived' = arrived
      BY <1>2, <3>1
    <3>2. ASSUME NEW m \in UserMsg, arrived' = Append(arrived, m)
          PROVE  Starts(p, arrived')
      <4>1. Starts(p, Append(arrived, m))
        BY <1>1, <1>2, StartsGrows
      <4> QED
        BY <3>2, <4>1
    <3> QED
      BY <1>4, <3>1, <3>2
  <2>2. Starts(p, arrived)'
    BY <2>1 DEF Starts
  <2> QED
    BY <1>2, <1>4, <2>2 DEF OutInOrder
<1>5. UNCHANGED <<delivered, event_rx>> => UNCHANGED Out
  BY DEF Out
<1>6. CASE Emit /\ user = "listening"
  <2>1. NothingLost'
    BY LostNext DEF DeliveryInv
  <2>2. Running' /\ user' = "listening"
    BY <1>6 DEF Emit, Running
  <2>3. (delivered \o InTransit)' = arrived'
    BY <2>1, <2>2 DEF NothingLost
  <2>4. TypeInv' => (/\ Out \in Seq(EventMsg) /\ Rest \in Seq(EventMsg)
                     /\ delivered \o InTransit = Out \o Rest)'
    BY OutComesFirst, PTL
  <2>5. /\ Out' \in Seq(EventMsg) /\ Rest' \in Seq(EventMsg)
        /\ arrived' = Out' \o Rest' /\ arrived' \in Seq(UserMsg)
    <3>1. TypeInv'
      BY TypeNext
    <3>2. arrived' \in Seq(UserMsg)
      BY <3>1 DEF TypeInv, TypeOK
    <3> QED
      BY <2>3, <2>4, <3>1, <3>2
  <2>6. Starts(Out', arrived')
    BY <2>5, StartsOfConcat
  <2>7. Out' \in Seq(UserMsg)
    BY <2>5, <2>6, BeginningType
  <2> QED
    BY <2>6, <2>7 DEF OutInOrder, Starts
<1>7. CASE Emit /\ user # "listening"
  BY <1>4, <1>5, <1>7 DEF Emit, wireVars
<1>8. CASE EmitClose
  <2>1. conn = "emit_close" /\ conn' = "done" /\ UNCHANGED <<delivered, arrived>>
    BY <1>8 DEF EmitClose, wireVars
  <2>2. CASE event_rx' = Append(event_rx, CloseMsg)
    <3>1. Out' = delivered \o Append(event_rx, CloseMsg)
      BY <2>1, <2>2 DEF Out
    <3>2. delivered \o Append(event_rx, CloseMsg) = Append(delivered \o event_rx, CloseMsg)
      BY <1>1
    <3>3. delivered \o event_rx = p
      BY <1>2, <2>1 DEF Out
    <3>4. Out' = Append(p, CloseMsg)
      BY <3>1, <3>2, <3>3, Zenon
    <3>5. Starts(p, arrived)'
      BY <1>2, <2>1 DEF Starts
    <3> QED
      BY <1>2, <2>1, <3>4, <3>5 DEF OutInOrder
  <2>3. CASE event_rx' = event_rx
    BY <1>4, <1>5, <2>1, <2>3
  <2> QED
    BY <1>8, <2>2, <2>3 DEF EmitClose
<1>9. CASE UserRecv
  <2>1. /\ UNCHANGED <<conn, arrived>> /\ event_rx # << >>
        /\ event_rx' = Tail(event_rx)
        /\ delivered' = Append(delivered, Head(event_rx))
    BY <1>9 DEF UserRecv, connVars, wireVars
  <2>2. delivered' \o event_rx' = delivered \o event_rx
    BY <1>1, <2>1, HeadMoves
  <2>3. Out' = Out
    BY <2>2 DEF Out
  <2> QED
    BY <1>4, <2>1, <2>3
<1>10. CASE UserDrop
  <2>1. UNCHANGED <<conn, arrived, delivered>> /\ event_rx' = << >>
    BY <1>10 DEF UserDrop, connVars, wireVars
  <2>2. Out' = delivered
    <3>1. Out' = delivered \o << >>
      BY <2>1 DEF Out
    <3> QED
      BY <1>1, <3>1
  <2>4. ~Starts(delivered, p) => Out = delivered
    BY <1>2, DeliveredStarts
  <2>5. CASE Starts(delivered, p)
    <3>1. delivered \in Seq(UserMsg)
      BY <1>1, <1>2, <2>5, BeginningType
    <3>2. Starts(delivered, arrived)
      BY <1>1, <1>2, <2>5 DEF Starts
    <3> QED
      BY <2>1, <2>2, <3>1, <3>2 DEF OutInOrder, Starts
  <2>6. CASE Out = delivered
    <3>1. Out' = Out
      BY <2>2, <2>6
    <3> QED
      BY <1>4, <2>1, <3>1
  <2> QED
    BY <2>4, <2>5, <2>6
<1>11. ASSUME NEW k \in {"Request", "Event"}, ReadUserMsg(k) PROVE OutInOrder'
  <2>1. [kind |-> k, n |-> frames + 1] \in UserMsg
    BY <1>11, ConstantsAssumption
       DEF ReadUserMsg, ReadMessage, UserMsg, TheirIds, TypeInv, TypeOK
  <2>2. /\ UNCHANGED <<conn, delivered, event_rx>>
        /\ arrived' = Append(arrived, [kind |-> k, n |-> frames + 1])
    BY <1>11 DEF ReadUserMsg, ReadMessage, connVars, userVars
  <2> QED
    BY <1>4, <1>5, <2>1, <2>2
<1>12. CASE ConnStep /\ ~Emit /\ ~EmitClose
  <2>1. UNCHANGED <<delivered, event_rx, arrived>> /\ conn # "done"
    BY <1>12
       DEF ConnStep, HandleEvent, HandleRequest, HandleClose, PassToSender,
           HandleInternalUserMsg, HandleInternalReply, HandleInternalClose,
           CloseReceiver, CloseSender, CancelRequests, userVars, wireVars
  <2> QED
    BY <1>4, <1>5, <2>1
<1>13. CASE (\E i \in DOMAIN sent : ReadReply(i)) \/ SkipFrame \/ ReadEnd \/ Forward
              \/ ReceiverNotify \/ ReceiverClose \/ SenderStep \/ PeerClose
              \/ (\E k \in handles : Complete(k)) \/ UNCHANGED vars
  <2>1. UNCHANGED <<delivered, event_rx, arrived, conn>>
    BY <1>13
       DEF ReadReply, ReadMessage, SkipFrame, ReadEnd, Forward, ReceiverNotify,
           ReceiverClose, SenderStep, SenderTake, WriteOk, WriteLost,
           WriteClosed, SenderNotify, SenderClose, PeerClose, Complete, vars,
           userVars, wireVars, connVars
  <2> QED
    BY <1>4, <1>5, <2>1
<1>14. ASSUME NEW c, CallerStep(c) \/ Timeout(c) PROVE OutInOrder'
  <2>1. UNCHANGED <<delivered, event_rx, arrived, conn>>
    BY <1>14 DEF CallerStep, Accept, Refuse, Return, Timeout, userVars,
                 wireVars, connVars
  <2> QED
    BY <1>4, <1>5, <2>1
<1> QED
  BY <1>6, <1>7, <1>8, <1>9, <1>10, <1>11, <1>12, <1>13, <1>14
     DEF Next, ReceiverStep, UserStep

(* Nothing is put into the channel of a user that dropped it. *)
LEMMA DropNext ==
    ASSUME DropEmpties, [Next]_vars
    PROVE  DropEmpties'
<1>1. CASE UNCHANGED <<user, event_rx>>
  BY <1>1 DEF DropEmpties
<1>2. CASE Emit \/ EmitClose \/ UserRecv \/ UserDrop
  BY <1>2 DEF Emit, EmitClose, UserRecv, UserDrop, DropEmpties
<1>3. CASE ConnStep /\ ~Emit /\ ~EmitClose
  BY <1>1, <1>3
     DEF ConnStep, HandleEvent, HandleRequest, HandleClose, PassToSender,
         HandleInternalUserMsg, HandleInternalReply, HandleInternalClose,
         CloseReceiver, CloseSender, CancelRequests, userVars
<1>4. CASE ReceiverStep \/ SenderStep \/ PeerClose
             \/ (\E k \in handles : Complete(k)) \/ UNCHANGED vars
  BY <1>1, <1>4
     DEF ReceiverStep, ReadUserMsg, ReadReply, ReadMessage, SkipFrame, ReadEnd,
         Forward, ReceiverNotify, ReceiverClose, SenderStep, SenderTake,
         WriteOk, WriteLost, WriteClosed, SenderNotify, SenderClose, PeerClose,
         Complete, vars, userVars
<1>5. ASSUME NEW c, CallerStep(c) \/ Timeout(c) PROVE DropEmpties'
  BY <1>1, <1>5 DEF CallerStep, Accept, Refuse, Return, Timeout, userVars
<1> QED
  BY <1>2, <1>3, <1>4, <1>5 DEF Next, UserStep

(* Nothing has come from the peer when Connection::new returns. *)
LEMMA DeliveryInit == Init => DeliveryInv
<1> SUFFICES ASSUME Init PROVE DeliveryInv
  OBVIOUS
<1>1. OutInOrder
  <2>1. Out = << >>
    BY DEF Init, Out
  <2>2. << >> \in Seq(UserMsg) /\ Starts(<< >>, arrived)
    BY DEF Init, Starts
  <2> QED
    BY <2>1, <2>2 DEF OutInOrder
<1>2. delivered \o InTransit = arrived
  <2>1. OnItsWay(conn_msg) = << >> /\ OnItsWay(internal) = << >>
          /\ OnItsWay(receiver_msg) = << >>
    BY WayOf DEF Init
  <2> QED
    BY <2>1 DEF Init, InTransit
<1> QED
  BY <1>1, <1>2 DEF Init, DeliveryInv, NothingLost, DropEmpties

(* Every step keeps the order of the peer's messages. *)
LEMMA DeliveryNext ==
    TypeInv /\ OrderInv /\ DeliveryInv /\ [Next]_vars => DeliveryInv'
  BY OutNext, LostNext, DropNext DEF DeliveryInv, OrderInv

(* What the user receives is the beginning of what the peer sent, in order   *)
(* and without a gap, with at most one Close after it; and while the loop    *)
(* runs and the user listens, what it has not received yet is on its way.    *)
THEOREM DeliversInOrder == Spec => []DeliveredInOrder
<1>1. TypeInv /\ DeliveryInv => DeliveredInOrder
  <2> SUFFICES ASSUME TypeInv, DeliveryInv PROVE DeliveredInOrder
    OBVIOUS
  <2>1. /\ delivered \in Seq(EventMsg) /\ event_rx \in Seq(EventMsg)
        /\ arrived \in Seq(UserMsg) /\ CloseMsg \in EventMsg
    BY PlacesType DEF EventMsg
  <2>2. PICK p \in Seq(UserMsg) :
           /\ Starts(p, arrived)
           /\ Out = p \/ (conn = "done" /\ Out = Append(p, CloseMsg))
    BY DEF DeliveryInv, OutInOrder
  <2>3. p \in Seq(EventMsg)
    BY <2>2, SeqMonotonic DEF EventMsg
  <2>4. ~Starts(delivered, p) => delivered = Append(p, CloseMsg)
    BY <2>2, DeliveredStarts
  <2>5. ASSUME NEW q \in Seq(EventMsg), Starts(q, arrived)
        PROVE  Len(q) \in 0 .. Len(arrived) /\ q = SubSeq(arrived, 1, Len(q))
    <3> DEFINE a == arrived
               k == Len(q)
               s == SubSeq(a, 1, k)
    <3>1. a \in Seq(UserMsg) /\ k \in Nat /\ Len(a) \in Nat
      BY <2>1
    <3>2. k <= Len(a) /\ \A i \in 1 .. k : q[i] = a[i]
      BY <2>5 DEF Starts
    <3> HIDE DEF a
    <3>3. Len(s) = k /\ \A i \in 1 .. k : s[i] = a[i]
      BY <3>1, <3>2
    <3>4. s \in Seq(UserMsg)
      BY <3>1, <3>2
    <3> HIDE DEF s
    <3>5. q = s
      BY <3>2, <3>3, <3>4
    <3> QED
      BY <3>1, <3>2, <3>5 DEF s, a
  <2>6. \E n \in 0 .. Len(arrived) :
            \/ delivered = SubSeq(arrived, 1, n)
            \/ delivered = Append(SubSeq(arrived, 1, n), CloseMsg)
    <3>1. CASE Starts(delivered, p)
      <4>1. Starts(delivered, arrived)
        BY <2>1, <2>2, <3>1 DEF Starts
      <4> QED
        BY <2>1, <2>5, <4>1
    <3>2. CASE delivered = Append(p, CloseMsg)
      BY <2>2, <2>3, <2>5, <3>2
    <3> QED
      BY <2>4, <3>1, <3>2
  <2> QED
    BY <2>6 DEF DeliveredInOrder, DeliveryInv, NothingLost
<1> QED
  BY <1>1, DeliveryInit, DeliveryNext, TypeInit, TypeNext, OrderInit, OrderNext,
     PTL DEF Spec
=============================================================================
