----------------------- MODULE ConnectionPromiseProofs -----------------------
(***************************************************************************)
(* What a caller may conclude from the outcome of its request: module      *)
(* Connection keeps the promise of RequestPromise.  And where our messages *)
(* are: what the Sender was given it wrote, lost or still has, and an      *)
(* entry of reply_map stands for exactly one message.  And what a peer of  *)
(* a connection may rely on, which LinkProofs does: no gap opens in what   *)
(* is written while no write fails, and every reply was asked for.         *)
(***************************************************************************)
EXTENDS ConnectionOrderProofs, FiniteSetTheorems, FunctionTheorems

-----------------------------------------------------------------------------
(* Errors.  None of this depends on the width of next_id. *)

(* A request that lost its oneshot is nowhere any more and was not written,  *)
(* and only such a request returns RecvError.                                *)
DroppedIsGone ==
    \A r \in Requests :
        /\ r \in Pending => r \in Accepted
        /\ oneshot[r] = "Dropped"
             => /\ r \in Accepted /\ r \notin Pending
                /\ r \notin Written \cup Held(sender_msg) \cup Held(sender_rx)
                              \cup Held(conn_msg) \cup Queued
        /\ call[r] = "RecvError" => oneshot[r] = "Dropped"

(* Only a request has a place in reply_map, a oneshot and an id. *)
LEMMA DroppedNext ==
    TypeInv /\ RequestInv /\ OrderInv /\ DroppedIsGone /\ [Next]_vars
        => DroppedIsGone'
<1> SUFFICES ASSUME TypeInv, RequestInv, OrderInv, DroppedIsGone, [Next]_vars
             PROVE  DroppedIsGone'
  OBVIOUS
<1>1. /\ call \in [Calls -> CallStates]
      /\ oneshot \in [Requests -> {"open", "Ok", "Canceled", "Dropped"}]
      /\ next_id \in Ids /\ reply_map \in [Ids -> Option(Requests)]
      /\ Requests \subseteq Calls /\ accepted \in Seq(Calls)
      /\ rx \in Option(Calls) /\ sender_msg \in Option(OurMsg)
      /\ sent \in Seq(OurMsg)
  BY DEF TypeInv, TypeOK, Calls
<1> DEFINE InTheLine == Written \cup Held(sender_msg) \cup Held(sender_rx)
                            \cup Held(conn_msg) \cup Queued
<1> DEFINE Nowhere(r) == r \in Accepted /\ r \notin Pending /\ r \notin InTheLine
<1>2. \A r \in Requests :
         /\ r \in Pending => r \in Accepted
         /\ oneshot[r] = "Dropped" => Nowhere(r)
         /\ call[r] = "RecvError" => oneshot[r] = "Dropped"
  BY DEF DroppedIsGone
<1>3. ASSUME \A r \in Requests :
                /\ (r \in Pending)' => (r \in Accepted)'
                /\ oneshot'[r] = "Dropped" => Nowhere(r)'
                /\ call'[r] = "RecvError" => oneshot'[r] = "Dropped"
      PROVE  DroppedIsGone'
  BY <1>3 DEF DroppedIsGone
<1>4. \A r \in Queued : r \notin Written \cup Held(sender_msg)
                              \cup Held(sender_rx) \cup Held(conn_msg)
  <2> SUFFICES ASSUME NEW r \in Queued,
                      r \in Written \cup Held(sender_msg) \cup Held(sender_rx)
                                \cup Held(conn_msg)
               PROVE  FALSE
    OBVIOUS
  <2>1. PICK i \in DOMAIN accepted : accepted[i] = r
    BY DEF OrderInv, InLine, Ordered, Accepted
  <2>2. i < i
    BY <2>1 DEF OrderInv, InLine, Ordered, Precedes
  <2>3. i \in Nat
    BY <1>1
  <2> QED
    BY <2>2, <2>3
<1>5. UNCHANGED reply_map => Pending' = Pending
  BY DEF Pending
<1>6. UNCHANGED accepted => Accepted' = Accepted
  BY DEF Accepted
(* The line only moves; what is in it later was in it before. *)
<1>7. ASSUME UNCHANGED <<call, oneshot, reply_map, accepted>>,
             InTheLine' \subseteq InTheLine
      PROVE  DroppedIsGone'
  BY <1>2, <1>3, <1>5, <1>6, <1>7
<1>8. /\ Held(sender_msg)' = Held(sender_msg')
      /\ Held(sender_rx)' = Held(sender_rx')
      /\ Held(conn_msg)' = Held(conn_msg')
  BY DEF Held
<1>9. /\ UNCHANGED rx => Queued' = Queued
      /\ UNCHANGED sent => Written' = Written
  BY DEF Queued, Written
<1>10. rx' = None => Queued' = {}
  BY SomeIsNotNone DEF Queued
<1>11. CASE HandleEvent
  <2>1. PICK e \in Events :
           rx = Some(e) /\ conn_msg' = Some([kind |-> "Event", data |-> e])
    BY <1>11 DEF HandleEvent
  <2>2. Held(conn_msg') = {e}
    <3>1. [kind |-> "Event", data |-> e] \in CallMsg
      BY DEF CallMsg, OurMsg
    <3> QED
      BY <2>1, <3>1, HeldSome
  <2>3. e \in Queued
    BY <2>1 DEF Queued, Calls
  <2>4. /\ UNCHANGED <<call, oneshot, reply_map, accepted, sent, sender_msg, sender_rx>>
        /\ rx' = None
    BY <1>11 DEF HandleEvent, callVars, wireVars, senderVars
  <2>5. InTheLine' \subseteq InTheLine
    BY <1>8, <1>9, <1>10, <2>2, <2>3, <2>4
  <2> QED
    BY <1>7, <2>4, <2>5
<1>12. CASE HandleRequest
  <2>1. PICK r \in Requests : rx = Some(r) /\ SendRequest(r)
    BY <1>12 DEF HandleRequest
  <2>2. r \in Queued
    BY <1>1, <2>1 DEF Queued
  <2>3. r \in Accepted
    BY <2>2 DEF OrderInv, InLine, Ordered
  <2>4. UNCHANGED <<call, accepted, sent, sender_msg, sender_rx>> /\ rx' = None
    BY <1>12 DEF HandleRequest, wireVars, senderVars
  <2>5. CASE reply_map[next_id] # None
    <3>1. /\ reply_map' = reply_map /\ conn_msg' = conn_msg
          /\ oneshot' = Resolve({r}, "Dropped")
      BY <2>1, <2>5 DEF SendRequest
    <3>2. InTheLine' \subseteq InTheLine /\ r \notin InTheLine'
      BY <1>4, <1>8, <1>9, <1>10, <2>2, <2>4, <3>1
    <3>3. r \notin Pending
      BY <2>1 DEF RequestInv, InOnePlace
    <3>4. \A q \in Requests : q # r => oneshot'[q] = oneshot[q]
      BY <3>1 DEF Resolve
    <3>5. \A q \in Requests : call[q] = "RecvError" => oneshot'[q] = oneshot[q]
      BY <3>1 DEF Resolve
    <3>6. Pending' = Pending /\ Accepted' = Accepted
      BY <1>5, <1>6, <2>4, <3>1
    <3>7. \A q \in Requests : oneshot'[q] = "Dropped" => Nowhere(q)'
      BY <1>2, <2>3, <3>2, <3>3, <3>4, <3>6
    <3> QED
      BY <1>2, <1>3, <2>4, <3>5, <3>6, <3>7
  <2>6. CASE reply_map[next_id] = None
    <3>1. /\ reply_map' = [reply_map EXCEPT ![next_id] = Some(r)]
          /\ conn_msg' = Some([kind |-> "Request", id |-> next_id, data |-> r])
          /\ oneshot' = oneshot
      BY <2>1, <2>6 DEF SendRequest
    <3>2. Held(conn_msg') = {r}
      <4>1. [kind |-> "Request", id |-> next_id, data |-> r] \in CallMsg
        BY <1>1 DEF CallMsg, OurMsg
      <4> QED
        BY <3>1, <4>1, HeldSome
    <3>3. InTheLine' \subseteq InTheLine
      BY <1>8, <1>9, <1>10, <2>2, <2>4, <3>2
    <3>4. \A q \in Requests : (q \in Pending)' => q \in Pending \/ q = r
      BY <1>1, <3>1, SomeInjective DEF Pending
    <3>5. Accepted' = Accepted
      BY <1>6, <2>4
    <3>6. oneshot[r] # "Dropped"
      BY <1>2, <2>2
    <3>7. \A q \in Requests : oneshot'[q] = "Dropped" => Nowhere(q)'
      BY <1>2, <3>1, <3>3, <3>4, <3>5, <3>6
    <3> QED
      BY <1>2, <1>3, <2>3, <2>4, <3>1, <3>4, <3>5, <3>7
  <2> QED
    BY <2>5, <2>6
<1>13. CASE HandleClose
  <2>1. /\ UNCHANGED <<call, oneshot, reply_map, accepted, sent, sender_msg,
                       sender_rx, conn_msg>>
        /\ rx' = None
    BY <1>13 DEF HandleClose, callVars, wireVars, senderVars
  <2> QED
    BY <1>7, <1>8, <1>9, <1>10, <2>1
<1>14. CASE PassToSender
  <2>1. /\ UNCHANGED <<call, oneshot, reply_map, accepted, sent, sender_msg, rx>>
        /\ sender_rx' = conn_msg /\ conn_msg' = None
    BY <1>14 DEF PassToSender, callVars, wireVars
  <2> QED
    BY <1>7, <1>8, <1>9, <2>1, HeldNone
<1>15. CASE HandleInternalUserMsg
  <2>1. Held(conn_msg') = {}
    BY <1>15, UserMsgIsNoCall, HeldOther DEF HandleInternalUserMsg
  <2>2. UNCHANGED <<call, oneshot, reply_map, accepted, sent, sender_msg,
                    sender_rx, rx>>
    BY <1>15 DEF HandleInternalUserMsg, callVars, wireVars, senderVars
  <2> QED
    BY <1>7, <1>8, <1>9, <2>1, <2>2
<1>16. ASSUME UNCHANGED <<call, rx, accepted, sent, sender_msg, sender_rx, conn_msg>>,
              \A r \in Requests : (r \in Pending)' => r \in Pending,
              \A r \in Requests : oneshot'[r] # oneshot[r] =>
                    oneshot'[r] # "Dropped" /\ r \in Pending
       PROVE  DroppedIsGone'
  <2>1. InTheLine' = InTheLine /\ Accepted' = Accepted
    BY <1>6, <1>8, <1>9, <1>16
  <2>2. \A r \in Requests : oneshot'[r] = "Dropped" <=> oneshot[r] = "Dropped"
    BY <1>2, <1>16
  <2>3. \A r \in Requests : oneshot'[r] = "Dropped" => Nowhere(r)'
    BY <1>2, <1>16, <2>1, <2>2
  <2> QED
    BY <1>2, <1>3, <1>16, <2>1, <2>2, <2>3
<1>17. CASE HandleInternalReply
  <2>1. PICK m \in ReplyMsg : HandleInternalReply!2!(m)
    BY <1>17 DEF HandleInternalReply
  <2>2. UNCHANGED <<call, rx, accepted, sent, sender_msg, sender_rx, conn_msg>>
    BY <1>17 DEF HandleInternalReply, wireVars, senderVars
  <2>3. CASE reply_map[m.id] = None
    BY <1>16, <2>1, <2>2, <2>3, <1>5
  <2>4. CASE reply_map[m.id] # None
    <3>1. m.id \in Ids
      BY DEF ReplyMsg
    <3> DEFINE r == Get(reply_map[m.id])
    <3>2. r \in Requests /\ reply_map[m.id] = Some(r)
      BY <1>1, <2>4, <3>1, OptionCases
    <3>3. /\ reply_map' = [reply_map EXCEPT ![m.id] = None]
          /\ oneshot' = Resolve({r}, "Ok")
      BY <2>1, <2>4
    <3> HIDE DEF r
    <3>4. \A q \in Requests : (q \in Pending)' => q \in Pending
      BY <1>1, <3>1, <3>3, SomeIsNotNone DEF Pending
    <3>5. r \in Pending
      BY <3>1, <3>2 DEF Pending
    <3>6. \A q \in Requests : oneshot'[q] # oneshot[q] =>
                                  oneshot'[q] # "Dropped" /\ q \in Pending
      BY <3>3, <3>5 DEF Resolve
    <3> QED
      BY <1>16, <2>2, <3>4, <3>6
  <2> QED
    BY <2>3, <2>4
<1>18. CASE CancelRequests
  <2>1. /\ UNCHANGED <<call, rx, accepted, sent, sender_msg, sender_rx, conn_msg>>
        /\ reply_map' = [i \in Ids |-> None]
        /\ oneshot' = Resolve(Pending, "Canceled")
    BY <1>18 DEF CancelRequests, wireVars, senderVars
  <2>2. \A q \in Requests : (q \in Pending)' => q \in Pending
    BY <2>1, SomeIsNotNone DEF Pending
  <2>3. \A q \in Requests : oneshot'[q] # oneshot[q] =>
                                oneshot'[q] # "Dropped" /\ q \in Pending
    BY <2>1 DEF Resolve
  <2> QED
    BY <1>16, <2>1, <2>2, <2>3
<1>19. CASE EmitClose
  <2>1. /\ UNCHANGED <<call, reply_map, accepted, sent, sender_msg, sender_rx,
                       conn_msg>>
        /\ rx' = None
        /\ oneshot' = Resolve({r \in Requests : rx = Some(r)}, "Dropped")
    BY <1>19 DEF EmitClose, wireVars, senderVars
  <2>2. Pending' = Pending /\ Accepted' = Accepted
    BY <1>5, <1>6, <2>1
  <2>3. /\ InTheLine' \subseteq InTheLine
        /\ \A r \in Queued : r \notin InTheLine'
    BY <1>4, <1>8, <1>9, <1>10, <2>1
  <2>4. \A r \in Requests : oneshot'[r] # oneshot[r]
                               => call[r] = "waiting" /\ rx = Some(r)
    <3> SUFFICES ASSUME NEW r \in Requests, oneshot'[r] # oneshot[r]
                 PROVE  call[r] = "waiting" /\ rx = Some(r)
      OBVIOUS
    <3>1. r \in {q \in Requests : rx = Some(q)} /\ call[r] = "waiting"
      BY <2>1 DEF Resolve
    <3> QED
      BY <3>1
  <2>5. \A r \in Requests : rx = Some(r) => r \in Queued
    BY <1>1 DEF Queued
  <2>6. \A r \in Requests : rx = Some(r) => r \notin Pending
    BY DEF RequestInv, InOnePlace
  <2>7. \A r \in Queued : r \in Accepted
    BY DEF OrderInv, InLine, Ordered
  <2>8. \A r \in Requests : oneshot'[r] = "Dropped" => Nowhere(r)'
    BY <1>2, <2>2, <2>3, <2>4, <2>5, <2>6, <2>7
  <2> QED
    BY <1>2, <1>3, <2>1, <2>2, <2>4, <2>8
<1>20. CASE Emit
  <2>1. /\ UNCHANGED <<call, oneshot, reply_map, accepted, sent, sender_msg,
                       sender_rx, rx>>
        /\ conn_msg' = None
    BY <1>20 DEF Emit, callVars, wireVars, senderVars
  <2> QED
    BY <1>7, <1>8, <1>9, <2>1, HeldNone
<1>21. CASE CloseSender
  <2>1. Held(sender_rx') = {}
    BY <1>21, HeldOther DEF CloseSender, CallMsg, OurMsg, CloseMsg
  <2>2. UNCHANGED <<call, oneshot, reply_map, accepted, sent, sender_msg, rx,
                    conn_msg>>
    BY <1>21 DEF CloseSender, callVars, wireVars
  <2> QED
    BY <1>7, <1>8, <1>9, <2>1, <2>2
<1>22. ASSUME NEW k \in handles, Complete(k) PROVE DroppedIsGone'
  <2>1. Held(sender_rx') = {}
    BY <1>22, HeldOther DEF Complete, CallMsg
  <2>2. UNCHANGED <<call, oneshot, reply_map, accepted, sent, sender_msg, rx,
                    conn_msg>>
    BY <1>22 DEF Complete, callVars, connVars, wireVars
  <2> QED
    BY <1>7, <1>8, <1>9, <2>1, <2>2
<1>23. CASE SenderTake \/ SenderClose \/ WriteLost \/ WriteClosed
  <2>1. /\ UNCHANGED <<call, oneshot, reply_map, accepted, sent, rx, conn_msg>>
        /\ sender_rx' = None \/ sender_rx' = sender_rx
        /\ \/ sender_msg' = None \/ sender_msg' = sender_msg
           \/ sender_msg' = sender_rx
    BY <1>23 DEF SenderTake, SenderClose, WriteLost, WriteClosed, callVars,
                 connVars, wireVars
  <2> QED
    BY <1>7, <1>8, <1>9, <2>1, HeldNone
<1>24. CASE WriteOk
  <2> DEFINE m == Get(sender_msg)
  <2>1. /\ UNCHANGED <<call, oneshot, reply_map, accepted, rx, conn_msg, sender_rx>>
        /\ sender_msg' = None /\ sent' = Append(sent, m)
    BY <1>24 DEF WriteOk, callVars, connVars
  <2>2. m \in OurMsg /\ sender_msg = Some(m)
    BY <1>1, <1>24, OptionCases DEF WriteOk, TypeInv, Carried
  <2> HIDE DEF m
  <2>3. Written' \subseteq Written \cup Held(sender_msg)
    BY <1>1, <2>1, <2>2, WrittenNext
  <2> QED
    BY <1>7, <1>8, <1>9, <2>1, <2>3, HeldNone
<1>25. CASE HandleInternalClose \/ CloseReceiver \/ SenderNotify \/ PeerClose
              \/ UserRecv \/ UserDrop \/ UNCHANGED vars
  <2>1. UNCHANGED <<call, oneshot, reply_map, accepted, sent, sender_msg,
                    sender_rx, rx, conn_msg>>
    BY <1>25 DEF HandleInternalClose, CloseReceiver, SenderNotify, PeerClose,
                 UserRecv, UserDrop, vars, callVars, connVars, wireVars,
                 senderVars
  <2> QED
    BY <1>7, <1>8, <1>9, <2>1
<1>26. CASE ReceiverStep
  <2>1. UNCHANGED <<call, oneshot, reply_map, accepted, sent, sender_msg,
                    sender_rx, rx, conn_msg>>
    BY <1>26 DEF ReceiverStep, ReadUserMsg, ReadReply, ReadMessage, SkipFrame,
                 ReadEnd, Forward, ReceiverNotify, ReceiverClose, callVars,
                 connVars, wireVars, senderVars
  <2> QED
    BY <1>7, <1>8, <1>9, <2>1
<1>27. ASSUME NEW c \in Calls, Accept(c) PROVE DroppedIsGone'
  <2>1. /\ call[c] = "sending" /\ rx' = Some(c)
        /\ accepted' = Append(accepted, c)
        /\ call' = [call EXCEPT ![c] = IF c \in Requests THEN "waiting" ELSE "Ok"]
        /\ UNCHANGED <<oneshot, reply_map, sent, sender_msg, sender_rx, conn_msg>>
    BY <1>27 DEF Accept, connVars, senderVars
  <2>2. c \notin Accepted
    BY <2>1 DEF OrderInv, AcceptedOnce
  <2>3. \A i \in DOMAIN accepted : i \in DOMAIN accepted' /\ accepted'[i] = accepted[i]
    BY <1>1, <2>1
  <2>4. \A d \in Accepted : d \in Accepted'
    BY <2>3 DEF Accepted
  <2>5. Queued' = {c}
    BY <2>1, SomeInjective DEF Queued
  <2>6. \A r \in Requests : r \in Accepted /\ r \notin InTheLine => r \notin InTheLine'
    BY <1>8, <1>9, <2>1, <2>2, <2>5
  <2>7. \A r \in Requests : call'[r] = "RecvError" => call[r] = "RecvError"
    BY <1>1, <2>1
  <2>8. Pending' = Pending
    BY <1>5, <2>1
  <2>9. \A r \in Requests : oneshot'[r] = "Dropped" => Nowhere(r)'
    BY <1>2, <2>1, <2>4, <2>6, <2>8
  <2> QED
    BY <1>2, <1>3, <2>1, <2>4, <2>7, <2>8, <2>9
<1>28. ASSUME NEW c \in Calls,
              Refuse(c) \/ (c \in Requests /\ Return(c)) \/ Timeout(c)
       PROVE  DroppedIsGone'
  <2>1. UNCHANGED <<oneshot, reply_map, accepted, sent, sender_msg, sender_rx,
                    rx, conn_msg>>
    BY <1>28 DEF Refuse, Return, Timeout, connVars, senderVars, wireVars
  <2>2. \A r \in Requests : call'[r] = "RecvError"
                               => call[r] = "RecvError" \/ oneshot[r] = "Dropped"
    BY <1>1, <1>28 DEF Refuse, Return, Timeout
  <2>3. InTheLine' = InTheLine /\ Pending' = Pending /\ Accepted' = Accepted
    BY <1>5, <1>6, <1>8, <1>9, <2>1
  <2> QED
    BY <1>2, <1>3, <2>1, <2>2, <2>3
<1> QED
  BY <1>11, <1>12, <1>13, <1>14, <1>15, <1>17, <1>18, <1>19, <1>20, <1>21,
     <1>22, <1>23, <1>24, <1>25, <1>26, <1>27, <1>28
     DEF Next, ConnStep, SenderStep, UserStep, CallerStep, Calls

-----------------------------------------------------------------------------
(* Answers.  Here ids must not come round: next_id is a usize, so a          *)
(* connection can be given 2^64 requests before one does.                    *)

EnoughIds == IsFiniteSet(Requests) /\ Cardinality(Requests) <= IdSpace

(* The requests that have been given an id. *)
Taken == {r \in Requests : r \in Accepted /\ r \notin Queued}

(* The request messages that are on their way to the wire or on it. *)
RequestMsg == {m \in OurMsg : m.kind = "Request"}
RequestIn(c) == {m \in RequestMsg : c = Some(m)}
OnTheWire == {m \in RequestMsg : \E i \in DOMAIN sent : sent[i] = m}
Requested == RequestIn(conn_msg) \cup RequestIn(sender_rx)
                \cup RequestIn(sender_msg) \cup OnTheWire

(* next_id counts the requests it was given to, so no id is used twice. *)
IdsAreFresh ==
    conn # "done" =>
        /\ Cardinality(Taken) < IdSpace => next_id = Cardinality(Taken)
        /\ \A m \in Requested : m.id < Cardinality(Taken)
        /\ \A i \in Ids : reply_map[i] # None => i < Cardinality(Taken)

(* An id belongs to one request, in the messages and in reply_map. *)
IdsAreOwned ==
    /\ \A m, n \in Requested : m.id = n.id => m.data = n.data
    /\ \A m \in Requested, r \in Requests : reply_map[m.id] = Some(r) => m.data = r

(* The peer replies only to what it has received. *)
RepliesAreEchoes ==
    \A m \in ReplyMsg : internal = Some(m) \/ receiver_msg = Some(m) =>
        [kind |-> "Request", id |-> m.id, data |-> m.data] \in OnTheWire

(* A request that was answered was written, and got its own answer. *)
AnsweredIsOwn ==
    \A r \in Requests :
        /\ oneshot[r] = "Ok" => r \in Transmitted /\ reply[r] = Some(r)
        /\ call[r] = "Ok" => oneshot[r] = "Ok"

AnswerInv == IdsAreFresh /\ IdsAreOwned /\ RepliesAreEchoes /\ AnsweredIsOwn

(* A step other than send_request gives no request an id: it moves the       *)
(* messages there are along the line, or out of it, and takes entries out of *)
(* reply_map.                                                                *)
LEMMA NoNewId ==
    ASSUME TypeInv, OrderInv, [Next]_vars, ~HandleRequest
    PROVE  /\ Requested' \subseteq Requested
           /\ OnTheWire \subseteq OnTheWire'
           /\ UNCHANGED next_id
           /\ \A i \in Ids : reply_map'[i] # None => reply_map'[i] = reply_map[i]
           /\ conn' # "done" => conn # "done" /\ Taken' = Taken
<1> DEFINE Goal == /\ Requested' \subseteq Requested
                   /\ OnTheWire \subseteq OnTheWire'
                   /\ UNCHANGED next_id
                   /\ \A i \in Ids : reply_map'[i] # None => reply_map'[i] = reply_map[i]
                   /\ conn' # "done" => conn # "done" /\ Taken' = Taken
<1> SUFFICES Goal
  OBVIOUS
<1>1. /\ rx \in Option(Calls) /\ accepted \in Seq(Calls)
      /\ sender_msg \in Option(OurMsg) /\ sent \in Seq(OurMsg)
      /\ reply_map \in [Ids -> Option(Requests)]
  BY DEF TypeInv, TypeOK
<1>2. /\ RequestIn(sender_msg)' = RequestIn(sender_msg')
      /\ RequestIn(sender_rx)' = RequestIn(sender_rx')
      /\ RequestIn(conn_msg)' = RequestIn(conn_msg')
      /\ RequestIn(None) = {}
  BY SomeIsNotNone DEF RequestIn
<1>3. /\ UNCHANGED sent => OnTheWire' = OnTheWire
      /\ UNCHANGED <<accepted, rx>> => Taken' = Taken
  BY DEF OnTheWire, Taken, Accepted, Queued
<1>4. UNCHANGED <<sent, sender_rx, sender_msg>> /\ (conn_msg' = None \/ conn_msg' = conn_msg)
        => Requested' \subseteq Requested /\ OnTheWire \subseteq OnTheWire'
  BY <1>2, <1>3 DEF Requested
<1>5. ASSUME UNCHANGED <<sent, sender_rx, sender_msg, next_id, reply_map, accepted, rx, conn>>,
             conn_msg' = None \/ conn_msg' = conn_msg
      PROVE  Goal
  BY <1>3, <1>4, <1>5
<1>6. CASE HandleEvent \/ HandleClose
  <2>1. /\ UNCHANGED <<sent, sender_rx, sender_msg, next_id, reply_map, accepted>>
        /\ rx' = None /\ conn # "done"
    BY <1>6 DEF HandleEvent, HandleClose, wireVars, senderVars
  <2>2. \A r \in Requests : rx # Some(r)
    BY <1>6, SomeInjective, ConstantsAssumption DEF HandleEvent, HandleClose
  <2>3. Taken' = Taken
    BY <2>1, <2>2, SomeIsNotNone DEF Taken, Queued, Accepted
  <2>4. RequestIn(conn_msg') \subseteq RequestIn(conn_msg)
    <3>1. CASE HandleClose
      BY <3>1 DEF HandleClose
    <3>2. CASE HandleEvent
      <4>1. PICK e \in Events : conn_msg' = Some([kind |-> "Event", data |-> e])
        BY <3>2 DEF HandleEvent
      <4>2. \A m \in RequestMsg : conn_msg' # Some(m)
        BY <4>1, SomeInjective DEF RequestMsg
      <4> QED
        BY <4>2 DEF RequestIn
    <3> QED
      BY <1>6, <3>1, <3>2
  <2> QED
    BY <1>2, <1>3, <2>1, <2>3, <2>4 DEF Requested
<1>7. CASE PassToSender
  <2>1. /\ UNCHANGED <<sent, sender_msg, next_id, reply_map, accepted, rx>>
        /\ sender_rx' = conn_msg /\ conn_msg' = None /\ conn # "done"
    BY <1>7 DEF PassToSender, wireVars
  <2> QED
    BY <1>2, <1>3, <2>1 DEF Requested
<1>8. CASE HandleInternalUserMsg
  <2>1. /\ UNCHANGED <<sent, sender_msg, sender_rx, next_id, reply_map, accepted, rx>>
        /\ conn # "done"
    BY <1>8 DEF HandleInternalUserMsg, wireVars, senderVars
  <2>2. PICK m \in UserMsg : conn_msg' = Some(m)
    BY <1>8 DEF HandleInternalUserMsg
  <2>3. \A n \in RequestMsg : conn_msg' # Some(n)
    BY <2>2, SomeInjective, UserMsgIsNoCall DEF RequestMsg, CallMsg
  <2>4. RequestIn(conn_msg') = {}
    BY <2>3 DEF RequestIn
  <2> QED
    BY <1>2, <1>3, <2>1, <2>4 DEF Requested
<1>9. CASE HandleInternalReply \/ CancelRequests
  <2>1. /\ UNCHANGED <<sent, sender_msg, sender_rx, conn_msg, next_id, accepted, rx>>
        /\ conn # "done"
    BY <1>9 DEF HandleInternalReply, CancelRequests, wireVars, senderVars
  <2>2. \A i \in Ids : reply_map'[i] # None => reply_map'[i] = reply_map[i]
    <3>1. CASE CancelRequests
      BY <3>1 DEF CancelRequests
    <3>2. CASE HandleInternalReply
      BY <1>1, <3>2 DEF HandleInternalReply
    <3> QED
      BY <1>9, <3>1, <3>2
  <2> QED
    BY <1>3, <1>4, <2>1, <2>2
<1>10. CASE EmitClose
  <2>1. /\ UNCHANGED <<sent, sender_msg, sender_rx, conn_msg, next_id, reply_map>>
        /\ conn' = "done"
    BY <1>10 DEF EmitClose, wireVars, senderVars
  <2> QED
    BY <1>4, <2>1
<1>11. CASE HandleInternalClose \/ Emit \/ CloseReceiver
  <2>1. /\ UNCHANGED <<sent, sender_msg, sender_rx, next_id, reply_map, accepted, rx>>
        /\ conn_msg' = None \/ conn_msg' = conn_msg
        /\ conn # "done"
    BY <1>11 DEF HandleInternalClose, Emit, CloseReceiver, wireVars, senderVars
  <2> QED
    BY <1>3, <1>4, <2>1
<1>12. CASE CloseSender \/ \E k \in handles : Complete(k)
  <2>1. UNCHANGED <<sent, sender_msg, conn_msg, next_id, reply_map, accepted, rx>>
    BY <1>12 DEF CloseSender, Complete, connVars, wireVars
  <2>2. conn # "done" \/ UNCHANGED conn
    BY <1>12 DEF CloseSender, Complete, connVars
  <2>3. \/ sender_rx' = Some(CloseMsg)
        \/ \E k \in handles : sender_rx' = Some([kind |-> "Reply", n |-> k])
    BY <1>12 DEF CloseSender, Complete
  <2>4. \A n \in RequestMsg : sender_rx' # Some(n)
    <3>1. \A n \in RequestMsg : n # CloseMsg
      BY DEF RequestMsg, OurMsg, CloseMsg
    <3>2. \A n \in RequestMsg, k \in handles : n # [kind |-> "Reply", n |-> k]
      BY DEF RequestMsg
    <3> QED
      BY <2>3, <3>1, <3>2, SomeInjective
  <2>5. RequestIn(sender_rx') = {}
    BY <2>4 DEF RequestIn
  <2> QED
    BY <1>2, <1>3, <2>1, <2>2, <2>5 DEF Requested
<1>13. CASE SenderTake \/ SenderClose \/ WriteLost \/ WriteClosed
  <2>1. /\ UNCHANGED <<sent, conn, conn_msg, next_id, reply_map, accepted, rx>>
        /\ sender_rx' = None \/ sender_rx' = sender_rx
        /\ \/ sender_msg' = None \/ sender_msg' = sender_msg
           \/ sender_msg' = sender_rx
    BY <1>13 DEF SenderTake, SenderClose, WriteLost, WriteClosed, connVars,
                 wireVars
  <2> QED
    BY <1>2, <1>3, <2>1 DEF Requested
<1>14. CASE WriteOk
  <2> DEFINE m == Get(sender_msg)
  <2>1. /\ UNCHANGED <<conn, conn_msg, next_id, reply_map, accepted, rx, sender_rx>>
        /\ sender_msg' = None /\ sent' = Append(sent, m)
    BY <1>14 DEF WriteOk, connVars
  <2>2. m \in OurMsg /\ sender_msg = Some(m)
    BY <1>1, <1>14, OptionCases DEF WriteOk, TypeInv, Carried
  <2> HIDE DEF m
  <2>3. /\ DOMAIN sent = 1 .. Len(sent) /\ DOMAIN sent' = 1 .. Len(sent) + 1
        /\ Len(sent) \in Nat
        /\ \A i \in 1 .. Len(sent) : sent'[i] = sent[i]
        /\ sent'[Len(sent) + 1] = m
    BY <1>1, <2>1, <2>2
  <2>4. OnTheWire' \subseteq OnTheWire \cup RequestIn(sender_msg)
    <3> SUFFICES ASSUME NEW n \in RequestMsg, NEW i \in DOMAIN sent', sent'[i] = n
                 PROVE  n \in OnTheWire \/ n \in RequestIn(sender_msg)
      BY DEF OnTheWire
    <3>1. CASE i \in DOMAIN sent
      BY <2>3, <3>1 DEF OnTheWire
    <3>2. CASE i = Len(sent) + 1
      BY <2>2, <2>3, <3>2 DEF RequestIn
    <3> QED
      BY <2>3, <3>1, <3>2
  <2>5. OnTheWire \subseteq OnTheWire'
    BY <2>3 DEF OnTheWire
  <2> QED
    BY <1>2, <1>3, <2>1, <2>4, <2>5 DEF Requested
<1>15. CASE SenderNotify \/ PeerClose \/ UserRecv \/ UserDrop \/ UNCHANGED vars
  BY <1>5, <1>15 DEF SenderNotify, PeerClose, UserRecv, UserDrop, vars,
                     connVars, wireVars, senderVars
<1>16. CASE ReceiverStep
  BY <1>5, <1>16 DEF ReceiverStep, ReadUserMsg, ReadReply, ReadMessage,
                     SkipFrame, ReadEnd, Forward, ReceiverNotify,
                     ReceiverClose, connVars, wireVars, senderVars
<1>17. ASSUME NEW c \in Calls, Accept(c) PROVE Goal
  <2>1. /\ rx = None /\ rx' = Some(c) /\ call[c] = "sending"
        /\ accepted' = Append(accepted, c)
        /\ UNCHANGED <<sent, sender_msg, sender_rx, conn, conn_msg, next_id, reply_map>>
    BY <1>17 DEF Accept, connVars, senderVars
  <2>2. c \notin Accepted
    BY <2>1 DEF OrderInv, AcceptedOnce
  <2>3. Queued = {} /\ Queued' = {c}
    BY <2>1, SomeIsNotNone, SomeInjective DEF Queued
  <2>4. Accepted' = Accepted \cup {c}
    <3>1. /\ DOMAIN accepted = 1 .. Len(accepted)
          /\ DOMAIN accepted' = 1 .. Len(accepted) + 1
          /\ Len(accepted) \in Nat
          /\ \A i \in 1 .. Len(accepted) : accepted'[i] = accepted[i]
          /\ accepted'[Len(accepted) + 1] = c
      BY <1>1, <2>1
    <3> QED
      BY <3>1 DEF Accepted
  <2>5. Taken' = Taken
    BY <2>2, <2>3, <2>4 DEF Taken
  <2> QED
    BY <1>4, <2>1, <2>5
<1>18. ASSUME NEW c, Refuse(c) \/ Return(c) \/ Timeout(c) PROVE Goal
  BY <1>5, <1>18 DEF Refuse, Return, Timeout, connVars, senderVars, wireVars
<1> QED
  BY <1>6, <1>7, <1>8, <1>9, <1>10, <1>11, <1>12, <1>13, <1>14, <1>15, <1>16,
     <1>17, <1>18
     DEF Next, ConnStep, SenderStep, UserStep, CallerStep

(* send_request gives the request an id no message and no entry has. *)
LEMMA NewIdIsFresh ==
    ASSUME EnoughIds, TypeInv, OrderInv, IdsAreFresh, IdsAreOwned, HandleRequest
    PROVE  IdsAreFresh' /\ IdsAreOwned' /\ reply_map[next_id] = None
<1>1. PICK r \in Requests : rx = Some(r) /\ SendRequest(r)
  BY DEF HandleRequest
<1>2. /\ UNCHANGED <<sent, sender_msg, sender_rx, accepted>> /\ rx' = None
      /\ conn = "select"
  BY DEF HandleRequest, wireVars, senderVars
<1>3. /\ next_id \in Ids /\ reply_map \in [Ids -> Option(Requests)]
      /\ IdSpace \in Nat \ {0} /\ Requests \subseteq Calls
  BY ConstantsAssumption DEF TypeInv, TypeOK, Calls
<1>4. r \in Queued /\ r \in Accepted
  BY <1>1, <1>3 DEF Queued, OrderInv, InLine, Ordered
<1>5. Taken' = Taken \cup {r} /\ r \notin Taken
  <2>1. Accepted' = Accepted /\ Queued' = {}
    BY <1>2, SomeIsNotNone DEF Accepted, Queued
  <2>2. \A q \in Requests : q \in Queued => q = r
    BY <1>1, SomeInjective DEF Queued
  <2> QED
    BY <1>4, <2>1, <2>2 DEF Taken
<1> DEFINE n == Cardinality(Taken)
<1>6. /\ n \in Nat /\ n + 1 <= IdSpace /\ Cardinality(Taken') = n + 1
  <2>1. IsFiniteSet(Requests) /\ Cardinality(Requests) <= IdSpace
    BY DEF EnoughIds
  <2>2. Taken \in SUBSET Requests /\ Taken \cup {r} \in SUBSET Requests
    BY DEF Taken
  <2>3. IsFiniteSet(Taken) /\ IsFiniteSet(Taken \cup {r})
    BY <2>1, <2>2, FS_Subset
  <2>4. n \in Nat /\ Cardinality(Requests) \in Nat
    BY <2>1, <2>3, FS_CardinalityType
  <2>5. Cardinality(Taken \cup {r}) = n + 1
    BY <1>5, <2>3, FS_AddElement
  <2>6. Cardinality(Taken \cup {r}) <= Cardinality(Requests)
    BY <2>1, <2>2, FS_Subset
  <2> QED
    BY <1>3, <1>5, <2>1, <2>4, <2>5, <2>6
<1>7. /\ next_id = n
      /\ \A m \in Requested : m.id < n
      /\ \A i \in Ids : reply_map[i] # None => i < n
  BY <1>2, <1>3, <1>6 DEF IdsAreFresh
<1>8. reply_map[next_id] = None
  BY <1>3, <1>6, <1>7
<1> DEFINE m0 == [kind |-> "Request", id |-> next_id, data |-> r]
<1>9. /\ next_id' = (next_id + 1) % IdSpace
      /\ reply_map' = [reply_map EXCEPT ![next_id] = Some(r)]
      /\ conn_msg' = Some(m0)
  BY <1>1, <1>8 DEF SendRequest
<1>10. m0.id = n /\ m0.data = r /\ m0 \in RequestMsg
  BY <1>3, <1>7 DEF RequestMsg, OurMsg
<1> HIDE DEF n, m0
<1>11. \A m \in Requested' : m = m0 \/ m \in Requested
  <2>1. RequestIn(conn_msg)' = {m0}
    BY <1>9, <1>10, SomeInjective DEF RequestIn
  <2>2. /\ RequestIn(sender_rx)' = RequestIn(sender_rx)
        /\ RequestIn(sender_msg)' = RequestIn(sender_msg)
        /\ OnTheWire' = OnTheWire
    BY <1>2 DEF RequestIn, OnTheWire
  <2> QED
    BY <2>1, <2>2 DEF Requested
<1>12. n + 1 < IdSpace => next_id' = n + 1
  BY <1>3, <1>6, <1>7, <1>9
<1>13. \A m \in Requested : m.id \in Nat
  BY DEF Requested, RequestIn, OnTheWire, RequestMsg, OurMsg, Ids
<1>14. IdsAreFresh'
  <2>1. \A m \in Requested' : m.id < n + 1
    BY <1>6, <1>7, <1>10, <1>11, <1>13
  <2>2. \A i \in Ids : reply_map'[i] # None => i < n + 1
    BY <1>3, <1>6, <1>7, <1>9 DEF Ids
  <2> QED
    BY <1>6, <1>12, <2>1, <2>2 DEF IdsAreFresh
<1>15. \A m, k \in Requested' : m.id = k.id => m.data = k.data
  BY <1>6, <1>7, <1>10, <1>11, <1>13 DEF IdsAreOwned
<1>16. \A m \in Requested', q \in Requests : reply_map'[m.id] = Some(q) => m.data = q
  <2> SUFFICES ASSUME NEW m \in Requested', NEW q \in Requests,
                      reply_map'[m.id] = Some(q)
               PROVE  m.data = q
    OBVIOUS
  <2>1. CASE m = m0
    <3>1. reply_map'[m.id] = Some(r)
      BY <1>3, <1>7, <1>9, <1>10, <2>1
    <3> QED
      BY <1>10, <2>1, <3>1, SomeInjective
  <2>2. CASE m \in Requested /\ m # m0
    <3>1. m.id # next_id /\ m.id \in Ids
      BY <1>6, <1>7, <1>13, <2>2
         DEF Requested, RequestIn, OnTheWire, RequestMsg, OurMsg
    <3>2. reply_map'[m.id] = reply_map[m.id]
      BY <1>3, <1>9, <3>1
    <3> QED
      BY <2>2, <3>2 DEF IdsAreOwned
  <2> QED
    BY <1>11, <2>1, <2>2
<1> QED
  BY <1>8, <1>14, <1>15, <1>16 DEF IdsAreOwned

(* The requests that were transmitted are those with a message on the wire.  *)
LEMMA TransmittedIsOnTheWire ==
    ASSUME sent \in Seq(OurMsg)
    PROVE  \A r \in Requests : r \in Transmitted <=> \E m \in OnTheWire : m.data = r
<1>1. \A i \in DOMAIN sent : sent[i] \in OurMsg
  OBVIOUS
<1>2. \A i \in DOMAIN sent : sent[i].kind = "Request" => sent[i] \in OnTheWire
  BY <1>1 DEF OnTheWire, RequestMsg
<1>3. \A m \in OnTheWire : m.kind = "Request" /\ \E i \in DOMAIN sent : sent[i] = m
  BY DEF OnTheWire, RequestMsg
<1> QED
  BY <1>2, <1>3 DEF Transmitted

(* A reply reaches the Connection as the peer wrote it, and the peer wrote   *)
(* the id and the data of a request it had received.                         *)
LEMMA EchoNext ==
    ASSUME TypeInv, RepliesAreEchoes, OnTheWire \subseteq OnTheWire', [Next]_vars
    PROVE  RepliesAreEchoes'
<1> DEFINE EchoOf(m) == [kind |-> "Request", id |-> m.id, data |-> m.data]
<1>1. /\ receiver_msg \in Option(UserMsg \cup ReplyMsg)
      /\ sent \in Seq(OurMsg)
  BY DEF TypeInv, TypeOK
<1>2. ASSUME internal' \in {internal, None, Some(CloseMsg), receiver_msg},
             receiver_msg' \in {receiver_msg, None}
      PROVE  RepliesAreEchoes'
  <2>1. \A m \in ReplyMsg : Some(m) # None /\ Some(m) # Some(CloseMsg)
    BY SomeIsNotNone, SomeInjective DEF ReplyMsg, CloseMsg
  <2> QED
    BY <1>2, <2>1 DEF RepliesAreEchoes
<1>3. ASSUME NEW k \in {"Request", "Event"}, ReadUserMsg(k)
      PROVE  RepliesAreEchoes'
  <2>1. /\ internal' = internal
        /\ receiver_msg' = Some([kind |-> k, n |-> frames + 1])
    BY <1>3 DEF ReadUserMsg, ReadMessage
  <2>2. \A m \in ReplyMsg : receiver_msg' # Some(m)
    <3>1. \A m \in ReplyMsg : m # [kind |-> k, n |-> frames + 1]
      BY DEF ReplyMsg
    <3> QED
      BY <2>1, <3>1, SomeInjective
  <2> QED
    BY <2>1, <2>2 DEF RepliesAreEchoes
<1>4. ASSUME NEW i \in DOMAIN sent, ReadReply(i) PROVE RepliesAreEchoes'
  <2> DEFINE n == [kind |-> "Reply", id |-> sent[i].id, data |-> sent[i].data]
  <2>1. /\ internal' = internal /\ receiver_msg' = Some(n)
        /\ sent[i].kind = "Request"
    BY <1>4 DEF ReadReply, ReadMessage
  <2>2. sent[i] \in OurMsg
    BY <1>1
  <2>3. sent[i] = EchoOf(n)
    BY <2>1, <2>2 DEF OurMsg
  <2>4. EchoOf(n) \in OnTheWire
    BY <2>1, <2>2, <2>3 DEF OnTheWire, RequestMsg
  <2> HIDE DEF n
  <2>5. \A m \in ReplyMsg : receiver_msg' = Some(m) => m = n
    BY <2>1, SomeInjective
  <2> QED
    BY <2>1, <2>4, <2>5 DEF RepliesAreEchoes
<1>5. CASE ConnStep
  BY <1>2, <1>5
     DEF ConnStep, HandleEvent, HandleRequest, HandleClose, PassToSender,
         HandleInternalUserMsg, HandleInternalReply, HandleInternalClose, Emit,
         CloseReceiver, CloseSender, CancelRequests, EmitClose, receiverVars
<1>6. CASE Forward
  <2>1. Some(Get(receiver_msg)) = receiver_msg
    BY <1>1, <1>6, OptionCases DEF Forward, TypeInv, Carried
  <2> QED
    BY <1>2, <1>6, <2>1 DEF Forward, PassToConnection
<1>7. CASE SkipFrame \/ ReadEnd \/ ReceiverNotify \/ ReceiverClose \/ SenderStep
             \/ UserStep \/ PeerClose \/ UNCHANGED vars
  BY <1>2, <1>7
     DEF SkipFrame, ReadEnd, ReceiverNotify, ReceiverClose, PassToConnection,
         SenderStep, SenderTake, WriteOk, WriteLost, WriteClosed, SenderNotify,
         SenderClose, UserStep, UserRecv, UserDrop, Complete, PeerClose, vars,
         receiverVars
<1>8. ASSUME NEW c, CallerStep(c) \/ Timeout(c) PROVE RepliesAreEchoes'
  BY <1>2, <1>8 DEF CallerStep, Accept, Refuse, Return, Timeout, receiverVars
<1> QED
  BY <1>3, <1>4, <1>5, <1>6, <1>7, <1>8 DEF Next, ReceiverStep

(* A oneshot is resolved with Ok only by a reply, which is to the request    *)
(* that its id was given to.                                                 *)
LEMMA AnsweredNext ==
    ASSUME TypeInv, IdsAreOwned, RepliesAreEchoes, AnsweredIsOwn,
           OnTheWire \subseteq OnTheWire', [Next]_vars
    PROVE  AnsweredIsOwn'
<1>1. /\ call \in [Calls -> CallStates] /\ Requests \subseteq Calls
      /\ reply \in [Requests -> Option(Requests)]
      /\ reply_map \in [Ids -> Option(Requests)]
      /\ sent \in Seq(OurMsg) /\ sent' \in Seq(OurMsg)
  BY TypeNext DEF TypeInv, TypeOK, Calls
<1>2. \A r \in Requests : r \in Transmitted => r \in Transmitted'
  <2>1. \A r \in Requests : r \in Transmitted <=> \E m \in OnTheWire : m.data = r
    BY <1>1, TransmittedIsOnTheWire
  <2>2. (sent \in Seq(OurMsg))'
          => (\A r \in Requests : r \in Transmitted <=> \E m \in OnTheWire : m.data = r)'
    BY TransmittedIsOnTheWire, PTL
  <2> QED
    BY <1>1, <2>1, <2>2
<1>3. ASSUME \A r \in Requests :
                /\ oneshot'[r] = "Ok" => oneshot[r] = "Ok"
                /\ call'[r] = "Ok" => oneshot'[r] = "Ok",
             UNCHANGED reply
      PROVE  AnsweredIsOwn'
  BY <1>2, <1>3 DEF AnsweredIsOwn
<1>4. CASE HandleInternalReply
  <2>1. PICK m \in ReplyMsg : internal = Some(m) /\ HandleInternalReply!2!(m)
    BY <1>4 DEF HandleInternalReply
  <2>2. UNCHANGED call
    BY <1>4 DEF HandleInternalReply
  <2>3. CASE reply_map[m.id] = None
    BY <1>3, <2>1, <2>2, <2>3 DEF AnsweredIsOwn
  <2>4. CASE reply_map[m.id] # None
    <3>1. m.id \in Ids /\ m.data \in Requests
      BY DEF ReplyMsg
    <3> DEFINE q == Get(reply_map[m.id])
    <3>2. q \in Requests /\ reply_map[m.id] = Some(q)
      BY <1>1, <2>4, <3>1, OptionCases
    <3>3. /\ oneshot' = Resolve({q}, "Ok")
          /\ reply' = [reply EXCEPT ![q] = Some(m.data)]
      BY <2>1, <2>4
    <3> HIDE DEF q
    <3> DEFINE n == [kind |-> "Request", id |-> m.id, data |-> m.data]
    <3>4. n \in OnTheWire
      BY <2>1 DEF RepliesAreEchoes
    <3>5. n \in Requested /\ n.id = m.id /\ n.data = m.data
      BY <3>4 DEF Requested
    <3>6. m.data = q
      <4> HIDE DEF n
      <4> QED
        BY <3>2, <3>5 DEF IdsAreOwned
    <3>7. q \in Transmitted'
      <4>1. q \in Transmitted
        <5> HIDE DEF n
        <5> QED
          BY <1>1, <3>2, <3>4, <3>5, <3>6, TransmittedIsOnTheWire
      <4> QED
        BY <1>2, <3>2, <4>1
    <3>8. \A r \in Requests : /\ r # q => oneshot'[r] = oneshot[r]
                              /\ call[r] = "Ok" => oneshot'[r] = oneshot[r]
      BY <3>3 DEF Resolve
    <3>9. /\ reply'[q] = Some(q)
          /\ \A r \in Requests : r # q => reply'[r] = reply[r]
      BY <1>1, <3>2, <3>3, <3>6
    <3> QED
      BY <1>2, <2>2, <3>7, <3>8, <3>9 DEF AnsweredIsOwn
  <2> QED
    BY <2>3, <2>4
<1>5. CASE ConnStep /\ ~HandleInternalReply
  <2>1. UNCHANGED <<call, reply>>
    BY <1>5
       DEF ConnStep, HandleEvent, HandleRequest, HandleClose, PassToSender,
           HandleInternalUserMsg, HandleInternalReply, HandleInternalClose,
           Emit, CloseReceiver, CloseSender, CancelRequests, EmitClose, callVars
  <2>2. \/ UNCHANGED oneshot
        \/ \E R \in SUBSET Requests, v \in {"Dropped", "Canceled"} :
                oneshot' = Resolve(R, v)
    <3>1. CASE HandleRequest
      BY <3>1 DEF HandleRequest, SendRequest
    <3>2. CASE CancelRequests
      BY <3>2 DEF CancelRequests, Pending
    <3>3. CASE EmitClose
      BY <3>3 DEF EmitClose
    <3> QED
      BY <1>5, <3>1, <3>2, <3>3
         DEF ConnStep, HandleEvent, HandleClose, PassToSender,
             HandleInternalUserMsg, HandleInternalClose, Emit, CloseReceiver,
             CloseSender, callVars
  <2>3. \A r \in Requests : /\ oneshot'[r] = "Ok" => oneshot[r] = "Ok"
                            /\ call[r] = "Ok" => oneshot'[r] = oneshot[r]
    BY <2>2 DEF Resolve
  <2> QED
    BY <1>3, <2>1, <2>3 DEF AnsweredIsOwn
<1>6. CASE ReceiverStep \/ SenderStep \/ UserStep \/ PeerClose \/ UNCHANGED vars
  <2>1. UNCHANGED callVars
    BY <1>6
       DEF ReceiverStep, ReadUserMsg, ReadReply, ReadMessage, SkipFrame,
           ReadEnd, Forward, ReceiverNotify, ReceiverClose, SenderStep,
           SenderTake, WriteOk, WriteLost, WriteClosed, SenderNotify,
           SenderClose, UserStep, UserRecv, UserDrop, Complete, PeerClose, vars
  <2> QED
    BY <1>3, <2>1 DEF AnsweredIsOwn, callVars
<1>7. ASSUME NEW c \in Calls, CallerStep(c) \/ (c \in Requests /\ Timeout(c))
      PROVE  AnsweredIsOwn'
  <2>1. UNCHANGED <<oneshot, reply>>
    BY <1>7 DEF CallerStep, Accept, Refuse, Return, Timeout
  <2>2. \A r \in Requests : call'[r] = "Ok" => call[r] = "Ok" \/ oneshot[r] = "Ok"
    BY <1>1, <1>7 DEF CallerStep, Accept, Refuse, Return, Timeout
  <2> QED
    BY <1>3, <2>1, <2>2 DEF AnsweredIsOwn
<1> QED
  BY <1>4, <1>5, <1>6, <1>7 DEF Next, Calls

(* Ids stay fresh and owned, replies stay echoes, answers stay one's own. *)
LEMMA AnswerNext ==
    ASSUME EnoughIds, TypeInv, OrderInv, AnswerInv, [Next]_vars
    PROVE  AnswerInv'
<1> USE DEF AnswerInv
<1>1. CASE HandleRequest
  <2>1. OnTheWire' = OnTheWire
    BY <1>1 DEF HandleRequest, wireVars, OnTheWire
  <2> QED
    BY <1>1, <2>1, NewIdIsFresh, EchoNext, AnsweredNext
<1>2. CASE ~HandleRequest
  <2>1. /\ Requested' \subseteq Requested /\ OnTheWire \subseteq OnTheWire'
        /\ UNCHANGED next_id
        /\ \A i \in Ids : reply_map'[i] # None => reply_map'[i] = reply_map[i]
        /\ conn' # "done" => conn # "done" /\ Taken' = Taken
    BY <1>2, NoNewId
  <2>2. IdsAreFresh'
    BY <2>1 DEF IdsAreFresh
  <2>3. \A m \in Requested : m.id \in Ids
    BY DEF Requested, RequestIn, OnTheWire, RequestMsg, OurMsg
  <2>4. IdsAreOwned'
    BY <2>1, <2>3, SomeIsNotNone DEF IdsAreOwned
  <2> QED
    BY <2>1, <2>2, <2>4, EchoNext, AnsweredNext
<1> QED
  BY <1>1, <1>2

(* Nothing has been requested, answered or dropped when Connection::new      *)
(* returns.                                                                  *)
LEMMA PromiseInvInit == Init => DroppedIsGone /\ AnswerInv
<1> SUFFICES ASSUME Init PROVE DroppedIsGone /\ AnswerInv
  OBVIOUS
<1>1. Accepted = {} /\ Taken = {} /\ Pending = {} /\ Requested = {}
  <2>1. Accepted = {} /\ OnTheWire = {}
    BY DEF Init, Accepted, OnTheWire
  <2>2. RequestIn(None) = {} /\ Pending = {}
    BY SomeIsNotNone DEF Init, RequestIn, Pending
  <2> QED
    BY <2>1, <2>2 DEF Init, Taken, Requested
<1>2. Cardinality(Taken) = 0
  BY <1>1, FS_EmptySet
<1>3. IdsAreFresh /\ IdsAreOwned
  BY <1>1, <1>2 DEF Init, IdsAreFresh, IdsAreOwned
<1>4. RepliesAreEchoes /\ AnsweredIsOwn
  BY SomeIsNotNone DEF Init, RepliesAreEchoes, AnsweredIsOwn, Calls
<1>5. DroppedIsGone
  BY <1>1 DEF Init, DroppedIsGone, Calls
<1> QED
  BY <1>3, <1>4, <1>5 DEF AnswerInv

(* The Ok a request returns is the peer's answer to that very request,       *)
(* however many requests are in flight and however often and in whatever     *)
(* order the peer replies, as long as next_id has not come round.            *)
THEOREM AnswersAreOwn == EnoughIds => (Spec => []OkIsOwnAnswer)
<1> SUFFICES ASSUME EnoughIds PROVE Spec => []OkIsOwnAnswer
  OBVIOUS
<1>1. Init => AnswerInv
  BY PromiseInvInit
<1>2. TypeInv /\ OrderInv /\ AnswerInv /\ [Next]_vars => AnswerInv'
  BY AnswerNext
<1>3. AnswerInv => OkIsOwnAnswer
  BY DEF AnswerInv, AnsweredIsOwn, OkIsOwnAnswer
<1> QED
  BY <1>1, <1>2, <1>3, TypeInit, TypeNext, OrderInit, OrderNext, PTL DEF Spec

-----------------------------------------------------------------------------
(* The promise. *)

(* A write transmits a request that was not transmitted before and whose     *)
(* caller was given no error that denies it.                                 *)
LEMMA WriteTransmits ==
    ASSUME TypeInv, OrderInv, DroppedIsGone, WriteOk
    PROVE  [Promise!PromiseNext]_(Promise!promiseVars)
<1> DEFINE m == Get(sender_msg)
<1>1. /\ sent' = Append(sent, m) /\ UNCHANGED call
      /\ sent \in Seq(OurMsg) /\ accepted \in Seq(Calls)
  BY DEF WriteOk, callVars, TypeInv, TypeOK
<1>2. m \in OurMsg /\ sender_msg = Some(m)
  BY OptionCases DEF WriteOk, TypeInv, TypeOK, Carried
<1> HIDE DEF m
<1>3. /\ DOMAIN sent = 1 .. Len(sent) /\ DOMAIN sent' = 1 .. Len(sent) + 1
      /\ Len(sent) \in Nat
      /\ \A i \in 1 .. Len(sent) : sent'[i] = sent[i]
      /\ sent'[Len(sent) + 1] = m
  BY <1>1, <1>2
<1>4. Status' = Status
  BY <1>1 DEF Status
<1>5. CASE m.kind # "Request"
  <2>1. Transmitted' = Transmitted
    BY <1>3, <1>5 DEF Transmitted
  <2> QED
    BY <1>4, <2>1 DEF Promise!promiseVars
<1>6. CASE m.kind = "Request"
  <2> DEFINE r == m.data
  <2>1. r \in Requests /\ m \in CallMsg
    BY <1>2, <1>6 DEF OurMsg, CallMsg
  <2>2. Transmitted' = Transmitted \cup {r}
    BY <1>3, <1>6, <2>1 DEF Transmitted
  <2>3. r \in Held(sender_msg)
    BY <1>2, <2>1, HeldSome
  <2>4. r \in Accepted
    BY <2>3 DEF OrderInv, InLine, Ordered
  <2>5. r \notin Transmitted
    <3> SUFFICES ASSUME r \in Transmitted PROVE FALSE
      OBVIOUS
    <3>1. r \in Written
      BY <2>1 DEF Transmitted, Written, Calls
    <3>2. PICK i \in DOMAIN accepted : accepted[i] = r
      BY <2>4 DEF Accepted
    <3>3. i < i
      BY <2>3, <3>1, <3>2 DEF OrderInv, InLine, Ordered, Precedes
    <3> QED
      BY <1>1, <3>3
  <2>6. call[r] # "SendError" /\ call[r] # "RecvError"
    BY <2>1, <2>3, <2>4 DEF OrderInv, AcceptedOnce, DroppedIsGone
  <2>7. Status[r] \notin {"SendError", "RecvError"}
    BY <2>1, <2>6 DEF Status, StatusOf
  <2>8. Promise!Transmit(r)
    BY <1>4, <2>2, <2>5, <2>7 DEF Promise!Transmit, Promise!NeverSent
  <2> QED
    BY <2>1, <2>8 DEF Promise!PromiseNext
<1> QED
  BY <1>5, <1>6

(* A call that returns tells its caller no more than the wire bears out. *)
LEMMA ReturnFinishes ==
    ASSUME TypeInv, OrderInv, DroppedIsGone, AnsweredIsOwn, NEW r \in Requests,
           Refuse(r) \/ Return(r) \/ Timeout(r)
    PROVE  Promise!PromiseNext
<1>1. /\ call \in [Calls -> CallStates] /\ r \in Calls
      /\ oneshot[r] \in {"open", "Ok", "Canceled", "Dropped"}
  BY DEF TypeInv, TypeOK, Calls
<1>2. Transmitted' = Transmitted
  BY DEF Refuse, Return, Timeout, wireVars, Transmitted
<1>3. r \in Transmitted => r \in Written
  BY <1>1 DEF Transmitted, Written
<1>4. r \in Written => r \in Accepted
  BY DEF OrderInv, InLine, Ordered
<1>5. PICK outcome \in {"SendError", "RecvError", "Ok", "Canceled", "Timeout"} :
         /\ call' = [call EXCEPT ![r] = outcome]
         /\ outcome = "Ok" => r \in Transmitted
         /\ outcome \in {"SendError", "RecvError"} => r \notin Transmitted
  <2>1. CASE Refuse(r)
    BY <1>3, <1>4, <2>1 DEF Refuse, OrderInv, AcceptedOnce
  <2>2. CASE Return(r)
    BY <1>1, <1>3, <2>2 DEF Return, DroppedIsGone, AnsweredIsOwn
  <2>3. CASE Timeout(r)
    BY <2>3 DEF Timeout
  <2> QED
    BY <2>1, <2>2, <2>3
<1>6. Status[r] = "pending"
  BY DEF Refuse, Return, Timeout, Status, StatusOf
<1>7. Status' = [Status EXCEPT ![r] = outcome]
  BY <1>1, <1>5 DEF Status, StatusOf, Calls
<1>8. Promise!Finish(r, outcome)
  BY <1>2, <1>5, <1>6, <1>7 DEF Promise!Finish, Promise!NeverSent
<1> QED
  BY <1>8 DEF Promise!PromiseNext, Promise!Outcomes, Promise!NeverSent

(* Module Connection implements RequestPromise: a request is written at most *)
(* once, its call ends once, with Ok only after the write and with SendError *)
(* or RecvError only when the request never was and never will be written.   *)
THEOREM PromiseIsKept == EnoughIds => (Spec => KeepsPromise)
<1> SUFFICES ASSUME EnoughIds PROVE Spec => KeepsPromise
  OBVIOUS
<1>1. Init => Promise!PromiseInit
  BY DEF Init, Promise!PromiseInit, Status, StatusOf, Transmitted, Calls
<1>2. ASSUME TypeInv, OrderInv, DroppedIsGone, AnswerInv, [Next]_vars
      PROVE  [Promise!PromiseNext]_(Promise!promiseVars)
  <2>1. UNCHANGED <<call, sent>> => UNCHANGED Promise!promiseVars
    BY DEF Promise!promiseVars, Status, Transmitted
  <2>2. CASE ConnStep \/ ReceiverStep \/ UserStep \/ PeerClose \/ UNCHANGED vars
    BY <2>1, <2>2
       DEF ConnStep, HandleEvent, HandleRequest, HandleClose, PassToSender,
           HandleInternalUserMsg, HandleInternalReply, HandleInternalClose,
           Emit, CloseReceiver, CloseSender, CancelRequests, EmitClose,
           ReceiverStep, ReadUserMsg, ReadReply, ReadMessage, SkipFrame,
           ReadEnd, Forward, ReceiverNotify, ReceiverClose, UserStep, UserRecv,
           UserDrop, Complete, PeerClose, vars, callVars, wireVars
  <2>3. CASE SenderStep
    <3>1. CASE WriteOk
      BY <1>2, <3>1, WriteTransmits
    <3> QED
      BY <2>1, <2>3, <3>1 DEF SenderStep, SenderTake, WriteLost, WriteClosed,
                              SenderNotify, SenderClose, callVars, wireVars
  <2>4. ASSUME NEW c \in Calls, Accept(c)
        PROVE  UNCHANGED Promise!promiseVars
    BY <1>2, <2>4 DEF Accept, Promise!promiseVars, Status, StatusOf, Transmitted,
                TypeInv, TypeOK
  <2>5. ASSUME NEW c \in Calls, c \notin Requests, Refuse(c)
        PROVE  UNCHANGED Promise!promiseVars
    BY <1>2, <2>5 DEF Refuse, wireVars, Promise!promiseVars, Status, Transmitted,
                TypeInv, TypeOK
  <2>6. ASSUME NEW r \in Requests, Refuse(r) \/ Return(r) \/ Timeout(r)
        PROVE  Promise!PromiseNext
    BY <1>2, <2>6, ReturnFinishes DEF AnswerInv
  <2> QED
    BY <1>2, <2>2, <2>3, <2>4, <2>5, <2>6 DEF Next, CallerStep
<1>3. TypeInv /\ OrderInv /\ AnswerInv /\ [Next]_vars => AnswerInv'
  BY AnswerNext
<1>4. Init => RequestInv
  BY SomeIsNotNone
     DEF Init, RequestInv, InOnePlace, WaitingIsKnown, Pending, Calls
<1> QED
  BY <1>1, <1>2, <1>3, <1>4, PromiseInvInit, TypeInit, TypeNext, RequestNext,
     OrderInit, OrderNext, DroppedNext, PTL
     DEF Spec, KeepsPromise, Promise!PromiseSpec

-----------------------------------------------------------------------------
(* Counting the occurrences of a message in a sequence. *)

At(q, m) == {i \in DOMAIN q : q[i] = m}

(* A sequence has finitely many positions, so the count is a number. *)
LEMMA CountType ==
    ASSUME NEW S, NEW q \in Seq(S), NEW m
    PROVE  IsFiniteSet(At(q, m)) /\ Count(q, m) \in Nat
<1>1. Len(q) \in Nat /\ DOMAIN q = 1 .. Len(q)
  OBVIOUS
<1>2. IsFiniteSet(1 .. Len(q))
  BY <1>1, FS_Interval
<1>3. At(q, m) \in SUBSET (1 .. Len(q))
  BY <1>1 DEF At
<1>4. IsFiniteSet(At(q, m))
  BY <1>2, <1>3, FS_Subset
<1> QED
  BY <1>4, FS_CardinalityType DEF Count, At

(* The occurrences in two sequences add up. *)
LEMMA CountConcat ==
    ASSUME NEW S, NEW p \in Seq(S), NEW q \in Seq(S), NEW m
    PROVE  Count(p \o q, m) = Count(p, m) + Count(q, m)
<1> DEFINE shifted == {i \in Len(p) + 1 .. Len(p) + Len(q) : q[i - Len(p)] = m}
<1>1. /\ Len(p) \in Nat /\ DOMAIN p = 1 .. Len(p)
      /\ Len(q) \in Nat /\ DOMAIN q = 1 .. Len(q)
  OBVIOUS
<1>2. /\ DOMAIN (p \o q) = 1 .. Len(p) + Len(q)
      /\ \A i \in 1 .. Len(p) + Len(q) :
            (p \o q)[i] = IF i <= Len(p) THEN p[i] ELSE q[i - Len(p)]
  BY <1>1, ConcatProperties
<1>3. At(p \o q, m) = At(p, m) \cup shifted
  BY <1>1, <1>2 DEF At
<1>4. At(p, m) \cap shifted = {}
  BY <1>1 DEF At
<1>5. ExistsBijection(At(q, m), shifted)
  <2> DEFINE f == [i \in At(q, m) |-> i + Len(p)]
  <2>1. f \in [At(q, m) -> shifted]
    BY <1>1 DEF At
  <2>2. \A a, b \in At(q, m) : f[a] = f[b] => a = b
    BY <1>1 DEF At
  <2>3. \A t \in shifted : \E a \in At(q, m) : f[a] = t
    <3> SUFFICES ASSUME NEW t \in shifted
                 PROVE  \E a \in At(q, m) : f[a] = t
      OBVIOUS
    <3>1. t - Len(p) \in At(q, m) /\ (t - Len(p)) + Len(p) = t
      BY <1>1 DEF At
    <3> QED
      BY <3>1
  <2> HIDE DEF f, shifted
  <2>4. f \in Bijection(At(q, m), shifted)
    BY <2>1, <2>2, <2>3, Fun_IsBij
  <2> QED
    BY <2>4 DEF ExistsBijection
<1> HIDE DEF shifted
<1>6. IsFiniteSet(At(p, m)) /\ IsFiniteSet(At(q, m))
  BY CountType
<1>7. IsFiniteSet(shifted) /\ Cardinality(shifted) = Cardinality(At(q, m))
  BY <1>5, <1>6, FS_Bijection
<1>8. Cardinality(At(p \o q, m)) = Cardinality(At(p, m)) + Cardinality(shifted) - 0
  BY <1>3, <1>4, <1>6, <1>7, FS_Union, FS_EmptySet
<1>9. Cardinality(At(p, m)) \in Nat /\ Cardinality(At(q, m)) \in Nat
  BY <1>6, FS_CardinalityType
<1>10. \A s : Count(s, m) = Cardinality(At(s, m))
  BY DEF Count, At
<1> QED
  BY <1>7, <1>8, <1>9, <1>10

(* A channel of capacity one counts for nothing or for its message. *)
LEMMA CountOption ==
    ASSUME NEW m
    PROVE  /\ Count(None, m) = 0
           /\ Count(Some(m), m) = 1
           /\ \A e : e # m => Count(Some(e), m) = 0
<1>1. At(None, m) = {}
  BY DEF At, None
<1>2. At(Some(m), m) = {1}
  BY DEF At, Some
<1>3. \A e : e # m => At(Some(e), m) = {}
  BY DEF At, Some
<1>4. \A s : Count(s, m) = Cardinality(At(s, m))
  BY DEF Count, At
<1>5. Cardinality({}) = 0 /\ Cardinality({1}) = 1
  BY FS_EmptySet, FS_Singleton
<1> QED
  BY <1>1, <1>2, <1>3, <1>4, <1>5

(* Appending a message counts as the message does. *)
LEMMA CountAppend ==
    ASSUME NEW S, NEW q \in Seq(S), NEW e \in S, NEW m
    PROVE  Count(Append(q, e), m) = Count(q, m) + Count(Some(e), m)
<1>1. << e >> \in Seq(S)
  OBVIOUS
<1>2. Append(q, e) = q \o << e >>
  OBVIOUS
<1>3. Count(q \o << e >>, m) = Count(q, m) + Count(<< e >>, m)
  BY <1>1, CountConcat
<1>4. << e >> = Some(e)
  BY DEF Some
<1> QED
  BY <1>2, <1>3, <1>4

(* A channel is a sequence of at most one message. *)
LEMMA OptionIsSeq ==
    ASSUME NEW S, NEW c \in Option(S)
    PROVE  c \in Seq(S)
<1>1. CASE c = None
  BY <1>1 DEF None
<1>2. ASSUME NEW m \in S, c = Some(m) PROVE c \in Seq(S)
  BY <1>2 DEF Some
<1> QED
  BY <1>1, <1>2, OptionCases

-----------------------------------------------------------------------------
(* The Sender's account: what was written, what was lost, what the Sender    *)
(* holds and what its channel holds.                                         *)

Total(m) == Count(sent, m) + Count(lost, m) + Count(sender_msg, m)
              + Count(sender_rx, m)

ReplyTo(k) == [kind |-> "Reply", n |-> k]

RepliesCounted ==
    \A k \in TheirIds :
        /\ Total(ReplyTo(k)) <= replies[k]
        /\ Total(ReplyTo(k)) # replies[k] => sender \in {"closing", "done"}

(* The channel of a Sender that has taken Close holds no request. *)
NoRequestLeft == sender \in {"closing", "done"} => RequestIn(sender_rx) = {}

(* A request the Connection has not taken from the handle has no message. *)
UntakenIsNowhere ==
    \A m \in RequestMsg :
        call[m.data] = "sending" \/ rx = Some(m.data)
            => Total(m) = 0 /\ conn_msg # Some(m)

(* An entry of reply_map stands for one message: in the hands of the         *)
(* Connection, or with the Sender.                                           *)
EntryIsOneMessage ==
    \A i \in Ids, r \in Requests :
        reply_map[i] = Some(r) =>
            LET m == [kind |-> "Request", id |-> i, data |-> r]
            IN  Total(m) = IF conn_msg = Some(m) THEN 0 ELSE 1

AccountInv == RepliesCounted /\ NoRequestLeft /\ UntakenIsNowhere /\ EntryIsOneMessage

(* What is counted is well typed. *)
LEMMA TotalType ==
    ASSUME TypeInv, NEW m
    PROVE  /\ Count(sent, m) \in Nat /\ Count(lost, m) \in Nat
           /\ Count(sender_msg, m) \in Nat /\ Count(sender_rx, m) \in Nat
           /\ Total(m) \in Nat
<1>1. /\ sent \in Seq(OurMsg) /\ lost \in Seq(OurMsg)
      /\ sender_msg \in Option(OurMsg)
      /\ sender_rx \in Option(OurMsg \cup {CloseMsg})
  BY DEF TypeInv, TypeOK
<1>2. sender_msg \in Seq(OurMsg) /\ sender_rx \in Seq(OurMsg \cup {CloseMsg})
  BY <1>1, OptionIsSeq
<1>3. /\ Count(sent, m) \in Nat /\ Count(lost, m) \in Nat
      /\ Count(sender_msg, m) \in Nat /\ Count(sender_rx, m) \in Nat
  BY <1>1, <1>2, CountType
<1> QED
  BY <1>3 DEF Total

(* The total is the count that the properties of module Connection use. *)
LEMMA TotalIsCount ==
    ASSUME TypeInv, NEW m
    PROVE  Count(sent \o lost \o Given, m) = Total(m)
<1> DEFINE S == OurMsg \cup {CloseMsg}
<1>1. /\ sent \in Seq(OurMsg) /\ lost \in Seq(OurMsg)
      /\ sender_msg \in Option(OurMsg) /\ sender_rx \in Option(S)
  BY DEF TypeInv, TypeOK
<1>2. sender_msg \in Seq(OurMsg) /\ sender_rx \in Seq(S)
  BY <1>1, OptionIsSeq
<1>3. OurMsg \subseteq S
  OBVIOUS
<1> HIDE DEF S
<1>4. sent \in Seq(S) /\ lost \in Seq(S) /\ sender_msg \in Seq(S)
  BY <1>1, <1>2, <1>3, SeqMonotonic
<1>5. sent \o lost \in Seq(S) /\ sender_msg \o sender_rx \in Seq(S)
  BY <1>2, <1>4, ConcatProperties
<1>6. Count(sent \o lost, m) = Count(sent, m) + Count(lost, m)
  BY <1>4, CountConcat
<1>7. Count(sender_msg \o sender_rx, m) = Count(sender_msg, m) + Count(sender_rx, m)
  BY <1>2, <1>4, CountConcat
<1>8. Count((sent \o lost) \o (sender_msg \o sender_rx), m)
        = Count(sent \o lost, m) + Count(sender_msg \o sender_rx, m)
  <2> DEFINE p == sent \o lost
             q == sender_msg \o sender_rx
  <2>1. p \in Seq(S) /\ q \in Seq(S)
    BY <1>5
  <2> HIDE DEF p, q
  <2>2. Count(p \o q, m) = Count(p, m) + Count(q, m)
    BY <2>1, CountConcat
  <2> QED
    BY <2>2 DEF p, q
<1> QED
  BY <1>6, <1>7, <1>8, TotalType DEF Total, Given

(* A write moves a message from one part of the account to another, and so   *)
(* does the Sender when it takes one; only PassToSender and complete put     *)
(* messages in, and only the end of the Sender takes some out.               *)
LEMMA TotalNext ==
    ASSUME TypeInv, HandsAreFree, [Next]_vars, NEW m \in OurMsg
    PROVE  /\ PassToSender => Total(m)' = Total(m) + Count(conn_msg, m)
           /\ SenderClose => Total(m)' = Total(m) - Count(sender_rx, m)
           /\ \A k \in handles :
                Complete(k) => Total(m)' = Total(m) + Count(Some(ReplyTo(k)), m)
           /\ \/ PassToSender \/ SenderClose
              \/ \E k \in handles : Complete(k)
              \/ Total(m)' = Total(m)
<1>1. /\ sent \in Seq(OurMsg) /\ lost \in Seq(OurMsg)
      /\ sender_msg \in Option(OurMsg)
  BY DEF TypeInv, TypeOK
<1>2. Total(m)' = Count(sent', m) + Count(lost', m) + Count(sender_msg', m)
                    + Count(sender_rx', m)
  BY DEF Total, Count
<1>3. /\ Count(sent, m) \in Nat /\ Count(lost, m) \in Nat
      /\ Count(sender_msg, m) \in Nat /\ Count(sender_rx, m) \in Nat
      /\ Total(m) = Count(sent, m) + Count(lost, m) + Count(sender_msg, m)
                        + Count(sender_rx, m)
  BY TotalType DEF Total
<1>4. Count(None, m) = 0 /\ Count(Some(CloseMsg), m) = 0
  <2>1. CloseMsg # m
    BY DEF CloseMsg, OurMsg
  <2> QED
    BY <2>1, CountOption
<1>5. UNCHANGED <<sent, lost, sender_msg, sender_rx>> => Total(m)' = Total(m)
  BY <1>2, <1>3
<1>6. ASSUME PassToSender PROVE Total(m)' = Total(m) + Count(conn_msg, m)
  <2>1. /\ sender_rx = None /\ sender_rx' = conn_msg
        /\ UNCHANGED <<sent, lost, sender_msg>>
    BY <1>6 DEF PassToSender, wireVars
  <2>2. Count(conn_msg, m) \in Nat
    <3>1. conn_msg \in Option(OurMsg \cup UserMsg)
      BY DEF TypeInv, TypeOK
    <3> QED
      BY <3>1, OptionIsSeq, CountType
  <2> QED
    BY <1>2, <1>3, <1>4, <2>1, <2>2
<1>7. ASSUME SenderClose PROVE Total(m)' = Total(m) - Count(sender_rx, m)
  <2>1. sender_rx' = None /\ UNCHANGED <<sent, lost, sender_msg>>
    BY <1>7 DEF SenderClose, wireVars
  <2> QED
    BY <1>2, <1>3, <1>4, <2>1
<1>8. ASSUME NEW k \in handles, Complete(k)
      PROVE  Total(m)' = Total(m) + Count(Some(ReplyTo(k)), m)
  <2>1. /\ sender_rx = None /\ sender_rx' = Some(ReplyTo(k))
        /\ UNCHANGED <<sent, lost, sender_msg>>
    BY <1>8 DEF Complete, ReplyTo, wireVars
  <2>2. Count(Some(ReplyTo(k)), m) \in Nat
    BY CountOption
  <2> QED
    BY <1>2, <1>3, <1>4, <2>1, <2>2
<1>9. ASSUME CloseSender PROVE Total(m)' = Total(m)
  <2>1. /\ sender_rx = None /\ sender_rx' = Some(CloseMsg)
        /\ UNCHANGED <<sent, lost, sender_msg>>
    BY <1>9 DEF CloseSender, wireVars
  <2> QED
    BY <1>2, <1>3, <1>4, <2>1
<1>10. ASSUME SenderTake PROVE Total(m)' = Total(m)
  <2>1. UNCHANGED <<sent, lost>> /\ sender_msg = None /\ sender_rx' = None
    BY <1>10 DEF SenderTake, HandsAreFree, wireVars
  <2>2. \/ sender_msg' = sender_rx
        \/ sender_rx = Some(CloseMsg) /\ sender_msg' = None
    BY <1>10, <2>1 DEF SenderTake
  <2> QED
    BY <1>2, <1>3, <1>4, <2>1, <2>2
<1>11. ASSUME WriteOk \/ WriteLost \/ WriteClosed PROVE Total(m)' = Total(m)
  <2> DEFINE e == Get(sender_msg)
  <2>1. e \in OurMsg /\ sender_msg = Some(e)
    BY <1>1, <1>11, OptionCases DEF WriteOk, WriteLost, WriteClosed, TypeInv, Carried
  <2>2. /\ UNCHANGED sender_rx /\ sender_msg' = None
        /\ \/ sent' = Append(sent, e) /\ lost' = lost
           \/ lost' = Append(lost, e) /\ sent' = sent
    BY <1>11 DEF WriteOk, WriteLost, WriteClosed
  <2> HIDE DEF e
  <2>3. /\ Count(Append(sent, e), m) = Count(sent, m) + Count(Some(e), m)
        /\ Count(Append(lost, e), m) = Count(lost, m) + Count(Some(e), m)
    BY <1>1, <2>1, CountAppend
  <2>4. Count(sender_msg, m) = Count(Some(e), m)
    BY <2>1
  <2>5. \/ Count(sent', m) = Count(sent, m) + Count(Some(e), m) /\ lost' = lost
        \/ Count(lost', m) = Count(lost, m) + Count(Some(e), m) /\ sent' = sent
    BY <2>2, <2>3
  <2> QED
    BY <1>2, <1>3, <1>4, <2>2, <2>4, <2>5
<1>12. ASSUME ConnStep /\ ~PassToSender /\ ~CloseSender
       PROVE  Total(m)' = Total(m)
  BY <1>5, <1>12
     DEF ConnStep, HandleEvent, HandleRequest, HandleClose,
         HandleInternalUserMsg, HandleInternalReply, HandleInternalClose, Emit,
         CloseReceiver, CancelRequests, EmitClose, senderVars, wireVars
<1>13. ASSUME ReceiverStep PROVE Total(m)' = Total(m)
  BY <1>5, <1>13 DEF ReceiverStep, ReadUserMsg, ReadReply, ReadMessage,
                     SkipFrame, ReadEnd, Forward, ReceiverNotify,
                     ReceiverClose, senderVars, wireVars
<1>14. ASSUME SenderNotify \/ UserRecv \/ UserDrop \/ PeerClose \/ UNCHANGED vars
       PROVE  Total(m)' = Total(m)
  BY <1>5, <1>14 DEF SenderNotify, UserRecv, UserDrop, PeerClose, vars,
                     senderVars, wireVars
<1>15. ASSUME NEW c, CallerStep(c) \/ Timeout(c) PROVE Total(m)' = Total(m)
  BY <1>5, <1>15 DEF CallerStep, Accept, Refuse, Return, Timeout, senderVars,
                     wireVars
<1>16. \/ PassToSender \/ SenderClose \/ (\E k \in handles : Complete(k))
       \/ Total(m)' = Total(m)
  BY <1>9, <1>10, <1>11, <1>12, <1>13, <1>14, <1>15
     DEF Next, SenderStep, UserStep
<1> QED
  BY <1>6, <1>7, <1>8, <1>16

(* How much a message counts for in a channel that may hold it. *)
LEMMA CountIn ==
    ASSUME NEW S, NEW c \in Option(S), NEW m
    PROVE  Count(c, m) = IF c = Some(m) THEN 1 ELSE 0
<1>1. CASE c = None
  BY <1>1, CountOption, SomeIsNotNone
<1>2. ASSUME NEW e \in S, c = Some(e) PROVE Count(c, m) = IF c = Some(m) THEN 1 ELSE 0
  BY <1>2, CountOption, SomeInjective
<1> QED
  BY <1>1, <1>2, OptionCases

(* An Ok of complete adds one reply to the account, and no step but the end  *)
(* of the Sender takes it out.                                               *)
LEMMA RepliesNext ==
    ASSUME TypeInv, HandsAreFree, RepliesCounted, [Next]_vars
    PROVE  RepliesCounted'
<1> SUFFICES ASSUME NEW k \in TheirIds
             PROVE  /\ Total(ReplyTo(k))' <= replies'[k]
                    /\ Total(ReplyTo(k))' # replies'[k] => sender' \in {"closing", "done"}
  BY DEF RepliesCounted, ReplyTo
<1> DEFINE m == ReplyTo(k)
<1>1. m \in OurMsg /\ m.kind = "Reply"
  BY DEF ReplyTo, OurMsg
<1>2. /\ replies \in [TheirIds -> 0 .. MaxReplies] /\ handles \subseteq TheirIds
      /\ conn_msg \in Option(OurMsg \cup UserMsg) /\ MaxReplies \in Nat
  BY ConstantsAssumption DEF TypeInv, TypeOK
<1>3. /\ Total(m) \in Nat /\ Count(sender_rx, m) \in Nat /\ replies[k] \in Nat
  BY <1>2, TotalType
<1>4. /\ Total(m) <= replies[k]
      /\ Total(m) # replies[k] => sender \in {"closing", "done"}
  BY DEF RepliesCounted
<1>5. CASE PassToSender
  <2>1. conn_msg # Some(m)
    BY <1>1, <1>5, GetSome DEF PassToSender, HandsAreFree, CallMsg
  <2>2. Count(conn_msg, m) = 0
    BY <1>2, <2>1, CountIn
  <2>3. Total(m)' = Total(m) + Count(conn_msg, m)
    BY <1>1, <1>5, TotalNext
  <2>4. replies' = replies /\ sender' = sender
    BY <1>5 DEF PassToSender, userVars
  <2> HIDE DEF m
  <2> QED
    BY <1>3, <1>4, <2>2, <2>3, <2>4 DEF m
<1>6. CASE SenderClose
  <2>1. Total(m)' = Total(m) - Count(sender_rx, m)
    BY <1>1, <1>6, TotalNext
  <2>2. replies' = replies /\ sender' = "done"
    BY <1>6 DEF SenderClose, userVars
  <2> HIDE DEF m
  <2> QED
    BY <1>3, <1>4, <2>1, <2>2 DEF m
<1>7. ASSUME NEW j \in handles, Complete(j)
      PROVE  /\ Total(m)' <= replies'[k]
             /\ Total(m)' # replies'[k] => sender' \in {"closing", "done"}
  <2>1. Total(m)' = Total(m) + Count(Some(ReplyTo(j)), m)
    BY <1>1, <1>7, TotalNext
  <2>2. replies' = [replies EXCEPT ![j] = @ + 1] /\ sender' = sender
    BY <1>7 DEF Complete
  <2>3. CASE j = k
    <3>1. Count(Some(ReplyTo(j)), m) = 1
      BY <2>3, CountOption
    <3>2. replies'[k] = replies[k] + 1
      BY <1>2, <2>2, <2>3
    <3> HIDE DEF m
    <3> QED
      BY <1>3, <1>4, <2>1, <2>2, <3>1, <3>2
  <2>4. CASE j # k
    <3>1. ReplyTo(j) # m
      BY <2>4 DEF ReplyTo
    <3>2. Count(Some(ReplyTo(j)), m) = 0
      BY <3>1, CountOption
    <3>3. replies'[k] = replies[k]
      BY <1>2, <2>2, <2>4
    <3> HIDE DEF m
    <3> QED
      BY <1>3, <1>4, <2>1, <2>2, <3>2, <3>3
  <2> QED
    BY <2>3, <2>4
<1>8. CASE Total(m)' = Total(m) /\ ~SenderClose /\ ~\E j \in handles : Complete(j)
  <2>1. replies' = replies
    BY <1>8
       DEF Next, ConnStep, HandleEvent, HandleRequest, HandleClose,
           PassToSender, HandleInternalUserMsg, HandleInternalReply,
           HandleInternalClose, Emit, CloseReceiver, CloseSender,
           CancelRequests, EmitClose, ReceiverStep, ReadUserMsg, ReadReply,
           ReadMessage, SkipFrame, ReadEnd, Forward, ReceiverNotify,
           ReceiverClose, SenderStep, SenderTake, WriteOk, WriteLost,
           WriteClosed, SenderNotify, UserStep, UserRecv, UserDrop, PeerClose,
           CallerStep, Accept, Refuse, Return, Timeout, vars, userVars
  <2>2. sender \in {"closing", "done"} => sender' = sender
    BY <1>8
       DEF Next, ConnStep, HandleEvent, HandleRequest, HandleClose,
           PassToSender, HandleInternalUserMsg, HandleInternalReply,
           HandleInternalClose, Emit, CloseReceiver, CloseSender,
           CancelRequests, EmitClose, ReceiverStep, ReadUserMsg, ReadReply,
           ReadMessage, SkipFrame, ReadEnd, Forward, ReceiverNotify,
           ReceiverClose, SenderStep, SenderTake, WriteOk, WriteLost,
           WriteClosed, SenderNotify, UserStep, UserRecv, UserDrop, PeerClose,
           CallerStep, Accept, Refuse, Return, Timeout, vars, senderVars
  <2> HIDE DEF m
  <2> QED
    BY <1>4, <1>8, <2>1, <2>2 DEF m
<1>9. \/ PassToSender \/ SenderClose \/ (\E j \in handles : Complete(j))
      \/ Total(m)' = Total(m)
  BY <1>1, TotalNext
<1> QED
  BY <1>5, <1>6, <1>7, <1>8, <1>9

(* The Connection hands the Sender no request after Close. *)
LEMMA NoRequestLeftNext ==
    ASSUME TypeInv, SenderOutlivesLoop, NoRequestLeft, [Next]_vars
    PROVE  NoRequestLeft'
<1>1. RequestIn(sender_rx)' = RequestIn(sender_rx') /\ RequestIn(None) = {}
  BY SomeIsNotNone DEF RequestIn
<1>2. CASE UNCHANGED <<sender, sender_rx>>
  BY <1>1, <1>2 DEF NoRequestLeft
<1>3. CASE PassToSender
  BY <1>3 DEF PassToSender, NoRequestLeft, SenderOutlivesLoop
<1>4. CASE CloseSender \/ \E k \in handles : Complete(k)
  <2>1. \A n \in RequestMsg : sender_rx' # Some(n)
    <3>1. \A n \in RequestMsg : n # CloseMsg
      BY DEF RequestMsg, OurMsg, CloseMsg
    <3>2. \A n \in RequestMsg, k \in handles : n # [kind |-> "Reply", n |-> k]
      BY DEF RequestMsg
    <3> QED
      BY <1>4, <3>1, <3>2, SomeInjective DEF CloseSender, Complete
  <2> QED
    BY <1>1, <2>1 DEF RequestIn, NoRequestLeft
<1>5. CASE SenderTake \/ SenderClose
  BY <1>1, <1>5 DEF SenderTake, SenderClose, NoRequestLeft
<1>6. CASE WriteOk \/ WriteLost \/ WriteClosed \/ SenderNotify
  BY <1>6 DEF WriteOk, WriteLost, WriteClosed, SenderNotify, NoRequestLeft
<1>7. CASE ConnStep /\ ~PassToSender /\ ~CloseSender
  BY <1>2, <1>7
     DEF ConnStep, HandleEvent, HandleRequest, HandleClose,
         HandleInternalUserMsg, HandleInternalReply, HandleInternalClose, Emit,
         CloseReceiver, CancelRequests, EmitClose, senderVars
<1>8. CASE ReceiverStep \/ UserRecv \/ UserDrop \/ PeerClose \/ UNCHANGED vars
  BY <1>2, <1>8
     DEF ReceiverStep, ReadUserMsg, ReadReply, ReadMessage, SkipFrame, ReadEnd,
         Forward, ReceiverNotify, ReceiverClose, UserRecv, UserDrop, PeerClose,
         vars, senderVars
<1>9. ASSUME NEW c, CallerStep(c) \/ Timeout(c) PROVE NoRequestLeft'
  BY <1>2, <1>9 DEF CallerStep, Accept, Refuse, Return, Timeout, senderVars
<1> QED
  BY <1>3, <1>4, <1>5, <1>6, <1>7, <1>8, <1>9 DEF Next, SenderStep, UserStep

(* Only send_request puts a request into the hands of the Connection, and    *)
(* only PassToSender takes it out.                                           *)
LEMMA RequestInHand ==
    ASSUME TypeInv, HandsAreFree, [Next]_vars, NEW m \in RequestMsg
    PROVE  /\ conn_msg' = Some(m) /\ ~HandleRequest => conn_msg = Some(m)
           /\ conn_msg = Some(m) /\ ~PassToSender => conn_msg' = Some(m)
<1> DEFINE Goal == /\ conn_msg' = Some(m) /\ ~HandleRequest => conn_msg = Some(m)
                   /\ conn_msg = Some(m) /\ ~PassToSender => conn_msg' = Some(m)
<1>1. m \notin UserMsg /\ m.kind = "Request"
  BY UserMsgIsNoCall DEF RequestMsg, CallMsg
<1>2. conn_msg = Some(m) => conn = "send"
  BY <1>1, SomeIsNotNone, GetSome DEF HandsAreFree, TypeInv, Carried
<1>3. CASE UNCHANGED conn_msg
  BY <1>3
<1>4. CASE HandleRequest
  BY <1>2, <1>4 DEF HandleRequest
<1>5. CASE PassToSender
  BY <1>5, SomeIsNotNone DEF PassToSender
<1>6. CASE HandleEvent
  <2>1. conn_msg' # Some(m)
    BY <1>1, <1>6, SomeInjective DEF HandleEvent
  <2> QED
    BY <1>2, <1>6, <2>1 DEF HandleEvent
<1>7. CASE HandleInternalUserMsg
  <2>1. conn_msg' # Some(m)
    BY <1>1, <1>7, SomeInjective DEF HandleInternalUserMsg
  <2> QED
    BY <1>2, <1>7, <2>1 DEF HandleInternalUserMsg
<1>8. CASE Emit
  BY <1>2, <1>8, SomeIsNotNone DEF Emit
<1>9. CASE HandleClose \/ HandleInternalReply \/ HandleInternalClose
             \/ CloseReceiver \/ CloseSender \/ CancelRequests \/ EmitClose
  BY <1>3, <1>9 DEF HandleClose, HandleInternalReply, HandleInternalClose,
                    CloseReceiver, CloseSender, CancelRequests, EmitClose
<1>10. CASE ReceiverStep \/ SenderStep \/ UserStep \/ PeerClose \/ UNCHANGED vars
  BY <1>3, <1>10
     DEF ReceiverStep, ReadUserMsg, ReadReply, ReadMessage, SkipFrame, ReadEnd,
         Forward, ReceiverNotify, ReceiverClose, SenderStep, SenderTake,
         WriteOk, WriteLost, WriteClosed, SenderNotify, SenderClose, UserStep,
         UserRecv, UserDrop, Complete, PeerClose, vars, connVars
<1>11. ASSUME NEW c, CallerStep(c) \/ Timeout(c) PROVE Goal
  BY <1>3, <1>11 DEF CallerStep, Accept, Refuse, Return, Timeout, connVars
<1> QED
  BY <1>4, <1>5, <1>6, <1>7, <1>8, <1>9, <1>10, <1>11 DEF Next, ConnStep

(* How a step changes the account of a request. *)
LEMMA RequestTotal ==
    ASSUME TypeInv, HandsAreFree, NoRequestLeft, [Next]_vars, NEW m \in RequestMsg
    PROVE  /\ PassToSender => Total(m)' = Total(m) + Count(conn_msg, m)
           /\ ~PassToSender => Total(m)' = Total(m)
<1>1. m \in OurMsg /\ m.kind = "Request"
  BY DEF RequestMsg
<1>2. sender_rx \in Option(OurMsg \cup {CloseMsg}) /\ Total(m) \in Nat
  BY TotalType DEF TypeInv, TypeOK
<1>3. CASE SenderClose
  <2>1. sender_rx # Some(m)
    BY <1>3 DEF SenderClose, NoRequestLeft, RequestIn
  <2>2. Count(sender_rx, m) = 0
    BY <1>2, <2>1, CountIn
  <2>3. Total(m)' = Total(m)
    BY <1>1, <1>2, <1>3, <2>2, TotalNext
  <2>4. ~PassToSender
    BY <1>3 DEF SenderClose, PassToSender
  <2> QED
    BY <2>3, <2>4
<1>4. ASSUME NEW k \in handles, Complete(k) PROVE ~PassToSender /\ Total(m)' = Total(m)
  <2>1. ReplyTo(k) # m
    BY <1>1 DEF ReplyTo
  <2>2. Count(Some(ReplyTo(k)), m) = 0
    BY <2>1, CountOption
  <2>3. Total(m)' = Total(m)
    BY <1>1, <1>2, <1>4, <2>2, TotalNext
  <2>4. ~PassToSender
    BY <1>4 DEF Complete, PassToSender, connVars
  <2> QED
    BY <2>3, <2>4
<1> QED
  BY <1>1, <1>3, <1>4, TotalNext

(* A request gets its message when the Connection takes it from the handle. *)
LEMMA UntakenNext ==
    ASSUME TypeInv, OrderInv, NoRequestLeft, UntakenIsNowhere, [Next]_vars
    PROVE  UntakenIsNowhere'
<1> SUFFICES ASSUME NEW m \in RequestMsg,
                    call'[m.data] = "sending" \/ rx' = Some(m.data)
             PROVE  Total(m)' = 0 /\ conn_msg' # Some(m)
  BY DEF UntakenIsNowhere
<1>1. /\ call \in [Calls -> CallStates] /\ Requests \subseteq Calls
      /\ m.data \in Requests /\ m.data \in Calls
      /\ conn_msg \in Option(OurMsg \cup UserMsg)
  BY DEF TypeInv, TypeOK, Calls, RequestMsg, OurMsg
<1>2. HandsAreFree
  BY DEF OrderInv
<1>3. /\ call[m.data] = "sending" \/ rx = Some(m.data)
      /\ HandleRequest => call'[m.data] = "sending" /\ call[m.data] = "sending"
  <2>1. CASE ConnStep
    <3>1. UNCHANGED call /\ (rx' = None \/ rx' = rx) /\ (HandleRequest => rx' = None)
      BY <2>1
         DEF ConnStep, HandleEvent, HandleRequest, HandleClose, PassToSender,
             HandleInternalUserMsg, HandleInternalReply, HandleInternalClose,
             Emit, CloseReceiver, CloseSender, CancelRequests, EmitClose,
             callVars
    <3> QED
      BY <3>1, SomeIsNotNone
  <2>2. HandleRequest => ConnStep
    BY DEF ConnStep
  <2>3. CASE ReceiverStep \/ SenderStep \/ UserStep \/ PeerClose \/ UNCHANGED vars
    <3>1. UNCHANGED <<call, rx>>
      BY <2>3
         DEF ReceiverStep, ReadUserMsg, ReadReply, ReadMessage, SkipFrame,
             ReadEnd, Forward, ReceiverNotify, ReceiverClose, SenderStep,
             SenderTake, WriteOk, WriteLost, WriteClosed, SenderNotify,
             SenderClose, UserStep, UserRecv, UserDrop, Complete, PeerClose,
             vars, callVars
    <3> QED
      BY <2>1, <2>2, <3>1
  <2>4. ASSUME NEW c \in Calls, Accept(c)
        PROVE  call[m.data] = "sending" \/ rx = Some(m.data)
    BY <1>1, <2>4, SomeInjective DEF Accept
  <2>5. ASSUME NEW c \in Calls,
               Refuse(c) \/ (c \in Requests /\ Return(c)) \/ Timeout(c)
        PROVE  call[m.data] = "sending" \/ rx = Some(m.data)
    <3>1. rx' = rx /\ \E v \in CallStates \ {"sending"} : call' = [call EXCEPT ![c] = v]
      <4>1. CASE Refuse(c)
        BY <4>1 DEF Refuse, CallStates
      <4>2. CASE c \in Requests /\ Return(c)
        BY <4>2 DEF Return, CallStates, TypeInv, TypeOK
      <4>3. CASE Timeout(c)
        BY <4>3 DEF Timeout, CallStates
      <4> QED
        BY <2>5, <4>1, <4>2, <4>3
    <3> QED
      BY <1>1, <3>1
  <2> QED
    BY <1>1, <2>1, <2>2, <2>3, <2>4, <2>5 DEF Next, CallerStep
<1>4. Total(m) = 0 /\ conn_msg # Some(m)
  BY <1>3 DEF UntakenIsNowhere
<1>5. Total(m)' = 0
  <2>1. Count(conn_msg, m) = 0
    BY <1>1, <1>4, CountIn
  <2> QED
    BY <1>2, <1>4, <2>1, RequestTotal
<1>6. conn_msg' # Some(m)
  <2>1. CASE ~HandleRequest
    BY <1>2, <1>4, <2>1, RequestInHand
  <2>2. CASE HandleRequest
    <3>1. PICK r \in Requests : rx = Some(r) /\ SendRequest(r)
      BY <2>2 DEF HandleRequest
    <3>2. r \in Accepted
      BY <1>1, <3>1 DEF Queued, OrderInv, InLine, Ordered
    <3>3. call[r] # "sending"
      BY <3>2 DEF OrderInv, AcceptedOnce
    <3>4. r # m.data
      BY <1>3, <2>2, <3>3
    <3>5. \/ conn_msg' = conn_msg
          \/ conn_msg' = Some([kind |-> "Request", id |-> next_id, data |-> r])
      BY <3>1 DEF SendRequest
    <3> QED
      BY <1>4, <3>4, <3>5, SomeInjective
  <2> QED
    BY <2>1, <2>2
<1> QED
  BY <1>5, <1>6

(* An entry and its message come into being together, in send_request, and   *)
(* the message is handed on once.                                            *)
LEMMA EntryNext ==
    ASSUME TypeInv, OrderInv, NoRequestLeft, UntakenIsNowhere, EntryIsOneMessage,
           [Next]_vars
    PROVE  EntryIsOneMessage'
<1> SUFFICES ASSUME NEW i \in Ids, NEW r \in Requests, reply_map'[i] = Some(r),
                    NEW m, m = [kind |-> "Request", id |-> i, data |-> r]
             PROVE  Total(m)' = IF conn_msg' = Some(m) THEN 0 ELSE 1
  BY DEF EntryIsOneMessage
<1>1. /\ reply_map \in [Ids -> Option(Requests)] /\ next_id \in Ids
      /\ conn_msg \in Option(OurMsg \cup UserMsg)
      /\ m \in RequestMsg /\ m.data = r /\ m.id = i
  BY DEF TypeInv, TypeOK, RequestMsg, OurMsg
<1>2. HandsAreFree
  BY DEF OrderInv
<1>3. reply_map[i] = Some(r) => Total(m) = IF conn_msg = Some(m) THEN 0 ELSE 1
  BY DEF EntryIsOneMessage
<1>4. Count(conn_msg, m) = IF conn_msg = Some(m) THEN 1 ELSE 0
  BY <1>1, CountIn
<1>5. CASE HandleRequest
  <2>1. PICK q \in Requests : rx = Some(q) /\ SendRequest(q)
    BY <1>5 DEF HandleRequest
  <2>2. conn = "select" /\ conn_msg = None /\ ~PassToSender
    BY <1>2, <1>5 DEF HandleRequest, HandsAreFree, PassToSender
  <2>3. Total(m)' = Total(m)
    BY <1>1, <1>2, <2>2, RequestTotal
  <2>4. CASE reply_map[next_id] # None
    <3>1. reply_map' = reply_map /\ conn_msg' = conn_msg
      BY <2>1, <2>4 DEF SendRequest
    <3> QED
      BY <1>3, <2>3, <3>1
  <2>5. CASE reply_map[next_id] = None
    <3>1. /\ reply_map' = [reply_map EXCEPT ![next_id] = Some(q)]
          /\ conn_msg' = Some([kind |-> "Request", id |-> next_id, data |-> q])
      BY <2>1, <2>5 DEF SendRequest
    <3>2. CASE i = next_id
      <4>1. q = r
        BY <1>1, <3>1, <3>2, SomeInjective
      <4>2. conn_msg' = Some(m)
        BY <3>1, <3>2, <4>1
      <4>3. Total(m) = 0
        BY <1>1, <2>1, <4>1 DEF UntakenIsNowhere
      <4> QED
        BY <2>3, <4>2, <4>3
    <3>3. CASE i # next_id
      <4>1. reply_map[i] = Some(r)
        BY <1>1, <3>1, <3>3
      <4>2. conn_msg' # Some(m) /\ conn_msg # Some(m)
        BY <1>1, <2>2, <3>1, <3>3, SomeInjective, SomeIsNotNone
      <4> QED
        BY <1>3, <2>3, <4>1, <4>2
    <3> QED
      BY <3>2, <3>3
  <2> QED
    BY <2>4, <2>5
<1>6. CASE ~HandleRequest
  <2>1. reply_map[i] = Some(r)
    BY <1>6, NoNewId, SomeIsNotNone
  <2>2. CASE PassToSender
    <3>1. conn_msg' # Some(m)
      BY <2>2, SomeIsNotNone DEF PassToSender
    <3>2. Total(m)' = Total(m) + Count(conn_msg, m)
      BY <1>1, <1>2, <2>2, RequestTotal
    <3> QED
      BY <1>3, <1>4, <2>1, <3>1, <3>2
  <2>3. CASE ~PassToSender
    <3>1. conn_msg' = Some(m) <=> conn_msg = Some(m)
      BY <1>1, <1>2, <1>6, <2>3, RequestInHand
    <3>2. Total(m)' = Total(m)
      BY <1>1, <1>2, <2>3, RequestTotal
    <3> QED
      BY <1>3, <2>1, <3>1, <3>2
  <2> QED
    BY <2>2, <2>3
<1> QED
  BY <1>5, <1>6

-----------------------------------------------------------------------------
(* The two accounts hold when Connection::new returns. *)
LEMMA AccountInit == Init => AccountInv
<1> SUFFICES ASSUME Init PROVE AccountInv
  OBVIOUS
<1>1. \A m : Total(m) = 0
  BY CountOption DEF Init, Total, None
<1>2. RepliesCounted
  BY <1>1 DEF Init, RepliesCounted
<1>3. NoRequestLeft
  BY DEF Init, NoRequestLeft
<1>4. UntakenIsNowhere
  BY <1>1, SomeIsNotNone DEF Init, UntakenIsNowhere
<1>5. EntryIsOneMessage
  BY SomeIsNotNone DEF Init, EntryIsOneMessage
<1> QED
  BY <1>2, <1>3, <1>4, <1>5 DEF AccountInv

(* Every step keeps the account. *)
LEMMA AccountNext ==
    TypeInv /\ SenderOutlivesLoop /\ OrderInv /\ AccountInv /\ [Next]_vars
        => AccountInv'
  BY RepliesNext, NoRequestLeftNext, UntakenNext, EntryNext
     DEF AccountInv, OrderInv

(* What complete acknowledged with Ok is one reply frame each: written, lost *)
(* by a failed write, or still with the Sender, and it can vanish only after *)
(* the Sender has taken a Close.                                             *)
THEOREM RepliesAreKept == Spec => []RepliesAreAccountedFor
<1>1. TypeInv /\ AccountInv => RepliesAreAccountedFor
  BY TotalIsCount DEF AccountInv, RepliesCounted, RepliesAreAccountedFor, ReplyTo
<1>2. Init => SenderOutlivesLoop
  BY SomeIsNotNone DEF Init, SenderOutlivesLoop
<1> QED
  BY <1>1, <1>2, TypeInit, TypeNext, SenderNext, OrderInit, OrderNext,
     AccountInit, AccountNext, PTL DEF Spec

(* A request stays in reply_map only if its one message is in the hands of   *)
(* the Connection or in the account of the Sender, also when ids come round. *)
THEOREM EntriesAreKept == Spec => []PendingIsAccountedFor
<1>1. TypeInv /\ AccountInv => PendingIsAccountedFor
  BY TotalIsCount DEF AccountInv, EntryIsOneMessage, PendingIsAccountedFor
<1>2. Init => SenderOutlivesLoop
  BY SomeIsNotNone DEF Init, SenderOutlivesLoop
<1> QED
  BY <1>1, <1>2, TypeInit, TypeNext, SenderNext, OrderInit, OrderNext,
     AccountInit, AccountNext, PTL DEF Spec

-----------------------------------------------------------------------------
(* No gap.  As long as no write fails, what is on the wire or on its way to  *)
(* it is all the handle has accepted, or the beginning of it once the loop   *)
(* has ended.                                                                *)

(* The calls that are on the wire or that a task or channel takes there. *)
Underway == Written \cup Held(sender_msg) \cup Held(sender_rx)
                    \cup Held(conn_msg)

(* With a call, U has every call that was accepted before it. *)
Whole(U) ==
    \A i, j \in DOMAIN accepted : i < j /\ accepted[j] \in U => accepted[i] \in U

NoCallLeft == sender \in {"closing", "done"} => Held(sender_rx) = {}

WithoutGap ==
    lost = << >> => /\ Running => Accepted \subseteq Underway \cup Queued
                    /\ Whole(Underway)

(* The Connection hands the Sender no call after Close. *)
LEMMA NoCallLeftNext ==
    ASSUME TypeInv, SenderOutlivesLoop, NoCallLeft, [Next]_vars
    PROVE  NoCallLeft'
<1>1. Held(sender_rx)' = Held(sender_rx') /\ Held(None) = {}
  BY HeldNone DEF Held
<1>2. CASE UNCHANGED <<sender, sender_rx>>
  BY <1>1, <1>2 DEF NoCallLeft
<1>3. CASE PassToSender
  BY <1>3 DEF PassToSender, NoCallLeft, SenderOutlivesLoop
<1>4. CASE CloseSender \/ \E k \in handles : Complete(k)
  <2>1. /\ CloseMsg \notin CallMsg
        /\ \A k \in handles : [kind |-> "Reply", n |-> k] \notin CallMsg
    BY DEF CallMsg, OurMsg, CloseMsg
  <2>2. Held(sender_rx') = {}
    BY <1>4, <2>1, HeldOther DEF CloseSender, Complete
  <2> QED
    BY <1>1, <2>2 DEF NoCallLeft
<1>5. CASE SenderTake \/ SenderClose
  BY <1>1, <1>5 DEF SenderTake, SenderClose, NoCallLeft
<1>6. CASE WriteOk \/ WriteLost \/ WriteClosed \/ SenderNotify
  BY <1>6 DEF WriteOk, WriteLost, WriteClosed, SenderNotify, NoCallLeft
<1>7. CASE ConnStep /\ ~PassToSender /\ ~CloseSender
  BY <1>2, <1>7
     DEF ConnStep, HandleEvent, HandleRequest, HandleClose,
         HandleInternalUserMsg, HandleInternalReply, HandleInternalClose, Emit,
         CloseReceiver, CancelRequests, EmitClose, senderVars
<1>8. CASE ReceiverStep \/ UserRecv \/ UserDrop \/ PeerClose \/ UNCHANGED vars
  BY <1>2, <1>8
     DEF ReceiverStep, ReadUserMsg, ReadReply, ReadMessage, SkipFrame, ReadEnd,
         Forward, ReceiverNotify, ReceiverClose, UserRecv, UserDrop, PeerClose,
         vars, senderVars
<1>9. ASSUME NEW c, CallerStep(c) \/ Timeout(c) PROVE NoCallLeft'
  BY <1>2, <1>9 DEF CallerStep, Accept, Refuse, Return, Timeout, senderVars
<1> QED
  BY <1>3, <1>4, <1>5, <1>6, <1>7, <1>8, <1>9 DEF Next, SenderStep, UserStep

(* A step that neither accepts nor takes a call only moves the ones under    *)
(* way, unless a write fails.                                                *)
Moves ==
    /\ UNCHANGED <<accepted, lost, Underway>>
    /\ Running' => Running /\ Queued' = Queued

(* What the tasks do to the calls under way. *)
LEMMA UnderwayNext ==
    ASSUME EnoughIds, TypeInv, OrderInv, NoCallLeft, AnswerInv, [Next]_vars
    PROVE  \/ lost' # << >>
           \/ Moves
           \/ /\ UNCHANGED <<accepted, lost>> /\ Running
              /\ Underway' = Underway \cup Queued /\ Queued' = {}
           \/ \E c \in Calls :
                /\ UNCHANGED <<lost, conn, Underway>> /\ c \notin Accepted
                /\ accepted' = Append(accepted, c)
                /\ Queued = {} /\ Queued' = {c}
<1> USE DEF OrderInv
<1>1. /\ Held(sender_msg)' = Held(sender_msg')
      /\ Held(sender_rx)' = Held(sender_rx')
      /\ Held(conn_msg)' = Held(conn_msg')
      /\ Held(None) = {}
  BY HeldNone DEF Held
<1>2. /\ rx' = rx => Queued' = Queued
      /\ rx' = None => Queued' = {}
      /\ sent' = sent => Written' = Written
  BY SomeIsNotNone DEF Queued, Written
<1>3. ASSUME UNCHANGED <<accepted, lost, sent, sender_msg, sender_rx>>,
             conn_msg' = conn_msg \/ Held(conn_msg) = Held(conn_msg'),
             Running' => Running /\ rx' = rx
      PROVE  Moves
  BY <1>1, <1>2, <1>3 DEF Moves, Underway
<1>4. CASE HandleEvent
  <2>1. PICK e \in Events :
           rx = Some(e) /\ conn_msg' = Some([kind |-> "Event", data |-> e])
    BY <1>4 DEF HandleEvent
  <2>2. [kind |-> "Event", data |-> e] \in CallMsg
    BY DEF CallMsg, OurMsg
  <2>3. Held(conn_msg') = {e} /\ Held(conn_msg) = {}
    BY <1>1, <1>4, <2>1, <2>2, HeldSome DEF HandsAreFree, HandleEvent
  <2>4. Queued = {e}
    BY <2>1, SomeInjective DEF Queued, Calls
  <2> QED
    BY <1>1, <1>2, <1>4, <2>3, <2>4
       DEF HandleEvent, Underway, Running, wireVars, senderVars
<1>5. CASE HandleRequest
  <2>1. PICK r \in Requests : rx = Some(r) /\ SendRequest(r)
    BY <1>5 DEF HandleRequest
  <2>2. [kind |-> "Request", id |-> next_id, data |-> r] \in CallMsg
    BY DEF CallMsg, OurMsg, TypeInv, TypeOK
  <2>3. reply_map[next_id] = None
    BY <1>5, NewIdIsFresh DEF AnswerInv
  <2>4. Held(conn_msg') = {r} /\ Held(conn_msg) = {}
    BY <1>1, <1>5, <2>1, <2>2, <2>3, HeldSome
       DEF SendRequest, HandsAreFree, HandleRequest
  <2>5. Queued = {r}
    BY <2>1, SomeInjective DEF Queued, Calls
  <2> QED
    BY <1>1, <1>2, <1>5, <2>4, <2>5
       DEF HandleRequest, Underway, Running, wireVars, senderVars
<1>6. CASE HandleClose \/ EmitClose \/ HandleInternalClose \/ CloseReceiver
             \/ CancelRequests \/ HandleInternalReply
  BY <1>3, <1>6
     DEF HandleClose, EmitClose, HandleInternalClose, CloseReceiver,
         CancelRequests, HandleInternalReply, Running, wireVars, senderVars
<1>7. CASE PassToSender
  <2>1. /\ UNCHANGED <<accepted, lost, sent, sender_msg, rx>>
        /\ sender_rx = None /\ sender_rx' = conn_msg /\ conn_msg' = None
        /\ Running
    BY <1>7 DEF PassToSender, Running, wireVars
  <2> QED
    BY <1>1, <1>2, <2>1 DEF Moves, Underway
<1>8. CASE HandleInternalUserMsg
  <2>1. Held(conn_msg) = {} /\ Held(conn_msg') = {}
    BY <1>1, <1>8, UserMsgIsNoCall, HeldOther
       DEF HandsAreFree, HandleInternalUserMsg
  <2> QED
    BY <1>3, <1>8, <2>1
       DEF HandleInternalUserMsg, Running, wireVars, senderVars
<1>9. CASE Emit
  <2>1. Get(conn_msg) \notin CallMsg /\ conn_msg = Some(Get(conn_msg))
    BY <1>9, OptionCases, UserMsgIsNoCall DEF Emit, TypeInv, TypeOK, Carried
  <2>2. Held(conn_msg) = {} /\ Held(conn_msg') = {}
    BY <1>1, <1>9, <2>1, HeldOther DEF Emit
  <2> QED
    BY <1>3, <1>9, <2>2 DEF Emit, Running, wireVars, senderVars
<1>10. CASE CloseSender \/ \E k \in handles : Complete(k)
  <2>1. /\ CloseMsg \notin CallMsg
        /\ \A k \in handles : [kind |-> "Reply", n |-> k] \notin CallMsg
    BY DEF CallMsg, OurMsg, CloseMsg
  <2>2. Held(sender_rx) = {} /\ Held(sender_rx') = {}
    BY <1>1, <1>10, <2>1, HeldOther DEF CloseSender, Complete
  <2>3. /\ UNCHANGED <<accepted, lost, sent, sender_msg, rx, conn_msg>>
        /\ Running' => Running
    BY <1>10 DEF CloseSender, Complete, Running, connVars, wireVars
  <2> QED
    BY <1>1, <1>2, <2>2, <2>3 DEF Moves, Underway
<1>11. CASE SenderTake
  <2>1. /\ UNCHANGED <<accepted, lost, sent, rx, conn, conn_msg>>
        /\ sender_rx' = None /\ sender_msg = None
        /\ sender_msg' = sender_rx \/ (sender_msg' = sender_msg
                                        /\ sender_rx = Some(CloseMsg))
    BY <1>11 DEF SenderTake, HandsAreFree, connVars, wireVars
  <2>2. Held(Some(CloseMsg)) = {}
    BY HeldOther DEF CallMsg, OurMsg, CloseMsg
  <2> QED
    BY <1>1, <1>2, <2>1, <2>2 DEF Moves, Underway, Running
<1>12. CASE WriteOk
  <2>1. /\ UNCHANGED <<accepted, lost, rx, sender_rx, conn, conn_msg>>
        /\ sender_msg' = None /\ sent' = Append(sent, Get(sender_msg))
    BY <1>12 DEF WriteOk, connVars
  <2>2. Get(sender_msg) \in OurMsg /\ sender_msg = Some(Get(sender_msg))
    BY <1>12, OptionCases DEF WriteOk, TypeInv, TypeOK, Carried
  <2>3. Written' = Written \cup Held(sender_msg)
    BY <2>1, <2>2, WrittenNext DEF TypeInv, TypeOK
  <2> QED
    BY <1>1, <1>2, <2>1, <2>3 DEF Moves, Underway, Running
<1>13. CASE WriteLost \/ WriteClosed
  <2>1. lost \in Seq(OurMsg) /\ lost' = Append(lost, Get(sender_msg))
    BY <1>13 DEF WriteLost, WriteClosed, TypeInv, TypeOK
  <2>2. Get(sender_msg) \in OurMsg
    BY <1>13, OptionCases DEF WriteLost, WriteClosed, TypeInv, TypeOK, Carried
  <2>3. Len(lost') # 0
    BY <2>1, <2>2
  <2> QED
    BY <2>3
<1>14. CASE SenderClose
  <2>1. /\ UNCHANGED <<accepted, lost, sent, rx, sender_msg, conn, conn_msg>>
        /\ sender_rx' = None
    BY <1>14 DEF SenderClose, connVars, wireVars
  <2>2. Held(sender_rx) = {}
    BY <1>14 DEF SenderClose, NoCallLeft
  <2> QED
    BY <1>1, <1>2, <2>1, <2>2 DEF Moves, Underway, Running
<1>15. CASE SenderNotify \/ PeerClose \/ UserRecv \/ UserDrop \/ UNCHANGED vars
  BY <1>3, <1>15
     DEF SenderNotify, PeerClose, UserRecv, UserDrop, Running, vars, connVars,
         wireVars, senderVars
<1>16. CASE ReceiverStep
  BY <1>3, <1>16
     DEF ReceiverStep, ReadUserMsg, ReadReply, ReadMessage, SkipFrame,
         ReadEnd, Forward, ReceiverNotify, ReceiverClose, Running, connVars,
         wireVars, senderVars
<1>17. ASSUME NEW c \in Calls, Accept(c)
       PROVE  /\ UNCHANGED <<lost, conn, Underway>> /\ c \notin Accepted
              /\ accepted' = Append(accepted, c)
              /\ Queued = {} /\ Queued' = {c}
  <2>1. /\ rx = None /\ rx' = Some(c) /\ call[c] = "sending"
        /\ accepted' = Append(accepted, c)
        /\ UNCHANGED <<lost, sent, sender_msg, sender_rx, conn, conn_msg>>
    BY <1>17 DEF Accept, connVars, senderVars
  <2>2. c \notin Accepted
    BY <2>1 DEF AcceptedOnce
  <2>3. Queued = {} /\ Queued' = {c}
    BY <2>1, SomeIsNotNone, SomeInjective DEF Queued
  <2> QED
    BY <1>1, <1>2, <2>1, <2>2, <2>3 DEF Underway
<1>18. ASSUME NEW c, Refuse(c) \/ Return(c) \/ Timeout(c) PROVE Moves
  BY <1>3, <1>18
     DEF Refuse, Return, Timeout, Running, connVars, senderVars, wireVars
<1> QED
  BY <1>4, <1>5, <1>6, <1>7, <1>8, <1>9, <1>10, <1>11, <1>12, <1>13, <1>14,
     <1>15, <1>16, <1>17, <1>18
     DEF Next, ConnStep, SenderStep, UserStep, CallerStep

(* No step opens a gap. *)
LEMMA GapNext ==
    ASSUME EnoughIds, TypeInv, OrderInv, NoCallLeft, AnswerInv, WithoutGap,
           [Next]_vars
    PROVE  WithoutGap'
<1> SUFFICES ASSUME lost' = << >>
             PROVE  /\ Running' => Accepted' \subseteq Underway' \cup Queued'
                    /\ Whole(Underway)'
  BY DEF WithoutGap
<1>1. ASSUME accepted' = accepted
      PROVE  /\ Accepted' = Accepted
             /\ Whole(Underway)' <=> \A i, j \in DOMAIN accepted :
                    i < j /\ accepted[j] \in Underway'
                        => accepted[i] \in Underway'
  BY <1>1 DEF Accepted, Whole
<1>2. accepted \in Seq(Calls) /\ Underway \subseteq Accepted
  BY DEF TypeInv, TypeOK, OrderInv, InLine, Ordered, Underway
<1>3. CASE Moves
  BY <1>1, <1>3 DEF Moves, WithoutGap, Whole
<1>4. CASE /\ UNCHANGED <<accepted, lost>> /\ Running
           /\ Underway' = Underway \cup Queued /\ Queued' = {}
  <2>1. Accepted \subseteq Underway'
    BY <1>4 DEF WithoutGap
  <2>2. \A i \in DOMAIN accepted : accepted[i] \in Accepted
    BY <1>2 DEF Accepted
  <2> QED
    BY <1>1, <1>4, <2>1, <2>2
<1>5. ASSUME NEW c \in Calls,
             UNCHANGED <<lost, conn, Underway>>, c \notin Accepted,
             accepted' = Append(accepted, c), Queued = {}, Queued' = {c}
      PROVE  /\ Running' => Accepted' \subseteq Underway' \cup Queued'
             /\ Whole(Underway)'
  <2>1. /\ DOMAIN accepted = 1 .. Len(accepted)
        /\ DOMAIN accepted' = 1 .. Len(accepted) + 1
        /\ Len(accepted) \in Nat
        /\ \A i \in 1 .. Len(accepted) : accepted'[i] = accepted[i]
        /\ accepted'[Len(accepted) + 1] = c
    BY <1>2, <1>5
  <2>2. Accepted' = Accepted \cup {c}
    BY <2>1 DEF Accepted
  <2>3. c \notin Underway
    BY <1>2, <1>5
  <2>4. \A i, j \in DOMAIN accepted' :
            i < j /\ accepted'[j] \in Underway => accepted'[i] \in Underway
    BY <1>5, <2>1, <2>3 DEF WithoutGap, Whole
  <2> QED
    BY <1>5, <2>2, <2>4 DEF WithoutGap, Whole, Running
<1> QED
  BY <1>3, <1>4, <1>5, UnderwayNext

-----------------------------------------------------------------------------
(* What a connection shows its peer, for module LinkProofs. *)

(* Histories only grow, the loop does not start again and neither does a     *)
(* Sender that has ended.                                                    *)
LEMMA HistoriesGrow ==
    ASSUME TypeInv, [Next]_vars
    PROVE  /\ Starts(sent, sent') /\ Starts(accepted, accepted')
           /\ Running' => Running
           /\ sender = "done" => sender' = "done"
<1>1. sent \in Seq(OurMsg) /\ accepted \in Seq(Calls)
  BY DEF TypeInv, TypeOK
<1>2. \A S : \A q \in Seq(S), m \in S : Starts(q, Append(q, m))
  BY DEF Starts
<1>3. Starts(sent, sent) /\ Starts(accepted, accepted)
  BY <1>1 DEF Starts
<1>4. CASE ConnStep
  BY <1>3, <1>4
     DEF ConnStep, HandleEvent, HandleRequest, HandleClose, PassToSender,
         HandleInternalUserMsg, HandleInternalReply, HandleInternalClose, Emit,
         CloseReceiver, CloseSender, CancelRequests, EmitClose, Running,
         senderVars, wireVars
<1>5. CASE WriteOk
  <2>1. Get(sender_msg) \in OurMsg
    BY <1>5, OptionCases DEF WriteOk, TypeInv, TypeOK, Carried
  <2>2. Starts(sent, Append(sent, Get(sender_msg)))
    BY <1>1, <1>2, <2>1
  <2> QED
    BY <1>3, <1>5, <2>2 DEF WriteOk, Running, connVars
<1>6. CASE SenderStep /\ ~WriteOk
  BY <1>3, <1>6
     DEF SenderStep, SenderTake, WriteLost, WriteClosed, SenderNotify,
         SenderClose, Running, connVars, wireVars
<1>7. CASE ReceiverStep \/ UserStep \/ PeerClose \/ UNCHANGED vars
  BY <1>3, <1>7
     DEF ReceiverStep, ReadUserMsg, ReadReply, ReadMessage, SkipFrame, ReadEnd,
         Forward, ReceiverNotify, ReceiverClose, UserStep, UserRecv, UserDrop,
         Complete, PeerClose, vars, Running, connVars, senderVars, wireVars
<1>8. ASSUME NEW c \in Calls, Accept(c)
      PROVE  /\ Starts(sent, sent') /\ Starts(accepted, accepted')
             /\ Running' => Running
             /\ sender = "done" => sender' = "done"
  <2>1. Starts(accepted, Append(accepted, c))
    BY <1>1, <1>2
  <2> QED
    BY <1>3, <1>8, <2>1 DEF Accept, Running, connVars, senderVars
<1>9. ASSUME NEW c, Refuse(c) \/ Return(c) \/ Timeout(c)
      PROVE  UNCHANGED <<sent, accepted, conn, sender>>
  BY <1>9 DEF Refuse, Return, Timeout, connVars, senderVars, wireVars
<1> QED
  BY <1>3, <1>4, <1>5, <1>6, <1>7, <1>8, <1>9
     DEF Next, CallerStep, Running

(* While no write has failed, every call that was accepted before one that   *)
(* has been written was written before it.                                   *)
LEMMA WireIsWhole ==
    ASSUME TypeInv, OrderInv, WithoutGap, lost = << >>,
           NEW n \in DOMAIN sent, sent[n].kind # "Reply"
    PROVE  \E k \in DOMAIN accepted :
             /\ accepted[k] = sent[n].data
             /\ \A j \in 1 .. k - 1 :
                  \E p \in 1 .. n - 1 : /\ sent[p].kind # "Reply"
                                        /\ sent[p].data = accepted[j]
<1>1. sent \in Seq(OurMsg) /\ accepted \in Seq(Calls)
  BY DEF TypeInv, TypeOK
<1>2. sent[n].data \in Written
  <2>1. sent[n] \in OurMsg
    BY <1>1
  <2> QED
    BY <2>1 DEF Written, OurMsg, Calls
<1>3. PICK k \in DOMAIN accepted : accepted[k] = sent[n].data
  BY <1>2 DEF OrderInv, InLine, Ordered, Accepted
<1>4. ASSUME NEW j \in 1 .. k - 1
      PROVE  \E p \in 1 .. n - 1 : /\ sent[p].kind # "Reply"
                                   /\ sent[p].data = accepted[j]
  <2>1. /\ j \in DOMAIN accepted /\ k \in Nat /\ n \in Nat /\ j < k
        /\ DOMAIN accepted = 1 .. Len(accepted) /\ DOMAIN sent = 1 .. Len(sent)
    BY <1>1
  <2>2. accepted[j] \in Underway
    BY <1>2, <1>3, <2>1 DEF WithoutGap, Whole, Underway
  <2>3. accepted[j] \in Written
    <3>1. accepted[j] \notin Held(sender_msg) \cup Held(sender_rx)
                                \cup Held(conn_msg) \cup Queued
      BY <1>2, <1>3, <2>1 DEF OrderInv, InLine, Ordered, Precedes
    <3> QED
      BY <2>2, <3>1 DEF Underway
  <2>4. PICK p \in DOMAIN sent : sent[p].kind # "Reply"
                                   /\ sent[p].data = accepted[j]
    BY <2>3 DEF Written
  <2>5. ~(n < p) /\ p # n
    <3>1. p # n
      BY <1>3, <2>1, <2>4 DEF OrderInv, AcceptedOnce
    <3>2. n < p => Precedes({sent[n].data}, {sent[p].data})
      BY <2>4 DEF OrderInv, SentInOrder
    <3>3. ~Precedes({sent[n].data}, {sent[p].data})
      BY <1>3, <2>1, <2>4 DEF Precedes
    <3> QED
      BY <3>1, <3>2, <3>3
  <2>6. p \in 1 .. n - 1
    BY <2>1, <2>4, <2>5
  <2> QED
    BY <2>4, <2>6
<1> QED
  BY <1>3, <1>4

(* No call is written twice. *)
LEMMA WrittenOnce ==
    ASSUME TypeInv, OrderInv, NEW m \in DOMAIN sent, NEW n \in DOMAIN sent,
           m < n, sent[m].kind # "Reply", sent[n].kind # "Reply"
    PROVE  sent[m].data # sent[n].data
<1>1. sent[m].data \in Accepted
  <2>1. sent[m] \in OurMsg
    BY DEF TypeInv, TypeOK
  <2>2. sent[m].data \in Written
    BY <2>1 DEF Written, OurMsg, Calls
  <2> QED
    BY <2>2 DEF OrderInv, InLine, Ordered
<1>2. PICK k \in DOMAIN accepted : accepted[k] = sent[m].data
  BY <1>1 DEF Accepted
<1>3. Precedes({sent[m].data}, {sent[n].data})
  BY DEF OrderInv, SentInOrder
<1>4. ~(k < k)
  BY DEF TypeInv, TypeOK
<1> QED
  BY <1>2, <1>3, <1>4 DEF Precedes

(* What the user can receive after a step is what it could before, a message *)
(* the loop has taken off the websocket in its turn, or Close.               *)
LEMMA OutGrows ==
    ASSUME TypeInv, OrderInv, DeliveryInv, [Next]_vars,
           NEW i \in DOMAIN Out', Out'[i] # CloseMsg
    PROVE  \/ i \in DOMAIN Out /\ Out'[i] = Out[i]
           \/ Running /\ i \in DOMAIN arrived' /\ Out'[i] = arrived'[i]
<1>1. /\ delivered \in Seq(EventMsg) /\ event_rx \in Seq(EventMsg)
      /\ arrived \in Seq(UserMsg) /\ CloseMsg \in EventMsg
  BY PlacesType DEF EventMsg
<1>2. CASE Running
  <2>1. OutInOrder'
    BY OutNext DEF OrderInv
  <2>2. PICK p \in Seq(UserMsg) :
           Starts(p, arrived') /\ (Out' = p \/ Out' = Append(p, CloseMsg))
    BY <2>1 DEF OutInOrder, Starts
  <2>3. arrived' \in Seq(UserMsg)
    BY TypeNext DEF TypeInv, TypeOK
  <2>4. i \in 1 .. Len(p) /\ Out'[i] = p[i]
    <3>1. CASE Out' = p
      BY <2>2, <3>1
    <3>2. CASE Out' = Append(p, CloseMsg)
      <4>1. p \in Seq(EventMsg)
        BY <2>2, SeqMonotonic DEF EventMsg
      <4>2. /\ DOMAIN Append(p, CloseMsg) = 1 .. Len(p) + 1 /\ Len(p) \in Nat
            /\ \A j \in 1 .. Len(p) : Append(p, CloseMsg)[j] = p[j]
            /\ Append(p, CloseMsg)[Len(p) + 1] = CloseMsg
        BY <1>1, <4>1
      <4> QED
        BY <3>2, <4>2
    <3> QED
      BY <2>2, <3>1, <3>2
  <2> QED
    BY <1>2, <2>2, <2>3, <2>4 DEF Starts
<1>3. CASE ~Running
  <2>1. UNCHANGED <<delivered, event_rx>> => UNCHANGED Out
    BY DEF Out
  <2>2. CASE EmitClose
    <3>1. delivered' = delivered
            /\ (event_rx' = event_rx \/ event_rx' = Append(event_rx, CloseMsg))
      BY <2>2 DEF EmitClose
    <3>2. CASE event_rx' = Append(event_rx, CloseMsg)
      <4>1. Out' = delivered \o Append(event_rx, CloseMsg)
        BY <3>1, <3>2 DEF Out
      <4>2. delivered \o Append(event_rx, CloseMsg) = Append(Out, CloseMsg)
        BY <1>1 DEF Out
      <4>3. Out' = Append(Out, CloseMsg)
        BY <4>1, <4>2, Zenon
      <4>4. Out \in Seq(EventMsg)
        BY <1>1 DEF Out
      <4>5. /\ DOMAIN Append(Out, CloseMsg) = 1 .. Len(Out) + 1
            /\ DOMAIN Out = 1 .. Len(Out) /\ Len(Out) \in Nat
            /\ \A j \in 1 .. Len(Out) : Append(Out, CloseMsg)[j] = Out[j]
            /\ Append(Out, CloseMsg)[Len(Out) + 1] = CloseMsg
        BY <1>1, <4>4
      <4> QED
        BY <4>3, <4>5
    <3> QED
      BY <2>1, <3>1, <3>2
  <2>3. CASE UserRecv
    <3>1. /\ event_rx # << >> /\ event_rx' = Tail(event_rx)
          /\ delivered' = Append(delivered, Head(event_rx))
      BY <2>3 DEF UserRecv
    <3>2. delivered' \o event_rx' = delivered \o event_rx
      BY <1>1, <3>1, HeadMoves
    <3> QED
      BY <3>2 DEF Out
  <2>4. CASE UserDrop
    <3>1. Out' = delivered \o << >>
      BY <2>4 DEF UserDrop, Out
    <3>2. Out' = delivered
      BY <1>1, <3>1
    <3>3. /\ DOMAIN Out = 1 .. Len(delivered) + Len(event_rx)
          /\ Len(delivered) \in Nat /\ Len(event_rx) \in Nat
          /\ DOMAIN delivered = 1 .. Len(delivered)
          /\ \A j \in 1 .. Len(delivered) : Out[j] = delivered[j]
      BY <1>1 DEF Out
    <3> QED
      BY <3>2, <3>3
  <2>5. CASE ConnStep /\ ~EmitClose
    BY <1>3, <2>1, <2>5
       DEF ConnStep, HandleEvent, HandleRequest, HandleClose, PassToSender,
           HandleInternalUserMsg, HandleInternalReply, HandleInternalClose,
           Emit, CloseReceiver, CloseSender, CancelRequests, Running, userVars
  <2>6. CASE ReceiverStep \/ SenderStep \/ PeerClose \/ UNCHANGED vars
               \/ \E k \in handles : Complete(k)
    BY <2>1, <2>6
       DEF ReceiverStep, ReadUserMsg, ReadReply, ReadMessage, SkipFrame,
           ReadEnd, Forward, ReceiverNotify, ReceiverClose, SenderStep,
           SenderTake, WriteOk, WriteLost, WriteClosed, SenderNotify,
           SenderClose, PeerClose, Complete, vars, userVars
  <2>7. ASSUME NEW c, CallerStep(c) \/ Timeout(c) PROVE UNCHANGED Out
    BY <2>1, <2>7 DEF CallerStep, Accept, Refuse, Return, Timeout, userVars
  <2> QED
    BY <2>2, <2>3, <2>4, <2>5, <2>6, <2>7 DEF Next, UserStep
<1> QED
  BY <1>2, <1>3

(* The requests of the peer to which a reply is with the Sender or written. *)
RepliesOut ==
    {k \in TheirIds : \/ sender_msg = Some(ReplyTo(k))
                      \/ sender_rx = Some(ReplyTo(k))
                      \/ \E i \in DOMAIN sent : sent[i] = ReplyTo(k)}

(* Our requests to which a reply has been read. *)
AnswersIn ==
    {d \in Requests :
        \/ \E m \in ReplyMsg : /\ m.data = d
                               /\ internal = Some(m) \/ receiver_msg = Some(m)
        \/ \E r \in Requests : reply[r] = Some(d)}

(* Only complete gives the Sender a reply. *)
LEMMA RepliesOutNext ==
    ASSUME TypeInv, HandsAreFree, [Next]_vars, NEW k \in RepliesOut',
           k \notin RepliesOut
    PROVE  k \in handles /\ Complete(k)
<1>1. /\ sent \in Seq(OurMsg) /\ k \in TheirIds
      /\ \A j \in TheirIds : ReplyTo(j) # CloseMsg /\ ReplyTo(j) \notin CallMsg
      /\ \A i, j \in TheirIds : ReplyTo(i) = ReplyTo(j) => i = j
  BY DEF TypeInv, TypeOK, RepliesOut, ReplyTo, CallMsg, CloseMsg
<1>2. ASSUME sent' = sent, sender_msg' \in {sender_msg, sender_rx, None},
             sender_rx' \in {sender_rx, None}
      PROVE  FALSE
  BY <1>2, SomeIsNotNone DEF RepliesOut, ReplyTo
<1>3. CASE PassToSender
  <2>1. conn_msg = Some(Get(conn_msg)) /\ Get(conn_msg) \in CallMsg
    BY <1>3, OptionCases
       DEF PassToSender, HandsAreFree, TypeInv, TypeOK, Carried
  <2>2. conn_msg # Some(ReplyTo(k))
    BY <1>1, <2>1, SomeInjective
  <2>3. UNCHANGED <<sent, sender_msg>> /\ sender_rx' = conn_msg
    BY <1>3 DEF PassToSender, wireVars
  <2> QED
    BY <2>2, <2>3 DEF RepliesOut, ReplyTo
<1>4. CASE CloseSender
  <2>1. UNCHANGED <<sent, sender_msg>> /\ sender_rx' = Some(CloseMsg)
    BY <1>4 DEF CloseSender, wireVars
  <2> QED
    BY <1>1, <2>1, SomeInjective DEF RepliesOut, ReplyTo
<1>5. CASE WriteOk
  <2>1. UNCHANGED sender_rx /\ sender_msg' = None
          /\ sent' = Append(sent, Get(sender_msg))
    BY <1>5 DEF WriteOk
  <2>2. Get(sender_msg) \in OurMsg /\ sender_msg = Some(Get(sender_msg))
    BY <1>5, OptionCases DEF WriteOk, TypeInv, TypeOK, Carried
  <2>3. /\ DOMAIN sent = 1 .. Len(sent) /\ DOMAIN sent' = 1 .. Len(sent) + 1
        /\ Len(sent) \in Nat
        /\ \A i \in 1 .. Len(sent) : sent'[i] = sent[i]
        /\ sent'[Len(sent) + 1] = Get(sender_msg)
    BY <1>1, <2>1, <2>2
  <2> QED
    BY <2>1, <2>2, <2>3, SomeIsNotNone DEF RepliesOut, ReplyTo
<1>6. CASE SenderStep /\ ~WriteOk
  BY <1>2, <1>6
     DEF SenderStep, SenderTake, WriteLost, WriteClosed, SenderNotify,
         SenderClose, wireVars
<1>7. CASE ConnStep /\ ~PassToSender /\ ~CloseSender
  BY <1>2, <1>7
     DEF ConnStep, HandleEvent, HandleRequest, HandleClose,
         HandleInternalUserMsg, HandleInternalReply, HandleInternalClose, Emit,
         CloseReceiver, CancelRequests, EmitClose, senderVars, wireVars
<1>8. CASE ReceiverStep \/ UserRecv \/ UserDrop \/ PeerClose \/ UNCHANGED vars
  BY <1>2, <1>8
     DEF ReceiverStep, ReadUserMsg, ReadReply, ReadMessage, SkipFrame, ReadEnd,
         Forward, ReceiverNotify, ReceiverClose, UserRecv, UserDrop, PeerClose,
         vars, senderVars, wireVars
<1>9. ASSUME NEW j \in handles, Complete(j) PROVE j = k
  <2>1. UNCHANGED <<sent, sender_msg>> /\ sender_rx' = Some(ReplyTo(j))
    BY <1>9 DEF Complete, ReplyTo, wireVars
  <2>2. j \in TheirIds
    BY DEF TypeInv, TypeOK
  <2> QED
    BY <1>1, <2>1, <2>2, SomeInjective DEF RepliesOut, ReplyTo
<1>10. ASSUME NEW c, CallerStep(c) \/ Timeout(c) PROVE FALSE
  BY <1>2, <1>10
     DEF CallerStep, Accept, Refuse, Return, Timeout, senderVars, wireVars
<1> QED
  BY <1>3, <1>4, <1>5, <1>6, <1>7, <1>8, <1>9, <1>10
     DEF Next, SenderStep, UserStep

(* Only a read brings in an answer, to a request that was written. *)
LEMMA AnswersInNext ==
    ASSUME TypeInv, [Next]_vars, NEW d \in AnswersIn', d \notin AnswersIn
    PROVE  \E i \in DOMAIN sent : ReadReply(i) /\ sent[i].data = d
<1>1. /\ receiver_msg \in Option(UserMsg \cup ReplyMsg) /\ d \in Requests
      /\ reply \in [Requests -> Option(Requests)]
      /\ \A m \in ReplyMsg : m # CloseMsg /\ m \notin UserMsg
  BY DEF TypeInv, TypeOK, AnswersIn, ReplyMsg, UserMsg, CloseMsg
<1>2. ASSUME reply' = reply,
             internal' \in {internal, None, Some(CloseMsg), receiver_msg},
             receiver_msg' \in {receiver_msg, None}
      PROVE  FALSE
  BY <1>1, <1>2, SomeIsNotNone, SomeInjective DEF AnswersIn
<1>3. CASE HandleInternalReply
  <2>1. PICK m \in ReplyMsg :
           /\ internal = Some(m)
           /\ \/ \E r : reply' = [reply EXCEPT ![r] = Some(m.data)]
              \/ reply' = reply
    BY <1>3 DEF HandleInternalReply
  <2>2. UNCHANGED receiver_msg /\ internal' = None
    BY <1>3 DEF HandleInternalReply, receiverVars
  <2>3. \A q \in Requests : reply'[q] = reply[q] \/ reply'[q] = Some(m.data)
    BY <1>1, <2>1
  <2>4. m.data \in AnswersIn
    BY <2>1 DEF AnswersIn, ReplyMsg
  <2> QED
    BY <1>1, <2>2, <2>3, <2>4, SomeIsNotNone, SomeInjective DEF AnswersIn
<1>4. ASSUME NEW k \in {"Request", "Event"}, ReadUserMsg(k) PROVE FALSE
  <2>1. /\ UNCHANGED <<internal, reply>>
        /\ receiver_msg' = Some([kind |-> k, n |-> frames + 1])
    BY <1>4 DEF ReadUserMsg, ReadMessage, callVars
  <2>2. \A m \in ReplyMsg : receiver_msg' # Some(m)
    <3>1. \A m \in ReplyMsg : m # [kind |-> k, n |-> frames + 1]
      BY DEF ReplyMsg
    <3> QED
      BY <2>1, <3>1, SomeInjective
  <2> QED
    BY <2>1, <2>2 DEF AnswersIn
<1>5. ASSUME NEW i \in DOMAIN sent, ReadReply(i) PROVE sent[i].data = d
  <2> DEFINE n == [kind |-> "Reply", id |-> sent[i].id, data |-> sent[i].data]
  <2>1. UNCHANGED <<internal, reply>> /\ receiver_msg' = Some(n)
    BY <1>5 DEF ReadReply, ReadMessage, callVars
  <2>2. n.data = sent[i].data
    OBVIOUS
  <2> HIDE DEF n
  <2>3. \A m \in ReplyMsg : receiver_msg' = Some(m) => m = n
    BY <2>1, SomeInjective
  <2> QED
    BY <2>1, <2>2, <2>3 DEF AnswersIn
<1>6. CASE Forward
  <2>1. Some(Get(receiver_msg)) = receiver_msg
    BY <1>1, <1>6, OptionCases DEF Forward, TypeInv, Carried
  <2> QED
    BY <1>2, <1>6, <2>1 DEF Forward, PassToConnection, callVars
<1>7. CASE ConnStep /\ ~HandleInternalReply
  BY <1>2, <1>7
     DEF ConnStep, HandleEvent, HandleRequest, HandleClose, PassToSender,
         HandleInternalUserMsg, HandleInternalClose, Emit, CloseReceiver,
         CloseSender, CancelRequests, EmitClose, receiverVars, callVars
<1>8. CASE SkipFrame \/ ReadEnd \/ ReceiverNotify \/ ReceiverClose \/ SenderStep
             \/ UserStep \/ PeerClose \/ UNCHANGED vars
  BY <1>2, <1>8
     DEF SkipFrame, ReadEnd, ReceiverNotify, ReceiverClose, PassToConnection,
         SenderStep, SenderTake, WriteOk, WriteLost, WriteClosed, SenderNotify,
         SenderClose, UserStep, UserRecv, UserDrop, Complete, PeerClose, vars,
         receiverVars, callVars
<1>9. ASSUME NEW c, CallerStep(c) \/ Timeout(c) PROVE FALSE
  BY <1>2, <1>9 DEF CallerStep, Accept, Refuse, Return, Timeout, receiverVars
<1> QED
  BY <1>3, <1>4, <1>5, <1>6, <1>7, <1>8, <1>9 DEF Next, ReceiverStep

(* What holds of either end of a link. *)
EndInv == TypeInv /\ OrderInv /\ DeliveryInv /\ SenderOutlivesLoop

(* And of one whose ids do not come round. *)
GapInv == NoCallLeft /\ AnswerInv /\ WithoutGap

(* Every connection keeps the order of the messages in both directions. *)
LEMMA EndInvariant == Spec => []EndInv
<1>1. Init => SenderOutlivesLoop
  BY SomeIsNotNone DEF Init, SenderOutlivesLoop
<1> QED
  BY <1>1, TypeInit, TypeNext, OrderInit, OrderNext, DeliveryInit, DeliveryNext,
     SenderNext, PTL DEF Spec, EndInv

(* As long as no id comes round, no gap opens. *)
LEMMA GapInvariant == EnoughIds => (Spec => []GapInv)
<1> SUFFICES ASSUME EnoughIds PROVE Spec => []GapInv
  OBVIOUS
<1>1. Init => GapInv
  <2>1. Init => NoCallLeft
    BY DEF Init, NoCallLeft
  <2>2. Init => WithoutGap
    BY DEF Init, WithoutGap, Accepted, Whole
  <2> QED
    BY <2>1, <2>2, PromiseInvInit DEF GapInv
<1>2. EndInv /\ GapInv /\ [Next]_vars => GapInv'
  BY NoCallLeftNext, AnswerNext, GapNext DEF EndInv, GapInv
<1> QED
  BY <1>1, <1>2, EndInvariant, PTL DEF Spec
=============================================================================
