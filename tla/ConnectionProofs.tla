-------------------------- MODULE ConnectionProofs --------------------------
(***************************************************************************)
(* Proofs about module Connection, for any sets of calls, any width of     *)
(* next_id, any capacity of the event channel and any number of frames.    *)
(***************************************************************************)
EXTENDS Connection, ChannelProofs, TLAPS

-----------------------------------------------------------------------------
(* A remainder is below its divisor: next_id stays within its width. *)
LEMMA ModRange ==
    ASSUME NEW n \in Nat, NEW m \in Nat \ {0}
    PROVE  n % m \in 0 .. m - 1
  OBVIOUS

-----------------------------------------------------------------------------
(* Type correctness. *)

(* A task suspended at an await that hands a message on holds a message of   *)
(* the type of the channel it is about to fill.                              *)
Carried ==
    /\ conn = "send" => conn_msg # None /\ Get(conn_msg) \in OurMsg
    /\ conn = "emit" => conn_msg # None /\ Get(conn_msg) \in UserMsg
    /\ receiver = "forward" => receiver_msg # None
    /\ sender = "write" => sender_msg # None

TypeInv == TypeOK /\ Carried

(* Connection::new leaves every channel empty and every task at its first    *)
(* await.                                                                    *)
LEMMA TypeInit == Init => TypeInv
  BY ConstantsAssumption, NoneInOption
     DEF Init, TypeInv, TypeOK, Carried, Calls, Ids, CallStates, ConnStates,
         ReceiverStates, SenderStates

(* Every step keeps the types. *)
LEMMA TypeNext == TypeInv /\ [Next]_vars => TypeInv'
<1> SUFFICES ASSUME TypeInv, [Next]_vars PROVE TypeInv'
  OBVIOUS
<1> USE DEF TypeInv, TypeOK, Carried, callVars, connVars, receiverVars,
            senderVars, userVars, wireVars
<1>1. CASE HandleEvent
  BY <1>1, GetSome, SomeIsNotNone, NoneInOption, SomeInOption
     DEF HandleEvent, OurMsg, ConnStates
<1>2. CASE HandleRequest
  <2>1. PICK r \in Requests : rx = Some(r) /\ SendRequest(r)
    BY <1>2 DEF HandleRequest
  <2>2. next_id' \in Ids
    <3>1. next_id + 1 \in Nat /\ IdSpace \in Nat \ {0}
      BY ConstantsAssumption DEF Ids
    <3>2. (next_id + 1) % IdSpace \in 0 .. IdSpace - 1
      BY <3>1, ModRange
    <3> QED
      BY <2>1, <3>2 DEF SendRequest, Ids
  <2>3. oneshot' \in [Requests -> {"open", "Ok", "Canceled", "Dropped"}]
    BY <2>1 DEF SendRequest, Resolve
  <2>4. Some(r) \in Option(Requests)
    BY SomeInOption
  <2>5. reply_map' \in [Ids -> Option(Requests)]
    BY <2>1, <2>4 DEF SendRequest
  <2>6. [kind |-> "Request", id |-> next_id, data |-> r] \in OurMsg
    BY DEF OurMsg
  <2>7. /\ conn' \in ConnStates
        /\ conn_msg' \in Option(OurMsg \cup UserMsg)
        /\ conn' = "send" => conn_msg' # None /\ Get(conn_msg') \in OurMsg
        /\ conn' # "emit"
    BY <1>2, <2>1, <2>6, GetSome, SomeIsNotNone, SomeInOption
       DEF HandleRequest, SendRequest, ConnStates
  <2> QED
    BY <1>2, <2>2, <2>3, <2>5, <2>7, NoneInOption DEF HandleRequest
<1>3. CASE HandleClose
  BY <1>3, NoneInOption DEF HandleClose, ConnStates
<1>4. CASE PassToSender
  BY <1>4, NoneInOption, SomeInOption, OptionCases DEF PassToSender, ConnStates
<1>5. CASE HandleInternalUserMsg
  BY <1>5, GetSome, SomeIsNotNone, NoneInOption, SomeInOption
     DEF HandleInternalUserMsg, ConnStates
<1>6. CASE HandleInternalReply
  <2>1. PICK m \in ReplyMsg : HandleInternalReply!2!(m)
    BY <1>6 DEF HandleInternalReply
  <2>2. m.id \in Ids /\ m.data \in Requests
    BY DEF ReplyMsg
  <2>3. oneshot' \in [Requests -> {"open", "Ok", "Canceled", "Dropped"}]
    BY <2>1 DEF Resolve
  <2>4. Some(m.data) \in Option(Requests)
    BY <2>2, SomeInOption
  <2>5. reply' \in [Requests -> Option(Requests)]
    BY <2>1, <2>4
  <2>6. reply_map' \in [Ids -> Option(Requests)]
    <3>1. None \in Option(Requests)
      BY NoneInOption
    <3>2. reply_map' = reply_map \/ reply_map' = [reply_map EXCEPT ![m.id] = None]
      BY <2>1
    <3> QED
      BY <3>1, <3>2
  <2> QED
    BY <1>6, <2>3, <2>5, <2>6, NoneInOption DEF HandleInternalReply
<1>7. CASE HandleInternalClose
  BY <1>7, NoneInOption DEF HandleInternalClose, ConnStates
<1>8. CASE Emit
  <2>1. Get(conn_msg) \in UserMsg \cup {CloseMsg}
    BY <1>8 DEF Emit
  <2>2. Append(event_rx, Get(conn_msg)) \in Seq(UserMsg \cup {CloseMsg})
    BY <2>1, AppendType
  <2>3. event_rx' \in Seq(UserMsg \cup {CloseMsg})
    BY <1>8, <2>2 DEF Emit
  <2> QED
    BY <1>8, <2>3, NoneInOption DEF Emit, ConnStates
<1>9. CASE CloseReceiver
  BY <1>9, SomeInOption DEF CloseReceiver, ConnStates
<1>10. CASE CloseSender
  BY <1>10, SomeInOption DEF CloseSender, ConnStates
<1>11. CASE CancelRequests
  BY <1>11, NoneInOption DEF CancelRequests, Resolve, ConnStates
<1>12. CASE EmitClose
  <2>1. Append(event_rx, CloseMsg) \in Seq(UserMsg \cup {CloseMsg})
    BY AppendType
  <2>2. event_rx' \in Seq(UserMsg \cup {CloseMsg})
    BY <1>12, <2>1 DEF EmitClose
  <2>3. oneshot' \in [Requests -> {"open", "Ok", "Canceled", "Dropped"}]
    BY <1>12 DEF EmitClose, Resolve
  <2> QED
    BY <1>12, <2>2, <2>3, NoneInOption DEF EmitClose, ConnStates
<1>13. ASSUME NEW k \in {"Request", "Event"}, ReadUserMsg(k) PROVE TypeInv'
  <2> DEFINE m == [kind |-> k, n |-> frames + 1]
  <2>1. ReadMessage(m) /\ arrived' = Append(arrived, m)
    BY <1>13 DEF ReadUserMsg
  <2>2. frames + 1 \in TheirIds
    BY <2>1, ConstantsAssumption DEF ReadMessage, TheirIds
  <2>3. m \in UserMsg
    BY <2>2 DEF UserMsg
  <2> HIDE DEF m
  <2>4. arrived' \in Seq(UserMsg)
    BY <2>1, <2>3, AppendType
  <2> QED
    BY <2>1, <2>3, <2>4, SomeInOption, SomeIsNotNone, ConstantsAssumption
       DEF ReadMessage, ReceiverStates
<1>14. ASSUME NEW i \in DOMAIN sent, ReadReply(i) PROVE TypeInv'
  <2>1. sent[i] \in OurMsg
    OBVIOUS
  <2> DEFINE m == [kind |-> "Reply", id |-> sent[i].id, data |-> sent[i].data]
  <2>2. m \in ReplyMsg
    BY <1>14, <2>1 DEF ReadReply, OurMsg, ReplyMsg
  <2>3. ReadMessage(m) /\ UNCHANGED arrived
    BY <1>14 DEF ReadReply
  <2> HIDE DEF m
  <2> QED
    BY <2>2, <2>3, SomeInOption, SomeIsNotNone, ConstantsAssumption
       DEF ReadMessage, ReceiverStates
<1>15. CASE SkipFrame
  BY <1>15, ConstantsAssumption DEF SkipFrame
<1>16. CASE ReadEnd
  BY <1>16 DEF ReadEnd, ReceiverStates
<1>17. CASE Forward
  BY <1>17, NoneInOption, SomeInOption, OptionCases
     DEF Forward, PassToConnection, ReceiverStates
<1>18. CASE ReceiverNotify
  BY <1>18, SomeInOption DEF ReceiverNotify, PassToConnection, ReceiverStates
<1>19. CASE ReceiverClose
  BY <1>19, NoneInOption DEF ReceiverClose, ReceiverStates
<1>20. CASE SenderTake
  BY <1>20, NoneInOption, SomeInOption, OptionCases
     DEF SenderTake, SenderStates
<1>21. CASE WriteOk
  <2>1. Get(sender_msg) \in OurMsg
    BY <1>21, OptionCases DEF WriteOk
  <2>2. sent' \in Seq(OurMsg)
    BY <1>21, <2>1, AppendType DEF WriteOk
  <2> QED
    BY <1>21, <2>2, NoneInOption DEF WriteOk, SenderStates
<1>22. CASE WriteLost \/ WriteClosed
  <2>1. Get(sender_msg) \in OurMsg
    BY <1>22, OptionCases DEF WriteLost, WriteClosed
  <2>2. Append(lost, Get(sender_msg)) \in Seq(OurMsg)
    BY <2>1, AppendType
  <2>3. lost' \in Seq(OurMsg)
    BY <1>22, <2>2 DEF WriteLost, WriteClosed
  <2> QED
    BY <1>22, <2>3, NoneInOption DEF WriteLost, WriteClosed, SenderStates
<1>23. CASE SenderNotify
  BY <1>23, SomeInOption DEF SenderNotify, PassToConnection, SenderStates
<1>24. CASE SenderClose
  BY <1>24, NoneInOption DEF SenderClose, SenderStates
<1>25. CASE UserRecv
  <2>1. /\ Head(event_rx) \in UserMsg \cup {CloseMsg}
        /\ Tail(event_rx) \in Seq(UserMsg \cup {CloseMsg})
    BY <1>25 DEF UserRecv
  <2>2. delivered' \in Seq(UserMsg \cup {CloseMsg})
    BY <1>25, <2>1, AppendType DEF UserRecv
  <2> QED
    BY <1>25, <2>1, <2>2 DEF UserRecv
<1>26. CASE UserDrop
  BY <1>26 DEF UserDrop
<1>27. CASE PeerClose
  BY <1>27 DEF PeerClose
<1>28. ASSUME NEW c \in Calls, Accept(c) PROVE TypeInv'
  <2>1. accepted' \in Seq(Calls)
    BY <1>28, AppendType DEF Accept
  <2> QED
    BY <1>28, <2>1, SomeInOption DEF Accept, CallStates
<1>29. ASSUME NEW c \in Calls, Refuse(c) PROVE TypeInv'
  BY <1>29 DEF Refuse, CallStates
<1>30. ASSUME NEW r \in Requests, Return(r) PROVE TypeInv'
  BY <1>30 DEF Return, Calls, CallStates
<1>31. ASSUME NEW r \in Requests, Timeout(r) PROVE TypeInv'
  BY <1>31 DEF Timeout, CallStates
<1>32. ASSUME NEW k \in handles, Complete(k) PROVE TypeInv'
  <2>1. k \in TheirIds
    OBVIOUS
  <2>2. replies' \in [TheirIds -> 0 .. MaxReplies]
    BY <1>32, <2>1, ConstantsAssumption DEF Complete
  <2> QED
    BY <1>32, <2>1, <2>2, SomeInOption DEF Complete, OurMsg
<1>33. CASE UNCHANGED vars
  BY <1>33 DEF vars
<1> QED
  BY <1>1, <1>2, <1>3, <1>4, <1>5, <1>6, <1>7, <1>8, <1>9, <1>10, <1>11,
     <1>12, <1>13, <1>14, <1>15, <1>16, <1>17, <1>18, <1>19, <1>20, <1>21,
     <1>22, <1>23, <1>24, <1>25, <1>26, <1>27, <1>28, <1>29, <1>30,
     <1>31, <1>32, <1>33
     DEF Next, ConnStep, ReceiverStep, SenderStep, UserStep, CallerStep

(* Every variable of the connection keeps its type: in particular the Sender *)
(* only gets messages to write, the user only messages of the peer, and      *)
(* next_id stays within its width.                                           *)
THEOREM TypeCorrect == Spec => []TypeOK
<1>1. TypeInv => TypeOK
  BY DEF TypeInv
<1> QED
  BY <1>1, TypeInit, TypeNext, PTL DEF Spec

-----------------------------------------------------------------------------
(* The Sender outlives the loop of Connection::run. *)

(* Close is put into the Sender's channel only by close(), after the loop.   *)
LEMMA SenderNext ==
    TypeInv /\ SenderOutlivesLoop /\ [Next]_vars => SenderOutlivesLoop'
<1> SUFFICES ASSUME TypeInv, SenderOutlivesLoop, [Next]_vars
             PROVE  SenderOutlivesLoop'
  OBVIOUS
<1> USE DEF SenderOutlivesLoop
<1>1. \A m \in OurMsg : Some(m) # Some(CloseMsg)
  BY GetSome DEF OurMsg, CloseMsg
<1>2. CASE PassToSender
  <2>1. conn_msg = Some(Get(conn_msg)) /\ Get(conn_msg) \in OurMsg
    BY <1>2, OptionCases DEF PassToSender, TypeInv, TypeOK, Carried
  <2> QED
    BY <1>1, <1>2, <2>1 DEF PassToSender
<1>3. ASSUME NEW k \in handles, Complete(k) PROVE SenderOutlivesLoop'
  <2>1. [kind |-> "Reply", n |-> k] \in OurMsg
    BY DEF OurMsg, TypeInv, TypeOK
  <2> QED
    BY <1>1, <1>3, <2>1 DEF Complete, connVars
<1>4. CASE SenderStep
  BY <1>4, SomeIsNotNone
     DEF SenderStep, SenderTake, WriteOk, WriteLost, WriteClosed, SenderNotify,
         SenderClose, connVars
<1>5. CASE ConnStep /\ ~PassToSender
  BY <1>5
     DEF ConnStep, HandleEvent, HandleRequest, SendRequest, HandleClose,
         HandleInternalUserMsg, HandleInternalReply, HandleInternalClose, Emit,
         CloseReceiver, CloseSender, CancelRequests, EmitClose, senderVars
<1>6. CASE UNCHANGED <<conn, senderVars>>
  BY <1>6 DEF senderVars
<1>7. (ReceiverStep \/ UserRecv \/ UserDrop \/ PeerClose \/ UNCHANGED vars)
        => UNCHANGED <<conn, senderVars>>
  BY DEF ReceiverStep, ReadUserMsg, ReadReply, ReadMessage, SkipFrame, ReadEnd,
         Forward, ReceiverNotify, ReceiverClose, UserRecv, UserDrop, PeerClose,
         vars, connVars
<1>8. ASSUME NEW c, CallerStep(c) \/ Timeout(c)
      PROVE  UNCHANGED <<conn, senderVars>>
  BY <1>8 DEF CallerStep, Accept, Refuse, Return, Timeout, connVars
<1> QED
  BY <1>2, <1>3, <1>4, <1>5, <1>6, <1>7, <1>8 DEF Next, UserStep

(* Inside the loop, and up to its own Close, Connection::run finds a Sender  *)
(* that still takes messages: sender_hdl.send cannot fail, and select! keeps *)
(* a branch that is enabled.                                                 *)
THEOREM SenderOutlives == Spec => []SenderOutlivesLoop
<1>1. Init => SenderOutlivesLoop
  BY SomeIsNotNone DEF Init, SenderOutlivesLoop
<1> QED
  BY <1>1, TypeInit, TypeNext, SenderNext, PTL DEF Spec

-----------------------------------------------------------------------------
(* The cyclic wait of Connection and Sender. *)

(* No step of any task, caller, user or peer changes what the two tasks wait *)
(* for.                                                                      *)
LEMMA CyclicWaitNext == CyclicWait /\ [Next]_vars => CyclicWait'
<1> SUFFICES ASSUME CyclicWait, [Next]_vars PROVE CyclicWait'
  OBVIOUS
<1> USE DEF CyclicWait
<1>1. ~ConnStep \/ UNCHANGED <<conn, internal, senderVars>>
  BY DEF ConnStep, HandleEvent, HandleRequest, HandleClose, PassToSender,
         HandleInternalUserMsg, HandleInternalReply, HandleInternalClose, Emit,
         CloseReceiver, CloseSender, CancelRequests, EmitClose
<1>2. ~SenderStep
  BY DEF SenderStep, SenderTake, WriteOk, WriteLost, WriteClosed, SenderNotify,
         SenderClose, PassToConnection
<1>3. ReceiverStep \/ UserStep \/ PeerClose \/ UNCHANGED vars
        => UNCHANGED <<conn, internal, senderVars>>
  BY DEF ReceiverStep, ReadUserMsg, ReadReply, ReadMessage, SkipFrame, ReadEnd,
         Forward, ReceiverNotify, ReceiverClose, PassToConnection, UserStep,
         UserRecv, UserDrop, Complete, PeerClose, vars, connVars
<1>4. ASSUME NEW c, CallerStep(c) \/ Timeout(c)
      PROVE  UNCHANGED <<conn, internal, senderVars>>
  BY <1>4 DEF CallerStep, Accept, Refuse, Return, Timeout, connVars
<1> QED
  BY <1>1, <1>2, <1>3, <1>4 DEF Next, senderVars

(* Once the Connection waits for the Sender's channel and the Sender for the *)
(* Connection's, both wait forever, whatever the calls, the peer and the     *)
(* user do: the connection never closes and its requests are never canceled. *)
THEOREM CyclicWaitForever == Spec => CyclicWaitIsForever
<1>1. [Next]_vars => [CyclicWait => CyclicWait']_vars
  BY CyclicWaitNext
<1> QED
  BY <1>1, PTL DEF Spec, CyclicWaitIsForever

-----------------------------------------------------------------------------
(* No request is forgotten. *)

(* A request is in at most one place: nowhere before the channel accepts it, *)
(* then in the channel, then under one id in reply_map.  Once the requests   *)
(* are canceled reply_map is empty, and at the end the channel is too.       *)
InOnePlace ==
    /\ \A r \in Requests : call[r] = "sending" => rx # Some(r) /\ r \notin Pending
    /\ \A r \in Requests : rx = Some(r) => r \notin Pending
    /\ \A i, j \in Ids, r \in Requests :
            reply_map[i] = Some(r) /\ reply_map[j] = Some(r) => i = j
    /\ conn \in {"emit_close", "done"} => Pending = {}
    /\ conn = "done" => rx = None

(* A caller whose oneshot is open is in one of them. *)
WaitingIsKnown ==
    \A r \in Requests : call[r] = "waiting" /\ oneshot[r] = "open"
                            => rx = Some(r) \/ r \in Pending

RequestInv == InOnePlace /\ WaitingIsKnown

(* Every step keeps the request invariant. *)
LEMMA RequestNext == TypeInv /\ RequestInv /\ [Next]_vars => RequestInv'
<1> SUFFICES ASSUME TypeInv, RequestInv, [Next]_vars PROVE RequestInv'
  OBVIOUS
<1> USE DEF RequestInv, InOnePlace, WaitingIsKnown, Pending
<1>1. CASE UNCHANGED <<call, oneshot, rx, reply_map>> /\ (conn' = conn \/
            conn' \notin {"emit_close", "done"})
  BY <1>1
<1>2. CASE HandleEvent \/ HandleClose
  <2>1. /\ rx' = None
        /\ conn' \notin {"emit_close", "done"}
        /\ UNCHANGED <<call, oneshot, reply_map>>
    BY <1>2 DEF HandleEvent, HandleClose, callVars
  <2>2. \A r \in Requests : rx # Some(r)
    BY <1>2, SomeInjective, ConstantsAssumption DEF HandleEvent, HandleClose
  <2> QED
    BY <2>1, <2>2, SomeIsNotNone
<1>3. CASE HandleRequest
  <2>1. PICK r \in Requests : rx = Some(r) /\ SendRequest(r)
    BY <1>3 DEF HandleRequest
  <2>2. /\ rx' = None /\ UNCHANGED call
        /\ conn' \notin {"emit_close", "done"}
    BY <1>3, <2>1 DEF HandleRequest, SendRequest
  <2>3. r \notin Pending
    BY <2>1
  <2>4. \A q \in Requests : rx = Some(q) => q = r
    BY <2>1, SomeInjective
  <2>5. CASE reply_map[next_id] # None
    <3>1. reply_map' = reply_map /\ oneshot' = Resolve({r}, "Dropped")
      BY <2>1, <2>5 DEF SendRequest
    <3>2. \A q \in Requests : call[q] = "waiting" /\ oneshot'[q] = "open"
                                => q # r /\ oneshot[q] = "open"
      BY <3>1 DEF Resolve
    <3> QED
      BY <2>2, <2>4, <3>1, <3>2, SomeIsNotNone
  <2>6. CASE reply_map[next_id] = None
    <3>1. /\ reply_map' = [reply_map EXCEPT ![next_id] = Some(r)]
          /\ UNCHANGED oneshot
      BY <2>1, <2>6 DEF SendRequest
    <3>2. next_id \in Ids /\ reply_map \in [Ids -> Option(Requests)]
      BY DEF TypeInv, TypeOK
    <3>3. \A i \in Ids, q \in Requests :
             reply_map'[i] = Some(q) <=> \/ i = next_id /\ q = r
                                         \/ i # next_id /\ reply_map[i] = Some(q)
      BY <3>1, <3>2, SomeInjective
    <3>4. \A q \in Requests : q \in Pending' <=> q = r \/ q \in Pending
      BY <2>6, <3>2, <3>3, SomeIsNotNone
    <3>5. call[r] # "sending"
      BY <2>1
    <3>6. \A i, j \in Ids, q \in Requests :
             reply_map'[i] = Some(q) /\ reply_map'[j] = Some(q) => i = j
      BY <2>3, <3>3
    <3> HIDE DEF Pending
    <3> QED
      BY <2>2, <2>4, <3>1, <3>4, <3>5, <3>6, SomeIsNotNone
  <2> QED
    BY <2>5, <2>6
<1>4. CASE HandleInternalReply
  <2>1. PICK m \in ReplyMsg : HandleInternalReply!2!(m)
    BY <1>4 DEF HandleInternalReply
  <2>2. UNCHANGED <<call, rx, conn>>
    BY <1>4 DEF HandleInternalReply
  <2>3. CASE reply_map[m.id] = None
    BY <2>1, <2>2, <2>3
  <2>4. CASE reply_map[m.id] # None
    <3>1. m.id \in Ids /\ reply_map \in [Ids -> Option(Requests)]
      BY DEF ReplyMsg, TypeInv, TypeOK
    <3> DEFINE r == Get(reply_map[m.id])
    <3>2. r \in Requests /\ reply_map[m.id] = Some(r)
      BY <2>4, <3>1, OptionCases
    <3>3. /\ reply_map' = [reply_map EXCEPT ![m.id] = None]
          /\ oneshot' = Resolve({r}, "Ok")
      BY <2>1, <2>4
    <3>4. \A i \in Ids, q \in Requests :
             reply_map'[i] = Some(q) <=> i # m.id /\ reply_map[i] = Some(q)
      BY <3>1, <3>3, SomeIsNotNone
    <3>5. \A q \in Requests : q \in Pending' <=> q # r /\ q \in Pending
      BY <3>1, <3>2, <3>4, SomeInjective
    <3>6. \A q \in Requests : call[q] = "waiting" /\ oneshot'[q] = "open"
                                => q # r /\ oneshot[q] = "open"
      BY <3>3 DEF Resolve
    <3>7. \A i, j \in Ids, q \in Requests :
             reply_map'[i] = Some(q) /\ reply_map'[j] = Some(q) => i = j
      BY <3>4
    <3>8. Pending = {} => Pending' = {}
      BY <3>5
    <3> HIDE DEF r, Pending
    <3> QED
      BY <2>2, <3>5, <3>6, <3>7, <3>8
  <2> QED
    BY <2>3, <2>4
<1>5. CASE CancelRequests
  <2>1. /\ UNCHANGED <<call, rx>> /\ conn' = "emit_close"
        /\ reply_map' = [i \in Ids |-> None]
        /\ oneshot' = Resolve(Pending, "Canceled")
    BY <1>5 DEF CancelRequests
  <2>2. Pending' = {}
    BY <2>1, SomeIsNotNone
  <2>3. \A r \in Requests : call[r] = "waiting" /\ oneshot'[r] = "open"
                              => r \notin Pending /\ oneshot[r] = "open"
    BY <2>1 DEF Resolve
  <2>4. \A i \in Ids, r \in Requests : reply_map'[i] # Some(r)
    BY <2>1, SomeIsNotNone
  <2> HIDE DEF Pending
  <2> QED
    BY <2>1, <2>2, <2>3, <2>4
<1>6. CASE EmitClose
  <2>1. /\ UNCHANGED <<call, reply_map>> /\ conn = "emit_close" /\ rx' = None
        /\ oneshot' = Resolve({r \in Requests : rx = Some(r)}, "Dropped")
    BY <1>6 DEF EmitClose
  <2>2. \A r \in Requests : call[r] = "waiting" /\ oneshot'[r] = "open"
                              => rx # Some(r) /\ oneshot[r] = "open"
    BY <2>1 DEF Resolve
  <2> QED
    BY <2>1, <2>2, SomeIsNotNone
<1>7. ASSUME NEW c \in Calls, Accept(c) PROVE RequestInv'
  <2>1. /\ rx = None /\ rx' = Some(c) /\ call[c] = "sending"
        /\ conn # "done" /\ UNCHANGED <<oneshot, reply_map, conn>>
    BY <1>7 DEF Accept, connVars
  <2>2. \A r \in Requests :
            /\ call'[r] = "sending" => r # c /\ call[r] = "sending"
            /\ call'[r] = "waiting" => r = c \/ call[r] = "waiting"
    BY <1>7 DEF Accept, TypeInv, TypeOK, Calls
  <2>3. Pending' = Pending
    BY <2>1
  <2>4. \A r \in Requests : rx' = Some(r) <=> r = c
    BY <2>1, SomeInjective
  <2>5. c \in Requests => c \notin Pending
    BY <2>1
  <2> HIDE DEF Pending
  <2>6. InOnePlace'
    BY <2>1, <2>2, <2>3, <2>4, <2>5
  <2>7. WaitingIsKnown'
    BY <2>1, <2>2, <2>3, <2>4, SomeIsNotNone
  <2> QED
    BY <2>6, <2>7
<1>8. ASSUME NEW c \in Calls,
             Refuse(c) \/ (c \in Requests /\ Return(c)) \/ Timeout(c)
      PROVE  RequestInv'
  <2>1. UNCHANGED <<oneshot, rx, reply_map, conn>>
    BY <1>8 DEF Refuse, Return, Timeout, connVars
  <2>2. \A r \in Requests : call'[r] \in {"sending", "waiting"}
                              => call'[r] = call[r]
    BY <1>8 DEF Refuse, Return, Timeout, TypeInv, TypeOK, Calls
  <2> QED
    BY <2>1, <2>2
<1>9. CASE \/ PassToSender \/ HandleInternalUserMsg \/ HandleInternalClose
           \/ Emit \/ CloseReceiver \/ CloseSender
  BY <1>1, <1>9 DEF PassToSender, HandleInternalUserMsg, HandleInternalClose,
                    Emit, CloseReceiver, CloseSender, callVars
<1>10. CASE ReceiverStep \/ SenderStep
  BY <1>1, <1>10
     DEF ReceiverStep, ReadUserMsg, ReadReply, ReadMessage, SkipFrame, ReadEnd,
         Forward, ReceiverNotify, ReceiverClose, SenderStep, SenderTake,
         WriteOk, WriteLost, WriteClosed, SenderNotify, SenderClose,
         callVars, connVars
<1>11. CASE UserStep \/ PeerClose \/ UNCHANGED vars
  BY <1>1, <1>11
     DEF UserStep, UserRecv, UserDrop, Complete, PeerClose, vars,
         callVars, connVars
<1> QED
  BY <1>2, <1>3, <1>4, <1>5, <1>6, <1>7, <1>8, <1>9, <1>10, <1>11
     DEF Next, ConnStep, CallerStep, Calls

(* Every caller of request that waits is known to exactly one holder that    *)
(* will resolve it, the channel or one entry of reply_map, until run         *)
(* returns; after that none waits on an open oneshot.  It holds for every    *)
(* width of next_id, so also when an id comes round while it is in use.      *)
THEOREM RequestsAreKept == Spec => []NoRequestForgotten
<1>1. Init => RequestInv
  BY SomeIsNotNone
     DEF Init, RequestInv, InOnePlace, WaitingIsKnown, Pending, Calls
<1>2. RequestInv => NoRequestForgotten
  BY SomeIsNotNone
     DEF RequestInv, InOnePlace, WaitingIsKnown, NoRequestForgotten, Pending
<1> QED
  BY <1>1, <1>2, TypeInit, TypeNext, RequestNext, PTL DEF Spec

-----------------------------------------------------------------------------
(* The view that module Server takes of a connection. *)

(* What the view shows of the tasks of Connection. *)
ViewedRx == IF \E c \in Closers : rx = Some(c) THEN Some(CloseMsg) ELSE rx
ViewedConn ==
    CASE conn = "select" -> "run"
      [] conn = "send" -> "send"
      [] conn \in {"emit", "emit_close"} -> "emit"
      [] conn \in {"close_receiver", "close_sender", "cancel"} -> "close"
      [] OTHER -> "done"
ViewedMsg ==
    CASE conn = "emit" -> conn_msg
      [] conn = "emit_close" -> Some(CloseMsg)
      [] OTHER -> None
viewed == <<ViewedRx, ViewedConn, ViewedMsg, Pending>>

(* A step of Sender or Receiver and the telling of both to close are not     *)
(* seen in the view.                                                         *)
LEMMA UnseenStep ==
    ASSUME UNCHANGED <<callVars, viewed, event_rx, user>>
    PROVE  UNCHANGED View!viewVars
  BY DEF viewed, ViewedRx, ViewedConn, ViewedMsg, callVars, View!viewVars,
         View!oneshots, View!events, View!None, View!Some, View!CloseMsg,
         None, Some, CloseMsg

(* The loop takes a call from the handle's channel. *)
LEMMA ViewedTake ==
    ASSUME TypeInv, RequestInv, HandleRequest \/ HandleEvent \/ HandleClose
    PROVE  View!Take
<1>1. /\ ViewedConn = "run" /\ ViewedRx' = None /\ rx' = None
      /\ UNCHANGED <<call, event_rx, user>> /\ ViewedMsg = None /\ ViewedMsg' = None
  BY SomeIsNotNone
     DEF HandleRequest, SendRequest, HandleEvent, HandleClose, callVars, userVars,
         ViewedConn, ViewedRx, ViewedMsg
<1>2. \/ \E r \in Requests :
            /\ ViewedRx = Some(r)
            /\ \/ /\ Pending' = Pending \cup {r} /\ ViewedConn' = "send"
                  /\ UNCHANGED oneshot
               \/ /\ Pending # {} /\ oneshot' = Resolve({r}, "Dropped")
                  /\ UNCHANGED <<Pending, ViewedConn>>
      \/ \E e \in Events : /\ ViewedRx = Some(e) /\ ViewedConn' = "send"
                            /\ UNCHANGED <<oneshot, Pending>>
      \/ /\ ViewedRx = Some(CloseMsg) /\ ViewedConn' = "close"
         /\ UNCHANGED <<oneshot, Pending>>
  <2>1. CASE HandleRequest
    <3>1. PICK r \in Requests : rx = Some(r) /\ SendRequest(r)
      BY <2>1 DEF HandleRequest
    <3>2. ViewedRx = Some(r)
      BY <3>1, SomeInjective, ConstantsAssumption DEF ViewedRx
    <3>3. next_id \in Ids /\ reply_map \in [Ids -> Option(Requests)]
      BY DEF TypeInv, TypeOK
    <3>4. CASE reply_map[next_id] # None
      <4>1. UNCHANGED ViewedConn
        BY <2>1, <3>1, <3>4 DEF HandleRequest, SendRequest, ViewedConn
      <4>2. Pending # {}
        <5>1. PICK q \in Requests : reply_map[next_id] = Some(q)
          BY <3>3, <3>4, OptionCases
        <5> QED
          BY <3>3, <5>1 DEF Pending
      <4> QED
        BY <3>1, <3>2, <3>4, <4>1, <4>2 DEF SendRequest, Pending
    <3>5. CASE reply_map[next_id] = None
      <4>1. /\ reply_map' = [reply_map EXCEPT ![next_id] = Some(r)]
            /\ ViewedConn' = "send" /\ UNCHANGED oneshot
        BY <3>1, <3>5 DEF SendRequest, ViewedConn
      <4>3. \A i \in Ids, q \in Requests :
               reply_map'[i] = Some(q) <=>
                    \/ i = next_id /\ q = r
                    \/ i # next_id /\ reply_map[i] = Some(q)
        BY <3>3, <4>1, SomeInjective
      <4>4. Pending' = Pending \cup {r}
        BY <3>3, <3>5, <4>3, SomeIsNotNone DEF Pending
      <4> QED
        BY <3>2, <4>1, <4>4
    <3> QED
      BY <3>4, <3>5
  <2>2. CASE HandleEvent
    <3>1. PICK e \in Events : rx = Some(e)
      BY <2>2 DEF HandleEvent
    <3>2. ViewedRx = Some(e)
      BY <3>1, SomeInjective, ConstantsAssumption DEF ViewedRx
    <3> QED
      BY <2>2, <3>2 DEF HandleEvent, callVars, ViewedConn, Pending
  <2>3. CASE HandleClose
    BY <2>3 DEF HandleClose, callVars, ViewedRx, ViewedConn, Pending
  <2> QED
    BY <2>1, <2>2, <2>3
<1> QED
  BY <1>1, <1>2
     DEF ViewedRx, ViewedConn, ViewedMsg, Resolve, View!Take, View!Resolve,
         View!events, View!None, View!Some, View!CloseMsg, None, Some, CloseMsg

(* The Sender has room for the message of the loop. *)
LEMMA ViewedSent ==
    ASSUME PassToSender
    PROVE  View!Sent
<1>1. /\ ViewedConn = "send" /\ ViewedConn' = "run"
      /\ UNCHANGED <<call, oneshot, ViewedRx, ViewedMsg, Pending, event_rx, user>>
  BY DEF PassToSender, callVars, userVars, ViewedConn, ViewedRx, ViewedMsg, Pending
<1> QED
  BY <1>1
     DEF ViewedRx, ViewedConn, ViewedMsg, View!Sent, View!oneshots,
         View!events, View!None, View!Some, View!CloseMsg, None, Some, CloseMsg

(* A reply resolves the one request that its entry of reply_map holds; a     *)
(* reply without an entry is not seen.                                       *)
LEMMA ViewedReply ==
    ASSUME TypeInv, RequestInv, HandleInternalReply
    PROVE  View!Reply \/ UNCHANGED View!viewVars
<1>1. /\ ViewedConn = "run"
      /\ UNCHANGED <<ViewedConn, ViewedRx, ViewedMsg, call, event_rx, user>>
  BY DEF HandleInternalReply, ViewedConn, ViewedRx, ViewedMsg, userVars
<1>2. PICK m \in ReplyMsg : HandleInternalReply!2!(m)
  BY DEF HandleInternalReply
<1>3. CASE reply_map[m.id] = None
  BY <1>1, <1>2, <1>3, UnseenStep DEF viewed, Pending, callVars
<1>4. CASE reply_map[m.id] # None
  <2>1. m.id \in Ids /\ reply_map \in [Ids -> Option(Requests)]
    BY DEF ReplyMsg, TypeInv, TypeOK
  <2>2. PICK r \in Requests : reply_map[m.id] = Some(r) /\ Get(reply_map[m.id]) = r
    BY <1>4, <2>1, OptionCases
  <2>3. /\ reply_map' = [reply_map EXCEPT ![m.id] = None]
        /\ oneshot' = Resolve({r}, "Ok")
    BY <1>2, <1>4, <2>2
  <2>4. \A i \in Ids, q \in Requests :
           reply_map'[i] = Some(q) <=> i # m.id /\ reply_map[i] = Some(q)
    BY <2>1, <2>3, SomeIsNotNone
  <2>5. r \in Pending /\ Pending' = Pending \ {r}
    BY <2>1, <2>2, <2>4, SomeInjective DEF RequestInv, InOnePlace, Pending
  <2> QED
    BY <1>1, <2>3, <2>5
       DEF ViewedRx, ViewedConn, ViewedMsg, Resolve, View!Reply, View!Resolve,
           View!events, View!None, View!Some, View!CloseMsg, None, Some, CloseMsg
<1> QED
  BY <1>3, <1>4

(* The loop takes a message of the peer for the user, or learns that the     *)
(* websocket has closed.                                                     *)
LEMMA ViewedRead ==
    ASSUME TypeInv, HandleInternalUserMsg \/ HandleInternalClose
    PROVE  View!Read \/ View!PeerClose
<1>1. /\ ViewedConn = "run" /\ ViewedMsg = None
      /\ UNCHANGED <<ViewedRx, Pending, call, oneshot, event_rx, user>>
  BY DEF HandleInternalUserMsg, HandleInternalClose, callVars, userVars, Pending,
         ViewedConn, ViewedMsg, ViewedRx
<1>2. CASE HandleInternalUserMsg
  <2>1. ViewedConn' = "emit" /\ \E m \in UserMsg : ViewedMsg' = Some(m)
    BY <1>2 DEF HandleInternalUserMsg, ViewedConn, ViewedMsg
  <2> QED
    BY <1>1, <2>1
       DEF ViewedRx, ViewedConn, ViewedMsg, View!Read, View!oneshots,
           View!events, View!None, View!Some, View!CloseMsg, None, Some, CloseMsg
<1>3. CASE HandleInternalClose
  <2>1. ViewedConn' = "close" /\ ViewedMsg' = None
    BY <1>3 DEF HandleInternalClose, ViewedConn, ViewedMsg
  <2> QED
    BY <1>1, <2>1
       DEF ViewedRx, ViewedConn, ViewedMsg, View!PeerClose, View!oneshots,
           View!events, View!None, View!Some, View!CloseMsg, None, Some, CloseMsg
<1> QED
  BY <1>2, <1>3

(* cancel_requests resolves every request that awaits a reply, before the    *)
(* event Close is sent.                                                      *)
LEMMA ViewedClose ==
    ASSUME CancelRequests
    PROVE  View!Close
<1>1. /\ ViewedConn = "close" /\ ViewedConn' = "emit"
      /\ ViewedMsg' = Some(CloseMsg)
      /\ oneshot' = Resolve(Pending, "Canceled")
      /\ UNCHANGED <<ViewedRx, call, event_rx, user>>
  BY DEF CancelRequests, userVars, ViewedConn, ViewedMsg, ViewedRx
<1>2. Pending' = {}
  BY SomeIsNotNone DEF CancelRequests, Pending
<1> QED
  BY <1>1, <1>2
     DEF ViewedRx, ViewedConn, ViewedMsg, Resolve, View!Close, View!Resolve,
         View!events, View!None, View!Some, View!CloseMsg, None, Some, CloseMsg

(* An event reaches the user, or the user is gone and the loop ends; after   *)
(* Close run returns and the request left in the channel is dropped.         *)
LEMMA ViewedEmit ==
    ASSUME TypeInv, Emit \/ EmitClose
    PROVE  View!Emit
<1>1. ViewedConn = "emit" /\ ViewedMsg' = None /\ UNCHANGED <<call, Pending, user>>
  BY DEF Emit, EmitClose, callVars, ViewedConn, ViewedMsg, Pending
<1>2. \/ /\ user = "listening" /\ Len(event_rx) < EventCap
         /\ event_rx' = event_rx \o ViewedMsg
      \/ user = "gone" /\ UNCHANGED event_rx
  <2>1. ASSUME NEW m \in UserMsg \cup {CloseMsg}
        PROVE  Append(event_rx, m) = event_rx \o << m >>
    <3>1. event_rx \in Seq(UserMsg \cup {CloseMsg})
      BY DEF TypeInv, TypeOK
    <3> QED
      BY <3>1
  <2>2. CASE Emit
    <3>1. Get(conn_msg) \in UserMsg /\ ViewedMsg = << Get(conn_msg) >>
      BY <2>2, OptionCases
         DEF Emit, ViewedMsg, TypeInv, TypeOK, Carried, Some
    <3> QED
      BY <2>1, <2>2, <3>1 DEF Emit
  <2>3. CASE EmitClose
    BY <2>1, <2>3 DEF EmitClose, ViewedMsg, Some
  <2> QED
    BY <2>2, <2>3
<1>3. \/ /\ ViewedMsg = Some(CloseMsg)
         /\ ViewedConn' = "done" /\ ViewedRx' = None
         /\ oneshot' = Resolve({r \in Requests : ViewedRx = Some(r)}, "Dropped")
      \/ /\ ViewedMsg # Some(CloseMsg)
         /\ ViewedConn' = IF user = "listening" THEN "run" ELSE "close"
         /\ UNCHANGED <<ViewedRx, oneshot>>
  <2>1. CASE Emit
    <3>1. Get(conn_msg) \in UserMsg /\ ViewedMsg = Some(Get(conn_msg))
      BY <2>1, OptionCases DEF Emit, ViewedMsg, TypeInv, TypeOK, Carried
    <3>2. CloseMsg \notin UserMsg
      BY DEF CloseMsg, UserMsg
    <3>3. ViewedMsg # Some(CloseMsg)
      BY <3>1, <3>2, SomeInjective
    <3>4. ViewedConn' = IF user = "listening" THEN "run" ELSE "close"
      BY <2>1 DEF Emit, ViewedConn
    <3> QED
      BY <2>1, <3>3, <3>4 DEF Emit, ViewedRx, callVars
  <2>2. CASE EmitClose
    <3>1. ViewedMsg = Some(CloseMsg) /\ ViewedConn' = "done" /\ ViewedRx' = None
      BY <2>2, SomeIsNotNone DEF EmitClose, ViewedMsg, ViewedConn, ViewedRx
    <3>2. \A r \in Requests : rx = Some(r) <=> ViewedRx = Some(r)
      BY SomeInjective, ConstantsAssumption DEF ViewedRx
    <3>3. oneshot' = Resolve({r \in Requests : ViewedRx = Some(r)}, "Dropped")
      BY <2>2, <3>2 DEF EmitClose
    <3> QED
      BY <3>1, <3>3
  <2> QED
    BY <2>1, <2>2
<1> QED
  BY <1>1, <1>2, <1>3
     DEF ViewedRx, ViewedConn, ViewedMsg, Resolve, View!Emit, View!Resolve,
         View!None, View!Some, View!CloseMsg, None, Some, CloseMsg

(* A caller sends, returns or gives up; the user takes an event or drops the *)
(* receiver.                                                                 *)
LEMMA ViewedOutside ==
    ASSUME TypeInv,
           \/ \E c \in Calls : CallerStep(c)
           \/ \E r \in Requests : Timeout(r)
           \/ UserRecv \/ UserDrop
    PROVE  View!Outside
<1>1. UNCHANGED <<ViewedConn, ViewedMsg, Pending, oneshot>>
  BY DEF CallerStep, Accept, Refuse, Return, Timeout, UserRecv, UserDrop,
         callVars, connVars, ViewedConn, ViewedMsg, Pending
<1>2. \/ UNCHANGED ViewedRx
      \/ ViewedConn # "done" /\ ViewedRx = None /\ ViewedRx' # None
  <2>1. ASSUME NEW c \in Calls, Accept(c)
        PROVE  ViewedConn # "done" /\ ViewedRx = None /\ ViewedRx' # None
    BY <2>1, SomeIsNotNone
       DEF Accept, ViewedConn, ViewedRx, TypeInv, TypeOK, ConnStates
  <2> QED
    BY <2>1 DEF CallerStep, Refuse, Return, Timeout, UserRecv, UserDrop, ViewedRx
<1>3. \/ UNCHANGED <<event_rx, user>>
      \/ event_rx # << >> /\ event_rx' = Tail(event_rx) /\ UNCHANGED user
      \/ user = "listening" /\ user' = "gone" /\ event_rx' = << >>
  BY DEF CallerStep, Accept, Refuse, Return, Timeout, UserRecv, UserDrop, userVars
<1> QED
  BY <1>1, <1>2, <1>3
     DEF ViewedRx, ViewedConn, ViewedMsg, View!Outside, View!events,
         View!None, View!Some, View!CloseMsg, None, Some, CloseMsg

(* The tasks of a connection implement ConnectionView: what they do is, seen *)
(* from the handle, the oneshots and the event channel, a step of the view   *)
(* or nothing.  Module Server has every such step (ViewStepsAreServed of     *)
(* ServerCallProofs).                                                        *)
THEOREM ViewIsImplemented == Spec => ImplementsView
<1>1. Init => View!ViewInit
  BY SomeIsNotNone
     DEF Init, Pending, View!ViewInit, View!None, View!Some, View!CloseMsg, None,
         Some, CloseMsg
<1>2. TypeInv /\ RequestInv /\ [Next]_vars => [View!ViewNext]_(View!viewVars)
  <2> SUFFICES ASSUME TypeInv, RequestInv, [Next]_vars
               PROVE  View!ViewNext \/ UNCHANGED View!viewVars
    OBVIOUS
  <2>1. CASE ConnStep
    <3>1. CASE CloseReceiver \/ CloseSender
      <4>1. UNCHANGED viewed
        BY <3>1 DEF CloseReceiver, CloseSender, viewed, ViewedRx, ViewedConn,
                    ViewedMsg, Pending
      <4> QED
        BY <3>1, <4>1, UnseenStep DEF CloseReceiver, CloseSender, userVars
    <3>2. CASE HandleRequest \/ HandleEvent \/ HandleClose
      BY <3>2, ViewedTake DEF View!ViewNext
    <3>3. CASE PassToSender
      BY <3>3, ViewedSent DEF View!ViewNext
    <3>4. CASE HandleInternalReply
      BY <3>4, ViewedReply DEF View!ViewNext
    <3>5. CASE HandleInternalUserMsg \/ HandleInternalClose
      BY <3>5, ViewedRead DEF View!ViewNext
    <3>6. CASE CancelRequests
      BY <3>6, ViewedClose DEF View!ViewNext
    <3>7. CASE Emit \/ EmitClose
      BY <3>7, ViewedEmit DEF View!ViewNext
    <3> QED
      BY <2>1, <3>1, <3>2, <3>3, <3>4, <3>5, <3>6, <3>7 DEF ConnStep
  <2>2. CASE \/ ReceiverStep \/ SenderStep \/ PeerClose \/ UNCHANGED vars
             \/ \E k \in handles : Complete(k)
    <3>1. UNCHANGED <<callVars, rx, connVars, event_rx, user>>
      BY <2>2
         DEF ReceiverStep, ReadUserMsg, ReadReply, ReadMessage, SkipFrame,
             ReadEnd, Forward, ReceiverNotify, ReceiverClose, SenderStep,
             SenderTake, WriteOk, WriteLost, WriteClosed, SenderNotify,
             SenderClose, PeerClose, Complete, userVars, vars
    <3>2. UNCHANGED viewed
      BY <3>1 DEF connVars, viewed, ViewedRx, ViewedConn, ViewedMsg, Pending
    <3> QED
      BY <3>1, <3>2, UnseenStep
  <2>3. CASE \/ \E c \in Calls : CallerStep(c)
             \/ \E r \in Requests : Timeout(r)
             \/ UserRecv \/ UserDrop
    BY <2>3, ViewedOutside DEF View!ViewNext
  <2> QED
    BY <2>1, <2>2, <2>3 DEF Next, UserStep
<1>3. Init => RequestInv
  BY SomeIsNotNone
     DEF Init, RequestInv, InOnePlace, WaitingIsKnown, Pending, Calls
<1> QED
  BY <1>1, <1>2, <1>3, TypeInit, TypeNext, RequestNext, PTL
     DEF Spec, ImplementsView, View!ViewSpec
=============================================================================
