----------------------------- MODULE EchoServer -----------------------------
(***************************************************************************)
(* A server whose user drains the events and calls the handle in one task, *)
(* as main of examples/echo_server.rs does: it asks for the listen address *)
(* before it drains anything, then sends each event of a client back to    *)
(* it and completes each request with what it asked.  While main awaits a  *)
(* call or a completion it drains nothing, unlike the user of module       *)
(* Server.  Main never closes the server and never drops its end, so the   *)
(* server never ends and no call of main fails.                            *)
(*                                                                         *)
(* Another task may hold a clone of the handle and ask for the clients.    *)
(***************************************************************************)
EXTENDS Server

CONSTANTS
    AddrCall,       \* main's call of get_listen_address
    Asked           \* the messages of a client that are requests, by number

(* The call that echoes the n-th message of a stream. *)
Echo(s, n) == [kind |-> "Echo", from |-> s, n |-> n]
Echoes == {Echo(s, n) : s \in Streams, n \in 1 .. MaxMessages}

(* RequestHandle::complete for the n-th message of a stream: the reply goes *)
(* straight to the Sender of its connection.                                *)
Completion(s, n) == [kind |-> "Complete", from |-> s, n |-> n]
Completions == {Completion(s, n) : s \in Streams, n \in 1 .. MaxMessages}

ASSUME EchoAssumption ==
    /\ Asked \subseteq 1 .. MaxMessages
    /\ AddrCalls = {AddrCall}
    /\ Events = Echoes
    /\ To = [c \in Echoes |-> AddrOf[c.from]]
    /\ Requests = {} /\ Closers = {}
    /\ Calls \cap Completions = {}

VARIABLES
    awaiting,       \* what main awaits; None when it is at rx.recv()
    echoed          \* history: echoes each connection has taken to write

echoVars == <<vars, awaiting, echoed>>

EchoInit ==
    /\ Init
    /\ awaiting = Some(AddrCall)
    /\ echoed = [s \in Streams |-> << >>]

(* server_hdl.get_listen_address().await or server_hdl.event(..).await. *)
MainCall ==
    /\ awaiting # None
    /\ LET c == Get(awaiting) IN
        /\ c \in Calls
        /\ CallerStep(c)
        /\ awaiting' = IF call'[c] = "waiting" THEN awaiting ELSE None
    /\ UNCHANGED echoed

(* What main does about an event of the server, as a set of at most one:    *)
(* an event of a client is sent back to it, a request completed.            *)
Due(m) == {c \in Echoes \cup Completions :
                /\ m = ConnectionEvent(c.from, Message(c.n))
                /\ (c.kind = "Complete") <=> (c.n \in Asked)}

(* The body of the loop up to its await. *)
MainRecv ==
    /\ awaiting = None
    /\ UserRecv
    /\ \/ \E c \in Due(Head(tx)) : awaiting' = Some(c)
       \/ Due(Head(tx)) = {} /\ UNCHANGED awaiting
    /\ UNCHANGED echoed

Completing == awaiting \in {Some(c) : c \in Completions}

(* complete(..).await returns: the Sender had room, or is gone, which main  *)
(* only logs.                                                               *)
MainCompleted ==
    /\ Completing
    /\ awaiting' = None
    /\ UNCHANGED <<vars, echoed>>

(* A connection takes an echo from its channel. *)
Take(s) ==
    /\ ConnTake(s)
    /\ echoed' = [echoed EXCEPT ![s] = Append(@, Get(conn_rx[s]).n)]
    /\ UNCHANGED awaiting

MainStep == MainCall \/ MainRecv

OtherStep ==
    /\ \/ ServerStep \/ ListenerStep \/ AcceptorStep \/ ClientStep
       \/ \E s \in Streams : ConnEmit(s) \/ PasserStep(s)
       \/ \E c \in ClientCalls : CallerStep(c)
    /\ UNCHANGED <<awaiting, echoed>>

EchoNext == MainStep \/ MainCompleted \/ OtherStep \/ \E s \in Streams : Take(s)

(* The fairness of module Server, with main as the one task it is.  A       *)
(* completion ends only if the client reads, which is not assumed.          *)
EchoFairness ==
    /\ WF_echoVars(MainStep)
    /\ WF_echoVars(ServerStep /\ UNCHANGED <<awaiting, echoed>>)
    /\ WF_echoVars(ListenerStep /\ UNCHANGED <<awaiting, echoed>>)
    /\ WF_echoVars(AcceptorStep /\ UNCHANGED <<awaiting, echoed>>)
    /\ \A s \in Streams :
        /\ WF_echoVars(\/ Take(s)
                       \/ ConnEmit(s) /\ UNCHANGED <<awaiting, echoed>>)
        /\ WF_echoVars(PasserStep(s) /\ UNCHANGED <<awaiting, echoed>>)

EchoSpec == EchoInit /\ [][EchoNext]_echoVars /\ EchoFairness

-----------------------------------------------------------------------------
(* Properties. *)

(* The echoes a client gets are its events in the order it sent them, none   *)
(* twice, and without a gap once the first has come: an event may overtake   *)
(* the NewConnection of its client and find no entry to be echoed to, but    *)
(* after one echo all others follow until the connection closes.             *)
EchoesWithoutGap ==
    \A s \in Streams :
        LET q == echoed[s] IN
            \A i \in 1 .. Len(q) - 1 :
                /\ q[i] < q[i + 1]
                /\ (q[i] + 1) .. (q[i + 1] - 1) \subseteq Asked

(* Main awaits a call that the server cannot take or answer, because the     *)
(* server waits for main to drain the events.                                *)
EchoWait ==
    /\ awaiting # None
    /\ LET c == Get(awaiting) IN
        /\ c \in Calls
        /\ \/ call[c] = "sending" /\ rx # None
           \/ call[c] = "waiting" /\ oneshot[c] = "open"
    /\ server = "event"
    /\ Len(tx) = EventCap

(* Neither main nor the server, nor any other task, ends that wait. *)
EchoWaitIsForever == [][EchoWait => EchoWait']_echoVars

(* Main keeps getting back to draining, unless it and the server wait for    *)
(* each other, the server and a connection do, or a Sender whose client does *)
(* not read is never done with what main or the server waits for it to take. *)
(* It takes three clients to keep the Listener from telling the address      *)
(* (HandshakeWait of module Server).                                         *)
MainReturns ==
    \/ []<>(awaiting = None \/ EchoWait \/ ServerWait)
    \/ <>[](Completing \/ StallWait)
=============================================================================
