--------------------------- MODULE RequestPromise ---------------------------
(***************************************************************************)
(* What ConnectionHdl::request and request_timeout promise their callers,  *)
(* without the tasks and channels that keep the promise.                   *)
(*                                                                         *)
(* A request leaves on the wire at most once.  Its call ends at most once, *)
(* and the outcome tells the caller something about the wire: Ok is given  *)
(* only to a request that was transmitted; SendError and RecvError only to *)
(* one that was not and never will be, so that it is safe to repeat;       *)
(* Canceled and Timeout leave both open.                                   *)
(***************************************************************************)
CONSTANT Requests

VARIABLES
    status,         \* "pending", or the outcome the caller has seen
    transmitted     \* the requests that were written to the websocket

promiseVars == <<status, transmitted>>

NeverSent == {"SendError", "RecvError"}
Outcomes == NeverSent \cup {"Ok", "Canceled", "Timeout"}

PromiseInit ==
    /\ status = [r \in Requests |-> "pending"]
    /\ transmitted = {}

Transmit(r) ==
    /\ r \notin transmitted
    /\ status[r] \notin NeverSent
    /\ transmitted' = transmitted \cup {r}
    /\ UNCHANGED status

Finish(r, outcome) ==
    /\ status[r] = "pending"
    /\ outcome = "Ok" => r \in transmitted
    /\ outcome \in NeverSent => r \notin transmitted
    /\ status' = [status EXCEPT ![r] = outcome]
    /\ UNCHANGED transmitted

PromiseNext ==
    \E r \in Requests :
        \/ Transmit(r)
        \/ \E outcome \in Outcomes : Finish(r, outcome)

PromiseSpec == PromiseInit /\ [][PromiseNext]_promiseVars
=============================================================================
