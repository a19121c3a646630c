------------------------------ MODULE Channel ------------------------------
(***************************************************************************)
(* Values shared by the modules of the project.                            *)
(*                                                                         *)
(* Every channel between two tasks of the library is a tokio               *)
(* mpsc::channel(1): it is empty or holds one message.  A value that may   *)
(* be absent (a slot of a HashMap, the message a task carries across an    *)
(* await) has the same shape, so one definition serves both.               *)
(***************************************************************************)

None == << >>

Some(m) == << m >>

Option(S) == {None} \cup {Some(m) : m \in S}

(* The one message of a channel that is not empty. *)
Get(c) == c[1]

(* The Close variant of ConnectionMessage, InternalMessage, SenderMessage, *)
(* ReceiverMessage and ConnectionEvent.                                     *)
CloseMsg == [kind |-> "Close"]
=============================================================================
