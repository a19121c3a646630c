---------------------------- MODULE MCEchoServer ----------------------------
EXTENDS EchoServer

(* Each stream comes from an address of its own, named like the stream. *)
OwnAddr == [s \in Streams |-> s]

(* An echo goes to the address its message came from. *)
ToSender == [c \in Echoes |-> AddrOf[c.from]]
=============================================================================
