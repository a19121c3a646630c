------------------------------ MODULE MCServer ------------------------------
EXTENDS Server

CONSTANTS s1

(* Each stream comes from an address of its own, named like the stream. *)
OwnAddr == [s \in Streams |-> s]

(* The clients come from one address, one after the other. *)
OneAddr == [s \in Streams |-> s1]

(* Every call of the handle is about the first client. *)
ToFirst == [c \in Requests \cup Events |-> s1]
=============================================================================
