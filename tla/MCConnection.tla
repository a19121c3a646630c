---------------------------- MODULE MCConnection ----------------------------
EXTENDS Connection, TLC

(* Requests that behave alike may be exchanged, and so may events. *)
Symmetry == Permutations(Requests) \cup Permutations(Events)
=============================================================================
