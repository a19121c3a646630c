------------------------------- MODULE MCLink -------------------------------
EXTENDS Link

CONSTANTS e1, e2, r1, f1, f2, f3, c1

(* A sends events, then asks; B sends events, then closes. *)
TellAsk == <<e1, e2, r1>>
TellClose == <<f1, f2, f3, c1>>
=============================================================================
