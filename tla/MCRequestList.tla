--------------------------- MODULE MCRequestList ---------------------------
(* An instance of RequestList for TLC. *)
EXTENDS RequestList

CONSTANTS c1, c2, p1, f1

=============================================================================
