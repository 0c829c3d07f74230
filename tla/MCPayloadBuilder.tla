-------------------------- MODULE MCPayloadBuilder --------------------------
(* A finite instance of PayloadBuilder: two heads, of which the second is   *)
(* as late as the timestamp that is asked for, so no payload follows it.    *)
EXTENDS PayloadBuilder

CONSTANTS h1, h2

MCTime == [h \in Heads |-> IF h = h1 THEN 0 ELSE 1]
=============================================================================
