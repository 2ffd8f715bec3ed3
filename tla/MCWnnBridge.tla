---------------------------- MODULE MCWnnBridge ----------------------------
(* A ring of four slots, three of them usable, and three payloads. *)
EXTENDS WnnBridge

CONSTANTS p1, p2, p3

MCPayload == {p1, p2, p3}
=============================================================================
