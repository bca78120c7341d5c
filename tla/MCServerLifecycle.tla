------------------------- MODULE MCServerLifecycle -------------------------
(* Instances of ServerLifecycle for TLC. *)
EXTENDS ServerLifecycle

CONSTANTS r1, r2

TwoRequests == {r1, r2}
=============================================================================
