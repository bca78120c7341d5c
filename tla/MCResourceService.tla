------------------------- MODULE MCResourceService -------------------------
(* Instances of ResourceService for TLC. *)
EXTENDS ResourceService, TLC

CONSTANTS h1, h2, n1, n2, d1, d2

\* Two requests that share nothing, and one with a blank name.
ThreePayloads == {Payload(n1, d1), Payload(n2, d2), Payload(Blank, d1)}
TwoPayloads == {Payload(n1, d1), Payload(Blank, d2)}

HandlerSymmetry == Permutations(Handlers)
=============================================================================
