-------------------------- MODULE MCResourceNames --------------------------
(* An instance of ResourceService with its name history, for TLC. *)
EXTENDS MCResourceService, NameHistory
=============================================================================
