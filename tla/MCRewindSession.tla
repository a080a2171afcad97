--------------------------- MODULE MCRewindSession --------------------------
(* RewindSession with two games and a snapshot every frame. *)
EXTENDS RewindSession
=============================================================================
