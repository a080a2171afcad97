---------------------------- MODULE MCServices ----------------------------
(* Two threads call; a DS and a 3DS game; two jobs; three contents of a file. *)
EXTENDS Services
=============================================================================
