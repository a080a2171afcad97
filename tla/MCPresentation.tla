-------------------------- MODULE MCPresentation --------------------------
(* The presenters with one window that comes and goes. *)
EXTENDS Presentation
=============================================================================
