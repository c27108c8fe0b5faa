----------------------------- MODULE MCPreload ------------------------------
(* Preload for TLC. *)
EXTENDS Preload

=============================================================================
