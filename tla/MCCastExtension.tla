-------------------------- MODULE MCCastExtension --------------------------
(* Instances of CastExtension for TLC. *)
EXTENDS CastExtension
=============================================================================
