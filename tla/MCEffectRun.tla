---------------------------- MODULE MCEffectRun ----------------------------
(* A small instance of EffectRun: two processes, two keys and one other node. *)
EXTENDS EffectRun
=============================================================================
