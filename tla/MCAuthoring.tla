---------------------------- MODULE MCAuthoring ----------------------------
(* Small instances of Authoring.                                               *)
EXTENDS Authoring
=============================================================================
