---------------------------- MODULE MCConnector -----------------------------
(* Three records at the start, to which two may come. *)
EXTENDS Connector

MCFirst == <<"a", "b", "c">>
=============================================================================
