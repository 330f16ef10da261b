----------------------------- MODULE MCGateway -------------------------------
(* Small instances of Gateway. *)
EXTENDS Gateway
=============================================================================
