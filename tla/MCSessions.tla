----------------------------- MODULE MCSessions ------------------------------
(* Small instances of Sessions. *)
EXTENDS Sessions
=============================================================================
