----------------------------- MODULE MCDbClients -----------------------------
(***************************************************************************)
(* Small instances of DbClients for TLC.                                   *)
(***************************************************************************)
EXTENDS DbClients
=============================================================================
