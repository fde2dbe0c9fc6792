--------------------------- MODULE MCUpstreamPool ---------------------------
(***************************************************************************)
(* Small instances of UpstreamPool for TLC.                                *)
(***************************************************************************)
EXTENDS UpstreamPool
=============================================================================
