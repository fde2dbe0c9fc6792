------------------------------ MODULE MCGateway ------------------------------
(***************************************************************************)
(* Small instances of Gateway for TLC.                                     *)
(***************************************************************************)
EXTENDS Gateway, TLC

GatewaySymmetry == Permutations(Accounts) \union Permutations(Connections)
=============================================================================
