-------------------------- MODULE MCDungeonService --------------------------
(***************************************************************************)
(* Small instances of DungeonService for TLC.                              *)
(***************************************************************************)
EXTENDS DungeonService, TLC

\* Servers are interchangeable where no liveness is checked.
ServerSymmetry == Permutations(Servers)
=============================================================================
