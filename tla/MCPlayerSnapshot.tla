--------------------------- MODULE MCPlayerSnapshot ---------------------------
(***************************************************************************)
(* Small instances of PlayerSnapshot for TLC.                              *)
(***************************************************************************)
EXTENDS PlayerSnapshot, TLC

ReaderSymmetry == Permutations(Readers)
=============================================================================
