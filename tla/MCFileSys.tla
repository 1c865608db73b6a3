------------------------------ MODULE MCFileSys ------------------------------
(* Instances of FileSys for TLC. *)
EXTENDS FileSys, TLC

Symmetric == Permutations(Name)
=============================================================================
