----------------------------- MODULE MCProcess -----------------------------
(* Instances of Process for TLC. *)
EXTENDS Process, TLC

CONSTANTS p1, p2, p3

\* Processes that have not been created are interchangeable.
Symmetry == Permutations(Proc)
=============================================================================
