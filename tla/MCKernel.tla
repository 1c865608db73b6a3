------------------------------ MODULE MCKernel ------------------------------
(* Small instances of Kernel for TLC. *)
EXTENDS Kernel, TLC

CONSTANT UserLock

\* Every condition variable is used with the one lock of the instance.
MCCondLock == [c \in Cond |-> UserLock]

\* The pages a thread can be created in are interchangeable.
ThreadSymmetry == Permutations(Thread)
=============================================================================
