------------------------------ MODULE MCRunLease ------------------------------
(***************************************************************************)
(* TLC's instances of RunLease.                                            *)
(***************************************************************************)
EXTENDS RunLease, TLC

\* Owner ids are interchangeable.
RuntimeSymmetry == Permutations(Runtimes)
===============================================================================
