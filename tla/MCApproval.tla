------------------------------ MODULE MCApproval ------------------------------
(***************************************************************************)
(* TLC's instances of ApprovalLifecycle.                                   *)
(***************************************************************************)
EXTENDS ApprovalLifecycle, TLC

\* Handlers are interchangeable.
HandlerSymmetry == Permutations(Workers)
===============================================================================
