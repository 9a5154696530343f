------------------------------ MODULE MCChangeSet ------------------------------
(***************************************************************************)
(* TLC's instances of ChangeSet.                                           *)
(***************************************************************************)
EXTENDS ChangeSet, TLC

CONSTANTS notes, fresh, asked, edited

\* The agent's patch updates one file and adds another; the user's edit of it
\* removes the one instead.
TwoPatches ==
  asked :> (notes :> "update" @@ fresh :> "add")
    @@ edited :> (notes :> "delete" @@ fresh :> "add")

\* Requests are interchangeable.
HandlerSymmetry == Permutations(Handlers)
===============================================================================
