--------------------------- MODULE MCTurnTimeline -----------------------------
(***************************************************************************)
(* TLC's instances of TurnTimeline.                                        *)
(***************************************************************************)
EXTENDS TurnTimeline, TLC

\* Turns are interchangeable until they are admitted.
TurnSymmetry == Permutations(Turns)
===============================================================================
