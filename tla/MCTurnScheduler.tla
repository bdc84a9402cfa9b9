-------------------------- MODULE MCTurnScheduler ---------------------------
(* Instances of the turn scheduler for TLC.                                *)
EXTENDS TurnScheduler

CONSTANTS p1, p2, p3, i1, r1, boot, ann

(* Prompts of one client that are not bash commands are interchangeable.   *)
MCSymmetry == Permutations(Prompts \ Bash)

MCOneOwner == [p \in Prompts |-> ann]
=============================================================================
