------------------------------ MODULE MCReplay ------------------------------
(* Interchangeable prompts.                                                *)
EXTENDS Replay, TLC

Symmetry == Permutations(Prompts)
=============================================================================
