---------------------------- MODULE MCPromptFlow ----------------------------
(* Three interchangeable prompts.                                          *)
EXTENDS PromptFlow, TLC

CONSTANTS p1, p2, p3

MCPrompts == {p1, p2, p3}
Symmetry == Permutations(MCPrompts)
=============================================================================
