----------------------- MODULE MCSessionOrchestrator -----------------------
(* SessionOrchestrator with symmetric sessions and clients.                *)
EXTENDS SessionOrchestrator, TLC

Symmetry == Permutations(Sessions) \cup Permutations(Closers)
=============================================================================
