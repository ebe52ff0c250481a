------------------------ MODULE MCFilesystemManager ------------------------
(* Two interchangeable writes and one read of a file of up to two lines.   *)
EXTENDS FilesystemManager, TLC

Symmetry == Permutations(Writes)
=============================================================================
