--------------------------- MODULE MCSourceMemory ---------------------------
(* Small instances of SourceMemory for TLC.                                  *)
EXTENDS SourceMemory, TLC

\* Neither files, contents, answers nor processes are told apart.
MemorySymmetry ==
  Permutations(Documents) \cup Permutations(Contents) \cup Permutations(Answers)
    \cup Permutations(Procs)
=============================================================================
