--------------------------- MODULE MCFilebackQueue ---------------------------
(* Small instances of FilebackQueue for TLC.                                 *)
EXTENDS FilebackQueue, TLC

\* Neither processes nor versions of the evidence are told apart.
QueueSymmetry == Permutations(Procs) \cup Permutations(Versions)
=============================================================================
