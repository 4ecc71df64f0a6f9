--------------------------- MODULE MCMaterializer ---------------------------
(* Small instances of Materializer for TLC.                                  *)
EXTENDS Materializer, TLC

\* The commands are interchangeable (used by runs without liveness only).
CommandSymmetry == Permutations(Procs)

\* The value of Kinds.
AllKinds == {"ingest", "fileback", "prune", "rebuild"}
=============================================================================
