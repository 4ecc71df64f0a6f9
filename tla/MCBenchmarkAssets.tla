-------------------------- MODULE MCBenchmarkAssets --------------------------
(* Small instances of BenchmarkAssets for TLC.                               *)
EXTENDS BenchmarkAssets, TLC

\* Neither processes nor pins are told apart.
AssetSymmetry == Permutations(Procs) \cup Permutations(Pins)
=============================================================================
