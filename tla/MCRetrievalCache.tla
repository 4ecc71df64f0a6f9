-------------------------- MODULE MCRetrievalCache --------------------------
(* Two workspaces of two records; as many snapshots are kept as workspaces. *)
EXTENDS RetrievalCache, TLC

CONSTANTS w1, w2, r1, r2, x, y

\* No definition tells one workspace, record or content from another.
Symmetry == Permutations({w1, w2}) \cup Permutations({r1, r2}) \cup Permutations({x, y})
=============================================================================
