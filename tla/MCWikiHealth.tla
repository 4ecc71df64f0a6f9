---------------------------- MODULE MCWikiHealth ----------------------------
(* A small workspace: two roots, one inside the other, and four files.      *)
EXTENDS WikiHealth, TLC

CONSTANTS x, y,              \* contents
          outer, inner,      \* source roots
          a, b, c,           \* files of the outer root alone
          n,                 \* a file of both
          oa, ob, oc, on, nn \* their places

MCPlaces == {oa, ob, oc, on, nn}
MCRootOf == oa :> outer @@ ob :> outer @@ oc :> outer @@ on :> outer @@ nn :> inner
MCFileOf == oa :> a @@ ob :> b @@ oc :> c @@ on :> n @@ nn :> n

\* Two files with one content beside a third, which is in both roots, and room for a fourth.
MCDisks == {a :> x @@ b :> NoFile @@ c :> x @@ n :> y}

\* One text links another source's page, the other has a link to nothing in its summary.
MCBody == x :> {ob} @@ y :> {}
MCSummary == x :> {} @@ y :> {Nowhere}

MCLegacySpecs ==
  "kiwi_morphology_v1" :> [family |-> "kiwi", version |-> "2"]
    @@ "kiwi_nouns_v1" :> [family |-> "kiwi", version |-> "2"]
    @@ "regex_v1" :> [family |-> "regex", version |-> "1"]
=============================================================================
