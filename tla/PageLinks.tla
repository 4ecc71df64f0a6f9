----------------------------- MODULE PageLinks -----------------------------
(***************************************************************************)
(* The related links of a list of compiled pages, as operators.  A page is *)
(* a position of the list; pathOf gives its path and links its related     *)
(* paths.  Two pages may carry one path: pages_by_path keeps the later one. *)
(***************************************************************************)
EXTENDS Naturals, Sequences

\* The page that answers to its path in pages_by_path.
Owns(pathOf, i) == \A k \in DOMAIN pathOf : pathOf[k] = pathOf[i] => k <= i

\* Mutant: the path of the page itself stays among its links.
KeepSelf(pathOf, links) == links

\* First loop of apply_backlinks: no page is related to itself.
DropSelf(pathOf, links) == [i \in DOMAIN links |-> links[i] \ {pathOf[i]}]

\* Mutant: the new link replaces the links the page had.
PropagateReplacing(pathOf, links, i) ==
  [j \in DOMAIN links |->
     IF pathOf[j] \in links[i] /\ pathOf[j] # pathOf[i] /\ Owns(pathOf, j)
     THEN {pathOf[i]} ELSE links[j]]

\* One round of its second loop: page i is added to the pages it is related to.
Propagate(pathOf, links, i) ==
  [j \in DOMAIN links |->
     IF pathOf[j] \in links[i] /\ pathOf[j] # pathOf[i] /\ Owns(pathOf, j)
     THEN links[j] \cup {pathOf[i]} ELSE links[j]]

Distinct(pathOf) == \A i, j \in DOMAIN pathOf : pathOf[i] = pathOf[j] => i = j

\* What the loops are for: related both ways, and never to oneself.
Closure(pathOf, links) ==
  [i \in DOMAIN links |->
     (links[i] \cup {pathOf[j] : j \in {j \in DOMAIN links : pathOf[i] \in links[j]}})
       \ {pathOf[i]}]
=============================================================================
