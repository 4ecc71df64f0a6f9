--------------------------- MODULE SymmetricLinks ---------------------------
(***************************************************************************)
(* What back-linking promises of each compilation: the links the generators *)
(* gave the pages are replaced, at once, by their symmetric closure.  With *)
(* two pages of one path no link can name both, and nothing is promised.   *)
(***************************************************************************)
EXTENDS PageLinks

VARIABLES
  pathOf,  \* paths of the pages of the current compilation
  links,   \* their related paths
  closed   \* the links were closed

Init == closed = TRUE

\* A new compilation brings any pages with any links.
Load == closed' = FALSE

Close ==
  /\ ~closed
  /\ closed' = TRUE
  /\ pathOf' = pathOf
  /\ Distinct(pathOf) => links' = Closure(pathOf, links)

Next == Load \/ Close

Spec == Init /\ [][Next]_<<pathOf, links, closed>>
=============================================================================
