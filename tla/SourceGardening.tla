--------------------------- MODULE SourceGardening ---------------------------
(***************************************************************************)
(* How the Markdown files of the user and the records made from them are   *)
(* compared (source_state), and the proposals gardening draws from that.   *)
(*                                                                         *)
(* A place is a source root with a path below it; one file has two places  *)
(* when a root lies inside another.  disk says what each file holds, and   *)
(* tracked maps the place of every readable Markdown record to the hash it *)
(* stored and to whether its source metadata is sound.                     *)
(***************************************************************************)
EXTENDS FiniteSets

CONSTANTS
  Places,  \* source root and path of a Markdown file
  RootOf,  \* place -> its source root
  FileOf,  \* place -> the file there
  NoFile,  \* nothing is there
  Irregular \* a directory or a link is there

Files == {FileOf[p] : p \in Places}

\* _classify_record.
State(disk, tracked, p) ==
  IF ~tracked[p].sound \/ disk[FileOf[p]] = Irregular THEN "invalid"
  ELSE IF disk[FileOf[p]] = NoFile THEN "missing"
  ELSE IF disk[FileOf[p]] = tracked[p].hash THEN "current" ELSE "modified"

\* Roots are searched for new files only while one of their records has its file.
TrustedRoots(disk, tracked) ==
  {RootOf[p] : p \in {p \in DOMAIN tracked : State(disk, tracked, p) \in {"current", "modified"}}}

Untracked(disk, tracked) ==
  {p \in Places \ DOMAIN tracked :
     RootOf[p] \in TrustedRoots(disk, tracked) /\ disk[FileOf[p]] \notin {NoFile, Irregular}}

Item(state, p, hash) == [state |-> state, place |-> p, hash |-> hash]

\* collect_markdown_source_state.
SourceItems(disk, tracked) ==
  {Item(State(disk, tracked, p), p, tracked[p].hash) : p \in DOMAIN tracked}
    \cup {Item("untracked", p, disk[FileOf[p]]) : p \in Untracked(disk, tracked)}

InState(items, state) == {i \in items : i.state = state}

-----------------------------------------------------------------------------
\* Mutant: the path must be the same as well.
SamePlace(missing, untracked) ==
  missing.place = untracked.place /\ missing.hash = untracked.hash

SameSource(missing, untracked) ==
  RootOf[missing.place] = RootOf[untracked.place] /\ missing.hash = untracked.hash

\* Mutant: a new file may be the match of several missing ones.
FirstMatch(items) ==
  {pair \in InState(items, "missing") \X InState(items, "untracked") :
     {v \in InState(items, "untracked") : SameSource(pair[1], v)} = {pair[2]}}

\* _source_rename_proposals: each is the only match of the other.
Renames(items) ==
  {pair \in InState(items, "missing") \X InState(items, "untracked") :
     /\ {v \in InState(items, "untracked") : SameSource(pair[1], v)} = {pair[2]}
     /\ {n \in InState(items, "missing") : SameSource(n, pair[2])} = {pair[1]}}

Renamed(items) == UNION {{pair[1], pair[2]} : pair \in Renames(items)}

\* A proposal is the set of items it is evidence of.
ManualProposals(items) ==
  {{i} : i \in {i \in items \ Renamed(items) : i.state # "current"}}

Proposals(items) == {{pair[1], pair[2]} : pair \in Renames(items)} \cup ManualProposals(items)

-----------------------------------------------------------------------------
(* The issues lint makes of both.                                          *)

SourceCode == [modified |-> "L501", missing |-> "L502", untracked |-> "L503", invalid |-> "L504"]
SourceSeverity == [modified |-> "warning", missing |-> "warning",
                   untracked |-> "info", invalid |-> "warning"]

Issue(code, severity, about) == [code |-> code, severity |-> severity, about |-> about]

SourceIssues(items) ==
  {Issue(SourceCode[i.state], SourceSeverity[i.state], i.place) :
     i \in {i \in items : i.state # "current"}}

RenameIssues(items) ==
  {Issue("L505", "info", <<pair[1].place, pair[2].place>>) : pair \in Renames(items)}
=============================================================================
