-------------------------- MODULE MCCompiledPages --------------------------
(* A small wiki for TLC: two titles that share a slug, two sessions that    *)
(* share a slug, two records of one identifier on two days whose summaries  *)
(* share a slug, a question whose answer cites compiled pages, a record     *)
(* whose texts hold wikilinks of its author.                                *)
EXTENDS CompiledPages

MCRecordOrder == <<"r1", "r2", "r3">>
MCSessionOrder == <<"s1", "s2">>
MCTitles == {"ko1", "ko2"}
MCSlug == [t \in MCTitles |-> "untitled"]
MCSessionSlug == [s \in {"s1", "s2"} |-> "s"]

MCSummarySlug == [r \in {"r1", "r2", "r3"} |-> IF r = "r1" THEN "r1" ELSE "again"]

Unquoted == [text \in Texts |-> {}]

Plain(session, items, day) ==
  [session |-> session, items |-> items, day |-> day, supporting |-> {}, quotes |-> Unquoted]

MCShapes ==
  { Plain("s1", {<<"concept", "ko1">>}, 1),
    Plain("s2", {<<"concept", "ko2">>, <<"project", "ko1">>}, 2),
    [Plain(NoSession, {}, 2)
       EXCEPT !.quotes = [Unquoted EXCEPT !["summary"] = {<<"topic", "untitled">>},
                                          !["sections"] = {<<"session", "s">>}]],
    [Plain(NoSession, {<<"question", "ko1">>}, 1)
       EXCEPT !.supporting = {<<"concept", "untitled">>, <<"summary", "r1">>},
              !.quotes = [Unquoted EXCEPT !["answer"] = {<<"summary", "r1">>}]] }
=============================================================================
