--------------------------- MODULE ReviewedMemory ---------------------------
(***************************************************************************)
(* What the reviewable fileback flow promises, one atomic step per event:  *)
(* an answer enters accepted memory only as a proposal somebody was shown, *)
(* and a pending proposal leaves the inbox only because a reviewer         *)
(* rejected it or because its question is answered in memory.  No process, *)
(* no file and no failure appears here; FilebackQueue implements it.       *)
(***************************************************************************)
CONSTANTS Questions, Days, Versions, Absent

VARIABLES
  offered,  \* the proposals shown to a reviewer so far
  pending,  \* the inbox: question -> its pending proposal
  memory,   \* accepted answers: question and day -> evidence they cite
  verdict   \* why the question's last proposal left the inbox

inboxVars == <<offered, pending, memory, verdict>>

Proposals == [question : Questions, day : Days, evidence : Versions]

InboxInit ==
  /\ offered = {}
  /\ pending = [q \in Questions |-> Absent]
  /\ memory = [q \in Questions |-> [d \in Days |-> Absent]]
  /\ verdict = [q \in Questions |-> "none"]

Offer(e) ==
  /\ offered' = offered \cup {e}
  /\ UNCHANGED <<pending, memory, verdict>>

\* A proposal in the inbox is shown there.  It may replace the pending one of its
\* question, never drop it.
Submit(e) ==
  /\ offered' = offered \cup {e}
  /\ pending' = [pending EXCEPT ![e.question] = e]
  /\ UNCHANGED <<memory, verdict>>

Accept(e) ==
  /\ e \in offered
  /\ memory' = [memory EXCEPT ![e.question][e.day] = e.evidence]
  /\ UNCHANGED <<offered, pending, verdict>>

Answered(q) == \E d \in Days : memory[q][d] # Absent

Settle(q, why) ==
  /\ pending[q] # Absent
  /\ why = "applied" => Answered(q)
  /\ pending' = [pending EXCEPT ![q] = Absent]
  /\ verdict' = [verdict EXCEPT ![q] = why]
  /\ UNCHANGED <<offered, memory>>

InboxNext ==
  \/ \E e \in Proposals : Offer(e) \/ Submit(e) \/ Accept(e)
  \/ \E q \in Questions, why \in {"applied", "rejected"} : Settle(q, why)

InboxSpec == InboxInit /\ [][InboxNext]_inboxVars
=============================================================================
