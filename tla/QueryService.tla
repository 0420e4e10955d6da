----------------------------- MODULE QueryService -----------------------------
(***************************************************************************)
(* What the DNS filter promises to those who ask it: a query is taken or   *)
(* dropped, a query that was taken gets one answer or none, and the answer *)
(* to a name that is blocked is that there is no such name.                *)
(***************************************************************************)
CONSTANT Queries

VARIABLES
  blocked,     \* queries for names that are blocked: the rules do not change meanwhile
  status       \* what has become of each query

Answers == {"local", "nxdomain", "address", "negative"}
States == {"unsent", "sent", "taken", "lost"} \cup Answers

Init == blocked \subseteq Queries /\ status = [q \in Queries |-> "unsent"]

Fits(q, answer) == (q \in blocked) <=> (answer = "nxdomain")

Becomes(q, from, to) == status[q] = from /\ status' = [status EXCEPT ![q] = to]

Send(q)     == Becomes(q, "unsent", "sent")
Take(q)     == Becomes(q, "sent", "taken")
Answer(q)   == \E answer \in Answers : Fits(q, answer) /\ Becomes(q, "taken", answer)
\* A query about the filter's own health is answered without being queued.
AnswerAtOnce(q) == q \notin blocked /\ Becomes(q, "sent", "local")

\* A stop or a crash of what runs loses any number of queries that have no answer yet.
Lose ==
  \E lost \in SUBSET {q \in Queries : status[q] \in {"sent", "taken"}} :
    /\ lost # {}
    /\ status' = [q \in Queries |-> IF q \in lost THEN "lost" ELSE status[q]]

Next ==
  /\ UNCHANGED blocked
  /\ Lose \/ \E q \in Queries : Send(q) \/ Take(q) \/ Answer(q) \/ AnswerAtOnce(q)

Spec == Init /\ [][Next]_<<blocked, status>>
=============================================================================
