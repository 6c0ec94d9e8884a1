-------------------------- MODULE SessionLifecycle --------------------------
(* What a repository's clients may rely on: a session has one agent at a time, *)
(* its status tells what the agent does, and a new session starts only below   *)
(* the limit.  What it is worth when requests cross is Crosses.                *)
(* AgentSessions implements this with rows, tasks and handlers.                *)
EXTENDS Naturals, FiniteSets

CONSTANTS
  Sessions,
  Limit,     \* agents at work when a session is created
  Refuses    \* whether a write of a status may be refused

VARIABLES
  status,  \* what the session's row says
  work     \* what its agent does: "none", "pending", "working", "finishing",
           \* "closing" (gone, with a stop or a delete to answer) or "several"

vars == <<status, work>>

Init ==
  /\ status = [s \in Sessions |-> "none"]
  /\ work = [s \in Sessions |-> "none"]

Moves(s, from, to) == work[s] \in from /\ \E w \in to : work' = [work EXCEPT ![s] = w]
Says(s, st) == status' = [status EXCEPT ![s] = st]

\* A last word that may not get through.
Leaves(s, st) == Says(s, st) \/ (Refuses /\ UNCHANGED status)

\* Where a session is when its agent is gone.
Ended == {"none", "closing"}

\* A new session whose agent has not started counts as one at work.
AtWork(s) == work[s] = "working" \/ (work[s] = "pending" /\ status[s] = "queued")

Create(s) ==
  /\ status[s] = "none"
  /\ Cardinality({x \in Sessions : AtWork(x)}) < Limit
  /\ Moves(s, {"none"}, {"pending"})
  /\ Says(s, "queued")

\* A follow-up message: whatever the session came to, its agent goes on.
Continue(s) ==
  /\ status[s] # "none"
  /\ Moves(s, {"none"}, {"pending"})
  /\ UNCHANGED status

\* The agent starts, or does not get that far.
Begin(s) ==
  \/ Moves(s, {"pending"}, {"working"}) /\ Says(s, "running")
  \/ Moves(s, {"pending"}, Ended) /\ UNCHANGED status

\* It completes the task, and tidies up.
Complete(s) == Moves(s, {"working"}, {"finishing"}) /\ Says(s, "completed")

\* It asks the user, fails or is stopped.
Interrupt(s) ==
  /\ Moves(s, {"working"}, Ended)
  /\ \E st \in {"awaiting_input", "failed", "cancelled"} : Leaves(s, st)

\* It has tidied up; a stop that comes meanwhile cancels the session.
Settle(s) ==
  /\ Moves(s, {"finishing"}, Ended)
  /\ UNCHANGED status \/ Says(s, "cancelled")

\* A session without an agent is stopped, or is to be deleted.
Cancel(s) ==
  /\ status[s] # "none" /\ work[s] \in Ended
  /\ Says(s, "cancelled")
  /\ UNCHANGED work
Close(s) ==
  /\ status[s] # "none"
  /\ Moves(s, {"none"}, {"closing"})
  /\ UNCHANGED status

\* A stop or a delete is answered.
Answer(s) ==
  /\ Moves(s, {"closing"}, Ended)
  /\ UNCHANGED status \/ Says(s, "cancelled")

\* A message or a delete meets the agent or an unanswered request: a second
\* agent may start, and the session's row says what one of them wrote last.
Crosses(s) ==
  /\ work[s] # "none"
  /\ Moves(s, {work[s]}, {"several"})
  /\ UNCHANGED status
Strays(s) ==
  /\ Moves(s, {"several"}, {"several", "none"})
  /\ \E st \in {"running", "awaiting_input", "completed", "failed", "cancelled"} :
       Says(s, st) \/ UNCHANGED status

\* The server restarts: no agent is left, and no row is touched.
Restart ==
  /\ work' = [s \in Sessions |-> "none"]
  /\ UNCHANGED status

Next ==
  \/ \E s \in Sessions :
       \/ Create(s) \/ Continue(s) \/ Begin(s) \/ Complete(s)
       \/ Interrupt(s) \/ Settle(s) \/ Cancel(s) \/ Close(s) \/ Answer(s)
       \/ Crosses(s) \/ Strays(s)
  \/ Restart

Spec == Init /\ [][Next]_vars
=============================================================================
