--------------------------- MODULE AgentSessions ---------------------------
(***************************************************************************)
(* Coding-agent sessions of one repository: the rows of agent_sessions, the *)
(* asyncio tasks that run the agent loops, the registry                     *)
(* _active_agent_tasks and the request handlers that create, message, stop *)
(* and delete sessions.  Everything runs on one event loop, so an action   *)
(* is the code between two awaits; a task that awaits a worker thread (the  *)
(* LLM call, a tool, the refresh) is in the control state of that await.    *)
(* Any client sends any request at any time.  Event queues are in           *)
(* SessionStream, worktrees in Worktrees.                                  *)
(***************************************************************************)
EXTENDS Naturals, FiniteSets

CONSTANTS
  Sessions,     \* session ids that may be created for the repository
  Tasks,        \* asyncio.Task objects; bounds the loops alive at a time
  Handlers,     \* request handlers that may be suspended at an await
  MaxSessions,  \* MAX_CONCURRENT_SESSIONS
  MaxTurns,     \* MAX_AGENT_TURNS
  Faults,       \* subset of {"crash", "db"}: faults this instance suffers
  NoTask, NoSession

ASSUME ConstantsAssumption ==
  /\ IsFiniteSet(Sessions) /\ IsFiniteSet(Tasks)
  /\ NoTask \notin Tasks
  /\ NoSession \notin Sessions
  /\ MaxSessions \in Nat \ {0}
  /\ MaxTurns \in Nat \ {0}
  /\ Faults \subseteq {"crash", "db"}

VARIABLES
  ready,      \* repos.indexing_status = 'ready'
  status,     \* agent_sessions.status; "none" before the row exists
  loopOf,     \* the session a task runs the agent loop of
  pc,         \* where a task is suspended; "free" when done or not yet made
  turn,       \* _turn_counter of the task's CodingAgent
  cancelReq,  \* tasks on which cancel() has been called
  active,     \* _active_agent_tasks
  handler,    \* request handlers suspended at an await
  unsaid,     \* history: tasks that were done without a last write to the row
  crossed     \* history: kinds of requests that have met a loop or an open
              \* request of the session since it was last at rest

vars == <<ready, status, loopOf, pc, turn, cancelReq, active, handler,
          unsaid, crossed>>
taskVars == <<loopOf, pc, turn>>

Finished == {"completed", "failed", "cancelled"}
Statuses == {"none", "queued", "running", "awaiting_input"} \cup Finished

\* The awaits of CodingAgent.run(): the vector pre-query, the LLM call, a tool.
Working == {"prequery", "llm", "tools"}
\* "fresh" and "scheduled": created by create_task and not yet stepped, by
\* create_agent_session and by resume_session.  "refresh": _post_agent_refresh.
LoopPcs == {"free", "fresh", "scheduled", "refresh"} \cup Working

Idle == [op |-> "idle", sess |-> NoSession, task |-> NoTask]
HandlerStates ==
  {Idle}
  \cup [op : {"stop"}, sess : Sessions, task : Tasks]
  \cup [op : {"delete"}, sess : Sessions, task : {NoTask}]

Live(t) == pc[t] # "free"
LoopsOf(s) == {t \in Tasks : loopOf[t] = s}
Open(s) == \E h \in Handlers : handler[h].sess = s
AtRest(s) == LoopsOf(s) = {} /\ ~ Open(s)

\* Mutant of RunningRows: sessions that have not started are not counted.
StartedRows == {s \in Sessions : status[s] = "running"}

\* list_running_sessions: awaiting_input is not counted.
RunningRows == {s \in Sessions : status[s] \in {"queued", "running"}}

\* A Task object is made anew by create_task; the model reuses one that is
\* done and that nothing refers to any more.
Unused(t) == /\ pc[t] = "free"
             /\ \A s \in Sessions : active[s] # t
             /\ \A h \in Handlers : handler[h].task # t

Init ==
  /\ ready \in BOOLEAN
  /\ status = [s \in Sessions |-> "none"]
  /\ loopOf = [t \in Tasks |-> NoSession]
  /\ pc = [t \in Tasks |-> "free"]
  /\ turn = [t \in Tasks |-> 0]
  /\ cancelReq = {}
  /\ active = [s \in Sessions |-> NoTask]
  /\ handler = [h \in Handlers |-> Idle]
  /\ unsaid = {}
  /\ crossed = [s \in Sessions |-> {}]

-----------------------------------------------------------------------------
(* The agent loop: _run_agent_session around CodingAgent.run().            *)

SetStatus(s, st) == status' = [status EXCEPT ![s] = st]

\* What a loop writes last.  The database may refuse it: what raises then ends
\* the task, and nobody looks at a task's exception.
LastWrite(t, st) ==
  \/ SetStatus(loopOf[t], st) /\ UNCHANGED unsaid
  \/ "db" \in Faults /\ unsaid' = unsaid \cup {t} /\ UNCHANGED status

MoveTo(t, from, to) == /\ pc[t] \in from
                       /\ t \notin cancelReq
                       /\ pc' = [pc EXCEPT ![t] = to]

\* asyncio.create_task(_run_agent_session(...)) and its registration, which
\* replaces whatever task was registered for the session.
Spawn(s, first) == \E t \in Tasks :
  /\ Unused(t)
  /\ loopOf' = [loopOf EXCEPT ![t] = s]
  /\ pc' = [pc EXCEPT ![t] = first]
  /\ turn' = [turn EXCEPT ![t] = 0]
  /\ active' = [active EXCEPT ![s] = t]
  /\ unsaid' = unsaid \ {t}

\* The task object is done.
Release(t) ==
  /\ loopOf' = [loopOf EXCEPT ![t] = NoSession]
  /\ pc' = [pc EXCEPT ![t] = "free"]
  /\ turn' = [turn EXCEPT ![t] = 0]
  /\ cancelReq' = cancelReq \ {t}

\* The finally clause pops the session's entry, whichever task it holds.
EndLoop(t) ==
  /\ Release(t)
  /\ active' = [active EXCEPT ![loopOf[t]] = NoTask]
  /\ UNCHANGED <<ready, handler, crossed>>

Start(t) ==
  /\ MoveTo(t, {"fresh", "scheduled"}, "prequery")
  /\ SetStatus(loopOf[t], "running")
  /\ UNCHANGED <<ready, loopOf, turn, cancelReq, active, handler, unsaid, crossed>>

\* The task is done before it has entered the try: neither the except clauses
\* nor finally run.
NeverRuns(t) ==
  /\ pc[t] \in {"fresh", "scheduled"}
  /\ Release(t)
  /\ unsaid' = unsaid \cup {t}
  /\ UNCHANGED <<ready, status, active, handler, crossed>>

\* The first statement of _run_agent_session stands outside its try.
StartFails(t) == "db" \in Faults /\ t \notin cancelReq /\ NeverRuns(t)

PrequeryReturns(t) ==
  /\ MoveTo(t, {"prequery"}, "llm")
  /\ SetStatus(loopOf[t], "running")
  /\ UNCHANGED <<ready, loopOf, turn, cancelReq, active, handler, unsaid, crossed>>

\* run() ends with completed = True: _mark_terminal_session_status; the loop
\* then awaits _post_agent_refresh.
Completes(t) ==
  /\ SetStatus(loopOf[t], "completed")
  /\ UNCHANGED <<ready, loopOf, turn, cancelReq, active, handler, unsaid, crossed>>

ReplyIsText(t) == MoveTo(t, {"llm"}, "refresh") /\ Completes(t)

ReplyHasTools(t) ==
  /\ MoveTo(t, {"llm"}, "tools")
  /\ UNCHANGED <<ready, status, loopOf, turn, cancelReq, active, handler, unsaid, crossed>>

\* _abort_on_llm_error; a database error in it is a case of LoopRaises.
LlmFails(t) ==
  /\ pc[t] = "llm" /\ t \notin cancelReq
  /\ SetStatus(loopOf[t], "failed")
  /\ EndLoop(t)
  /\ UNCHANGED unsaid

\* A database error anywhere in run() reaches the except clause of
\* _run_agent_session, whose own write may fail in the same outage.
LoopRaises(t) ==
  /\ "db" \in Faults
  /\ pc[t] \in Working /\ t \notin cancelReq
  /\ LastWrite(t, "failed")
  /\ EndLoop(t)

\* Mutant of ToolsContinue: a counter that stays.
ToolsContinueUncounted(t) ==
  /\ turn[t] + 1 < MaxTurns
  /\ MoveTo(t, {"tools"}, "llm")
  /\ SetStatus(loopOf[t], "running")
  /\ UNCHANGED <<ready, loopOf, turn, cancelReq, active, handler, unsaid, crossed>>

\* The tool batch ends without done() or ask_user: the next turn begins.
ToolsContinue(t) ==
  /\ turn[t] + 1 < MaxTurns
  /\ MoveTo(t, {"tools"}, "llm")
  /\ turn' = [turn EXCEPT ![t] = @ + 1]
  /\ SetStatus(loopOf[t], "running")
  /\ UNCHANGED <<ready, loopOf, cancelReq, active, handler, unsaid, crossed>>

\* Mutant of TurnsExhausted: no terminal status is written.
TurnsExhaustedSilently(t) ==
  /\ pc[t] = "tools" /\ t \notin cancelReq
  /\ turn[t] + 1 = MaxTurns
  /\ EndLoop(t)
  /\ UNCHANGED <<status, unsaid>>

\* The for loop's else: max turns reached without done().
TurnsExhausted(t) ==
  /\ pc[t] = "tools" /\ t \notin cancelReq
  /\ turn[t] + 1 = MaxTurns
  /\ SetStatus(loopOf[t], "failed")
  /\ EndLoop(t)
  /\ UNCHANGED unsaid

ToolsDone(t) == MoveTo(t, {"tools"}, "refresh") /\ Completes(t)

\* ask_user succeeded: the loop returns and a later message starts another.
ToolsAsk(t) ==
  /\ pc[t] = "tools" /\ t \notin cancelReq
  /\ SetStatus(loopOf[t], "awaiting_input")
  /\ EndLoop(t)
  /\ UNCHANGED unsaid

\* _post_agent_refresh swallows its own failures.
RefreshReturns(t) ==
  /\ pc[t] = "refresh" /\ t \notin cancelReq
  /\ EndLoop(t)
  /\ UNCHANGED <<status, unsaid>>

\* Mutant of CancelDelivered: cancellation is reported as a failure.
CancelDeliveredAsFailure(t) ==
  /\ pc[t] \in Working \cup {"refresh"}
  /\ t \in cancelReq
  /\ LastWrite(t, "failed")
  /\ EndLoop(t)

\* CancelledError is raised at the await and caught by _run_agent_session,
\* whose write may fail; stop_session swallows what the task raises then.
CancelDelivered(t) ==
  /\ pc[t] \in Working \cup {"refresh"}
  /\ t \in cancelReq
  /\ LastWrite(t, "cancelled")
  /\ EndLoop(t)

\* A task cancelled before its first step never runs its body.
CancelUnstarted(t) == t \in cancelReq /\ NeverRuns(t)

LoopStep(t) ==
  \/ Start(t) \/ StartFails(t) \/ PrequeryReturns(t)
  \/ ReplyIsText(t) \/ ReplyHasTools(t) \/ LlmFails(t) \/ LoopRaises(t)
  \/ ToolsContinue(t) \/ TurnsExhausted(t) \/ ToolsDone(t) \/ ToolsAsk(t)
  \/ RefreshReturns(t)
  \/ CancelDelivered(t) \/ CancelUnstarted(t)

-----------------------------------------------------------------------------
(* The request handlers.                                                   *)

\* A session's id first leaves the server in the answer to its creation, after
\* the first step of its loop.
Known(s) == /\ status[s] # "none"
            /\ \A t \in LoopsOf(s) : pc[t] # "fresh"

\* Request r comes for session s.
Meets(s, r) ==
  crossed' = [crossed EXCEPT ![s] = IF AtRest(s) THEN {} ELSE @ \cup {r}]

\* create_agent_session: checks and inserts run without an await in between.
Create(s) ==
  /\ status[s] = "none"
  /\ ready
  /\ Cardinality(RunningRows) < MaxSessions
  /\ SetStatus(s, "queued")
  /\ Spawn(s, "fresh")
  /\ UNCHANGED <<ready, cancelReq, handler, crossed>>

\* Mutant of Message: the new task is not put into _active_agent_tasks.
MessageUnregistered(s) ==
  /\ Known(s)
  /\ \E t \in Tasks :
       /\ Unused(t)
       /\ loopOf' = [loopOf EXCEPT ![t] = s]
       /\ pc' = [pc EXCEPT ![t] = "scheduled"]
  /\ Meets(s, "message")
  /\ UNCHANGED <<ready, status, turn, cancelReq, active, handler, unsaid>>

\* resume_session, and rerun_session_step through it: neither the status, nor a
\* loop at work, nor the number of running sessions is looked at.
Message(s) ==
  /\ Known(s)
  /\ Spawn(s, "scheduled")
  /\ Meets(s, "message")
  /\ UNCHANGED <<ready, status, cancelReq, handler>>

HasLoop(s) == active[s] # NoTask /\ Live(active[s])

\* stop_session, the registered task is not done: cancel it and await it.
StopLoop(h, s) ==
  /\ handler[h] = Idle
  /\ Known(s)
  /\ HasLoop(s)
  /\ cancelReq' = cancelReq \cup {active[s]}
  /\ handler' = [handler EXCEPT ![h] = [op |-> "stop", sess |-> s, task |-> active[s]]]
  /\ UNCHANGED <<ready, status, taskVars, active, unsaid, crossed>>

\* Mutant of StopReturns: waits for the registry entry instead of the task.
StopReturnsUnregistered(h) ==
  /\ handler[h].op = "stop"
  /\ active[handler[h].sess] = NoTask
  /\ handler' = [handler EXCEPT ![h] = Idle]
  /\ UNCHANGED <<ready, status, taskVars, cancelReq, active, unsaid, crossed>>

StopReturns(h) ==
  /\ handler[h].op = "stop"
  /\ ~ Live(handler[h].task)
  /\ active' = [active EXCEPT ![handler[h].sess] = NoTask]
  /\ handler' = [handler EXCEPT ![h] = Idle]
  /\ UNCHANGED <<ready, status, taskVars, cancelReq, unsaid, crossed>>

\* stop_session, no such task: only the row is changed, if it counts as active.
StoppableStatuses == {"running", "awaiting_input"}

StopRow(s) ==
  /\ Known(s)
  /\ ~ HasLoop(s)
  /\ status[s] \in StoppableStatuses
  /\ SetStatus(s, "cancelled")
  /\ active' = [active EXCEPT ![s] = NoTask]
  /\ UNCHANGED <<ready, taskVars, cancelReq, handler, unsaid, crossed>>

\* cancel_session: cleanup_worktree in a thread; the loop, if any, is left alone.
Delete(h, s) ==
  /\ handler[h] = Idle
  /\ Known(s)
  /\ handler' = [handler EXCEPT ![h] = [op |-> "delete", sess |-> s, task |-> NoTask]]
  /\ Meets(s, "delete")
  /\ UNCHANGED <<ready, status, taskVars, cancelReq, active, unsaid>>

\* The worktree is gone and the row is written, if the database lets it.
DeleteReturns(h) ==
  /\ handler[h].op = "delete"
  /\ SetStatus(handler[h].sess, "cancelled") \/ ("db" \in Faults /\ UNCHANGED status)
  /\ handler' = [handler EXCEPT ![h] = Idle]
  /\ UNCHANGED <<ready, taskVars, cancelReq, active, unsaid, crossed>>

\* The server process dies: everything held in memory is gone, rows and
\* worktrees stay.  Nothing at startup looks at them.
Crash ==
  /\ "crash" \in Faults
  /\ loopOf' = [t \in Tasks |-> NoSession]
  /\ pc' = [t \in Tasks |-> "free"]
  /\ turn' = [t \in Tasks |-> 0]
  /\ cancelReq' = {}
  /\ active' = [s \in Sessions |-> NoTask]
  /\ handler' = [h \in Handlers |-> Idle]
  /\ unsaid' = {}
  /\ crossed' = [s \in Sessions |-> {}]
  /\ UNCHANGED <<ready, status>>

\* The indexing pipeline moves repos.indexing_status (module RepoIndexing).
IndexingMoves ==
  /\ ready' = ~ ready
  /\ UNCHANGED <<status, taskVars, cancelReq, active, handler, unsaid, crossed>>

HandlerStep(h) == StopReturns(h) \/ DeleteReturns(h)

Next ==
  \/ \E t \in Tasks : LoopStep(t)
  \/ \E h \in Handlers : HandlerStep(h)
  \/ \E s \in Sessions : Create(s) \/ Message(s) \/ StopRow(s)
  \/ \E h \in Handlers, s \in Sessions : StopLoop(h, s) \/ Delete(h, s)
  \/ Crash
  \/ IndexingMoves

Spec == Init /\ [][Next]_vars

\* The event loop runs every ready task and handler; awaited threads return
\* (LLM calls, tools and git commands carry timeouts).
Fairness == /\ \A t \in Tasks : WF_vars(LoopStep(t))
            /\ \A h \in Handlers : WF_vars(HandlerStep(h))

FairSpec == Spec /\ Fairness

-----------------------------------------------------------------------------
(* Properties.                                                             *)

\* Every variable stays in its range; a task belongs to a session exactly
\* while its loop is live.
TypeOK ==
  /\ ready \in BOOLEAN
  /\ status \in [Sessions -> Statuses]
  /\ loopOf \in [Tasks -> Sessions \cup {NoSession}]
  /\ pc \in [Tasks -> LoopPcs]
  /\ turn \in [Tasks -> 0..(MaxTurns - 1)]
  /\ cancelReq \subseteq Tasks
  /\ active \in [Sessions -> Tasks \cup {NoTask}]
  /\ handler \in [Handlers -> HandlerStates]
  /\ unsaid \subseteq Tasks
  /\ crossed \in [Sessions -> SUBSET {"message", "delete"}]
  /\ \A t \in Tasks : (loopOf[t] = NoSession) <=> (pc[t] = "free")

\* Without faults, a row that says queued or running has a loop behind it,
\* whatever requests arrive in whatever order: every way out of run() and of
\* _run_agent_session overwrites the "running" that its loop wrote.
NoStrandedRow ==
  Faults = {} =>
    \A s \in Sessions :
      /\ status[s] = "queued" => \E t \in LoopsOf(s) : pc[t] = "fresh"
      /\ status[s] = "running" => \E t \in LoopsOf(s) : pc[t] \in Working

\* A live loop is the registered one, so a stop finds it, whatever stops,
\* deletes, restarts and failures do; the one request that takes a loop out of
\* the registry is a message that comes while the session has a loop or an
\* unanswered request, and only until the session has come to rest again.
LoopsRegistered ==
  \A t \in Tasks : Live(t) =>
    active[loopOf[t]] = t \/ "message" \in crossed[loopOf[t]]

\* Unless requests have crossed, the row follows the loop: while run() is under
\* way the row says running, and during the refresh it says completed.
RowFollowsLoop ==
  \A t \in Tasks : Live(t) /\ crossed[loopOf[t]] = {} =>
    /\ pc[t] \in Working => status[loopOf[t]] = "running"
    /\ pc[t] = "refresh" => status[loopOf[t]] = "completed"

\* The agent of a session is its only loop; "closing" is a stop or a delete that
\* has not been answered yet, "several" what crossing requests make of it.
Doing(t) ==
  IF pc[t] \in {"fresh", "scheduled"} THEN "pending"
  ELSE IF pc[t] = "refresh" THEN "finishing" ELSE "working"
WorkOf(s) ==
  IF AtRest(s) THEN "none"
  ELSE IF crossed[s] # {} THEN "several"
  ELSE IF LoopsOf(s) = {} THEN "closing"
  ELSE Doing(CHOOSE t \in LoopsOf(s) : TRUE)

Lifecycle == INSTANCE SessionLifecycle
               WITH Limit <- MaxSessions, Refuses <- "db" \in Faults,
                    work <- [s \in Sessions |-> WorkOf(s)]

\* Rows, tasks, cancellations and handlers implement the lifecycle for every
\* client: one agent a session, a status in step with it from rest to rest, and
\* MAX_CONCURRENT_SESSIONS agents at work at most when a session is created,
\* those aside whose requests crossed.
ImplementsLifecycle == Lifecycle!Spec

\* When stop_session answers that the session is cancelled its row says so: no
\* write of the cancelled loop comes after.  Unless the loop's last write was
\* refused, the loop had not started, or a message has started another.
StopTakesEffect ==
  [][\A h \in Handlers :
         /\ handler[h].op = "stop" /\ ~ Live(handler[h].task) /\ handler'[h] = Idle
         /\ handler[h].task \notin unsaid
         /\ "message" \notin crossed[handler[h].sess]
       => status'[handler[h].sess] = "cancelled"]_vars

\* A stop request is answered: the await of the cancelled task returns.
StopAnswered ==
  \A h \in Handlers : (handler[h].op = "stop") ~> (handler[h] = Idle)

\* Every agent loop ends, however its turns go.
LoopEnds == \A t \in Tasks : Live(t) ~> ~ Live(t)

=============================================================================
