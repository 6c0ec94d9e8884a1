------------------------ MODULE AgentSessionsProofs ------------------------
(* Proofs about AgentSessions: type correctness, that no row is left queued *)
(* or running without a loop behind it, what the registry knows of loops,   *)
(* when a stop is final, and that rows, registry, loops and requests        *)
(* implement SessionLifecycle.                                              *)
EXTENDS AgentSessions, FiniteSetTheorems, TLAPS

\* A live task that is registered is registered under its own session.
RegistryKeyed ==
  \A s \in Sessions : HasLoop(s) => loopOf[active[s]] = s

\* Only a live loop is cancelled, and never one of a session whose id has not
\* been given out.
CancelsStarted == \A t \in cancelReq : pc[t] \notin {"free", "fresh"}

IInv == TypeOK /\ RegistryKeyed /\ CancelsStarted /\ NoStrandedRow

LEMMA InitTypeOK == Init => TypeOK
  BY ConstantsAssumption
  DEF Init, TypeOK, Statuses, Finished, LoopPcs, Working, HandlerStates, Idle

\* Every loop step keeps the types.
LEMMA LoopStepTypeOK ==
  ASSUME TypeOK, NEW t \in Tasks, LoopStep(t)
  PROVE  TypeOK'
<1> USE ConstantsAssumption
    DEF TypeOK, Statuses, Finished, LoopPcs, Working, SetStatus, MoveTo,
        Release, EndLoop, Completes, LastWrite, NeverRuns
<1>1. CASE Start(t)  BY <1>1 DEF Start
<1>2. CASE StartFails(t)  BY <1>2 DEF StartFails
<1>3. CASE PrequeryReturns(t)  BY <1>3 DEF PrequeryReturns
<1>4. CASE ReplyIsText(t)  BY <1>4 DEF ReplyIsText
<1>5. CASE ReplyHasTools(t)  BY <1>5 DEF ReplyHasTools
<1>6. CASE LlmFails(t)  BY <1>6 DEF LlmFails
<1>7. CASE LoopRaises(t)  BY <1>7 DEF LoopRaises
<1>8. CASE ToolsContinue(t)  BY <1>8 DEF ToolsContinue
<1>9. CASE TurnsExhausted(t)  BY <1>9 DEF TurnsExhausted
<1>10. CASE ToolsDone(t)  BY <1>10 DEF ToolsDone
<1>11. CASE ToolsAsk(t)  BY <1>11 DEF ToolsAsk
<1>12. CASE RefreshReturns(t)  BY <1>12 DEF RefreshReturns
<1>13. CASE CancelDelivered(t)  BY <1>13 DEF CancelDelivered
<1>14. CASE CancelUnstarted(t)  BY <1>14 DEF CancelUnstarted
<1> QED  BY <1>1, <1>2, <1>3, <1>4, <1>5, <1>6, <1>7, <1>8, <1>9, <1>10, <1>11,
            <1>12, <1>13, <1>14 DEF LoopStep

\* So do the request handlers, a crash and the indexing pipeline.
LEMMA RequestTypeOK ==
  ASSUME TypeOK,
         \/ \E s \in Sessions : Create(s) \/ Message(s) \/ StopRow(s)
         \/ \E h \in Handlers : HandlerStep(h)
         \/ \E h \in Handlers, s \in Sessions : StopLoop(h, s) \/ Delete(h, s)
         \/ Crash
         \/ IndexingMoves
  PROVE  TypeOK'
<1> USE ConstantsAssumption
    DEF TypeOK, Statuses, Finished, LoopPcs, Working, SetStatus, taskVars
<1>1. ASSUME NEW s \in Sessions, Create(s)  PROVE TypeOK'
  BY <1>1 DEF Create, Spawn, Unused
<1>2. ASSUME NEW s \in Sessions, Message(s)  PROVE TypeOK'
  BY <1>2 DEF Message, Spawn, Unused, Meets
<1>3. ASSUME NEW s \in Sessions, StopRow(s)  PROVE TypeOK'
  BY <1>3 DEF StopRow
<1>4. ASSUME NEW h \in Handlers, HandlerStep(h)  PROVE TypeOK'
  <2>1. CASE StopReturns(h)  BY <2>1 DEF StopReturns, HandlerStates, Idle
  <2>2. CASE DeleteReturns(h)  BY <2>2 DEF DeleteReturns, HandlerStates, Idle
  <2> QED  BY <1>4, <2>1, <2>2 DEF HandlerStep
<1>5. ASSUME NEW h \in Handlers, NEW s \in Sessions, StopLoop(h, s)  PROVE TypeOK'
  <2>1. active[s] \in Tasks  BY <1>5 DEF StopLoop, HasLoop
  <2> QED  BY <1>5, <2>1 DEF StopLoop, HandlerStates
<1>6. ASSUME NEW h \in Handlers, NEW s \in Sessions, Delete(h, s)  PROVE TypeOK'
  BY <1>6 DEF Delete, HandlerStates, Meets
<1>7. CASE Crash  BY <1>7 DEF Crash, HandlerStates
<1>8. CASE IndexingMoves  BY <1>8 DEF IndexingMoves
<1> QED  BY <1>1, <1>2, <1>3, <1>4, <1>5, <1>6, <1>7, <1>8

\* Type correctness of the session machinery under any requests and faults.
THEOREM TypeCorrect == Spec => []TypeOK
<1>1. Init => TypeOK  BY InitTypeOK
<1>2. TypeOK /\ [Next]_vars => TypeOK'
  <2> SUFFICES ASSUME TypeOK, [Next]_vars  PROVE TypeOK'  OBVIOUS
  <2>1. CASE Next  BY <2>1, LoopStepTypeOK, RequestTypeOK DEF Next
  <2>2. CASE UNCHANGED vars
    BY <2>2 DEF vars, TypeOK, Statuses, Finished, LoopPcs, Working
  <2> QED  BY <2>1, <2>2
<1> QED  BY <1>1, <1>2, PTL DEF Spec

-----------------------------------------------------------------------------
\* What a loop step may do to the registry, the rows and the other tasks: it
\* moves only its own task and writes only its own session's row.
LEMMA LoopStepFrame ==
  ASSUME TypeOK, RegistryKeyed, NEW t \in Tasks, LoopStep(t)
  PROVE  /\ loopOf[t] \in Sessions
         /\ \A u \in Tasks \ {t} : pc'[u] = pc[u] /\ loopOf'[u] = loopOf[u]
         /\ \A s \in Sessions \ {loopOf[t]} : status'[s] = status[s]
         /\ \A s \in Sessions : active'[s] \in {active[s], NoTask}
         /\ pc'[t] = "free" \/ (pc'[t] # "fresh" /\ loopOf'[t] = loopOf[t])
         /\ cancelReq' \subseteq cancelReq
         /\ pc'[t] = "free" => t \notin cancelReq'
<1> USE DEF TypeOK, LoopPcs, Working, SetStatus, MoveTo, Release, EndLoop, Completes,
            LastWrite, NeverRuns
<1>1. CASE Start(t)  BY <1>1 DEF Start
<1>2. CASE StartFails(t)  BY <1>2 DEF StartFails
<1>3. CASE PrequeryReturns(t)  BY <1>3 DEF PrequeryReturns
<1>4. CASE ReplyIsText(t)  BY <1>4 DEF ReplyIsText
<1>5. CASE ReplyHasTools(t)  BY <1>5 DEF ReplyHasTools
<1>6. CASE LlmFails(t)  BY <1>6 DEF LlmFails
<1>7. CASE LoopRaises(t)  BY <1>7 DEF LoopRaises
<1>8. CASE ToolsContinue(t)  BY <1>8 DEF ToolsContinue
<1>9. CASE TurnsExhausted(t)  BY <1>9 DEF TurnsExhausted
<1>10. CASE ToolsDone(t)  BY <1>10 DEF ToolsDone
<1>11. CASE ToolsAsk(t)  BY <1>11 DEF ToolsAsk
<1>12. CASE RefreshReturns(t)  BY <1>12 DEF RefreshReturns
<1>13. CASE CancelDelivered(t)  BY <1>13 DEF CancelDelivered
<1>14. CASE CancelUnstarted(t)  BY <1>14 DEF CancelUnstarted
<1> QED  BY <1>1, <1>2, <1>3, <1>4, <1>5, <1>6, <1>7, <1>8, <1>9, <1>10, <1>11,
            <1>12, <1>13, <1>14 DEF LoopStep

\* The row of the stepping loop's session: it says running only if this loop
\* works on, or it was running and the loop did not work before the step.
LEMMA LoopStepRow ==
  ASSUME TypeOK, CancelsStarted, Faults = {}, NEW t \in Tasks, LoopStep(t)
  PROVE  /\ status'[loopOf[t]] = "running" =>
              \/ pc'[t] \in Working
              \/ status[loopOf[t]] = "running" /\ pc[t] \notin Working
         /\ status'[loopOf[t]] = "queued" =>
              status[loopOf[t]] = "queued" /\ pc[t] # "fresh"
<1> USE DEF TypeOK, LoopPcs, Working, SetStatus, MoveTo, Release, EndLoop, Completes,
            LastWrite, NeverRuns
<1>1. CASE Start(t)  BY <1>1 DEF Start
<1>2. CASE StartFails(t)  BY <1>2 DEF StartFails
<1>3. CASE PrequeryReturns(t)  BY <1>3 DEF PrequeryReturns
<1>4. CASE ReplyIsText(t)  BY <1>4 DEF ReplyIsText
<1>5. CASE ReplyHasTools(t)  BY <1>5 DEF ReplyHasTools
<1>6. CASE LlmFails(t)  BY <1>6 DEF LlmFails
<1>7. CASE LoopRaises(t)  BY <1>7 DEF LoopRaises
<1>8. CASE ToolsContinue(t)  BY <1>8 DEF ToolsContinue
<1>9. CASE TurnsExhausted(t)  BY <1>9 DEF TurnsExhausted
<1>10. CASE ToolsDone(t)  BY <1>10 DEF ToolsDone
<1>11. CASE ToolsAsk(t)  BY <1>11 DEF ToolsAsk
<1>12. CASE RefreshReturns(t)  BY <1>12 DEF RefreshReturns
<1>13. CASE CancelDelivered(t)  BY <1>13 DEF CancelDelivered
<1>14. CASE CancelUnstarted(t)  BY <1>14 DEF CancelUnstarted, CancelsStarted
<1> QED  BY <1>1, <1>2, <1>3, <1>4, <1>5, <1>6, <1>7, <1>8, <1>9, <1>10, <1>11,
            <1>12, <1>13, <1>14 DEF LoopStep

LEMMA LoopStepIInv ==
  ASSUME IInv, TypeOK', NEW t \in Tasks, LoopStep(t)
  PROVE  IInv'
<1> USE DEF IInv
<1>1. RegistryKeyed'
  <2> SUFFICES ASSUME NEW s \in Sessions, HasLoop(s)'  PROVE loopOf'[active'[s]] = s
    BY DEF RegistryKeyed
  <2>1. active'[s] = active[s] /\ active[s] \in Tasks
    BY LoopStepFrame DEF HasLoop, TypeOK
  <2>2. CASE active[s] = t
    BY <2>1, <2>2, LoopStepFrame DEF HasLoop, Live, RegistryKeyed, TypeOK
  <2>3. CASE active[s] # t
    BY <2>1, <2>3, LoopStepFrame DEF HasLoop, Live, RegistryKeyed, TypeOK
  <2> QED  BY <2>2, <2>3
<1>2. CancelsStarted'
  BY LoopStepFrame DEF CancelsStarted, TypeOK
<1>3. NoStrandedRow'
  <2> SUFFICES ASSUME Faults = {}, NEW s \in Sessions
               PROVE  /\ status'[s] = "queued" =>
                            \E u \in Tasks : loopOf'[u] = s /\ pc'[u] = "fresh"
                      /\ status'[s] = "running" =>
                            \E u \in Tasks : loopOf'[u] = s /\ pc'[u] \in Working
    BY DEF NoStrandedRow, LoopsOf
  <2>1. ASSUME status'[s] = "queued"
        PROVE  \E u \in Tasks : loopOf'[u] = s /\ pc'[u] = "fresh"
    <3>1. status[s] = "queued" /\ (s = loopOf[t] => pc[t] # "fresh")
      BY <2>1, LoopStepFrame, LoopStepRow
    <3>2. PICK u \in Tasks : loopOf[u] = s /\ pc[u] = "fresh"
      BY <3>1 DEF NoStrandedRow, LoopsOf
    <3>3. u # t  BY <3>1, <3>2
    <3> QED  BY <3>2, <3>3, LoopStepFrame
  <2>2. ASSUME status'[s] = "running"
        PROVE  \E u \in Tasks : loopOf'[u] = s /\ pc'[u] \in Working
    <3>1. CASE s = loopOf[t] /\ pc'[t] \in Working
      BY <3>1, LoopStepFrame DEF Working
    <3>2. CASE status[s] = "running" /\ (s = loopOf[t] => pc[t] \notin Working)
      <4>1. PICK u \in Tasks : loopOf[u] = s /\ pc[u] \in Working
        BY <3>2 DEF NoStrandedRow, LoopsOf
      <4>2. u # t  BY <3>2, <4>1
      <4> QED  BY <4>1, <4>2, LoopStepFrame
    <3> QED  BY <2>2, <3>1, <3>2, LoopStepFrame, LoopStepRow
  <2> QED  BY <2>1, <2>2
<1> QED  BY <1>1, <1>2, <1>3

\* A new loop: the row of a new session is queued, its task fresh; a message
\* leaves the row alone.
LEMMA SpawnIInv ==
  ASSUME IInv, TypeOK', NEW s \in Sessions, Create(s) \/ Message(s)
  PROVE  IInv'
<1> USE DEF IInv
<1>1. PICK t \in Tasks :
        /\ Unused(t)
        /\ loopOf' = [loopOf EXCEPT ![t] = s]
        /\ \/ /\ pc' = [pc EXCEPT ![t] = "fresh"]
              /\ status' = [status EXCEPT ![s] = "queued"]
           \/ /\ pc' = [pc EXCEPT ![t] = "scheduled"]
              /\ status' = status
        /\ active' = [active EXCEPT ![s] = t]
        /\ cancelReq' = cancelReq
  BY DEF Create, Message, Spawn, SetStatus
<1>2. RegistryKeyed'
  BY <1>1 DEF RegistryKeyed, HasLoop, Live, Unused, TypeOK
<1>3. CancelsStarted'
  BY <1>1 DEF CancelsStarted, Unused, TypeOK
<1>4. NoStrandedRow'
  BY <1>1 DEF NoStrandedRow, LoopsOf, Unused, Working, TypeOK
<1> QED  BY <1>2, <1>3, <1>4
\* The other handler segments and IndexingMoves change neither a task nor make
\* a row queued or running.
LEMMA HandlerIInv ==
  ASSUME IInv, TypeOK',
         \/ \E s \in Sessions : StopRow(s)
         \/ \E h \in Handlers : HandlerStep(h)
         \/ \E h \in Handlers, s \in Sessions : StopLoop(h, s) \/ Delete(h, s)
         \/ IndexingMoves
  PROVE  IInv'
<1> USE DEF IInv
<1>1. /\ pc' = pc /\ loopOf' = loopOf
      /\ \A s \in Sessions : active'[s] \in {active[s], NoTask}
      /\ \A s \in Sessions : status'[s] \in {status[s], "cancelled"}
  <2>1. ASSUME NEW h \in Handlers, NEW s \in Sessions, StopLoop(h, s)
        PROVE  status' = status /\ active' = active /\ pc' = pc /\ loopOf' = loopOf
    BY <2>1 DEF StopLoop, taskVars
  <2>2. ASSUME NEW h \in Handlers, NEW s \in Sessions, Delete(h, s)
        PROVE  status' = status /\ active' = active /\ pc' = pc /\ loopOf' = loopOf
    BY <2>2 DEF Delete, taskVars
  <2> QED  BY <2>1, <2>2
           DEF StopRow, HandlerStep, StopReturns, DeleteReturns,
               IndexingMoves, SetStatus, taskVars, TypeOK
<1>2. RegistryKeyed'
  BY <1>1 DEF RegistryKeyed, HasLoop, Live
<1>3. CancelsStarted'
  <2>1. ASSUME NEW h \in Handlers, NEW s \in Sessions, StopLoop(h, s)
        PROVE  CancelsStarted'
    <3>1. active[s] \in Tasks /\ pc[active[s]] # "free" /\ loopOf[active[s]] = s
      BY <2>1 DEF StopLoop, HasLoop, Live, RegistryKeyed, TypeOK
    <3>2. pc[active[s]] # "fresh"
      BY <2>1, <3>1 DEF StopLoop, Known, LoopsOf
    <3> QED  BY <1>1, <2>1, <3>1, <3>2 DEF StopLoop, CancelsStarted
  <2>2. ASSUME cancelReq' = cancelReq  PROVE CancelsStarted'
    BY <1>1, <2>2 DEF CancelsStarted
  <2> QED  BY <2>1, <2>2 DEF StopRow, HandlerStep, StopReturns,
                             DeleteReturns, IndexingMoves, Delete
<1>4. NoStrandedRow'
  BY <1>1 DEF NoStrandedRow, LoopsOf
<1> QED  BY <1>2, <1>3, <1>4

LEMMA CrashIInv ==
  ASSUME IInv, TypeOK', Crash
  PROVE  IInv'
  BY ConstantsAssumption
  DEF IInv, Crash, RegistryKeyed, HasLoop, CancelsStarted, NoStrandedRow, TypeOK

LEMMA InitIInv == Init => IInv
  BY InitTypeOK, ConstantsAssumption
  DEF Init, IInv, RegistryKeyed, HasLoop, CancelsStarted, NoStrandedRow

LEMMA NextIInv == IInv /\ [Next]_vars => IInv'
<1> SUFFICES ASSUME IInv, [Next]_vars  PROVE IInv'  OBVIOUS
<1>1. CASE Next
  <2>1. TypeOK'  BY <1>1, LoopStepTypeOK, RequestTypeOK DEF Next, IInv
  <2> QED  BY <1>1, <2>1, LoopStepIInv, SpawnIInv, HandlerIInv, CrashIInv DEF Next
<1>2. CASE UNCHANGED vars
  BY <1>2 DEF vars, IInv, TypeOK, RegistryKeyed, HasLoop, Live,
              CancelsStarted, NoStrandedRow, LoopsOf
<1> QED  BY <1>1, <1>2

\* A session row never claims a loop that does not exist, for any number of
\* sessions, loops and clients, as long as no fault hits the server.
THEOREM RowsNeverStranded == Spec => []NoStrandedRow
<1>1. IInv => NoStrandedRow  BY DEF IInv
<1> QED  BY <1>1, InitIInv, NextIInv, PTL DEF Spec

-----------------------------------------------------------------------------
(* Registry, rows and requests.                                            *)

\* A session whose row is new has a loop that has not started and has met no
\* request; one with a loop or an open request has a row.
FreshIsQueued ==
  /\ \A t \in Tasks : Live(t) =>
       /\ status[loopOf[t]] # "none"
       /\ pc[t] = "fresh" => status[loopOf[t]] = "queued" /\ crossed[loopOf[t]] = {}
  /\ \A s \in Sessions : status[s] = "none" => crossed[s] = {}
HandlersKnow ==
  \A h \in Handlers : handler[h] # Idle => status[handler[h].sess] # "none"

\* A session that is being deleted, and where requests have not crossed, has no
\* loop.
DeletesAtRest ==
  \A h \in Handlers : handler[h].op = "delete" /\ crossed[handler[h].sess] = {} =>
    LoopsOf(handler[h].sess) = {}

\* If no message has crossed, the task that a stop awaits is its session's only
\* loop, and cancelled; when it is gone the row says so, if it could.
StopsAwaitTheLoop ==
  \A h \in Handlers :
    handler[h].op = "stop" /\ "message" \notin crossed[handler[h].sess] =>
      /\ LoopsOf(handler[h].sess) \subseteq {handler[h].task}
      /\ IF Live(handler[h].task)
         THEN /\ handler[h].task \in cancelReq
              /\ loopOf[handler[h].task] = handler[h].sess
         ELSE status[handler[h].sess] = "cancelled" \/ handler[h].task \in unsaid

\* The inductive invariant.
RequestInv ==
  /\ IInv
  /\ LoopsRegistered
  /\ RowFollowsLoop
  /\ FreshIsQueued
  /\ HandlersKnow
  /\ DeletesAtRest
  /\ StopsAwaitTheLoop

LEMMA HandlerTypes ==
  ASSUME TypeOK, NEW h \in Handlers, handler[h] # Idle
  PROVE  /\ handler[h].sess \in Sessions
         /\ handler[h].op = "stop" => handler[h].task \in Tasks
         /\ handler[h].op \in {"stop", "delete"}
  BY DEF TypeOK, HandlerStates

-----------------------------------------------------------------------------
\* What a step of a loop may do: the loop goes on and its row says so, or it
\* ends, with or without a last word.
GoesOn(t) ==
  /\ loopOf' = loopOf /\ active' = active /\ unsaid' = unsaid
  /\ t \notin cancelReq /\ cancelReq' = cancelReq
  /\ \/ /\ pc[t] \in {"fresh", "scheduled"} /\ pc'[t] \in Working
        /\ status'[loopOf[t]] = "running"
     \/ /\ pc[t] \in Working /\ pc'[t] \in Working
        /\ status'[loopOf[t]] \in {"running", status[loopOf[t]]}
     \/ /\ pc[t] \in Working /\ pc'[t] = "refresh"
        /\ status'[loopOf[t]] = "completed"
EndsUp(t) ==
  /\ pc'[t] = "free" /\ loopOf'[t] = NoSession
  /\ cancelReq' = cancelReq \ {t} /\ unsaid \subseteq unsaid'
  /\ t \in cancelReq => status'[loopOf[t]] = "cancelled" \/ t \in unsaid'
  /\ \/ pc[t] \in {"fresh", "scheduled"} /\ status'[loopOf[t]] = status[loopOf[t]]
     \/ /\ pc[t] \in Working
        /\ \/ status'[loopOf[t]] \in {"failed", "awaiting_input", "cancelled"}
           \/ "db" \in Faults /\ status'[loopOf[t]] = status[loopOf[t]]
     \/ /\ pc[t] = "refresh"
        /\ status'[loopOf[t]] \in {"cancelled", status[loopOf[t]]}
LoopFrame(t) ==
  /\ handler' = handler /\ crossed' = crossed
  /\ loopOf[t] \in Sessions
  /\ \A u \in Tasks \ {t} : pc'[u] = pc[u] /\ loopOf'[u] = loopOf[u]
  /\ \A x \in Sessions \ {loopOf[t]} : status'[x] = status[x] /\ active'[x] = active[x]

LEMMA LoopEffect ==
  ASSUME TypeOK, NEW t \in Tasks, LoopStep(t)
  PROVE  LoopFrame(t) /\ (GoesOn(t) \/ EndsUp(t))
<1> USE DEF TypeOK, LoopPcs, Working, SetStatus, MoveTo, Release, EndLoop, Completes,
            LastWrite, NeverRuns, LoopFrame, GoesOn, EndsUp
<1>1. CASE Start(t)  BY <1>1 DEF Start
<1>2. CASE StartFails(t)  BY <1>2 DEF StartFails
<1>3. CASE PrequeryReturns(t)  BY <1>3 DEF PrequeryReturns
<1>4. CASE ReplyIsText(t)  BY <1>4 DEF ReplyIsText
<1>5. CASE ReplyHasTools(t)  BY <1>5 DEF ReplyHasTools
<1>6. CASE LlmFails(t)  BY <1>6 DEF LlmFails
<1>7. CASE LoopRaises(t)  BY <1>7 DEF LoopRaises
<1>8. CASE ToolsContinue(t)  BY <1>8 DEF ToolsContinue
<1>9. CASE TurnsExhausted(t)  BY <1>9 DEF TurnsExhausted
<1>10. CASE ToolsDone(t)  BY <1>10 DEF ToolsDone
<1>11. CASE ToolsAsk(t)  BY <1>11 DEF ToolsAsk
<1>12. CASE RefreshReturns(t)  BY <1>12 DEF RefreshReturns
<1>13. CASE CancelDelivered(t)  BY <1>13 DEF CancelDelivered
<1>14. CASE CancelUnstarted(t)  BY <1>14 DEF CancelUnstarted
<1> QED  BY <1>1, <1>2, <1>3, <1>4, <1>5, <1>6, <1>7, <1>8, <1>9, <1>10, <1>11,
            <1>12, <1>13, <1>14 DEF LoopStep

\* Where no message has crossed, a loop is alone.
LEMMA AloneUncrossed ==
  ASSUME TypeOK, LoopsRegistered, NEW t \in Tasks, NEW u \in Tasks,
         loopOf[t] = loopOf[u], loopOf[t] \in Sessions,
         "message" \notin crossed[loopOf[t]]
  PROVE  t = u
  BY ConstantsAssumption DEF LoopsRegistered, Live, TypeOK

LEMMA LoopStepRequests ==
  ASSUME RequestInv, IInv', NEW t \in Tasks, LoopStep(t)
  PROVE  RequestInv'
<1> USE DEF RequestInv, IInv
<1>1. LoopFrame(t) /\ (GoesOn(t) \/ EndsUp(t))
  BY LoopEffect
<1>2. Live(t) /\ loopOf[t] \in Sessions
  BY <1>1, ConstantsAssumption DEF LoopFrame, Live, TypeOK
<1>3. \A u \in Tasks \ {t} : Live(u) =>
        loopOf[u] \in Sessions /\ (loopOf[u] = loopOf[t] => "message" \in crossed[loopOf[u]])
  BY <1>2, AloneUncrossed DEF Live, TypeOK
<1>4. LoopsRegistered'
  BY <1>1, <1>2, <1>3 DEF LoopFrame, GoesOn, EndsUp, LoopsRegistered, Live
<1>5. RowFollowsLoop'
  BY <1>1, <1>2, <1>3 DEF LoopFrame, GoesOn, EndsUp, RowFollowsLoop, Live, Working
<1>6. FreshIsQueued'
  <2>1. status'[loopOf[t]] # "none"
    BY <1>1, <1>2 DEF LoopFrame, GoesOn, EndsUp, FreshIsQueued
  <2>2. \A s \in Sessions : status'[s] = "none" => crossed'[s] = {}
    BY <1>1, <2>1 DEF LoopFrame, FreshIsQueued
  <2>3. pc'[t] # "fresh"
    BY <1>1 DEF GoesOn, EndsUp, Working
  <2>4. ASSUME NEW u \in Tasks, Live(u)'
        PROVE  /\ status'[loopOf'[u]] # "none"
               /\ pc'[u] = "fresh" => status'[loopOf'[u]] = "queued" /\ crossed'[loopOf'[u]] = {}
    <3>1. CASE u = t
      BY <1>1, <2>1, <2>3, <2>4, <3>1 DEF GoesOn, EndsUp, Live
    <3>2. CASE u # t
      BY <1>1, <1>3, <2>1, <2>4, <3>2 DEF LoopFrame, FreshIsQueued, Live
    <3> QED  BY <3>1, <3>2
  <2> QED  BY <2>2, <2>4 DEF FreshIsQueued, Live
<1>7. HandlersKnow'
  <2>1. \A h \in Handlers : handler[h] # Idle => handler[h].sess \in Sessions
    BY HandlerTypes
  <2>2. status'[loopOf[t]] # "none"
    BY <1>1, <1>2 DEF LoopFrame, GoesOn, EndsUp, FreshIsQueued
  <2> QED  BY <1>1, <1>2, <2>1, <2>2 DEF LoopFrame, HandlersKnow
<1>8. DeletesAtRest'
  <2> SUFFICES ASSUME NEW h \in Handlers, handler[h].op = "delete",
                      crossed[handler[h].sess] = {}, NEW u \in Tasks
               PROVE  loopOf'[u] # handler[h].sess
    BY <1>1 DEF LoopFrame, DeletesAtRest, LoopsOf
  <2>1. handler[h].sess \in Sessions
    BY HandlerTypes DEF Idle
  <2>2. loopOf[u] # handler[h].sess
    BY DEF DeletesAtRest, LoopsOf
  <2> QED  BY <1>1, <2>1, <2>2, ConstantsAssumption DEF LoopFrame, GoesOn, EndsUp
<1>9. StopsAwaitTheLoop'
  <2> SUFFICES ASSUME NEW h \in Handlers, handler[h].op = "stop",
                      "message" \notin crossed[handler[h].sess]
               PROVE  /\ LoopsOf(handler[h].sess)' \subseteq {handler[h].task}
                      /\ IF Live(handler[h].task)'
                         THEN /\ handler[h].task \in cancelReq'
                              /\ loopOf'[handler[h].task] = handler[h].sess
                         ELSE \/ status'[handler[h].sess] = "cancelled"
                              \/ handler[h].task \in unsaid'
    BY <1>1 DEF LoopFrame, StopsAwaitTheLoop, Live, LoopsOf
  <2>1. handler[h].sess \in Sessions /\ handler[h].task \in Tasks
    BY HandlerTypes DEF Idle
  <2>2. CASE handler[h].sess = loopOf[t]
    <3>1. handler[h].task = t
      BY <2>2 DEF StopsAwaitTheLoop, LoopsOf
    <3>2. t \in cancelReq
      BY <1>2, <3>1 DEF StopsAwaitTheLoop
    <3>3. EndsUp(t)
      BY <1>1, <3>2 DEF GoesOn
    <3>4. \A u \in Tasks \ {t} : loopOf'[u] # loopOf[t]
      BY <1>1, <1>2, <2>2, AloneUncrossed DEF LoopFrame
    <3> QED  BY <1>1, <1>2, <2>2, <3>1, <3>2, <3>3, <3>4, ConstantsAssumption
             DEF LoopFrame, EndsUp, LoopsOf, Live
  <2>3. CASE handler[h].sess # loopOf[t]
    <3>1. handler[h].task # t
      BY <1>2, <2>3 DEF StopsAwaitTheLoop
    <3>2. LoopsOf(handler[h].sess)' = LoopsOf(handler[h].sess)
      BY <1>1, <2>1, <2>3, ConstantsAssumption DEF LoopFrame, GoesOn, EndsUp, LoopsOf
    <3> QED  BY <1>1, <2>1, <2>3, <3>1, <3>2
             DEF LoopFrame, GoesOn, EndsUp, StopsAwaitTheLoop, Live
  <2> QED  BY <2>2, <2>3
<1> QED  BY <1>4, <1>5, <1>6, <1>7, <1>8, <1>9

\* A new loop is registered; if it is not alone, its message crosses.
LEMMA SpawnRequests ==
  ASSUME RequestInv, IInv', NEW s \in Sessions, Create(s) \/ Message(s)
  PROVE  RequestInv'
<1> USE DEF RequestInv, IInv
<1>1. PICK t \in Tasks :
        /\ Unused(t)
        /\ loopOf' = [loopOf EXCEPT ![t] = s]
        /\ \/ /\ pc' = [pc EXCEPT ![t] = "fresh"]
              /\ status[s] = "none" /\ status' = [status EXCEPT ![s] = "queued"]
              /\ crossed' = crossed
           \/ /\ pc' = [pc EXCEPT ![t] = "scheduled"]
              /\ status' = status /\ status[s] # "none"
              /\ crossed' = [crossed EXCEPT ![s] = IF AtRest(s) THEN {} ELSE @ \cup {"message"}]
        /\ active' = [active EXCEPT ![s] = t]
        /\ cancelReq' = cancelReq /\ handler' = handler /\ unsaid' = unsaid \ {t}
  BY DEF Create, Message, Spawn, SetStatus, Known, Meets
<1>2. status[s] = "none" => AtRest(s) /\ crossed[s] = {}
  BY HandlerTypes, ConstantsAssumption
  DEF AtRest, Open, LoopsOf, FreshIsQueued, HandlersKnow, Live, Idle, TypeOK
<1>3. /\ crossed' \in [Sessions -> SUBSET {"message", "delete"}]
      /\ \A x \in Sessions \ {s} : crossed'[x] = crossed[x]
      /\ "message" \notin crossed'[s] => AtRest(s)
      /\ pc'[t] = "fresh" => crossed'[s] = {}
  BY <1>1, <1>2 DEF TypeOK
<1>4. \A h \in Handlers : handler[h] # Idle =>
        handler[h].sess \in Sessions /\ handler[h].task # t
  BY <1>1, HandlerTypes DEF Unused
<1>5. t \notin cancelReq /\ pc[t] = "free" /\ loopOf[t] = NoSession
  BY <1>1 DEF Unused, CancelsStarted, TypeOK
<1>6. /\ loopOf'[t] = s /\ \A u \in Tasks \ {t} : loopOf'[u] = loopOf[u] /\ pc'[u] = pc[u]
      /\ pc'[t] \in {"fresh", "scheduled"}
      /\ active'[s] = t /\ \A x \in Sessions \ {s} : active'[x] = active[x] /\ status'[x] = status[x]
      /\ status'[s] # "none" /\ (pc'[t] = "fresh" => status'[s] = "queued")
  BY <1>1 DEF TypeOK
<1>7. AtRest(s) => /\ \A u \in Tasks : loopOf[u] # s
                   /\ \A h \in Handlers : handler[h].sess # s
  BY DEF AtRest, LoopsOf, Open
<1>8. \A u \in Tasks : Live(u) => loopOf[u] \in Sessions
  BY DEF Live, TypeOK
<1>9. LoopsRegistered'
  <2> SUFFICES ASSUME NEW u \in Tasks, pc'[u] # "free"
               PROVE  active'[loopOf'[u]] = u \/ "message" \in crossed'[loopOf'[u]]
    BY DEF LoopsRegistered, Live
  <2>1. CASE u = t
    BY <1>6, <2>1
  <2>2. CASE u # t
    <3>1. Live(u) /\ loopOf'[u] = loopOf[u] /\ loopOf[u] \in Sessions
      BY <1>6, <1>8, <2>2 DEF Live
    <3> QED  BY <1>3, <1>6, <1>7, <3>1 DEF LoopsRegistered
  <2> QED  BY <2>1, <2>2
<1>10. RowFollowsLoop'
  <2> SUFFICES ASSUME NEW u \in Tasks, pc'[u] # "free", crossed'[loopOf'[u]] = {}
               PROVE  /\ pc'[u] \in Working => status'[loopOf'[u]] = "running"
                      /\ pc'[u] = "refresh" => status'[loopOf'[u]] = "completed"
    BY DEF RowFollowsLoop, Live
  <2>1. CASE u = t
    BY <1>6, <2>1 DEF Working
  <2>2. CASE u # t
    <3>1. Live(u) /\ loopOf'[u] = loopOf[u] /\ pc'[u] = pc[u] /\ loopOf[u] \in Sessions
      BY <1>6, <1>8, <2>2 DEF Live
    <3> QED  BY <1>3, <1>6, <1>7, <3>1 DEF RowFollowsLoop
  <2> QED  BY <2>1, <2>2
<1>11. FreshIsQueued'
  <2>1. \A x \in Sessions : status'[x] = "none" => crossed'[x] = {}
    BY <1>3, <1>6 DEF FreshIsQueued
  <2>2. ASSUME NEW u \in Tasks, pc'[u] # "free"
        PROVE  /\ status'[loopOf'[u]] # "none"
               /\ pc'[u] = "fresh" => status'[loopOf'[u]] = "queued" /\ crossed'[loopOf'[u]] = {}
    <3>1. CASE u = t
      BY <1>3, <1>6, <3>1
    <3>2. CASE u # t
      <4>1. Live(u) /\ loopOf'[u] = loopOf[u] /\ pc'[u] = pc[u] /\ loopOf[u] \in Sessions
        BY <1>6, <1>8, <2>2, <3>2 DEF Live
      <4>2. loopOf[u] = s => pc[u] # "fresh"
        <5>1. CASE Create(s)
          BY <1>2, <1>7, <5>1 DEF Create
        <5>2. CASE Message(s)
          BY <5>2 DEF Message, Known, LoopsOf
        <5> QED  BY <5>1, <5>2
      <4> QED  BY <1>3, <1>6, <4>1, <4>2 DEF FreshIsQueued
    <3> QED  BY <3>1, <3>2
  <2> QED  BY <2>1, <2>2 DEF FreshIsQueued, Live
<1>12. HandlersKnow'
  BY <1>1, <1>4, <1>6 DEF HandlersKnow
<1>13. DeletesAtRest'
  <2> SUFFICES ASSUME NEW h \in Handlers, handler[h].op = "delete",
                      crossed'[handler[h].sess] = {}, NEW u \in Tasks
               PROVE  loopOf'[u] # handler[h].sess
    BY <1>1 DEF DeletesAtRest, LoopsOf
  <2>1. handler[h].sess \in Sessions \ {s}
    BY <1>3, <1>4, <1>7 DEF Idle
  <2>2. LoopsOf(handler[h].sess) = {}
    BY <1>3, <2>1 DEF DeletesAtRest
  <2> QED  BY <1>6, <2>1, <2>2 DEF LoopsOf
<1>14. StopsAwaitTheLoop'
  <2> SUFFICES ASSUME NEW h \in Handlers, handler[h].op = "stop",
                      "message" \notin crossed'[handler[h].sess]
               PROVE  /\ LoopsOf(handler[h].sess)' \subseteq {handler[h].task}
                      /\ IF Live(handler[h].task)'
                         THEN /\ handler[h].task \in cancelReq'
                              /\ loopOf'[handler[h].task] = handler[h].sess
                         ELSE \/ status'[handler[h].sess] = "cancelled"
                              \/ handler[h].task \in unsaid'
    BY <1>1 DEF StopsAwaitTheLoop, Live, LoopsOf
  <2>1. handler[h].sess \in Sessions \ {s} /\ handler[h].task \in Tasks \ {t}
    BY <1>3, <1>4, <1>7, HandlerTypes DEF Idle
  <2>2. "message" \notin crossed[handler[h].sess]
    BY <1>3, <2>1
  <2>3. LoopsOf(handler[h].sess)' = LoopsOf(handler[h].sess)
    BY <1>1, <1>5, <1>6, <2>1, ConstantsAssumption DEF LoopsOf
  <2> QED  BY <1>1, <1>6, <2>1, <2>2, <2>3 DEF StopsAwaitTheLoop, Live
<1> QED  BY <1>9, <1>10, <1>11, <1>12, <1>13, <1>14

\* A stop finds the registered loop, and asks it to end.
LEMMA StopLoopRequests ==
  ASSUME RequestInv, IInv', NEW h \in Handlers, NEW s \in Sessions, StopLoop(h, s)
  PROVE  RequestInv'
<1> USE DEF RequestInv, IInv
<1>1. active[s] \in Tasks /\ Live(active[s]) /\ loopOf[active[s]] = s
  BY DEF StopLoop, HasLoop, Live, RegistryKeyed, TypeOK
<1>2. /\ status[s] # "none"
      /\ "message" \notin crossed[s] => \A u \in Tasks : loopOf[u] = s => u = active[s]
  BY <1>1, AloneUncrossed DEF StopLoop, Known
<1>3. /\ UNCHANGED <<status, loopOf, pc, active, unsaid, crossed>>
      /\ cancelReq' = cancelReq \cup {active[s]}
      /\ handler' = [handler EXCEPT ![h] = [op |-> "stop", sess |-> s, task |-> active[s]]]
  BY DEF StopLoop, taskVars
<1>4. LoopsRegistered' /\ RowFollowsLoop' /\ FreshIsQueued'
  BY <1>3 DEF LoopsRegistered, RowFollowsLoop, FreshIsQueued, Live
<1>5. HandlersKnow'
  BY <1>2, <1>3 DEF HandlersKnow, TypeOK
<1>6. DeletesAtRest'
  BY <1>3 DEF DeletesAtRest, LoopsOf, TypeOK
<1>7. StopsAwaitTheLoop'
  BY <1>1, <1>2, <1>3 DEF StopsAwaitTheLoop, LoopsOf, Live, TypeOK
<1> QED  BY <1>4, <1>5, <1>6, <1>7

\* A delete crosses, or finds its session at rest.
LEMMA DeleteRequests ==
  ASSUME RequestInv, IInv', NEW h \in Handlers, NEW s \in Sessions, Delete(h, s)
  PROVE  RequestInv'
<1> USE DEF RequestInv, IInv
<1>1. /\ UNCHANGED <<status, loopOf, pc, active, unsaid, cancelReq>>
      /\ handler' = [handler EXCEPT ![h] = [op |-> "delete", sess |-> s, task |-> NoTask]]
      /\ status[s] # "none" /\ \A u \in Tasks : loopOf[u] = s => pc[u] # "fresh"
      /\ crossed' = [crossed EXCEPT ![s] = IF AtRest(s) THEN {} ELSE @ \cup {"delete"}]
  BY DEF Delete, Known, LoopsOf, Meets, taskVars
<1>2. /\ \A x \in Sessions \ {s} : crossed'[x] = crossed[x]
      /\ "message" \notin crossed'[s] => "message" \notin crossed[s] \/ AtRest(s)
      /\ crossed'[s] = {} => AtRest(s)
  BY <1>1 DEF TypeOK
<1>3. AtRest(s) => /\ \A u \in Tasks : loopOf[u] # s
                   /\ \A g \in Handlers : handler[g].sess # s
  BY DEF AtRest, LoopsOf, Open
<1>4. \A u \in Tasks : Live(u) => loopOf[u] \in Sessions
  BY DEF Live, TypeOK
<1>5. LoopsRegistered' /\ RowFollowsLoop' /\ FreshIsQueued'
  BY <1>1, <1>2, <1>3, <1>4 DEF LoopsRegistered, RowFollowsLoop, FreshIsQueued, Live
<1>6. HandlersKnow'
  BY <1>1 DEF HandlersKnow, TypeOK
<1>7. DeletesAtRest'
  <2> SUFFICES ASSUME NEW g \in Handlers, handler'[g].op = "delete",
                      crossed'[handler'[g].sess] = {}
               PROVE  LoopsOf(handler[g].sess)' = {}
    BY DEF DeletesAtRest
  <2>1. CASE g = h
    BY <1>1, <1>2, <1>3, <2>1 DEF LoopsOf, TypeOK
  <2>2. CASE g # h
    <3>1. handler'[g] = handler[g] /\ handler[g].sess \in Sessions
      BY <1>1, <2>2, HandlerTypes DEF TypeOK, Idle
    <3>2. crossed[handler[g].sess] = {}
      BY <1>2, <1>3, <3>1
    <3> QED  BY <1>1, <3>1, <3>2 DEF DeletesAtRest, LoopsOf
  <2> QED  BY <2>1, <2>2
<1>8. StopsAwaitTheLoop'
  <2> SUFFICES ASSUME NEW g \in Handlers, handler'[g].op = "stop",
                      "message" \notin crossed'[handler'[g].sess]
               PROVE  handler'[g] = handler[g] /\ "message" \notin crossed[handler[g].sess]
    BY <1>1 DEF StopsAwaitTheLoop, LoopsOf, Live
  <2>1. handler'[g] = handler[g] /\ handler[g].sess \in Sessions
    BY <1>1, HandlerTypes DEF TypeOK, Idle
  <2> QED  BY <1>2, <1>3, <2>1
<1> QED  BY <1>5, <1>6, <1>7, <1>8

\* The other handler steps leave every task alone; where no requests have
\* crossed they write a row only if its session has no loop.
LEMMA HandlerRequests ==
  ASSUME RequestInv, IInv',
         \/ \E s \in Sessions : StopRow(s)
         \/ \E h \in Handlers : HandlerStep(h)
         \/ IndexingMoves
  PROVE  RequestInv'
<1> USE DEF RequestInv, IInv
<1>1. /\ UNCHANGED <<loopOf, pc, cancelReq, unsaid, crossed>>
      /\ \A s \in Sessions :
           /\ \/ active'[s] = active[s]
              \/ "message" \notin crossed[s] => \A u \in Tasks : loopOf[u] # s
           /\ \/ status'[s] = status[s]
              \/ /\ status'[s] = "cancelled" /\ status[s] # "none"
                 /\ \A u \in Tasks : loopOf[u] = s => pc[u] # "fresh"
                 /\ crossed[s] = {} => \A u \in Tasks : loopOf[u] # s
      /\ \A h \in Handlers : handler'[h] \in {handler[h], Idle}
  <2>1. ASSUME NEW h \in Handlers, StopReturns(h)
        PROVE  /\ UNCHANGED <<status, loopOf, pc, cancelReq, unsaid, crossed>>
               /\ handler[h].sess \in Sessions
               /\ active' = [active EXCEPT ![handler[h].sess] = NoTask]
               /\ handler' = [handler EXCEPT ![h] = Idle]
               /\ "message" \notin crossed[handler[h].sess] =>
                    \A u \in Tasks : loopOf[u] # handler[h].sess
    <3>1. handler[h].op = "stop" /\ handler[h].sess \in Sessions
      BY <2>1, HandlerTypes DEF StopReturns, Idle
    <3>2. "message" \notin crossed[handler[h].sess] =>
            \A u \in Tasks : loopOf[u] = handler[h].sess => u = handler[h].task /\ Live(u)
      BY <3>1, ConstantsAssumption DEF StopsAwaitTheLoop, LoopsOf, Live, TypeOK
    <3> QED  BY <2>1, <3>1, <3>2 DEF StopReturns, taskVars
  <2>2. ASSUME NEW h \in Handlers, DeleteReturns(h)
        PROVE  /\ UNCHANGED <<loopOf, pc, cancelReq, unsaid, crossed, active>>
               /\ handler[h].sess \in Sessions /\ status[handler[h].sess] # "none"
               /\ \/ status' = status
                  \/ status' = [status EXCEPT ![handler[h].sess] = "cancelled"]
               /\ handler' = [handler EXCEPT ![h] = Idle]
               /\ crossed[handler[h].sess] = {} => \A u \in Tasks : loopOf[u] # handler[h].sess
               /\ \A u \in Tasks : loopOf[u] = handler[h].sess => pc[u] # "fresh"
    <3>1. handler[h].op = "delete" /\ handler[h].sess \in Sessions /\ handler[h] # Idle
      BY <2>2, HandlerTypes DEF DeleteReturns, Idle
    <3>2. crossed[handler[h].sess] = {} => \A u \in Tasks : loopOf[u] # handler[h].sess
      BY <3>1 DEF DeletesAtRest, LoopsOf
    <3>3. \A u \in Tasks : loopOf[u] = handler[h].sess => pc[u] # "fresh"
      BY <3>1, <3>2 DEF FreshIsQueued, Live
    <3> QED  BY <2>2, <3>1, <3>2, <3>3 DEF DeleteReturns, HandlersKnow, SetStatus, taskVars
  <2>3. ASSUME NEW s \in Sessions, StopRow(s)
        PROVE  /\ UNCHANGED <<loopOf, pc, cancelReq, handler, unsaid, crossed>>
               /\ active' = [active EXCEPT ![s] = NoTask]
               /\ status' = [status EXCEPT ![s] = "cancelled"] /\ status[s] # "none"
               /\ \A u \in Tasks : loopOf[u] = s => pc[u] # "fresh"
               /\ "message" \notin crossed[s] => \A u \in Tasks : loopOf[u] # s
    <3>1. "message" \notin crossed[s] => \A u \in Tasks : loopOf[u] # s
      BY <2>3, ConstantsAssumption DEF StopRow, HasLoop, LoopsRegistered, Live, TypeOK
    <3> QED  BY <2>3, <3>1 DEF StopRow, SetStatus, taskVars, Known, LoopsOf
  <2>4. CASE \E h \in Handlers : StopReturns(h)
    BY <2>1, <2>4 DEF TypeOK
  <2>5. CASE \E h \in Handlers : DeleteReturns(h)
    BY <2>2, <2>5 DEF TypeOK
  <2>6. CASE \E s \in Sessions : StopRow(s)
    BY <2>3, <2>6 DEF TypeOK
  <2>7. CASE IndexingMoves
    BY <2>7 DEF IndexingMoves, taskVars
  <2> QED  BY <2>4, <2>5, <2>6, <2>7 DEF HandlerStep
<1>2. \A u \in Tasks : Live(u) => loopOf[u] \in Sessions
  BY DEF Live, TypeOK
<1>3. LoopsRegistered'
  BY <1>1, <1>2 DEF LoopsRegistered, Live
<1>4. RowFollowsLoop'
  BY <1>1, <1>2 DEF RowFollowsLoop, Live
<1>5. FreshIsQueued'
  BY <1>1, <1>2 DEF FreshIsQueued, Live
<1>6. HandlersKnow'
  <2>1. \A h \in Handlers : handler[h] # Idle => handler[h].sess \in Sessions
    BY HandlerTypes
  <2> QED  BY <1>1, <2>1 DEF HandlersKnow
<1>7. DeletesAtRest'
  BY <1>1 DEF DeletesAtRest, LoopsOf, Idle
<1>8. StopsAwaitTheLoop'
  <2>1. \A h \in Handlers : handler'[h].op = "stop" =>
          handler'[h] = handler[h] /\ handler[h].sess \in Sessions
    BY <1>1, HandlerTypes DEF Idle
  <2> QED  BY <1>1, <2>1 DEF StopsAwaitTheLoop, LoopsOf, Live
<1> QED  BY <1>3, <1>4, <1>5, <1>6, <1>7, <1>8

LEMMA CrashRequests ==
  ASSUME RequestInv, IInv', Crash
  PROVE  RequestInv'
  BY ConstantsAssumption
  DEF RequestInv, IInv, Crash, LoopsRegistered, RowFollowsLoop, FreshIsQueued, HandlersKnow,
      DeletesAtRest, StopsAwaitTheLoop, Live, LoopsOf, Working, TypeOK, Idle

LEMMA NextRequests ==
  ASSUME RequestInv, [Next]_vars
  PROVE  RequestInv'
<1>1. IInv'  BY NextIInv DEF RequestInv
<1>2. CASE Next
  BY <1>1, <1>2, LoopStepRequests, SpawnRequests, StopLoopRequests, DeleteRequests,
     HandlerRequests, CrashRequests
  DEF Next
<1>3. CASE UNCHANGED vars
  BY <1>1, <1>3
  DEF RequestInv, vars, LoopsRegistered, RowFollowsLoop, FreshIsQueued, HandlersKnow,
      DeletesAtRest, StopsAwaitTheLoop, Live, LoopsOf, Idle
<1> QED  BY <1>2, <1>3

LEMMA RequestInvCorrect == Spec => []RequestInv
<1>1. Init => RequestInv
  BY InitIInv, ConstantsAssumption
  DEF Init, RequestInv, LoopsRegistered, RowFollowsLoop, FreshIsQueued, HandlersKnow,
      DeletesAtRest, StopsAwaitTheLoop, Live, Working, Idle
<1>2. RequestInv /\ [Next]_vars => RequestInv'
  BY NextRequests
<1> QED  BY <1>1, <1>2, PTL DEF Spec

\* For any clients and under any fault, a live loop is the registered one of its
\* session, unless a message came before the session was at rest.
THEOREM RegistryKnowsLoops == Spec => []LoopsRegistered
<1>1. RequestInv => LoopsRegistered  BY DEF RequestInv
<1> QED  BY <1>1, RequestInvCorrect, PTL

\* A stop that is answered has been final: the row says cancelled when
\* stop_session returns, unless the cancelled loop never ran, its last write was
\* refused, or a message had started another loop.
THEOREM StopsAreFinal == Spec => StopTakesEffect
<1> DEFINE Effect ==
      \A h \in Handlers :
          /\ handler[h].op = "stop" /\ ~ Live(handler[h].task) /\ handler'[h] = Idle
          /\ handler[h].task \notin unsaid
          /\ "message" \notin crossed[handler[h].sess]
        => status'[handler[h].sess] = "cancelled"
<1>1. RequestInv /\ [Next]_vars => [Effect]_vars
  <2> SUFFICES ASSUME RequestInv, Next, NEW h \in Handlers, handler[h].op = "stop",
                      ~ Live(handler[h].task), handler'[h] = Idle,
                      handler[h].task \notin unsaid,
                      "message" \notin crossed[handler[h].sess]
               PROVE  status'[handler[h].sess] = "cancelled"
    OBVIOUS
  <2>1. handler[h].sess \in Sessions /\ status[handler[h].sess] = "cancelled"
    BY HandlerTypes DEF RequestInv, IInv, Idle, StopsAwaitTheLoop
  <2>2. handler'[h] # handler[h]
    BY DEF Idle
  <2>3. CASE \E t \in Tasks : LoopStep(t)
    BY <2>2, <2>3, LoopEffect DEF RequestInv, IInv, LoopFrame
  <2>4. CASE \E s \in Sessions : Create(s) \/ Message(s) \/ StopRow(s)
    BY <2>2, <2>4 DEF Create, Message, StopRow
  <2>5. CASE \E g \in Handlers : HandlerStep(g)
    <3>1. ASSUME NEW g \in Handlers, HandlerStep(g)  PROVE status' = status
      <4>1. g = h
        BY <2>2, <3>1 DEF HandlerStep, StopReturns, DeleteReturns, RequestInv, IInv, TypeOK
      <4> QED  BY <3>1, <4>1 DEF HandlerStep, StopReturns, DeleteReturns
    <3> QED  BY <2>1, <2>5, <3>1
  <2>6. CASE \E g \in Handlers, s \in Sessions : StopLoop(g, s) \/ Delete(g, s)
    BY <2>1, <2>6 DEF StopLoop, Delete
  <2>7. CASE Crash \/ IndexingMoves
    BY <2>1, <2>7 DEF Crash, IndexingMoves
  <2> QED  BY <2>3, <2>4, <2>5, <2>6, <2>7 DEF Next
<1> QED  BY <1>1, RequestInvCorrect, PTL DEF Spec, StopTakesEffect

-----------------------------------------------------------------------------
(* The lifecycle.                                                          *)

Work == [s \in Sessions |-> WorkOf(s)]

\* A session at rest has no agent; where requests have not crossed it has the
\* agent of its one loop.
WorkReads ==
  \A s \in Sessions :
    /\ AtRest(s) => WorkOf(s) = "none"
    /\ ~ AtRest(s) /\ crossed[s] # {} => WorkOf(s) = "several"
    /\ ~ AtRest(s) /\ crossed[s] = {} /\ LoopsOf(s) = {} => WorkOf(s) = "closing"
    /\ \A t \in LoopsOf(s) : crossed[s] = {} => WorkOf(s) = Doing(t)

LEMMA WorkIs == RequestInv => WorkReads
<1> SUFFICES ASSUME RequestInv, NEW s \in Sessions
             PROVE  /\ AtRest(s) => WorkOf(s) = "none"
                    /\ ~ AtRest(s) /\ crossed[s] # {} => WorkOf(s) = "several"
                    /\ ~ AtRest(s) /\ crossed[s] = {} /\ LoopsOf(s) = {} => WorkOf(s) = "closing"
                    /\ \A t \in LoopsOf(s) : crossed[s] = {} => WorkOf(s) = Doing(t)
  BY DEF WorkReads
<1>1. ASSUME NEW t \in LoopsOf(s), crossed[s] = {}  PROVE WorkOf(s) = Doing(t)
  <2>1. \A u \in LoopsOf(s) : u = t
    BY <1>1, AloneUncrossed DEF LoopsOf, RequestInv, IInv
  <2>2. (CHOOSE u \in LoopsOf(s) : TRUE) = t
    BY <1>1, <2>1
  <2>3. ~ AtRest(s) /\ LoopsOf(s) # {}
    BY <1>1 DEF AtRest
  <2> QED  BY <1>1, <2>2, <2>3 DEF WorkOf
<1> QED  BY <1>1 DEF WorkOf

LEMMA NextWork == RequestInv' => WorkReads'
  BY WorkIs, PTL

\* A step that moves the loops and requests of one session only.
LEMMA OneSessionsWork ==
  ASSUME RequestInv, RequestInv', NEW s \in Sessions,
         \A u \in Tasks : \/ loopOf'[u] = loopOf[u] /\ pc'[u] = pc[u]
                          \/ loopOf[u] \in {s, NoSession} /\ loopOf'[u] \in {s, NoSession},
         \A h \in Handlers : \/ handler'[h] = handler[h]
                             \/ handler[h].sess \in {s, NoSession} /\ handler'[h].sess \in {s, NoSession},
         \A x \in Sessions \ {s} : crossed'[x] = crossed[x]
  PROVE  /\ Work' = [Work EXCEPT ![s] = WorkOf(s)']
         /\ WorkOf(s)' = WorkOf(s) => Work' = Work
<1>1. ASSUME NEW x \in Sessions \ {s}  PROVE WorkOf(x)' = WorkOf(x)
  <2>1. x # NoSession
    BY ConstantsAssumption
  <2>2. LoopsOf(x)' = LoopsOf(x) /\ \A t \in LoopsOf(x) : pc'[t] = pc[t]
    BY <2>1 DEF LoopsOf
  <2>3. AtRest(x)' <=> AtRest(x)
    BY <2>1, <2>2 DEF AtRest, Open
  <2>4. WorkReads /\ WorkReads'
    BY WorkIs, NextWork
  <2>5. CASE AtRest(x) \/ crossed[x] # {} \/ LoopsOf(x) = {}
    BY <2>2, <2>3, <2>4, <2>5 DEF WorkReads
  <2>6. ASSUME NEW t \in LoopsOf(x), crossed[x] = {}  PROVE WorkOf(x)' = WorkOf(x)
    <3>1. WorkOf(x) = Doing(t) /\ WorkOf(x)' = Doing(t)'
      BY <2>2, <2>4, <2>6 DEF WorkReads
    <3>2. Doing(t)' = Doing(t)
      BY <2>2, <2>6 DEF Doing
    <3> QED  BY <3>1, <3>2
  <2> QED  BY <2>5, <2>6
<1> QED  BY <1>1 DEF Work

LEMMA LoopRefines ==
  ASSUME RequestInv, RequestInv', NEW t \in Tasks, LoopStep(t)
  PROVE  Lifecycle!Next \/ UNCHANGED Lifecycle!vars
<1> PICK s \in Sessions : s = loopOf[t]
  BY LoopEffect DEF LoopFrame, RequestInv, IInv
<1>1. LoopFrame(t) /\ (GoesOn(t) \/ EndsUp(t))
  BY LoopEffect DEF RequestInv, IInv
<1>2. s \in Sessions /\ t \in LoopsOf(s) /\ ~ AtRest(s) /\ Live(t)
  BY <1>1, ConstantsAssumption DEF LoopFrame, LoopsOf, AtRest, Live, RequestInv, IInv, TypeOK
<1>3. /\ Work' = [Work EXCEPT ![s] = WorkOf(s)']
      /\ WorkOf(s)' = WorkOf(s) => Work' = Work
  <2>1. \A u \in Tasks : \/ loopOf'[u] = loopOf[u] /\ pc'[u] = pc[u]
                         \/ loopOf[u] \in {s, NoSession} /\ loopOf'[u] \in {s, NoSession}
    BY <1>1 DEF LoopFrame, GoesOn, EndsUp
  <2>2. handler' = handler /\ crossed' = crossed
    BY <1>1 DEF LoopFrame
  <2> QED  BY <1>2, <2>1, <2>2, OneSessionsWork
<1>4. status' = [status EXCEPT ![s] = status'[s]]
  BY <1>1, <1>2 DEF LoopFrame, RequestInv, IInv, TypeOK
<1>5. WorkReads /\ WorkReads' /\ crossed' = crossed
  BY <1>1, WorkIs, NextWork DEF LoopFrame
<1>6. crossed[s] = {} => /\ \A u \in Tasks \ {t} : loopOf[u] # s
                         /\ WorkOf(s) = Doing(t)
  BY <1>2, <1>5, AloneUncrossed DEF RequestInv, IInv, WorkReads
<1> USE DEF Lifecycle!Next, Lifecycle!vars, Lifecycle!Moves, Lifecycle!Says, Work
<1>7. CASE crossed[s] # {}
  <2>1. WorkOf(s) = "several" /\ WorkOf(s)' \in {"several", "none"}
    BY <1>2, <1>5, <1>7 DEF WorkReads
  <2>2. \/ status'[s] \in {"running", "awaiting_input", "completed", "failed", "cancelled"}
        \/ status'[s] = status[s]
    BY <1>1 DEF GoesOn, EndsUp
  <2>3. \E st \in {"running", "awaiting_input", "completed", "failed", "cancelled"} :
          status' = [status EXCEPT ![s] = st] \/ status' = status
    BY <1>2, <1>4, <2>2 DEF RequestInv, IInv, TypeOK
  <2>4. Lifecycle!Strays(s)
    BY <1>2, <1>3, <2>1, <2>3 DEF Lifecycle!Strays
  <2> QED  BY <1>2, <2>4
<1>8. CASE crossed[s] = {} /\ GoesOn(t)
  <2>1. WorkOf(s) = Doing(t) /\ WorkOf(s)' = Doing(t)'
    BY <1>2, <1>5, <1>6, <1>8 DEF WorkReads, GoesOn, LoopsOf
  <2>2. CASE pc[t] \in {"fresh", "scheduled"}
    <3>1. Doing(t) = "pending" /\ Doing(t)' = "working" /\ status'[s] = "running"
      BY <1>8, <2>2 DEF GoesOn, Doing, Working
    <3>2. Lifecycle!Begin(s)
      BY <1>2, <1>3, <1>4, <2>1, <3>1 DEF Lifecycle!Begin
    <3> QED  BY <1>2, <3>2
  <2>3. CASE pc[t] \in Working /\ pc'[t] \in Working
    <3>1. Doing(t) = Doing(t)' /\ status'[s] = status[s]
      BY <1>2, <1>8, <2>3 DEF GoesOn, Doing, Working, RequestInv, RowFollowsLoop
    <3>2. status' = status
      BY <1>4, <3>1 DEF RequestInv, IInv, TypeOK
    <3> QED  BY <1>3, <2>1, <3>1, <3>2
  <2>4. CASE pc[t] \in Working /\ pc'[t] = "refresh"
    <3>1. Doing(t) = "working" /\ Doing(t)' = "finishing" /\ status'[s] = "completed"
      BY <1>8, <2>4 DEF GoesOn, Doing, Working
    <3>2. Lifecycle!Complete(s)
      BY <1>2, <1>3, <1>4, <2>1, <3>1 DEF Lifecycle!Complete
    <3> QED  BY <1>2, <3>2
  <2> QED  BY <1>8, <2>2, <2>3, <2>4 DEF GoesOn
<1>9. CASE crossed[s] = {} /\ EndsUp(t)
  <2>1. LoopsOf(s)' = {}
    BY <1>1, <1>2, <1>6, <1>9, ConstantsAssumption DEF LoopFrame, EndsUp, LoopsOf
  <2>2. WorkOf(s) = Doing(t) /\ WorkOf(s)' \in {"none", "closing"}
    BY <1>2, <1>5, <1>6, <1>9, <2>1 DEF WorkReads
  <2>3. CASE pc[t] \in {"fresh", "scheduled"}
    <3>1. Doing(t) = "pending" /\ status'[s] = status[s]
      BY <1>9, <2>3 DEF EndsUp, Doing, Working
    <3>2. status' = status
      BY <1>4, <3>1 DEF RequestInv, IInv, TypeOK
    <3>3. Lifecycle!Begin(s)
      BY <1>2, <1>3, <2>2, <3>1, <3>2 DEF Lifecycle!Begin, Lifecycle!Ended
    <3> QED  BY <1>2, <3>3
  <2>4. CASE pc[t] \in Working
    <3>1. Doing(t) = "working"
      BY <2>4 DEF Doing, Working
    <3>2. \/ status'[s] \in {"failed", "awaiting_input", "cancelled"}
          \/ "db" \in Faults /\ status' = status
      BY <1>4, <1>9, <2>4 DEF EndsUp, Working, RequestInv, IInv, TypeOK
    <3>3. \E st \in {"awaiting_input", "failed", "cancelled"} : Lifecycle!Leaves(s, st)
      BY <1>4, <3>2 DEF Lifecycle!Leaves
    <3>4. Lifecycle!Interrupt(s)
      BY <1>2, <1>3, <2>2, <3>1, <3>3 DEF Lifecycle!Interrupt, Lifecycle!Ended
    <3> QED  BY <1>2, <3>4
  <2>5. CASE pc[t] = "refresh"
    <3>1. Doing(t) = "finishing"
      BY <2>5 DEF Doing
    <3>2. status' = status \/ status'[s] = "cancelled"
      BY <1>4, <1>9, <2>5 DEF EndsUp, Working, RequestInv, IInv, TypeOK
    <3>3. Lifecycle!Settle(s)
      BY <1>2, <1>3, <1>4, <2>2, <3>1, <3>2 DEF Lifecycle!Settle, Lifecycle!Ended
    <3> QED  BY <1>2, <3>3
  <2> QED  BY <1>9, <2>3, <2>4, <2>5 DEF EndsUp
<1> QED  BY <1>1, <1>7, <1>8, <1>9

\* An agent at work has a row that list_running_sessions counts.
LEMMA AgentsBelowLimit ==
  ASSUME RequestInv, Cardinality(RunningRows) < MaxSessions
  PROVE  Cardinality({x \in Sessions : Lifecycle!AtWork(x)}) < MaxSessions
<1>1. ASSUME NEW x \in Sessions, Lifecycle!AtWork(x)  PROVE status[x] \in {"queued", "running"}
  <2>1. status[x] = "queued" \/ WorkOf(x) = "working"
    BY <1>1 DEF Lifecycle!AtWork
  <2>2. ASSUME WorkOf(x) = "working"  PROVE status[x] = "running"
    <3>1. WorkReads
      BY WorkIs
    <3>2. crossed[x] = {} /\ LoopsOf(x) # {}
      BY <2>2, <3>1 DEF WorkReads
    <3>3. PICK t \in LoopsOf(x) : TRUE
      BY <3>2
    <3>4. WorkOf(x) = Doing(t)
      BY <3>1, <3>2, <3>3 DEF WorkReads
    <3>5. pc[t] \in Working /\ Live(t) /\ loopOf[t] = x /\ t \in Tasks
      BY <2>2, <3>3, <3>4, ConstantsAssumption
      DEF Doing, LoopsOf, Working, LoopPcs, RequestInv, IInv, TypeOK, Live
    <3> QED  BY <3>2, <3>5 DEF RequestInv, RowFollowsLoop
  <2> QED  BY <2>1, <2>2
<1>2. {x \in Sessions : Lifecycle!AtWork(x)} \subseteq RunningRows
  BY <1>1 DEF RunningRows
<1>3. IsFiniteSet(RunningRows)
  BY ConstantsAssumption, FS_Subset DEF RunningRows
<1>4. /\ Cardinality({x \in Sessions : Lifecycle!AtWork(x)}) <= Cardinality(RunningRows)
      /\ Cardinality({x \in Sessions : Lifecycle!AtWork(x)}) \in Nat
      /\ Cardinality(RunningRows) \in Nat
  BY <1>2, <1>3, FS_Subset, FS_CardinalityType
<1> QED  BY <1>4, ConstantsAssumption

LEMMA SpawnRefines ==
  ASSUME RequestInv, RequestInv', NEW s \in Sessions, Create(s) \/ Message(s)
  PROVE  Lifecycle!Next
<1>1. PICK t \in Tasks : /\ Unused(t) /\ loopOf' = [loopOf EXCEPT ![t] = s]
                         /\ pc' = [pc EXCEPT ![t] = IF Create(s) THEN "fresh" ELSE "scheduled"]
  <2>1. Create(s) => status[s] = "none"
    BY DEF Create
  <2>2. Message(s) => status[s] # "none"
    BY DEF Message, Known
  <2> QED  BY <2>1, <2>2 DEF Create, Message, Spawn
<1>2. /\ loopOf[t] = NoSession /\ loopOf'[t] = s
      /\ pc'[t] \in {"fresh", "scheduled"}
      /\ \A u \in Tasks \ {t} : loopOf'[u] = loopOf[u] /\ pc'[u] = pc[u]
  BY <1>1 DEF Unused, RequestInv, IInv, TypeOK
<1>3. /\ t \in LoopsOf(s)' /\ ~ AtRest(s)'
      /\ Doing(t)' = "pending"
  BY <1>2 DEF LoopsOf, AtRest, Doing
<1>4. /\ handler' = handler
      /\ \A x \in Sessions \ {s} : crossed'[x] = crossed[x]
  BY DEF Create, Message, Meets, RequestInv, IInv, TypeOK
<1>5. Work' = [Work EXCEPT ![s] = WorkOf(s)']
  BY <1>2, <1>4, OneSessionsWork
<1>6. WorkReads /\ WorkReads'
  BY WorkIs, NextWork
<1> USE DEF Lifecycle!Next, Lifecycle!Moves, Lifecycle!Says, Work
<1>7. CASE Create(s)
  <2>1. AtRest(s) /\ crossed[s] = {} /\ crossed' = crossed
    BY <1>7, HandlerTypes, ConstantsAssumption
    DEF Create, AtRest, Open, LoopsOf, RequestInv, FreshIsQueued, HandlersKnow, Live, Idle,
        IInv, TypeOK
  <2>2. WorkOf(s) = "none" /\ WorkOf(s)' = "pending"
    BY <1>3, <1>6, <2>1 DEF WorkReads
  <2>3. Lifecycle!Cardinality({x \in Sessions : Lifecycle!AtWork(x)}) < MaxSessions
    <3>1. \A A : Lifecycle!Cardinality(A) = Cardinality(A)
      BY DEF Cardinality, Lifecycle!Cardinality
    <3> QED  BY <1>7, <3>1, AgentsBelowLimit DEF Create
  <2>4. status[s] = "none" /\ status' = [status EXCEPT ![s] = "queued"]
    BY <1>7 DEF Create, SetStatus
  <2>5. Lifecycle!Create(s)
    BY <1>5, <2>2, <2>3, <2>4 DEF Lifecycle!Create
  <2> QED  BY <2>5
<1>8. CASE Message(s) /\ AtRest(s)
  <2>1. crossed'[s] = {} /\ status' = status /\ status[s] # "none"
    BY <1>8 DEF Message, Meets, Known, RequestInv, IInv, TypeOK
  <2>2. WorkOf(s) = "none" /\ WorkOf(s)' = "pending"
    BY <1>3, <1>6, <1>8, <2>1 DEF WorkReads
  <2>3. Lifecycle!Continue(s)
    BY <1>5, <2>1, <2>2 DEF Lifecycle!Continue
  <2> QED  BY <2>3
<1>9. CASE Message(s) /\ ~ AtRest(s)
  <2>1. crossed'[s] # {} /\ status' = status
    BY <1>9 DEF Message, Meets, RequestInv, IInv, TypeOK
  <2>2. WorkOf(s) # "none" /\ WorkOf(s)' = "several"
    BY <1>3, <1>6, <1>9, <2>1 DEF WorkReads, Doing
  <2>3. Lifecycle!Crosses(s)
    BY <1>5, <2>1, <2>2 DEF Lifecycle!Crosses
  <2> QED  BY <2>3
<1> QED  BY <1>7, <1>8, <1>9

\* A stop or a delete comes.
LEMMA RequestRefines ==
  ASSUME RequestInv, RequestInv', NEW h \in Handlers, NEW s \in Sessions,
         StopLoop(h, s) \/ Delete(h, s)
  PROVE  Lifecycle!Next \/ UNCHANGED Lifecycle!vars
<1>1. /\ loopOf' = loopOf /\ pc' = pc /\ status' = status
      /\ handler[h] = Idle /\ handler'[h].sess = s
      /\ \A g \in Handlers \ {h} : handler'[g] = handler[g]
      /\ \A x \in Sessions \ {s} : crossed'[x] = crossed[x]
  BY DEF StopLoop, Delete, Meets, taskVars, RequestInv, IInv, TypeOK
<1>2. /\ Work' = [Work EXCEPT ![s] = WorkOf(s)']
      /\ WorkOf(s)' = WorkOf(s) => Work' = Work
  BY <1>1, OneSessionsWork DEF Idle
<1>3. ~ AtRest(s)' /\ LoopsOf(s)' = LoopsOf(s)
  BY <1>1 DEF AtRest, Open, LoopsOf
<1>4. WorkReads /\ WorkReads'
  BY WorkIs, NextWork
<1> USE DEF Lifecycle!Next, Lifecycle!vars, Lifecycle!Moves, Lifecycle!Says, Work
<1>5. CASE StopLoop(h, s)
  <2>1. PICK t \in LoopsOf(s) : TRUE
    BY <1>5 DEF StopLoop, HasLoop, LoopsOf, RequestInv, IInv, RegistryKeyed, TypeOK
  <2>2. ~ AtRest(s) /\ crossed' = crossed /\ Doing(t)' = Doing(t)
    BY <1>1, <1>5, <2>1 DEF AtRest, StopLoop, Doing
  <2>3. WorkOf(s)' = WorkOf(s)
    BY <1>3, <1>4, <2>1, <2>2 DEF WorkReads
  <2> QED  BY <1>1, <1>2, <2>3
<1>6. CASE Delete(h, s) /\ AtRest(s)
  <2>1. crossed'[s] = {} /\ status[s] # "none" /\ LoopsOf(s) = {}
    BY <1>6 DEF Delete, Meets, Known, AtRest, RequestInv, IInv, TypeOK
  <2>2. WorkOf(s) = "none" /\ WorkOf(s)' = "closing"
    BY <1>3, <1>4, <1>6, <2>1 DEF WorkReads
  <2>3. Lifecycle!Close(s)
    BY <1>1, <1>2, <2>1, <2>2 DEF Lifecycle!Close
  <2> QED  BY <2>3
<1>7. CASE Delete(h, s) /\ ~ AtRest(s)
  <2>1. crossed'[s] # {}
    BY <1>7 DEF Delete, Meets, RequestInv, IInv, TypeOK
  <2>2. WorkOf(s) # "none" /\ WorkOf(s)' = "several"
    <3>1. CASE crossed[s] # {} \/ LoopsOf(s) = {}
      BY <1>3, <1>4, <1>7, <2>1, <3>1 DEF WorkReads
    <3>2. ASSUME NEW t \in LoopsOf(s), crossed[s] = {}  PROVE WorkOf(s) # "none"
      BY <1>4, <3>2 DEF WorkReads, Doing
    <3> QED  BY <1>3, <1>4, <2>1, <3>1, <3>2 DEF WorkReads
  <2>3. Lifecycle!Crosses(s)
    BY <1>1, <1>2, <2>2 DEF Lifecycle!Crosses
  <2> QED  BY <2>3
<1> QED  BY <1>5, <1>6, <1>7

\* A stop or a delete is answered.
LEMMA AnswerRefines ==
  ASSUME RequestInv, RequestInv', NEW h \in Handlers, HandlerStep(h)
  PROVE  Lifecycle!Next
<1> PICK s \in Sessions : s = handler[h].sess
  BY HandlerTypes DEF HandlerStep, StopReturns, DeleteReturns, Idle, RequestInv, IInv
<1>1. handler[h] # Idle /\ handler[h].op \in {"stop", "delete"}
  BY HandlerTypes DEF HandlerStep, StopReturns, DeleteReturns, Idle, RequestInv, IInv
<1>2. /\ loopOf' = loopOf /\ pc' = pc /\ crossed' = crossed
      /\ handler'[h] = Idle /\ \A g \in Handlers \ {h} : handler'[g] = handler[g]
      /\ status' = status \/ status' = [status EXCEPT ![s] = "cancelled"]
  BY DEF HandlerStep, StopReturns, DeleteReturns, SetStatus, taskVars, RequestInv, IInv, TypeOK
<1>3. Work' = [Work EXCEPT ![s] = WorkOf(s)']
  BY <1>1, <1>2, OneSessionsWork DEF Idle
<1>4. ~ AtRest(s) /\ LoopsOf(s)' = LoopsOf(s)
  <2>1. Open(s)
    BY DEF Open
  <2>2. \A u \in Tasks : (loopOf'[u] = s) <=> (loopOf[u] = s)
    BY <1>2
  <2> QED  BY <1>1, <1>2, <2>1 DEF AtRest, LoopsOf
<1>5. crossed[s] = {} => LoopsOf(s) = {}
  <2>1. CASE handler[h].op = "stop"
    BY <1>1, <2>1, ConstantsAssumption
    DEF HandlerStep, StopReturns, DeleteReturns, RequestInv, IInv, StopsAwaitTheLoop, LoopsOf,
        Live, TypeOK
  <2>2. CASE handler[h].op = "delete"
    BY <2>2 DEF RequestInv, DeletesAtRest
  <2> QED  BY <1>1, <2>1, <2>2
<1>6. WorkReads /\ WorkReads'
  BY WorkIs, NextWork
<1> USE DEF Lifecycle!Next, Lifecycle!Moves, Lifecycle!Says, Work
<1>7. CASE crossed[s] = {}
  <2>1. WorkOf(s) = "closing" /\ WorkOf(s)' \in {"none", "closing"}
    BY <1>1, <1>2, <1>4, <1>5, <1>6, <1>7 DEF WorkReads
  <2>2. Lifecycle!Answer(s)
    BY <1>1, <1>2, <1>3, <2>1 DEF Lifecycle!Answer, Lifecycle!Ended
  <2> QED  BY <1>1, <2>2
<1>8. CASE crossed[s] # {}
  <2>1. WorkOf(s) = "several" /\ WorkOf(s)' \in {"none", "several"}
    BY <1>1, <1>2, <1>4, <1>6, <1>8 DEF WorkReads
  <2>2. Lifecycle!Strays(s)
    BY <1>1, <1>2, <1>3, <2>1 DEF Lifecycle!Strays
  <2> QED  BY <1>1, <2>2
<1> QED  BY <1>7, <1>8

\* A stop that finds no registered task writes the row of a session whose agent
\* is gone, unless requests have crossed.
LEMMA StopRowRefines ==
  ASSUME RequestInv, RequestInv', NEW s \in Sessions, StopRow(s)
  PROVE  Lifecycle!Next
<1>1. /\ loopOf' = loopOf /\ pc' = pc /\ crossed' = crossed /\ handler' = handler
      /\ status' = [status EXCEPT ![s] = "cancelled"] /\ status[s] # "none"
  BY DEF StopRow, SetStatus, taskVars, Known
<1>2. LoopsOf(s)' = LoopsOf(s) /\ (AtRest(s)' <=> AtRest(s))
  BY <1>1 DEF LoopsOf, AtRest, Open
<1>3. WorkReads /\ WorkReads'
  BY WorkIs, NextWork
<1>4. crossed[s] = {} => LoopsOf(s) = {}
  BY ConstantsAssumption DEF StopRow, HasLoop, LoopsOf, RequestInv, IInv, LoopsRegistered, Live, TypeOK
<1>5. WorkOf(s)' = WorkOf(s) /\ WorkOf(s) \in {"none", "closing", "several"}
  BY <1>1, <1>2, <1>3, <1>4 DEF WorkReads
<1>6. Work' = Work
  BY <1>1, <1>5, OneSessionsWork
<1> USE DEF Lifecycle!Next, Lifecycle!Moves, Lifecycle!Says, Work
<1>7. CASE WorkOf(s) = "several"
  <2>1. Lifecycle!Strays(s)
    BY <1>1, <1>6, <1>7 DEF Lifecycle!Strays
  <2> QED  BY <2>1
<1>8. CASE WorkOf(s) \in {"none", "closing"}
  <2>1. Lifecycle!Cancel(s)
    BY <1>1, <1>6, <1>8 DEF Lifecycle!Cancel, Lifecycle!Ended
  <2> QED  BY <2>1
<1> QED  BY <1>5, <1>7, <1>8

\* The sessions implement the lifecycle for any number of sessions, loops,
\* handlers and turns, any limit, any client and any fault.
THEOREM SessionsImplementLifecycle == Spec => ImplementsLifecycle
<1>1. Init => Lifecycle!Init
  <2> SUFFICES ASSUME Init, NEW s \in Sessions  PROVE WorkOf(s) = "none"
    BY DEF Init, Lifecycle!Init
  <2> QED  BY ConstantsAssumption DEF Init, WorkOf, AtRest, Open, LoopsOf, Idle
<1>2. RequestInv /\ [Next]_vars => [Lifecycle!Next]_(Lifecycle!vars)
  <2> SUFFICES ASSUME RequestInv, [Next]_vars
               PROVE  Lifecycle!Next \/ UNCHANGED Lifecycle!vars
    OBVIOUS
  <2>1. RequestInv'
    BY NextRequests
  <2>2. CASE Crash
    <3>1. \A s \in Sessions : AtRest(s)'
      BY <2>2, ConstantsAssumption DEF Crash, AtRest, Open, LoopsOf, Idle
    <3>2. \A s \in Sessions : WorkOf(s)' = "none"
      BY <2>1, <3>1, NextWork DEF WorkReads
    <3> QED  BY <2>2, <3>2 DEF Crash, Lifecycle!Next, Lifecycle!Restart
  <2>3. CASE IndexingMoves \/ UNCHANGED vars
    <3>1. UNCHANGED <<status, loopOf, pc, handler, crossed>>
      BY <2>3 DEF IndexingMoves, taskVars, vars
    <3>2. \A s \in Sessions : WorkOf(s)' = WorkOf(s)
      BY <3>1 DEF WorkOf, AtRest, Open, LoopsOf, Doing
    <3> QED  BY <3>1, <3>2 DEF Lifecycle!vars
  <2>4. CASE \/ \E t \in Tasks : LoopStep(t)
             \/ \E h \in Handlers : HandlerStep(h)
             \/ \E s \in Sessions : Create(s) \/ Message(s) \/ StopRow(s)
             \/ \E h \in Handlers, s \in Sessions : StopLoop(h, s) \/ Delete(h, s)
    BY <2>1, <2>4, LoopRefines, AnswerRefines, SpawnRefines, StopRowRefines, RequestRefines
  <2> QED  BY <2>2, <2>3, <2>4 DEF Next
<1> QED  BY <1>1, <1>2, RequestInvCorrect, PTL DEF Spec, ImplementsLifecycle, Lifecycle!Spec

=============================================================================
