--------------------------- MODULE SessionStream ---------------------------
(* The event stream of one agent session: the queue of event_bus.py that the   *)
(* agent loops fill, the stream handlers that drain it, and the session pages  *)
(* that read the streams and fetch the row.  The bus keeps sessions apart by   *)
(* their id, so one session is enough.  How a loop gets to its end is in       *)
(* AgentSessions; here it emits events and ends in one of its ways, with other *)
(* loops of the session beside it or not.                                      *)
EXTENDS Naturals, Sequences, FiniteSets

CONSTANTS
  Pages,      \* browser pages that may show the session
  Capacity,   \* maxsize of a queue
  MaxLoops,   \* agent loops started for the session
  MaxQueues,  \* queue objects in use at a time
  MaxSent,    \* progress events from one start of a loop to the next
  Faults      \* subset of FaultKinds

FaultKinds == {"llm", "db", "crash", "network"}

ASSUME StreamAssumption ==
  /\ IsFiniteSet(Pages)
  /\ Capacity \in Nat \ {0} /\ MaxLoops \in Nat \ {0}
  /\ MaxQueues \in Nat \ {0} /\ MaxSent \in Nat
  /\ Faults \subseteq FaultKinds

VARIABLES
  status,   \* agent_sessions.status
  loops,    \* number of loops started
  loop,     \* where each of them stands
  task,     \* the loop in _active_agent_tasks, 0 if there is none
  stops,    \* the loops that a stop_session awaits
  sent,     \* progress events since the newest loop was started
  current,  \* the queue in _session_queues, 0 if there is none
  buf,      \* what each queue holds
  lossy,    \* queues whose events did not all go to one page
  page      \* what each page shows, and its EventSource

vars == <<status, loops, loop, task, stops, sent, current, buf, lossy, page>>
run == <<loops, loop, task, stops, sent>>
bus == <<current, buf, lossy>>

Ends == {"done", "error", "stopped"}          \* the loop is over
Closing == Ends \cup {"ask_user"}             \* the page closes its source

Loops == 1..MaxLoops
LoopPcs == {"over", "scheduled", "starting", "working", "refresh", "stopping"}

\* Loop 0 is the sender of what a request emits by itself.
Events == [type : Closing \cup {"progress"}, loop : Loops \cup {0}]

\* The statuses for which the page opens a stream ("pending" is never written).
Streamed == {"running", "awaiting_input"}
Statuses == Streamed \cup {"none", "queued", "completed", "failed", "cancelled"}

Queues == 1..MaxQueues

\* A page: the status it shows, whether a fetch is due, its EventSource, the
\* queue the source's handler reads, the loops that were over when it was opened
\* (history), and the queue that the handler of a source it closed may still read.
NoPage == [shows |-> "none", due |-> FALSE, src |-> "none", reads |-> 0,
           past |-> {}, ghost |-> 0]

Init ==
  /\ status = "none" /\ loops = 0 /\ sent = 0
  /\ loop = [l \in Loops |-> "over"]
  /\ task = 0 /\ stops = {}
  /\ current = 0
  /\ buf = [q \in Queues |-> <<>>]
  /\ lossy = {}
  /\ page = [p \in Pages |-> NoPage]

-----------------------------------------------------------------------------
(* event_bus.py                                                            *)

\* No handler and no entry of the dictionary refers to the queue object.
Unused(q) == q # current /\ \A p \in Pages : q \notin {page[p].reads, page[p].ghost}

\* get_or_create_queue: afterwards q is the session's queue.
GetOrCreate(q) ==
  IF current # 0 THEN q = current /\ UNCHANGED bus
  ELSE /\ Unused(q) /\ \A r \in 1..(q - 1) : ~ Unused(r)
       /\ current' = q
       /\ buf' = [buf EXCEPT ![q] = <<>>]
       /\ lossy' = lossy \ {q}

\* What emit leaves in the queues and which of them lost an event: without a
\* queue nothing happens, a full queue drops the event.
Emitted(l, t) ==
  IF current # 0 /\ Len(buf[current]) < Capacity
  THEN [buf EXCEPT ![current] = Append(@, [type |-> t, loop |-> l])]
  ELSE buf

Dropped == IF current # 0 /\ Len(buf[current]) >= Capacity
           THEN lossy \cup {current} ELSE lossy

Emit(l, t) == buf' = Emitted(l, t) /\ lossy' = Dropped /\ UNCHANGED current

\* Mutant of EmitLast: the queue stays in the dictionary.
EmitLastKeeping(l, t) == Emit(l, t)

\* An event and then remove_queue, with no await in between.
EmitLast(l, t) ==
  /\ buf' = Emitted(l, t) /\ lossy' = Dropped
  /\ current' = 0

-----------------------------------------------------------------------------
(* The session: requests and the agent loops.                              *)

LiveLoops == {l \in Loops : loop[l] # "over"}
AtRest == LiveLoops = {}
MoveTo(l, from, to) == loop[l] = from /\ loop' = [loop EXCEPT ![l] = to]

\* finally: the entry of the session is popped, whichever loop it holds.
Over(l) == loop' = [loop EXCEPT ![l] = "over"] /\ task' = 0 /\ UNCHANGED <<loops, stops, sent>>

\* The creation is answered after the first step of its loop.
Known == status # "none" /\ ~ (loops = 1 /\ loop[1] = "scheduled")

\* A message is sent from page p (the first one creates the session); the page
\* then fetches.  A loop that is at work is left alone.
Message(p) ==
  /\ status = "none" \/ Known
  /\ loops < MaxLoops
  /\ loops' = loops + 1 /\ sent' = 0
  /\ loop' = [loop EXCEPT ![loops + 1] = "scheduled"]
  /\ task' = loops + 1
  /\ status' = IF status = "none" THEN "queued" ELSE status
  /\ page' = [page EXCEPT ![p].due = TRUE]
  /\ UNCHANGED <<stops, bus>>

\* First step of _run_agent_session, outside its try.
Start(l) ==
  /\ MoveTo(l, "scheduled", "starting")
  /\ status' = "running"
  /\ UNCHANGED <<loops, task, stops, sent, bus, page>>

StartFails(l) ==
  /\ "db" \in Faults
  /\ MoveTo(l, "scheduled", "over")
  /\ UNCHANGED <<status, loops, task, stops, sent, bus, page>>

\* run(): the queue is made after the pre-query.
PrequeryReturns(l) ==
  /\ MoveTo(l, "starting", "working")
  /\ status' = "running"
  /\ \E q \in Queues : GetOrCreate(q)
  /\ UNCHANGED <<loops, task, stops, sent, page>>

\* thinking, tool_start, tool_result, lint_error; the turn's row is written.
Progress(l) ==
  /\ loop[l] = "working" /\ sent < MaxSent
  /\ sent' = sent + 1
  /\ Emit(l, "progress")
  /\ status' = "running"
  /\ UNCHANGED <<loops, loop, task, stops, page>>

\* Mutant of Fails: a loop that failed emits nothing.
FailsSilently(l) ==
  /\ loop[l] = "working"
  /\ status' = "failed"
  /\ current' = 0 /\ UNCHANGED <<buf, lossy>>
  /\ Over(l)
  /\ UNCHANGED page

\* The turns are used up.
Fails(l) ==
  /\ loop[l] = "working"
  /\ status' = "failed"
  /\ EmitLast(l, "error")
  /\ Over(l)
  /\ UNCHANGED page

\* done() or a reply without tools.
Completes(l) ==
  /\ MoveTo(l, "working", "refresh")
  /\ status' = "completed"
  /\ EmitLast(l, "done")
  /\ UNCHANGED <<loops, task, stops, sent, page>>

\* The loop pauses: its queue stays for the next one.
Asks(l) ==
  /\ loop[l] = "working"
  /\ Emit(l, "ask_user")
  /\ status' = "awaiting_input"
  /\ Over(l)
  /\ UNCHANGED page

\* _abort_on_llm_error, and any exception that run() lets out: neither emits, and
\* the database may refuse the row.
LoopFails(l) ==
  /\ loop[l] \in {"starting", "working"}
  /\ \/ Faults \cap {"llm", "db"} # {} /\ status' = "failed"
     \/ "db" \in Faults /\ UNCHANGED status
  /\ Over(l)
  /\ UNCHANGED <<bus, page>>

RefreshReturns(l) ==
  /\ loop[l] = "refresh"
  /\ Over(l)
  /\ UNCHANGED <<status, bus, page>>

\* stop_session cancels the registered loop and awaits it.  A task that has not
\* begun is only dropped.
StopLoop ==
  /\ Known
  /\ task \in LiveLoops
  /\ loop' = [loop EXCEPT ![task] = IF @ = "scheduled" THEN "over" ELSE "stopping"]
  /\ stops' = stops \cup {task}
  /\ UNCHANGED <<status, loops, task, sent, bus, page>>

\* _run_agent_session catches the cancellation, and writes the row first.
Cancelled(l) ==
  /\ loop[l] = "stopping"
  /\ \/ status' = "cancelled" /\ EmitLast(l, "stopped")
     \/ "db" \in Faults /\ UNCHANGED <<status, bus>>
  /\ Over(l)
  /\ UNCHANGED page

\* The stop goes on after its await.
StopReturns(l) ==
  /\ l \in stops /\ loop[l] = "over"
  /\ stops' = stops \ {l} /\ task' = 0
  /\ UNCHANGED <<status, loops, loop, sent, bus, page>>

\* stop_session without a registered task: only the row and the bus, even if a
\* loop that is not registered any more is at work.
StopRow ==
  /\ Known
  /\ task \notin LiveLoops
  /\ status \in Streamed
  /\ status' = "cancelled" /\ task' = 0
  /\ EmitLast(0, "stopped")
  /\ UNCHANGED <<loops, loop, stops, sent, page>>

\* cancel_session, once the worktree is gone: the row alone.
Delete ==
  /\ Known
  /\ status' = "cancelled"
  /\ UNCHANGED <<run, bus, page>>

\* The server restarts: the bus is gone and every source gets an error.
Crash ==
  /\ "crash" \in Faults
  /\ loop' = [l \in Loops |-> "over"] /\ task' = 0 /\ stops' = {}
  /\ current' = 0 /\ lossy' = {}
  /\ buf' = [q \in Queues |-> <<>>]
  /\ page' = [p \in Pages |-> [page[p] EXCEPT !.src = IF @ = "open" THEN "closed" ELSE @,
                                              !.reads = 0, !.past = {}, !.ghost = 0]]
  /\ UNCHANGED <<status, loops, sent>>

-----------------------------------------------------------------------------
(* The session page and its stream handler.                                *)

Shut(r) == [r EXCEPT !.src = "closed", !.reads = 0, !.past = {}, !.ghost = r.reads]

\* Mutant of Wanted: nothing polls.
WantedByEvents(p) == page[p].shows = "none" \/ page[p].due

\* fetchSession, for a new page, after an event, after a message, or by the timer
\* that polls while the source is closed.  When the status differs from the one
\* shown, the effect closes the source and opens another if the status is active.
Wanted(p) ==
  \/ page[p].shows = "none" \/ page[p].due
  \/ page[p].shows \in Streamed /\ page[p].src = "closed"

Fetch(p) ==
  /\ status # "none" /\ Wanted(p)
  /\ page' = [page EXCEPT ![p] =
       IF status = page[p].shows THEN [@ EXCEPT !.due = FALSE]
       ELSE [shows |-> status, due |-> FALSE,
             src |-> IF status \in Streamed THEN "opening" ELSE "none",
             reads |-> 0, past |-> {},
             ghost |-> IF page[p].src = "open" THEN page[p].reads ELSE page[p].ghost]]
  /\ UNCHANGED <<status, run, bus>>

\* The stream request arrives: it makes the queue if there is none.
Opens(p) ==
  /\ page[p].src = "opening"
  /\ \E q \in Queues :
       /\ GetOrCreate(q)
       /\ page' = [page EXCEPT ![p].src = "open", ![p].reads = q,
                              ![p].past = {l \in 1..loops : loop[l] = "over"}]
  /\ UNCHANGED <<status, run>>

\* Two pages read one queue: each event reaches one of them.
Shared(q) == Cardinality({p \in Pages : q = page[p].reads}) > 1

\* An event is sent to the page.  After done, error and ask_user the handler
\* ends; after "stopped" it lives until it notices that the page has closed.
Receives(p) ==
  LET q == page[p].reads IN
  /\ page[p].src = "open" /\ buf[q] # <<>>
  /\ buf' = [buf EXCEPT ![q] = Tail(@)]
  /\ page' = [page EXCEPT ![p] =
       IF Head(buf[q]).type \in Closing
       THEN [@ EXCEPT !.due = TRUE, !.src = "closed", !.reads = 0, !.past = {},
                      !.ghost = IF Head(buf[q]).type = "stopped" THEN q ELSE 0]
       ELSE [@ EXCEPT !.due = TRUE]]
  /\ lossy' = IF Shared(q) THEN lossy \cup {q} ELSE lossy
  /\ UNCHANGED <<status, run, current>>

\* The handler of a source that is closed takes an event nobody will see.
GhostTakes(p) ==
  LET q == page[p].ghost IN
  /\ q # 0 /\ buf[q] # <<>>
  /\ buf' = [buf EXCEPT ![q] = Tail(@)]
  /\ lossy' = lossy \cup {q}
  /\ page' = [page EXCEPT ![p].ghost = 0]
  /\ UNCHANGED <<status, run, current>>

GhostEnds(p) ==
  /\ page[p].ghost # 0
  /\ page' = [page EXCEPT ![p].ghost = 0]
  /\ UNCHANGED <<status, run, bus>>

\* The connection breaks: onerror closes the source.
Breaks(p) ==
  /\ "network" \in Faults
  /\ page[p].src = "open"
  /\ page' = [page EXCEPT ![p] = Shut(@)]
  /\ UNCHANGED <<status, run, bus>>

\* The user leaves the page.
Leaves(p) ==
  /\ page[p].shows # "none"
  /\ page' = [page EXCEPT ![p] = [NoPage EXCEPT !.ghost =
       IF page[p].src = "open" THEN page[p].reads ELSE page[p].ghost]]
  /\ UNCHANGED <<status, run, bus>>

LoopStep(l) ==
  \/ Start(l) \/ StartFails(l) \/ PrequeryReturns(l) \/ Progress(l) \/ Completes(l)
  \/ Fails(l) \/ Asks(l) \/ LoopFails(l) \/ RefreshReturns(l) \/ Cancelled(l)

PageStep(p) == Fetch(p) \/ Opens(p) \/ Receives(p)

Next ==
  \/ \E l \in Loops : LoopStep(l) \/ StopReturns(l)
  \/ StopLoop \/ StopRow \/ Delete \/ Crash
  \/ \E p \in Pages :
       \/ PageStep(p) \/ Message(p) \/ GhostTakes(p) \/ GhostEnds(p)
       \/ Breaks(p) \/ Leaves(p)

Spec == Init /\ [][Next]_vars

\* The browser handles its events and its timer; the event loop runs handlers.
\* Users, failures and the agent itself are not fair.
FairSpec == Spec /\ \A p \in Pages : WF_vars(PageStep(p))

-----------------------------------------------------------------------------
(* Properties.                                                             *)

\* Every variable stays in its range; a queue never holds more than its maxsize,
\* and only an open source is read for.
TypeOK ==
  /\ status \in Statuses
  /\ loops \in 0..MaxLoops /\ sent \in 0..MaxSent
  /\ loop \in [Loops -> LoopPcs]
  /\ task \in 0..MaxLoops /\ stops \subseteq Loops
  /\ current \in 0..MaxQueues
  /\ buf \in [Queues -> Seq(Events)]
  /\ \A q \in Queues : Len(buf[q]) <= Capacity
  /\ lossy \subseteq Queues
  /\ page \in [Pages -> [shows : Statuses, due : BOOLEAN,
                         src : {"none", "opening", "open", "closed"},
                         reads : 0..MaxQueues, past : SUBSET Loops, ghost : 0..MaxQueues]]
  /\ \A p \in Pages : page[p].src = "open" <=> page[p].reads # 0

\* A stream is never closed by the end of a loop that was over when the stream was
\* opened, whatever loops the session has had, one after the other or side by side:
\* remove_queue takes the ends away with the queue.  (An old question may close
\* it; the page then polls.)
NoStaleEnd ==
  \A p \in Pages : page[p].src = "open" =>
    \A i \in 1..Len(buf[page[p].reads]) :
      LET e == buf[page[p].reads][i] IN
      e.type \in Ends => e.loop \notin page[p].past

HoldsClosing(q) == \E i \in 1..Len(buf[q]) : buf[q][i].type \in Closing

\* A handler that waits on a queue that was discarded still has the end before it,
\* unless the queue was full, was shared, or a closed source's handler took from it.
DiscardedQueuesEnd ==
  \A p \in Pages :
    page[p].src = "open" /\ page[p].reads # current /\ page[p].reads \notin lossy
      => HoldsClosing(page[p].reads)

\* The page waits for events that nobody will send: the source was opened
\* after the queue was discarded, the loop ended without an event, or events of
\* its queue were lost.
Deaf(p) ==
  /\ page[p].src = "open"
  /\ page[p].reads = current \/ page[p].reads \in lossy
  /\ ~ HoldsClosing(page[p].reads)

Behind(p) ==
  /\ AtRest
  /\ page[p].shows \in Streamed /\ page[p].shows # status
  /\ ~ Deaf(p)

\* A page that shows a session as active, when it is not, catches up: its stream
\* brings an event, or it polls because its source is closed, whatever was
\* missed, reordered by a reconnect or lost at a restart.
PagesCatchUp == \A p \in Pages : Behind(p) ~> ~ Behind(p)
=============================================================================
