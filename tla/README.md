# DocuRAG in TLA+

DocuRAG answers questions about uploaded documents and about GitHub
repositories, and runs coding agents on those repositories. This directory holds
TLA+ models of the parts of it whose correctness depends on order: who writes a
status column last, which of two pipelines gets a row, what a restart or a lost
answer leaves behind; and of a few algorithms that are easy to get wrong at their
edges. TLC checks the models on small instances; TLAPS proves most of the safety
properties, and one refinement, for every instance.

    tlc -workers 2 -config sources_race.cfg MCNotebookSources
    tlapm NotebookSourcesProofs.tla

## 1. The system

One process runs everything: a FastAPI application on one asyncio event loop,
a few thread pools beside it, a PostgreSQL database (psycopg2, pooled) and the
file system (clones, worktrees, uploads, audio). Nothing but the database and
the files outlives the process.

| component | state it keeps | operations | talks to |
|---|---|---|---|
| agent sessions (`src/agents/orchestrator.py`, `coding_agent.py`, `src/db/session_db.py`) | rows of `agent_sessions`; in memory `_active_agent_tasks`, one asyncio task per loop | create, message, stop, delete; the loop: pre-query, LLM call, tools, refresh | repositories (must be ready), event bus, worktrees, LLM |
| repository indexing (`orchestrator.py`, `ingest_agent.py`, `consolidate_agent.py`, `code_embedder.py`, `repo_processor.py`, `git_service.py`) | `repos.indexing_status`, `repo_file_memories`, `repo_code_chunks`, `repo_consolidations`, the clone | register, reindex, retry, consolidate, refresh after an agent, reindex after a merge | `_background_pool` (3 threads), git, LLM, embeddings |
| notebook sources (`src/services/source_service.py`, `source_db.py`, `chunk_db.py`, `vector_store.py`, `retriever.py`) | `notebooks`, `sources`, `document_chunks`, uploaded files | upload, paste, delete source, delete notebook, `process_source`, retrieval of a notebook | `source_pool` (4 threads), embeddings |
| podcasts (`src/services/podcast_service.py`, `podcast_db.py`) | `podcasts`, one mp3 per row | generate, `process_podcast`, serve, delete | `source_pool`, LLM, speech synthesis |
| event bus and session stream (`event_bus.py`, `session_controller.py`) | one bounded queue per session, in memory | emit, drain, remove | agent loop, browser (SSE) |
| worktrees (`src/git/worktree_service.py`, `diff_service.py`) | branches, worktrees and checkpoint commits of one shared clone | create, checkpoint, revert, squash, merge, push, pull request, clean up | git |
| tools (`tool_executor.py`, `agent_tools.py`) | files of a worktree, shell processes | read, edit, search, run | threads, worktrees |
| connection pools (`src/db/connection.py`, `async_pool.py`) | 20 connections behind a semaphore | borrow, return, discard, retry after a disconnect | PostgreSQL |
| LLM access (`llm_client.py`, `src/config/llm_semaphore.py`) | a semaphore of 5 | completion with fallbacks | provider |
| repository list cache (`src/db/repo_db.py`) | one list with an expiry time | list, invalidate | database |
| repository memory (`repo_memory_db.py`, `repo_context_db.py`, `repo_reference_db.py`) | memories, versioned context, reference edges | upsert, mark, purge, assemble | indexing, agents |
| document algorithms (`pdf_processor.py`, `chunker.py`, `embedder.py`, `retriever.py`, `generator.py`, `answer_validator.py`, `entity_extractor.py`, `chunk_graph_db.py`) | none of their own, but for the chunk graph | extract, cut, embed, rank, answer, validate | notebook sources |
| code analysis (`ast_parser.py`, `reference_graph.py`, `query_agent.py`) | none | parse, query | indexing |
| notebook conversations, study tools, OAuth, batch queries, REST layer, frontend, scripts | rows written in single statements; page state | request by request | the above |

How they interact, and what is hard about it:

* **Sessions.** Handlers and loops share one event loop, so only awaits
  interleave, but every await (LLM, tool, refresh, cancelled task) is long. The
  same fact is kept three times: in the row, in the registry and in the task.
  Correct means: the three agree, a stop is answered and final, the number of
  loops is bounded, every loop ends and its row says how.
* **Indexing.** Any request may start a job, and nothing keeps two jobs of a
  repository apart. All write one status column; a job fails at any LLM call, a
  clone may fail, the process may die. Correct means: an intermediate status has
  a job behind it, memories and chunks speak of the same version of a file, a
  memory counts as consolidated only in the version that was read.
* **Sources.** A pipeline reads its file long after the upload; meanwhile the
  file is overwritten or deleted, the source or the notebook goes, and other
  pipelines store rows under the same `chunk_id`. Correct means: a chunk's text
  belongs to the source and the notebook it is filed under, ready means stored,
  and no source stays half-way.
* **Podcasts.** Generation is asked for again while one is under way, deleted
  while it is running, cut by a restart. Correct means: what is served is a whole
  file, a finished podcast is not taken back, polling clients see an end.
* **Streams.** The loop fills a bounded queue, a stream handler drains it, a page
  reads the stream and fetches the row; the queue is removed at the end, the
  reader reconnects, two readers share one queue. Correct means: a reader gets the
  end of the loop it listens to and no other one, and a page that shows a session
  as active catches up when it is not.
* **Worktrees.** Sessions share one clone, every operation is a sequence of git
  commands in threads without a lock, and tool threads outlive their cancelled
  loops. Correct means: no work gets lost or into another session, and what was
  reported as committed is safe.
* **Pools and gates.** A semaphore stands before the connection pool and another one
  before the LLM; stale connections are replaced, calls are retried, providers
  fall back. Correct means: nothing leaks on any path, nothing is applied twice,
  every call ends, also those that the event loop itself waits for.
* **Caches.** The list of repositories and the embeddings are filled by readers while
  others write. Correct means: what was invalidated is not served again, and what
  is stored belongs to its key.
* **Algorithms.** Chunks overlap, slots of a ranking are rounded, edits are matched
  loosely, batches are halved. Correct means: nothing is lost, repeated or taken
  that was not named.

`PROJECT.json` lists every component with what is modelled of it, the hazards
with the line each bites at, and for each definition the lines it models.

## 2. The modules

| module | what it is |
|---|---|
| `AgentSessions` | sessions of one repository: rows, registry, loops, handlers |
| `SessionLifecycle` | abstract: one agent per session, its status in step with it, a limit at a creation; what is left of that when requests cross |
| `SessionStream` | the event queue of one session, its loops side by side, stream handlers and pages |
| `Worktrees` | branches, worktrees and commits of the sessions of one clone, and what outlives a worktree |
| `RepoIndexing` | the indexing pipeline of one repository, with concurrent jobs |
| `RepoListing` | the cached list of repositories beside the writers of the table |
| `NotebookSources` | sources, files, chunks and pipelines of several notebooks |
| `Podcasts` | the podcasts of one notebook |
| `Answering` | LLM calls under the call limit, and the history of a notebook |
| `Connections` | the psycopg2 pool, its semaphore and the retry of disconnected calls |
| `Chunking`, `Ranking`, `FileEdits`, `Embedding` | algorithms over all small inputs |
| `MC...` | symmetry sets and constants for TLC; `MCAlgorithms` puts the four algorithms side by side |
| `...Proofs` | theorems and proofs, one module for each of the stateful modules, and two for several: `DatabaseProofs` (`Connections`, `RepoListing`) and `DocumentProofs` (`Answering`, `Chunking`, `Embedding`, `Ranking`, `FileEdits`) |

How they fit together: `AgentSessions` implements `SessionLifecycle` (`INSTANCE`
with a refinement mapping). `SessionStream` and `Worktrees` look at the same
sessions from the side of the events and of git; what they need of the loop (that it
starts, emits, ends in one of its ways, or goes on as a stray tool thread) they
contain as actions of their own. `AgentSessions` admits sessions only when the
repository is ready: its variable `ready` moves as `RepoIndexing` lets
`indexing_status` move (`IndexingMoves`). `RepoIndexing` in turn starts a refresh
when an agent finishes and a reindex when a merge lands. The LLM and database calls
that are one step with a possible failure in these modules are taken apart in
`Answering` and `Connections`. Sources and podcasts share a pool of four threads;
since a full pool only delays, each is modelled with its own slots.

A definition ending in a mutation of another ("Mutant of ...") is not part of the
system: it is a plausible bug, kept to show that a property notices it.

### AgentSessions

An action is the code between two awaits. `status` and `active` are
`agent_sessions.status` and `_active_agent_tasks`; `pc` says at which await a
task stands ("fresh" and "scheduled" before its first step, then the pre-query,
the LLM call, a tool, the refresh); `handler` holds the handlers suspended in
`stop_session` and `cancel_session`. Any client sends any request at any time.

| action | code |
|---|---|
| `Create`, `Message`, `Delete`, `DeleteReturns` | `create_agent_session`, `resume_session`, `cancel_session` up to its await and from there |
| `StopLoop`, `StopReturns`, `StopRow` | the two branches of `stop_session`, the first up to its await and from there |
| `Start`, `StartFails`, `CancelUnstarted` | `_run_agent_session` up to `agent.run`; the task that does not get there |
| `PrequeryReturns`, `ReplyIsText`, `ReplyHasTools`, `ToolsContinue`, `ToolsDone`, `ToolsAsk`, `TurnsExhausted`, `LlmFails` | `CodingAgent.run` |
| `LoopRaises`, `CancelDelivered`, `RefreshReturns` | the except and finally clauses of `_run_agent_session`; the write in an except clause may be refused (`LastWrite`) |
| `Crash` | the process restarts: rows stay, the rest is gone |

Two variables are history. `unsaid` are the tasks that were done without a last write to
their row: it was refused, or the task never ran. `crossed` are the kinds of requests,
message and delete, that came while the session had a loop or an open request; it is
emptied by a request that finds the session at rest. The properties say by them exactly
which sequences of requests the code does not stand: they hold for every client, and
what they except is what the code gets wrong (section 6), no longer than until the
session has come to rest.

`ImplementsLifecycle` maps a session's loop to the `work` of `SessionLifecycle`
(`WorkOf`): none, pending before the first step, working, finishing during the refresh,
closing when the loop is gone and a stop or a delete has not been answered yet, and
several when requests have crossed. `Crosses` and `Strays` say what a client may expect
of the last: no status but those a loop or a request writes, no return to queued, and an
end. Where `db` is a fault, the lifecycle lets a last word be refused (`Leaves`). Steps
that only move a handler or a tool are stutters.

### SessionStream

`current` is the entry of `_session_queues`, `buf` what every queue object holds that
somebody still refers to: a removed queue lives on in the handler that drains it.
Events are kinds with the number of their loop, which is history: it tells the end of a
loop that was over when a stream was opened (`past`) from that of another. A message
starts a loop whether or not one is at work, so each loop stands somewhere (`loop`), and
only the one in `task` is registered; `stops` are those that a `stop_session` awaits.

| action | code |
|---|---|
| `GetOrCreate`, `Emit`, `EmitLast` | `get_or_create_queue`, `emit`, emit and `remove_queue` without an await between |
| `Message`, `Start`, `StartFails`, `PrequeryReturns`, `Progress`, `Completes`, `Fails`, `Asks`, `LoopFails`, `RefreshReturns` | the loop, as far as its events and its row go |
| `StopLoop`, `Cancelled`, `StopReturns`, `StopRow`, `Delete` | `stop_session` and the cancelled loop, `cancel_session` |
| `Opens`, `Receives`, `GhostTakes`, `GhostEnds` | the generator of the stream endpoint, also after its page has gone |
| `Fetch`, `Breaks`, `Leaves` | the session page: `fetchSession`, its effects and timer, `onerror` |
| `Crash` | the process restarts: queues go, rows stay |

### Worktrees

A commit is a number with its history, first parent, kind and tree; a tree is a set of
edits. Each actor (the loop of a session, or a request handler) has a job that names
the git command it runs next, so commands of several actors interleave, and a tool
thread goes on after its loop has been cancelled. Squash is look, reset, add,
commit; restore is list and reset; a merge is checkout and merge, with an abort when it
fails; a delete is the worktree and then its branch. Git may refuse a commit and
merges may conflict. `reported` remembers the edits in the commits a user was told
of.

A deleted worktree does not stop what works in it: the next `write_file` makes the
directory anew (`plain`), and git commands there either fail or, when `REPOS_DIR` lies
inside another repository (the fault "enclosed"), act on that one (`ActsOutside`);
`outer` remembers the sessions that did. What is in that repository is not modelled.

### Connections

Each thread goes through `get_connection`: acquire, take, register, perhaps discard and
take again, work, and one of the ways back. `used` and `idle` are psycopg2's own
books, which the semaphore knows nothing of. The server drops idle and used
connections, refuses new ones and may lose the answer to a commit; `applied` counts
what it committed. A call's record is kept over the attempts of
`retry_on_disconnect`.

### RepoListing

Writes of the table are numbered in the order of their commits, and a list is the
number of writes it shows. A request that misses is three steps (miss, select,
store), a write is two (commit, bust); `insert` busts nothing, as in the code, and a
commit whose answer is lost raises before its bust. `late` and `raced` mark a request
that read before a bust and stores after it.

### Answering

The event loop is one of the threads: `notebook_query` and `query_repo` run
synchronously on it, so that while it waits for a permit no other handler or
coroutine runs (`LoopIsFree`). The three ways to call differ in what they retry and in
whether the permit is held while they back off (`Retried`, `BacksOff`, `TriesAgain`).
A graded answer may be written once more, and question and answer are saved in two
transactions.

### Chunking, Ranking, FileEdits, Embedding

Inputs are built up step by step, so that TLC visits all of them up to the bounds; the
properties compare what the algorithm makes of each with what it should keep.
`Chunking` reads pieces (a length, with or without letters) one per round of the loop
of `chunk_text_with_overlap`. `Ranking` merges the rows of three sources; a normalised
score is a number of parts of 1 (`Scale`, 10^4 in the code), rounded to the nearest, so
that scores that differ may become equal, and the sort is stable: chunk `k` of the list
is the one that `k - 1` others go before (`Before`). `FileEdits`
evaluates the three strategies of `_fuzzy_find_and_replace` on texts of characters,
since the property is about lines and blanks. What is on disk (`file`) may hold line ends
of other systems and bytes that are not UTF-8, which reading replaces (`body`) and writing
does not restore. `Embedding` has two calls of
`embed_batch` side by side on one cache; a vector stands for the text it was computed
from.

### RepoIndexing

A step is one database call, LLM call or directory scan with the computation that
follows it. Files have versions, and a hash is a version. A job carries what the
local variables of the Python functions carry: the walked paths, what is left to
analyse or insert, the pending rows `consolidate_repo` has read. The jobs of one
repository interleave freely; two variables are history of that: `torn` are the files of
which a memory was stored while another job had them in hand (analysed and not yet
embedded), or that were in hand when the process died, and `others` what other jobs have
stored since a job purged or listed the table. The full-pass
and incremental forms of `ingest_repo`, the refresh of `_post_agent_refresh`, the
purge, embedding, and batches of the consolidation are actions of their own;
`Raise` is the except clause of each pipeline. A clone cut off by a crash leaves
a directory that is not empty, so the next attempt takes it for complete.

### NotebookSources

Request handlers run synchronously on the event loop, so each is one step; a
pipeline step is one read of the content or one transaction. All statuses between
"extracting" and "graphing" are "processing": no reader tells them apart. A
deleted row stays in the model as history. `Cut` gives the chunk ids of a
content, in batches; ids do not depend on the source, as
`chunker.chunk_sections_unified` computes them. `BatchStored` is one
`insert_chunks`, whose upsert takes over a row that another source holds: text,
embedding and owner are replaced, the section title, the page and the other labels stay
those of the first owner (`labels`).

### Podcasts

Rows stand in the order of `created_at`, since the handlers only ever look at
the latest one. "preparing" covers the three statuses before synthesis proper,
"voicing" the statuses `synthesizing i/n`, which `generate_podcast` does not
count as in progress. The audio file is none, partial, mixed (two pipelines wrote
into it) or whole. Deleting the notebook takes the rows along and leaves files and
pipelines. A POST reads the status and schedules afterwards (`Finds`, `PostAgain`);
handlers are coroutines without an await, so no other one comes between, but pipelines
run on, and the one at work may have written ready by then. `crowded` remembers the
podcasts that were asked for again while a pipeline was at work on them.

## 3. The runs

| run | instance | shows |
|---|---|---|
| `sessions_any` | 1 session, 2 tasks, 2 handlers, 2 turns, any client, fair | `NoStrandedRow`, `StopAnswered`, `LoopEnds`: whatever arrives in whatever order, a row that says queued or running has a loop behind it, stops are answered, loops end |
| `sessions_faults` | 2 sessions, limit 1, 2 tasks, 2 handlers, 1 turn, any client, restarts and database errors | `LoopsRegistered`, `StopTakesEffect`, `ImplementsLifecycle`: registry, row and loop agree, a stop is final, and the abstract lifecycle with its limit is implemented, up to what crossing requests and refused writes take away |
| `stream` | 1 page, 2 loops one after the other or side by side, 3 queues of capacity 2, 1 progress event after each start, LLM and database failures, restarts, broken connections, fair | `NoStaleEnd`, `DiscardedQueuesEnd`, `PagesCatchUp`: no stream ends with a loop that was over when it was opened, a discarded queue still holds the end, a page catches up |
| `worktrees` | 2 sessions, 1 target, 1 user-named branch, 1 handler beside the loops, 4 commits, 1 edit each, git failures, an enclosing repository | `Isolation`, `ReportedIsSafe`, `BaseStaysInHistory`, `NoStepLosesWork` |
| `index_jobs` | 1 file, 2 concurrent jobs, all faults, fair | `Settled`, `JobsEnd`: every job ends and leaves a final status |
| `index_versions` | 1 file in 2 versions, 2 row ids, 2 concurrent jobs, registration, retries, agent runs and merges, failing embeddings | `ChunksFollowMemory`, `MemoriesOfWalkedFiles`, `MarkedAsRead`: memory, chunks and mark agree on versions, or two jobs had the file at a time |
| `list_cache` | 2 requests, 2 writers, 3 writes, failing selects and lost answers, fair | `BustedWritesShow`, `ListsCatchUp`: a bust hides nothing but from a request it raced, and everyone catches up |
| `sources_race` | 2 notebooks, 2 sources, 1 file name, 3 contents, all faults | `OwnContent`, `NoForeignText`, `ReadyIsComplete`, `SourcesSettle` |
| `podcasts` | 2 podcasts, 2 pipelines, deletions of podcasts and of the notebook, all faults, fair | `ServedIsWhole`, `ReadyKept`, `PodcastsEnd` |
| `answers` | the event loop and 2 workers, 1 permit, 2 providers, 2 questions, failing transactions, fair | `NoPermitLost`, `AnswersFollowQuestions`, `CallsEnd` |
| `connections` | 3 threads (1 retrying), 2 connections, 1 retry, 3 drops, all faults, fair | `NeverExhausted`, `IdleDropsAbsorbed`, `OnceUnlessUnanswered`, `CallsEnd` |
| `algorithms` | up to 5 pieces, of which some are longer than a chunk; 3 sources of up to 3 rows, top 3; files of 5 and edits of 4 characters, 8 together, 1 of them foreign; 2 callers with up to 3 texts in batches of 2 | `NoPieceLost`, `NoChunkRepeated`, `EverySourceSeen`, `FullAndDistinct`, `EditsOnlyWhatIsNamed`, `EmbeddingsAligned` |

For every property `PROJECT.json` names a mutated definition with which TLC finds it
violated. No run checks a `TypeOK`: each is a theorem (section 4). `Ranking` and `FileEdits` have
none, since their variables are nothing but the inputs built up; what their proofs need
of these is `RankInv` and `EditInv`.

**Bounds.** Every bound is a constant. They are chosen so that the smallest
instance of each conflict fits: two loops of one session (one in its refresh, one
started by a message) and two handlers waiting on them; two turns, so that the
turn counter matters both when it is below and at its limit; two sessions
against a limit of one; a queue of two, which a progress event and an ask_user left by
an earlier loop fill, and two loops and three queues, so that a queue is discarded, made
anew and discarded again while an old reader lives; a worktree's base, one checkpoint or commit
for each session and a merge; two jobs of one repository, of any two kinds; one file in
two versions, so that one job holds the stale one while another stores the new one, and
two row ids, so that a row that was purged comes back under another (that files do not
get in each other's way is what the proofs add); two
requests and two writers, so that one of each is slow; two
sources that can be put into one notebook or two and under one name; three
contents, of which two share a chunk id, one has two batches and one has none;
two podcasts, of which the second exists while the pipeline of the first runs; one
permit, for which the event loop waits while a worker holds it; three threads for two
connections, with three drops, so that one thread meets two stale connections and is
struck once more; edits of four characters, enough for two lines with a blank one
between or after them; three texts in batches of two, so that one occurs twice and
there are two batches to come in either order.
`Tasks`, `Jobs` and `Handlers` limit what is alive at a time, not how often it
happens; `MaxVersion`, `MaxOwed`, `MaxPodcasts`, `MaxLoops`, `MaxCommits`, `MaxWrites`,
`MaxDrops`, `MaxAsked` and the ids that are never used again do limit how often.
Symmetry is declared only in runs without liveness properties. `CHECK_DEADLOCK FALSE`
stands where the bounded ids can be used up with nothing left to do.

**Fairness.**

* `AgentSessions`: weak fairness of each loop and each suspended
  handler. The event loop runs whatever is ready, and the threads a task awaits
  (LLM call, shell command, git) carry timeouts.
* `RepoIndexing` and `Podcasts`: weak fairness of each job;
  executor threads are never starved by the code and every external call carries a
  timeout. (`VoicesOn`, the next turn of a dialogue begun, is outside it: a dialogue
  has finitely many turns, so fairness of the rest ends the synthesis.)
* `SessionStream`: weak fairness of each page's fetching, opening and receiving, which
  the browser's timer and event queue drive. The agent and its end are not fair.
* `RepoListing`: an entry expires, a writer gets to its bust (weak); pages poll, so
  requests go on (weak), and a select that may fail succeeds in the end (strong). Writes
  are not fair.
* `Connections` and `Answering`: threads run (weak), and a thread that waits for the
  semaphore is woken in its turn (strong): `threading.Semaphore` waits on a
  `Condition`, which notifies the one that has waited longest. The server's and the
  providers' faults are not fair, and every chain of retries is finite in the code.
* Requests are never fair: no user has to send anything.
* `NotebookSources` states that sources settle as an invariant (an
  intermediate status has a pipeline behind it), so no fairness is assumed there.

## 4. The proofs

TLAPS proves, for every value of the constants that satisfies the module's
assumption on its constants and without further hypotheses:

| theorem | states |
|---|---|
| `AgentSessionsProofs!TypeCorrect` | `Spec => []TypeOK` |
| `AgentSessionsProofs!RowsNeverStranded` | `Spec => []NoStrandedRow` |
| `AgentSessionsProofs!RegistryKnowsLoops` | `Spec => []LoopsRegistered` |
| `AgentSessionsProofs!StopsAreFinal` | `Spec => StopTakesEffect` |
| `AgentSessionsProofs!SessionsImplementLifecycle` | `Spec => ImplementsLifecycle` |
| `SessionStreamProofs!StreamTyped` | `Spec => []TypeOK` |
| `SessionStreamProofs!NoStaleEndCorrect` | `Spec => []NoStaleEnd` |
| `SessionStreamProofs!DiscardedQueuesEndCorrect` | `Spec => []DiscardedQueuesEnd` |
| `WorktreesProofs!TypeCorrect` | `Spec => []TypeOK` |
| `WorktreesProofs!IsolationCorrect` | `Spec => []Isolation` |
| `WorktreesProofs!ReportedIsSafeCorrect` | `Spec => []ReportedIsSafe` |
| `WorktreesProofs!BaseStaysInHistoryCorrect` | `Spec => []BaseStaysInHistory` |
| `WorktreesProofs!NoStepLosesWorkCorrect` | `Spec => NoStepLosesWork` |
| `RepoIndexingProofs!TypeCorrect` | `Spec => []TypeOK` |
| `RepoIndexingProofs!IndexingSettles` | `Spec => []Settled` |
| `RepoIndexingProofs!ChunksFollowMemoryCorrect` | `Spec => []ChunksFollowMemory` |
| `RepoIndexingProofs!MemoriesOfWalkedFilesCorrect` | `Spec => []MemoriesOfWalkedFiles` |
| `RepoIndexingProofs!MarkedAsReadCorrect` | `Spec => MarkedAsRead` |
| `DatabaseProofs!ListingTyped` | `ListSpec => []ListTypeOK` (`RepoListing`) |
| `DatabaseProofs!BustsHideNothing` | `ListSpec => []BustedWritesShow` |
| `DatabaseProofs!ConnectionsTyped` | `Spec => []TypeOK` (`Connections`) |
| `DatabaseProofs!PoolNeverExhausted` | `Spec => []NeverExhausted` |
| `DatabaseProofs!CommittedOnce` | `Spec => OnceUnlessUnanswered` |
| `DatabaseProofs!DropsAbsorbed` | `Spec => IdleDropsAbsorbed` |
| `NotebookSourcesProofs!TypeCorrect` | `Spec => []TypeOK` |
| `NotebookSourcesProofs!OwnContentCorrect` | `Spec => []OwnContent` |
| `NotebookSourcesProofs!NoForeignTextCorrect` | `Spec => []NoForeignText` |
| `NotebookSourcesProofs!ReadyIsCompleteCorrect` | `Spec => []ReadyIsComplete` |
| `NotebookSourcesProofs!SourcesSettleCorrect` | `Spec => []SourcesSettle` |
| `PodcastsProofs!PodcastsTyped` | `Spec => []TypeOK` |
| `PodcastsProofs!ServedWhole` | `Spec => []ServedIsWhole` |
| `PodcastsProofs!ReadyStays` | `Spec => ReadyKept` |
| `DocumentProofs!AnsweringTyped` | `Spec => []TypeOK` (`Answering`) |
| `DocumentProofs!PermitsKept` | `Spec => []NoPermitLost` |
| `DocumentProofs!HistoryPaired` | `Spec => []AnswersFollowQuestions` |
| `DocumentProofs!NoPieceLostCorrect` | `ChunkSpec => []NoPieceLost` |
| `DocumentProofs!NoChunkRepeatedCorrect` | `ChunkSpec => []NoChunkRepeated` |
| `DocumentProofs!EmbeddingsAlignedCorrect` | `EmbedSpec => []EmbeddingsAligned` |
| `DocumentProofs!FullAndDistinctCorrect` | `RankSpec => []FullAndDistinct` |
| `DocumentProofs!EverySourceSeenCorrect` | `RankSpec => []EverySourceSeen` |
| `DocumentProofs!EditsOnlyWhatIsNamedCorrect` | `EditSpec => []EditsOnlyWhatIsNamed` |

*RowsNeverStranded.* A row that says running needs a loop that is at work, and
one task must not be able to end on behalf of another. The invariant `IInv` adds
to the property that the registry holds a task only under the session it belongs
to (`RegistryKeyed`), and that tasks with a pending cancellation have been started
(`CancelsStarted`): a task cancelled before its first step would leave the row at
queued. The proof goes through the steps of loops (what they do to other tasks,
what they write in the row), the two requests that start a loop, and the handlers.

*RegistryKnowsLoops, StopsAreFinal, SessionsImplementLifecycle.* Nothing is assumed of the
clients. The invariant `RequestInv` adds to `IInv` that the row follows the loop where no
requests have crossed (`RowFollowsLoop`), that a loop which has not started is that of a
queued row and has met no request (`FreshIsQueued`), that a session is deleted at rest or
the delete has crossed (`DeletesAtRest`), and that, unless a message has crossed, what a
stop awaits is its session's only loop, which is cancelled or has written the row if it
could (`StopsAwaitTheLoop`): so between the cancellation and the answer no other task can
write it. Each action then maps to one step of the lifecycle or to a stutter. The limit
at a creation is a statement about cardinalities: among the rows that
`create_agent_session` counts are all sessions the lifecycle counts as at work.

*NoStaleEndCorrect, DiscardedQueuesEndCorrect.* A queue that is in the dictionary holds no
event that ends a loop (`CurrentHasNoEnd`): the loop that emits one discards its queue
before the next await. So a page that opens gets a queue without an old end, and a
queue that is no longer current has got its end, unless it was full. What ends a loop is
emitted by a loop that is at work, or by a stop in the name of none, and a loop that is
over stays over (`PastIsOver`): so it makes no difference how many loops run beside each
other. Each action either leaves the
queues alone, appends one event to the current one, or takes one from the front
(`EmitGives`, `Taken`). That `Pages` is finite, as the number of open pages is, is part of
the assumption.

*IsolationCorrect, ReportedIsSafeCorrect, BaseStaysInHistoryCorrect.* `HistoryOK` states
what git keeps: histories are transitive, contain the first parent, and a commit holds
what its ancestors hold. `WorktreeOK` bounds what a worktree has in its branch, index and
files by what it may have (`Allowed`: its own edits and those of the target branches),
and `MayPoint` says which commits its branch may be moved to. A thread moves a branch to a
commit it has read several commands ago, with the commands of other actors in between;
so `JobOK` says that this commit still is one the branch may point to, which
`MayPointKept` shows of every step: commits are never changed, target branches only
grow, a base is set once (`Kept`). `Elsewhere` says that a plain directory, and git
commands in the repository around it, come after a worktree that was removed and is never
made again. `BranchesOK` keeps two worktrees off one branch. The
assumption names what the naming scheme of `worktree_service` gives: session branches,
target branches and branches that users name do not coincide.

*NoStepLosesWorkCorrect.* By cases of the git commands, from the same invariant: a
command that moves a branch moves it to a commit that holds what the worktree has
(checkpoints are squashed softly), or belongs to a restore, a revert or a delete.

*IndexingSettles.* `IInv` adds that a reindex or merge job exists only where such
requests do (`ReindexRequested`), and splits the property by the job that owes the
final status (`StatusOwned`): a step of a job leaves an intermediate status only if
the same job is still there, and a job that ends writes ready or failed. Other jobs
may overwrite that, but only while they are themselves under way.

*ChunksFollowMemoryCorrect, MemoriesOfWalkedFilesCorrect, MarkedAsReadCorrect.* `WorkInv`
describes each pass beside the two tables, whatever other jobs do meanwhile (`JobInv`): it
holds one version of each file, one of those it walked, and what it has analysed is what
the memory says, if there still is one and no other job has stored over it (`Analysed`);
after its purge nothing outside the walk has a memory but what others have stored
(`Walked`); the rows a consolidation has read are still those of the table, gone, or
stored anew by others (`Listed`), with ids that are not used twice (`UniqueIds`). Two jobs
have a file in hand at a time only when one has stored it under the other (`Apart`), and
the chunks of any other file lag behind its memory only while the pass that analysed it
has not come to them (`ChunksInStep`). A crash between the memory and the chunks leaves
chunks of the old version behind, and an incremental pass skips the file; that is the
other way into `torn`. A step of one job keeps the part of every other one
(`KeepsJobInv`), so the number of jobs does not matter.

*BustsHideNothing.* The entry is stored from what a request has read, so `ReadsShow` says
the same of a request between its select and its store: unless a bust came since, what
it has read shows every write whose bust is done.

*OwnContentCorrect, NoForeignTextCorrect.* The property speaks of stored chunks,
but a pipeline stores what it read earlier, perhaps from a file that has been
overwritten or unlinked since. `TextsInv` therefore follows a text on its way: a file
holds something uploaded under its name in its notebook (`FileGiven`), a pipeline
holds something given for its source (`JobGiven`), a chunk is filed under the notebook
of its source (`ChunkInNotebook`). Every step satisfies `Frame`, a description of what
may change at all (rows keep notebook, name and content; jobs get contents only by
reading; chunks change only by upserts; files only by uploads and deletions), and
`Frame` preserves each part of the invariant. For the labels, a text under a chunk id is
one whose chunks have that id, and that is all that the first and the present owner of a
row have in common.

*ReadyIsCompleteCorrect.* `StoreProgress` says of a pipeline none of whose batches has
failed that every chunk of its text is stored or still to do. Rows change hands in
upserts but are never removed (`RowsStay`), so batches stored by other pipelines in
between do no harm, and only a step of its own makes a source ready.

*SourcesSettleCorrect.* A step of one pipeline leaves every other source and its
pipeline alone (`OthersStand`), and its own source either still has its pipeline or
has a final status, or the step is one that sets `lost`.

*ServedWhole, ReadyStays.* `OnePipeline` describes a podcast that was never asked for again
while a pipeline was at work: it has one or none; once its row has a path it has none, and
is ready or deleted; when a request has found it in progress it has none until that
request schedules one; while its pipeline writes the file is partial, and whole when the
pipeline is about to say ready. A step of a pipeline (`Frame`) touches one podcast
only, so the rest of the proof is about that one (`OwnKeeps`). What is ready has no
pipeline, hence only a deletion can change its row.

*PoolNeverExhausted, CommittedOnce.* `Counted` says that the threads between acquire and
release are the permits that are missing, and those that carry a connection are the
`used` ones; a thread at take holds a permit and carries nothing, so there is room. The
counts change by one element of a finite set at a time (`SetSteps`). `OutcomeTold` ties
what was committed to the outcome of the attempt.

*DropsAbsorbed.* Every dropped connection is met once: by the thread that was using it,
which is struck, or by one that takes it from the pool. `DropsMet` counts: the stale
connections in the pool or in a thread's hands, together with those a call that was not
struck has met, two in each attempt (`Met`), are no more than the drops. So such a call
raises only after two drops for each of its attempts.

*PermitsKept, HistoryPaired.* Every action of a call is a move of one thread that takes,
gives back or keeps one permit according to where it goes (`PermitMoves`). For the
history, the invariant adds that the question being answered is newer than all that is
stored (`QuestionIsNew`) and, between the two transactions, the last entry
(`QuestionIsLast`): worker threads never touch the history, and on the event loop
nothing comes between.

*NoPieceLostCorrect, NoChunkRepeatedCorrect.* `Accumulated` says of what has been read and not
yet stored that it begins at or before the end of the last chunk, is not empty, and
reaches beyond that chunk; carrying the overlap over and cutting the last chunk keep
that. Nothing is assumed of the lengths of pieces, since a long word is a piece of its
own, nor of the overlap. The length of an interval of pieces is a function defined by
recursion (`Totals`), about which the proof needs that it exists and that a longer
interval is not shorter.

*EmbeddingsAlignedCorrect.* The answers that came are the vectors of their batches, however a
batch was halved on the way (`AnswersRight`); a call that has all of them puts vector
`n` at the `n`-th text that was not in the cache (`Gaps`), and the batches side by side
are those texts. The cache is shared, so a step of one caller must keep the others'
answers right: it only fills entries, each with its own vector.

*FullAndDistinctCorrect, EverySourceSeenCorrect.* `RankInv` says that a source has at most
`PerSource` rows, the best first; with that a coarser scale never turns their order
round (`DivOrder`, `ScoresFound`). The merged list is built from lists of lists, so the
lemmas are about `FlattenSeq`: which elements it has (`ElementsOfFlatten`) and that it
repeats none if no part does and the parts share none (`DistinctFlatten`). `Allocated`
and `Turns` are of this kind, `Turns` holds every chunk there is (`TurnsFound`), and what
fills the free slots leaves out what has a slot, so `Filled` repeats nothing and has
`top_k` chunks or all (`FilledFound`). That sorting loses nothing is a fact about
orders (`PlacesOfOrder`): if of any two places one goes before the other, and that
transitively, then the numbers of places that go before are `0..n-1`, each once. For
`EverySourceSeen` the chunks that go before a source's best one are counted: if the
slots fit, nothing is cut off; if they do not, only other sources' best chunks score as
high, and they are fewer than `top_k` (`BestGoFirst`).

*EditsOnlyWhatIsNamedCorrect.* The property compares lines read from a text that is put
together with the lines it was put together from. `WellLined` characterises the lists
that are the lines of some text: no line is empty, a line end stands only at the end of
a line, and only the last line may lack one. Reading lines gives such a list, whose
concatenation is the text (`LinesFound`); such a list is what is read from its
concatenation (`LinesOfFlatten`); blocks of it and, if the first is ended, two of them
together are of the kind (`WellLinedBlock`, `WellLinedJoin`). So the line end that
`Replacement` appends is what keeps the lines after an edit apart. The second strategy
finds what the text says because strip can be computed from what rstrip leaves
(`StrippedFromRStripped`), the third because blank lines do not count (`NotBlankConcat`),
and a refusal is right because a block without blank lines that says the same is as
long as old_text and would have been found (`SaidBlockFound`). What is written outside
the replaced part is what was read there (`InARow`, `OthersWritten`), which is the file
except for what reading replaces (`FileRead`).

*Induction.* The library's induction theorems take an operator as a parameter, which none
of the provers can instantiate. `DocumentProofs` therefore starts from the well-foundedness
of the naturals, gets a least element of every set of naturals (`LeastNatural`) and from
that induction over the naturals and over lists with a set as the hypothesis
(`InductionOnNaturals`, `InductionOnLists`). That the recursive functions `Totals`,
`Gaps` and `LinesOf` and the `FlattenSeq` of the library satisfy their equations is
proved from it, and so is what they compute.

Every safety property that a run checks, invariants and action properties, is a theorem.
Only model-checked: all liveness (`StopAnswered`, `LoopEnds`, `JobsEnd`,
`PodcastsEnd`, `PagesCatchUp`, `ListsCatchUp`, both `CallsEnd`), which is out of the
prover's reach under fairness. The proofs do not cover the runs' symmetry sets.

## 5. What is abstracted, and what is not modelled

* Data: prompts, replies, embeddings, scores beyond a small scale, contents of
  events and conversations, progress columns and messages. A reply is text, a tool call
  or a question; a call succeeds or fails; a file is a version; a document is the set
  of its chunk ids; a vector is its text.
* Database: a statement is one atomic step, and a fault makes it fail without
  effect. The pool's retry, which may run a statement twice, is in `Connections`, which
  knows calls but not what they write.
* `AgentSessions`: queues and events are in `SessionStream`; commits, merges, reverts and checkpoints are in `Worktrees`.
* `SessionStream`: event payloads, keep-alives, the other pages that show a session.
* `Worktrees`: the push of a branch and the pull request; shell commands of the agent
  (`run_command`), which may run git; the contents of a repository around the clones;
  which files an edit touches (a conflict may come whenever two histories diverge).
* `RepoIndexing`: reference edges, insight texts, the context's version, errors of
  the database, deletion of a repository while a job runs.
* `RepoListing`: entries of other users (a bust drops them all).
* `NotebookSources`: a read of a file in the middle of its overwriting, the chunk
  graph, slot allocation (in `Ranking`), the change of the embedding dimension that
  drops the table, renaming.
* `Answering`: what goes into a prompt; `/query` without a notebook, which keeps no
  history; the HTTP timeouts, which are failures.
* `Connections`: the asyncpg pool, whose limits are asyncpg's own, and the one
  connection of the vector store.
* `Chunking`: `recursive_split` (pieces are inputs), the order of sections, the
  removal of repeated chunks. A chunk the filter rejects counts as holding its pieces:
  what is shown is that cutting and carrying skip nothing, not that every piece is
  indexed. `Ranking`: reranking and the chunk graph; `int(top_k * 0.7)` is
  `(7 * topK) \div 10`, from which floating point departs at 90 (62 instead of 63), which
  no property depends on.
  `Embedding`: the cache's file and the choice of the provider at the start.

Not modelled at all, with the reason in `PROJECT.json`: parsers of source code, reading
of PDFs, reads of the clone and of diffs, study tools, OAuth, the scripts, and the
vendored copy of pytest (`src/_pytest`), which is third-party code and more than half of
the Python lines of the repository. The share of all lines that the map covers is
therefore small whatever is modelled; of the application's own code
(`src/src`, about 22000 lines) a quarter is mapped, mostly its stateful core.

## 6. Where code and documentation disagree

Met while modelling. No run depends on these: where a documented promise does not hold,
the property checked is the one that does, and its comment says what is excepted.

| where | the documentation | the code |
|---|---|---|
| `orchestrator.py:621` | `_active_agent_tasks` "Maps session_id -> running asyncio.Task for active agent sessions." | the finally clause of an ending loop pops the entry of the loop a follow-up message has registered; stop then finds no task |
| `orchestrator.py:783` | "Cancel a running agent session" (`:817`), by its one task | a message starts a loop beside the one at work; a stop then cancels the newer, or, when the older has ended and popped the entry, only writes the row, while a loop goes on |
| `orchestrator.py:612`, `:619` | a stop answers "cancelled" (`:858`); a loop that crashes marks its session failed | these writes may fail in the outage that ended the loop; the stop swallows that (`:842`) and the row stays at running without a loop |
| `orchestrator.py:786` | `MAX_CONCURRENT_SESSIONS` limits running sessions (`repo_constants.py:52`) | a follow-up message starts a loop without counting |
| `orchestrator.py:838` | a stop leaves finished sessions alone (`:831`) | in the refresh the task still lives, so the stop turns completed into cancelled |
| `orchestrator.py:835` | a session that runs can be stopped (`:820`) | a row left at queued by a restart is refused |
| `orchestrator.py:1303` | deletion ends a session (`session_controller.py:441`) | the loop is not cancelled and works on in a removed worktree: `write_file` makes the directory anew (`tool_executor.py:342`), and the next checkpoint's git commands find the repository around it, if there is one (`worktree_service.py:148`) |
| `tool_executor.py:1122` | `_exec_git_commit` runs `git commit` in the worktree | no entry of the dispatch table (`:196`) leads there |
| `orchestrator.py:1112` | merge and pull request are of the session's commits | a commit to a branch the user names moves the worktree there; both still take the stored branch |
| `session_controller.py:132` | `remove_queue`: "Discard the queue when a session finishes" | a stream opened after the end makes a queue that nobody removes |
| `worktree_service.py:235` | `merge_to_branch`: "Merge a worktree branch into the target branch" | checkout and merge are two commands without a lock; a concurrent merge's checkout diverts the first |
| `ingest_agent.py:882` | ready means ingested and consolidated (`repo_constants.py:115`) | `ingest_repo` writes ready before consolidation starts |
| `orchestrator.py:239` | a failed step marks the repository failed (`:230`) | a reindex whose consolidation fails is only logged |
| `orchestrator.py:234` | reindexing is incremental (`repo_controller.py:101`) | it always forces, and deletes every memory first |
| `consolidate_agent.py:544` | `consolidate_repo` raises for unknown repositories, missing keys and failed LLM calls | with no pending memory it asks for a pool of zero workers, which raises `ValueError` |
| `consolidate_agent.py:541` | marks the memories it has consolidated | by id: a version that another job has stored since the rows were read is marked unread |
| `consolidate_agent.py:340` | the context is versioned | the version is read and written in two statements; two consolidations may store the same |
| `code_embedder.py:167` | "Unchanged files keep their existing chunks and embeddings." | an incremental pass takes the analysed files for all files and deletes the others' chunks |
| `repo_db.py:179` | "Writes call invalidate_list_cache" | `insert` never does |
| `connection.py:107` | stale connections are replaced "transparently" (`:86`) | the replacement may be stale too, and its error gets out |
| `connection.py:139` | a disconnected call is tried again | a commit whose answer was lost is done again: `insert_chunks` of `repo_code_chunk_db.py:113` adds rows twice, `insert_session` of `session_db.py:259` fails on its key |
| `vector_store.py:268` | "chunks are cascade-deleted by FK" (`source_db.py`) | the table is recreated without foreign keys; chunks of deleted sources stay and are searched when no source is ready |
| `chunk_db.py:47` | a notebook is "an isolated container of sources" | a chunk id does not contain its source; adding a document to a second notebook moves rows there, and they keep the section title and the page of the first (`:47-52`), which may be the name of another notebook's source |
| `api.py:916` | one podcast per notebook (`podcast_db.py:6`) | a POST during progress schedules a second pipeline for the same row, which may come to it when the first has made it ready, and takes it back |
| `podcast_service.py:114` | as above | `synthesizing i/n` is not in the list of statuses in progress, so a second podcast begins |
| `llm_semaphore.py` | gates all outbound LLM calls | `answer_validator.py:217` and `podcast_service.py:431` post without it; `generator.py:316` and `llm_client.py:298` hold a permit while they back off |
| `generator.py:252` | "The best attempt is returned" | when the second call raises, the first answer is lost with it |
| `ingest_agent.py:281` | a rate limit is waited out | the branch for 429 is not reached: an error response is falsy |
| `tool_executor.py:371` | "contiguous block in the file whose stripped lines match" | a block with a blank line inside does not match, and up to three blank lines after a match go with it |
| `tool_executor.py:464` | "Replace the first occurrence of *old_text* with *new_text*" (`:423`) | the file is read with universal newlines and `errors="replace"` and written with `newline=""`: every other line end becomes a line feed, and every byte that is not UTF-8 a replacement character, in lines nobody named |
| `chunker.py` | chunks respect the size limit; `recursive_split` stays at or under `max_chars` | a chunk may exceed it by less than the overlap; a single long word is a piece of its own |
| `retriever.py` | "every source gets representation" | not when there are more sources than slots |
| `embedder.py` | the cache is flushed at shutdown | only the embedder in the application state is; pipelines use the singleton of `get_embedder` |

## 7. Plan

Done: the modules of section 2 and the theorems of section 4. Next, in this order:

1. Abstract specifications of the connection pool and of the event bus, and their
   refinements.
2. `RepoMemory`: context versions and reference edges under concurrent
   consolidations, as an extension of `RepoIndexing`.
3. Push and pull request in `Worktrees`, with the remote's branches.
4. The composition of `AgentSessions` and `RepoIndexing` over one repository row, and an
   abstract specification of a repository's status that both rely on.
