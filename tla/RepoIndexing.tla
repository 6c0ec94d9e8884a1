---------------------------- MODULE RepoIndexing ----------------------------
(***************************************************************************)
(* The indexing pipeline of one repository: its row in repos, the clone on  *)
(* disk, the rows of repo_file_memories and repo_code_chunks, and the jobs  *)
(* that clone, ingest, embed and consolidate in the threads of             *)
(* _background_pool (or, after an agent run, of the default executor).      *)
(* Nothing keeps two jobs of one repository apart, so the steps of jobs    *)
(* interleave; a step is one database call, LLM call or directory scan     *)
(* with the computation that follows it.                                   *)
(***************************************************************************)
EXTENDS Integers, FiniteSets

CONSTANTS
  Files,      \* repo-relative paths
  MaxVersion, \* bounds the versions a file goes through
  RowIds,     \* primary keys of repo_file_memories
  Jobs,       \* jobs that may be scheduled or running at a time
  MaxOwed,    \* bounds the merge requests in flight
  BatchSize,  \* CONSOLIDATION_BATCH_SIZE
  Requests,   \* which of AllRequests this instance sends
  Faults,     \* subset of AllFaults: what may go wrong
  NoRow

AllRequests == {"reindex", "retry", "consolidate", "session", "merge"}
AllFaults == {"git", "llm", "embed", "crash"}

ASSUME ConstantsAssumption ==
  /\ IsFiniteSet(Files) /\ IsFiniteSet(RowIds)
  /\ MaxVersion \in Nat \ {0}
  /\ BatchSize \in Nat \ {0}
  /\ MaxOwed \in Nat
  /\ Requests \subseteq AllRequests
  /\ Faults \subseteq AllFaults
  /\ NoRow \notin [id : RowIds, hash : 1..MaxVersion, pending : BOOLEAN]

VARIABLES
  status,   \* repos.indexing_status; "none" before the row exists
  error,    \* repos.error_message, by its origin
  cloned,   \* the clone directory exists and is not empty
  disk,     \* version of each file in the clone, 0 when there is no such file
  memory,   \* repo_file_memories by path
  chunks,   \* hash of a file's rows in repo_code_chunks (of the latest, when
            \* two jobs have both inserted it), 0 when it has none
  insights, \* repo_consolidations has a row
  used,     \* an agent session has been created
  owed,     \* merges that landed and have not scheduled their reindex
  job,      \* scheduled and running jobs
  restarted, \* history: the process has died and been started again
  torn,     \* history: files that a job stored a memory of while another job
            \* had them in hand, or that were in hand when the process died
  others    \* history: files that other jobs have stored a memory of since
            \* this job purged or listed the table

rowVars == <<status, error>>
history == <<restarted, torn, others>>
vars == <<status, error, cloned, disk, memory, chunks, insights, used, owed, job,
          restarted, torn, others>>

Hashes == 1..MaxVersion
Item == [file : Files, hash : Hashes]
Memory == [id : RowIds, hash : Hashes, pending : BOOLEAN]
Pending == [file : Files, id : RowIds, hash : Hashes]

\* "pending" is the column's default; "cloning" is only a progress phase.
Statuses == {"none", "pending", "indexing", "consolidating", "ready", "failed"}

Kinds == {"clone", "reindex", "retry", "consolidate", "refresh"}
Steps == {"queued", "walk", "purge", "plan", "files", "embed", "insert",
          "mark", "consolidating", "list", "batches"}

\* walk: the paths ingest_repo walked or the agent changed; todo: what is left
\* to analyse, then to insert; got: what was analysed; rows: pending rows read
\* by consolidate_repo and not yet through a batch.
JobRecord == [kind : Kinds, at : Steps, walk : SUBSET Files,
              todo : SUBSET Item, got : SUBSET Item, rows : SUBSET Pending]
NoJob == [kind |-> "none", at |-> "queued", walk |-> {}, todo |-> {},
          got |-> {}, rows |-> {}]
NewJob(k) == [NoJob EXCEPT !.kind = k]

Busy(j) == job[j].kind # "none"

\* walk_repo.
OnDisk == {f \in Files : disk[f] # 0}

HashIn(f) == IF memory[f] = NoRow THEN 0 ELSE memory[f].hash

FreeIds == RowIds \ ({memory[f].id : f \in {g \in Files : memory[g] # NoRow}}
                     \cup UNION {{r.id : r \in job[j].rows} : j \in Jobs})

Init ==
  /\ status = "none"
  /\ error = "none"
  /\ cloned = FALSE
  /\ disk = [f \in Files |-> 0]
  /\ memory = [f \in Files |-> NoRow]
  /\ chunks = [f \in Files |-> 0]
  /\ insights = FALSE
  /\ used = FALSE
  /\ owed = 0
  /\ job = [j \in Jobs |-> NoJob]
  /\ restarted = FALSE
  /\ torn = {}
  /\ others = [j \in Jobs |-> {}]

-----------------------------------------------------------------------------
(* The steps of a job.                                                     *)

At(j, kinds, step) == job[j].kind \in kinds /\ job[j].at = step

Goto(j, step) == job' = [job EXCEPT ![j].at = step]

End(j) == job' = [job EXCEPT ![j] = NoJob]

\* What job j has analysed and not yet embedded, or is embedding.
InHand(j) == IF job[j].at \in {"files", "embed", "insert"}
               THEN {i.file : i \in job[j].got} ELSE {}

\* repo_db.update_status; mark_indexed leaves error_message as it is.
SetStatus(st, err) == status' = st /\ error' = err
MarkIndexed == status' = "ready" /\ UNCHANGED error

Pipelines == {"clone", "retry"}
Ingesting == {"clone", "retry", "reindex"}

\* Mutant of Raise: the first indexing pass has no except clause.
RaiseUnlessFirst(j, err) ==
  /\ IF job[j].kind \in {"retry", "consolidate"}
       THEN SetStatus("failed", err) ELSE UNCHANGED rowVars
  /\ End(j)
  /\ UNCHANGED <<cloned, disk, memory, chunks, insights, used, owed, history>>

\* The except clauses of the thread targets: _reindex_sync and
\* _post_agent_refresh only log.
Raise(j, err) ==
  /\ IF job[j].kind \in {"clone", "retry", "consolidate"}
       THEN SetStatus("failed", err) ELSE UNCHANGED rowVars
  /\ End(j)
  /\ UNCHANGED <<cloned, disk, memory, chunks, insights, used, owed, history>>

\* git_service.clone_repo and the status update that follows it; a repository
\* may have no indexable file at all.
Clones(j) ==
  /\ At(j, Pipelines, "queued")
  /\ job[j].kind = "retry" => ~ cloned
  /\ cloned' = TRUE
  /\ disk' \in [Files -> {0, 1}]
  /\ SetStatus("indexing", "none")
  /\ Goto(j, "walk")
  /\ UNCHANGED <<memory, chunks, insights, used, owed, history>>

\* git removes what a failed clone has written.
CloneFails(j) ==
  /\ "git" \in Faults
  /\ At(j, Pipelines, "queued")
  /\ job[j].kind = "retry" => ~ cloned
  /\ Raise(j, "git")

\* _retry_sync finds a clone directory that is not empty.
SkipsClone(j) ==
  /\ At(j, {"retry"}, "queued")
  /\ cloned
  /\ SetStatus("indexing", "none")
  /\ Goto(j, "walk")
  /\ UNCHANGED <<cloned, disk, memory, chunks, insights, used, owed, history>>

ReindexStarts(j) ==
  /\ At(j, {"reindex"}, "queued")
  /\ Goto(j, "walk")
  /\ UNCHANGED <<rowVars, cloned, disk, memory, chunks, insights, used, owed, history>>

\* _post_agent_refresh: the files the agent changed, with their content in
\* the session's worktree; files it deleted are in walk only.
RefreshStarts(j) ==
  /\ At(j, {"refresh"}, "queued")
  /\ \E changed \in SUBSET Files \ {{}} :
       \E content \in [changed -> 0..MaxVersion] :
         job' = [job EXCEPT ![j].at = "files", ![j].walk = changed,
                   ![j].todo = {[file |-> f, hash |-> content[f]] :
                                f \in {g \in changed : content[g] # 0}}]
  /\ UNCHANGED <<rowVars, cloned, disk, memory, chunks, insights, used, owed, history>>

\* The agent committed nothing, or git cannot tell.
RefreshSkipped(j) ==
  /\ At(j, {"refresh"}, "queued")
  /\ End(j)
  /\ UNCHANGED <<rowVars, cloned, disk, memory, chunks, insights, used, owed, history>>

\* ingest_repo up to and including update_status(indexing).
Walk(j) ==
  /\ At(j, Ingesting, "walk")
  /\ SetStatus("indexing", "none")
  /\ job' = [job EXCEPT ![j].at = "purge", ![j].walk = OnDisk]
  /\ UNCHANGED <<cloned, disk, memory, chunks, insights, used, owed, history>>

\* Mutant of Purge: without force nothing is deleted.
PurgeForcedOnly(j) ==
  /\ At(j, Ingesting, "purge")
  /\ memory' = IF job[j].kind = "reindex" THEN [f \in Files |-> NoRow] ELSE memory
  /\ Goto(j, "plan")
  /\ others' = [others EXCEPT ![j] = {}]
  /\ UNCHANGED <<rowVars, cloned, disk, chunks, insights, used, owed, restarted, torn>>

\* delete_by_repo when forced, else delete_stale_files.
Purge(j) ==
  /\ At(j, Ingesting, "purge")
  /\ memory' = [f \in Files |->
                  IF job[j].kind = "reindex" \/ f \notin job[j].walk
                    THEN NoRow ELSE memory[f]]
  /\ Goto(j, "plan")
  /\ others' = [others EXCEPT ![j] = {}]
  /\ UNCHANGED <<rowVars, cloned, disk, chunks, insights, used, owed, restarted, torn>>

\* _build_ingest_queue: unchanged hashes are skipped.
Plan(j) ==
  /\ At(j, Ingesting, "plan")
  /\ job' = [job EXCEPT ![j].at = "files",
               ![j].todo = {[file |-> f, hash |-> disk[f]] :
                    f \in {g \in job[j].walk : disk[g] \notin {0, HashIn(g)}}}]
  /\ UNCHANGED <<rowVars, cloned, disk, memory, chunks, insights, used, owed, history>>

\* _process_single_file succeeds: the row keeps its id on conflict.
FileIngested(j) ==
  /\ job[j].at = "files"
  /\ \E i \in job[j].todo :
       /\ job[j].kind = "refresh" \/ disk[i.file] # 0
       /\ \E id \in IF memory[i.file] = NoRow THEN FreeIds ELSE {memory[i.file].id} :
            memory' = [memory EXCEPT ![i.file] =
                         [id |-> id, hash |-> i.hash, pending |-> TRUE]]
       /\ job' = [job EXCEPT ![j].todo = @ \ {i}, ![j].got = @ \cup {i}]
       /\ torn' = IF \E k \in Jobs \ {j} : i.file \in InHand(k)
                    THEN torn \cup {i.file} ELSE torn
       /\ others' = [k \in Jobs |-> IF k # j /\ Busy(k)
                                      THEN others[k] \cup {i.file} ELSE others[k]]
  /\ UNCHANGED <<rowVars, cloned, disk, chunks, insights, used, owed, restarted>>

\* Mutant of FileFails: the failed file is tried again.
FileFailsAgain(j) ==
  /\ job[j].at = "files"
  /\ \E i \in job[j].todo :
       "llm" \in Faults \/ (job[j].kind # "refresh" /\ disk[i.file] = 0)
  /\ UNCHANGED vars

\* It fails, because of the LLM or because the file is gone; its row stays as
\* it is and the pass goes on.
FileFails(j) ==
  /\ job[j].at = "files"
  /\ \E i \in job[j].todo :
       /\ "llm" \in Faults \/ (job[j].kind # "refresh" /\ disk[i.file] = 0)
       /\ job' = [job EXCEPT ![j].todo = @ \ {i}]
  /\ UNCHANGED <<rowVars, cloned, disk, memory, chunks, insights, used, owed, history>>

AfterEmbedding(j) == IF job[j].kind = "refresh" THEN "list" ELSE "mark"

\* ast_results is empty when no file was analysed: nothing is embedded.
FilesDone(j) ==
  /\ job[j].at = "files"
  /\ job[j].todo = {}
  /\ Goto(j, IF job[j].got = {} THEN AfterEmbedding(j) ELSE "embed")
  /\ UNCHANGED <<rowVars, cloned, disk, memory, chunks, insights, used, owed, history>>

\* Mutant of Embed: a file counts as changed when it has no chunks yet.
EmbedNewOnly(j) ==
  /\ job[j].at = "embed"
  /\ LET new == {i \in job[j].got : chunks[i.file] = 0}
     IN /\ chunks' = [f \in Files |-> IF \E i \in job[j].got : i.file = f
                                       THEN chunks[f] ELSE 0]
        /\ job' = [job EXCEPT ![j].at = "insert", ![j].todo = new]
  /\ UNCHANGED <<rowVars, cloned, disk, memory, insights, used, owed, history>>

\* embed_repo_code up to the deletes: it also deletes the chunks of every file
\* outside this pass.  re_embed_files deletes those of every changed file.
Embed(j) ==
  /\ job[j].at = "embed"
  /\ LET got == job[j].got
         changed == {i \in got : chunks[i.file] # i.hash}
         dropped == IF job[j].kind = "refresh" THEN job[j].walk
                    ELSE {i.file : i \in changed} \cup (Files \ {i.file : i \in got})
     IN /\ chunks' = [f \in Files |-> IF f \in dropped THEN 0 ELSE chunks[f]]
        /\ job' = [job EXCEPT ![j].at = "insert",
                     ![j].todo = IF job[j].kind = "refresh" THEN got ELSE changed]
  /\ UNCHANGED <<rowVars, cloned, disk, memory, insights, used, owed, history>>

\* The embeddings arrive and insert_chunks stores them.
Inserts(j) ==
  /\ job[j].at = "insert"
  /\ chunks' = [f \in Files |->
                  IF \E i \in job[j].todo : i.file = f
                    THEN (CHOOSE i \in job[j].todo : i.file = f).hash ELSE chunks[f]]
  /\ job' = [job EXCEPT ![j].at = AfterEmbedding(j), ![j].todo = {}]
  /\ UNCHANGED <<rowVars, cloned, disk, memory, insights, used, owed, history>>

\* embed_batch raises; both callers log and go on.
InsertFails(j) ==
  /\ "embed" \in Faults
  /\ job[j].at = "insert" /\ job[j].todo # {}
  /\ job' = [job EXCEPT ![j].at = AfterEmbedding(j), ![j].todo = {}]
  /\ UNCHANGED <<rowVars, cloned, disk, memory, chunks, insights, used, owed, history>>

\* The last statement of ingest_repo.
IngestDone(j) ==
  /\ job[j].at = "mark"
  /\ MarkIndexed
  /\ Goto(j, "consolidating")
  /\ UNCHANGED <<cloned, disk, memory, chunks, insights, used, owed, history>>

\* update_status(consolidating), where _consolidate_sync begins.
Consolidating(j) ==
  /\ \/ At(j, Ingesting, "consolidating")
     \/ At(j, {"consolidate"}, "queued")
  /\ SetStatus("consolidating", "none")
  /\ Goto(j, "list")
  /\ UNCHANGED <<cloned, disk, memory, chunks, insights, used, owed, history>>

PendingRows == {[file |-> f, id |-> memory[f].id, hash |-> memory[f].hash] :
                  f \in {g \in Files : memory[g] # NoRow /\ memory[g].pending}}

\* list_pending_consolidation.
Lists(j) ==
  /\ job[j].at = "list"
  /\ PendingRows # {}
  /\ job' = [job EXCEPT ![j].at = "batches", ![j].rows = PendingRows]
  /\ others' = [others EXCEPT ![j] = {}]
  /\ UNCHANGED <<rowVars, cloned, disk, memory, chunks, insights, used, owed, restarted, torn>>

\* ThreadPoolExecutor(max_workers=0) raises ValueError.
NothingPending(j) ==
  /\ job[j].at = "list"
  /\ PendingRows = {}
  /\ Raise(j, "no_workers")

Batches(j) == {b \in SUBSET job[j].rows :
                 Cardinality(b) = BatchSize \/ (b = job[j].rows /\ Cardinality(b) < BatchSize)}

\* Mutant of BatchStored: whatever is pending now is marked.
BatchStoredByStatus(j) ==
  /\ job[j].at = "batches" /\ job[j].rows # {}
  /\ memory' = [f \in Files |->
                  IF memory[f] # NoRow
                    THEN [memory[f] EXCEPT !.pending = FALSE] ELSE memory[f]]
  /\ \E b \in Batches(j) : job' = [job EXCEPT ![j].rows = @ \ b]
  /\ insights' \in {insights, TRUE}
  /\ UNCHANGED <<rowVars, cloned, disk, chunks, used, owed, history>>

\* _process_batch: the LLM sees the rows as they were listed; marking goes by id.
BatchStored(j) ==
  /\ job[j].at = "batches" /\ job[j].rows # {}
  /\ \E b \in Batches(j) :
       /\ memory' = [f \in Files |->
                       IF memory[f] # NoRow /\ \E r \in b : r.id = memory[f].id
                         THEN [memory[f] EXCEPT !.pending = FALSE] ELSE memory[f]]
       /\ job' = [job EXCEPT ![j].rows = @ \ b]
  /\ insights' \in {insights, TRUE}
  /\ UNCHANGED <<rowVars, cloned, disk, chunks, used, owed, history>>

\* The batch's LLM call fails: its rows stay pending.
BatchFails(j) ==
  /\ "llm" \in Faults
  /\ job[j].at = "batches" /\ job[j].rows # {}
  /\ \E b \in Batches(j) : job' = [job EXCEPT ![j].rows = @ \ b]
  /\ UNCHANGED <<rowVars, cloned, disk, memory, chunks, insights, used, owed, history>>

\* _assemble_global_context, then mark_indexed in the thread target.
Assembles(j) ==
  /\ job[j].at = "batches" /\ job[j].rows = {}
  /\ IF job[j].kind = "refresh" THEN UNCHANGED rowVars ELSE MarkIndexed
  /\ End(j)
  /\ UNCHANGED <<cloned, disk, memory, chunks, insights, used, owed, history>>

\* Without insights it stores an empty context and asks no LLM.
AssembleFails(j) ==
  /\ "llm" \in Faults
  /\ job[j].at = "batches" /\ job[j].rows = {}
  /\ insights
  /\ Raise(j, "llm")

JobStep(j) ==
  \/ Clones(j) \/ CloneFails(j) \/ SkipsClone(j) \/ ReindexStarts(j)
  \/ RefreshStarts(j) \/ RefreshSkipped(j)
  \/ Walk(j) \/ Purge(j) \/ Plan(j)
  \/ FileIngested(j) \/ FileFails(j) \/ FilesDone(j)
  \/ Embed(j) \/ Inserts(j) \/ InsertFails(j) \/ IngestDone(j)
  \/ Consolidating(j) \/ Lists(j) \/ NothingPending(j)
  \/ BatchStored(j) \/ BatchFails(j) \/ Assembles(j) \/ AssembleFails(j)

-----------------------------------------------------------------------------
(* Requests, and what else moves the repository.                           *)

Schedule(j, k) == ~ Busy(j) /\ job' = [job EXCEPT ![j] = NewJob(k)]

\* register_repo.
Register(j) ==
  /\ status = "none"
  /\ SetStatus("pending", "none")
  /\ Schedule(j, "clone")
  /\ UNCHANGED <<cloned, disk, memory, chunks, insights, used, owed, history>>

\* trigger_reindex and trigger_consolidation: no look at the status.
Request(j) ==
  /\ status # "none"
  /\ \E k \in {"reindex", "consolidate"} \cap Requests : Schedule(j, k)
  /\ UNCHANGED <<rowVars, cloned, disk, memory, chunks, insights, used, owed, history>>

\* trigger_retry sets the status before the job runs.
Retry(j) ==
  /\ "retry" \in Requests
  /\ status # "none"
  /\ SetStatus("indexing", "none")
  /\ Schedule(j, "retry")
  /\ UNCHANGED <<cloned, disk, memory, chunks, insights, used, owed, history>>

\* create_agent_session, which demands a ready repository.
SessionCreated ==
  /\ "session" \in Requests
  /\ status = "ready"
  /\ used' = TRUE
  /\ UNCHANGED <<rowVars, cloned, disk, memory, chunks, insights, owed, job, history>>

\* A session's agent finishes: see AgentSessions.
AgentFinishes(j) ==
  /\ used
  /\ Schedule(j, "refresh")
  /\ UNCHANGED <<rowVars, cloned, disk, memory, chunks, insights, used, owed, history>>

\* merge_session: merge_to_branch changes or removes a file of the clone; the
\* handler then calls trigger_reindex.
MergeLands ==
  /\ "merge" \in Requests
  /\ used
  /\ owed < MaxOwed
  /\ \E f \in Files : \E v \in {0} \cup {disk[f] + 1} :
       /\ disk[f] # 0 /\ v <= MaxVersion
       /\ disk' = [disk EXCEPT ![f] = v]
  /\ owed' = owed + 1
  /\ UNCHANGED <<rowVars, cloned, memory, chunks, insights, used, job, history>>

MergeReindexes(j) ==
  /\ owed > 0
  /\ owed' = owed - 1
  /\ Schedule(j, "reindex")
  /\ UNCHANGED <<rowVars, cloned, disk, memory, chunks, insights, used, history>>

\* The process dies.  A clone under way leaves a directory behind.
Crash ==
  /\ "crash" \in Faults
  /\ job' = [j \in Jobs |-> NoJob]
  /\ owed' = 0
  /\ cloned' \in {cloned, cloned \/ \E j \in Jobs : At(j, Pipelines, "queued")}
  /\ restarted' = TRUE
  /\ torn' = torn \cup UNION {InHand(j) : j \in {k \in Jobs : job[k].at # "insert"}}
  /\ UNCHANGED <<rowVars, disk, memory, chunks, insights, used, others>>

Next ==
  \/ \E j \in Jobs : JobStep(j)
  \/ \E j \in Jobs : Register(j) \/ Request(j) \/ Retry(j)
  \/ \E j \in Jobs : AgentFinishes(j) \/ MergeReindexes(j)
  \/ SessionCreated \/ MergeLands \/ Crash

Spec == Init /\ [][Next]_vars

\* Threads run; LLM calls, git commands and statements carry timeouts.
FairSpec == Spec /\ \A j \in Jobs : WF_vars(JobStep(j))

-----------------------------------------------------------------------------
(* Properties.                                                             *)

\* Every variable stays in its range.
TypeOK ==
  /\ status \in Statuses
  /\ error \in {"none", "git", "llm", "no_workers"}
  /\ cloned \in BOOLEAN
  /\ disk \in [Files -> 0..MaxVersion]
  /\ memory \in [Files -> Memory \cup {NoRow}]
  /\ chunks \in [Files -> 0..MaxVersion]
  /\ insights \in BOOLEAN
  /\ used \in BOOLEAN
  /\ owed \in 0..MaxOwed
  /\ job \in [Jobs -> JobRecord \cup {NoJob}]
  /\ restarted \in BOOLEAN
  /\ torn \in SUBSET Files
  /\ others \in [Jobs -> SUBSET Files]

\* A repository shows an intermediate status only while a job is under way
\* that will still overwrite it, however many jobs run against each other.
\* The exceptions are a restart, which nothing recovers from by itself, and a
\* reindex whose consolidation fails.
Settled ==
  ~ restarted =>
    /\ status \in {"pending", "indexing"} =>
         \E j \in Jobs : job[j].kind \in Ingesting
    /\ status = "consolidating" =>
         \/ "reindex" \in Requests \/ "merge" \in Requests
         \/ \E j \in Jobs : job[j].kind \in Ingesting \cup {"consolidate"}

\* Semantic search and the file memories do not disagree on a file's version
\* once no job runs: what a pass analysed it has also embedded, or has removed
\* the old chunks of, whatever other jobs did in between.  The exceptions are
\* the files that two jobs had in hand at a time or that a crash interrupted.
ChunksFollowMemory ==
  (\A j \in Jobs : ~ Busy(j)) =>
    \A f \in Files \ torn : memory[f] # NoRow => chunks[f] \in {0, memory[f].hash}

\* A pass ends with memories of the files it found in the clone, and beside
\* them only of those that other jobs have stored since its purge.
MemoriesOfWalkedFiles ==
  \A j \in Jobs : At(j, Ingesting, "mark") =>
    \A f \in Files : memory[f] # NoRow => f \in job[j].walk \cup others[j]

\* A memory is marked consolidated by a job that listed this row of this file,
\* and handed it to the LLM in this version unless another job has replaced
\* the version since (marking goes by id, not by version).
MarkedAsRead ==
  [][\A f \in Files :
       (/\ memory[f] # NoRow /\ memory'[f] # NoRow
        /\ memory[f].pending /\ ~ memory'[f].pending)
         => \E j \in Jobs : \E r \in job[j].rows :
              /\ r.file = f /\ r.id = memory[f].id
              /\ r.hash = memory'[f].hash \/ f \in others[j]]_vars

\* Every job comes to its end, whatever fails and whatever other jobs do.
JobsEnd == \A j \in Jobs : Busy(j) ~> ~ Busy(j)
=============================================================================
