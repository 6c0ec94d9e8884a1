------------------------- MODULE RepoIndexingProofs -------------------------
(* Proofs about RepoIndexing: type correctness; that a repository never stays *)
(* in an intermediate status without a job that will end it; that the chunks  *)
(* follow the memories; that a pass leaves memories of the files it walked;    *)
(* and that marking is by what was read: whatever jobs run together.           *)
EXTENDS RepoIndexing, TLAPS

USE DEF history

\* Every variable starts in its range.
LEMMA InitTypeOK == Init => TypeOK
<1> SUFFICES ASSUME Init  PROVE TypeOK  OBVIOUS
<1>1. disk \in [Files -> 0..MaxVersion] /\ chunks \in [Files -> 0..MaxVersion]
  BY ConstantsAssumption DEF Init
<1>2. memory \in [Files -> Memory \cup {NoRow}]  BY DEF Init
<1>3. job \in [Jobs -> JobRecord \cup {NoJob}]  BY DEF Init
<1>4. owed \in 0..MaxOwed  BY ConstantsAssumption DEF Init
<1>5. cloned \in BOOLEAN /\ insights \in BOOLEAN /\ used \in BOOLEAN
     /\ restarted \in BOOLEAN /\ torn \in SUBSET Files
     /\ others \in [Jobs -> SUBSET Files]
  BY DEF Init
<1>6. status \in Statuses /\ error \in {"none", "git", "llm", "no_workers"}
  BY DEF Init, Statuses
<1> QED  BY <1>1, <1>2, <1>3, <1>4, <1>5, <1>6 DEF TypeOK

\* A job past its first steps is a record of JobRecord.
LEMMA BusyJob ==
  ASSUME TypeOK, NEW j \in Jobs, Busy(j) \/ job[j].at # "queued"
  PROVE  job[j] \in JobRecord
  BY DEF TypeOK, Busy, NoJob

\* Moving one job, ending one job and scheduling one keep the type of job.
LEMMA MoveJob ==
  ASSUME TypeOK, NEW j \in Jobs, NEW r, r \in JobRecord \cup {NoJob},
         job' = [job EXCEPT ![j] = r]
  PROVE  job' \in [Jobs -> JobRecord \cup {NoJob}]
  BY DEF TypeOK

LEMMA EndJob ==
  ASSUME TypeOK, NEW j \in Jobs, End(j)
  PROVE  job' \in [Jobs -> JobRecord \cup {NoJob}]
  BY DEF TypeOK, End

LEMMA GotoJob ==
  ASSUME TypeOK, NEW j \in Jobs, NEW step \in Steps, Goto(j, step), job[j] \in JobRecord
  PROVE  job' \in [Jobs -> JobRecord \cup {NoJob}]
<1>1. [job[j] EXCEPT !.at = step] \in JobRecord  BY DEF JobRecord
<1> QED  BY <1>1 DEF TypeOK, Goto

LEMMA ScheduleJob ==
  ASSUME TypeOK, NEW j \in Jobs, NEW k \in Kinds, Schedule(j, k)
  PROVE  job' \in [Jobs -> JobRecord \cup {NoJob}]
<1>1. NewJob(k) \in JobRecord  BY DEF NewJob, NoJob, JobRecord, Steps
<1> QED  BY <1>1 DEF TypeOK, Schedule

LEMMA RaiseTypeOK ==
  ASSUME TypeOK, NEW j \in Jobs, NEW err \in {"none", "git", "llm", "no_workers"},
         Raise(j, err)
  PROVE  TypeOK'
<1>1. job' \in [Jobs -> JobRecord \cup {NoJob}]  BY EndJob DEF Raise
<1> QED  BY <1>1 DEF Raise, TypeOK, SetStatus, rowVars, Statuses

\* The steps that touch the repository row, the clone or the job alone.
LEMMA ControlStepTypeOK ==
  ASSUME TypeOK, NEW j \in Jobs,
         \/ Clones(j) \/ CloneFails(j) \/ SkipsClone(j) \/ ReindexStarts(j)
         \/ RefreshSkipped(j) \/ FilesDone(j) \/ IngestDone(j) \/ Consolidating(j)
         \/ NothingPending(j) \/ Assembles(j) \/ AssembleFails(j)
  PROVE  TypeOK'
<1> USE DEF Statuses, SetStatus, MarkIndexed, rowVars
<1>1. CASE Clones(j)
  <2>1. job' \in [Jobs -> JobRecord \cup {NoJob}]
    BY <1>1, BusyJob, GotoJob DEF Clones, At, Pipelines, Busy, Steps
  <2>2. disk' \in [Files -> 0..MaxVersion]
    BY <1>1, ConstantsAssumption DEF Clones
  <2> QED  BY <1>1, <2>1, <2>2 DEF Clones, TypeOK
<1>2. CASE CloneFails(j)  BY <1>2, RaiseTypeOK DEF CloneFails
<1>3. CASE SkipsClone(j)
  <2>1. job' \in [Jobs -> JobRecord \cup {NoJob}]
    BY <1>3, BusyJob, GotoJob DEF SkipsClone, At, Busy, Steps
  <2> QED  BY <1>3, <2>1 DEF SkipsClone, TypeOK
<1>4. CASE ReindexStarts(j)
  <2>1. job' \in [Jobs -> JobRecord \cup {NoJob}]
    BY <1>4, BusyJob, GotoJob DEF ReindexStarts, At, Busy, Steps
  <2> QED  BY <1>4, <2>1 DEF ReindexStarts, TypeOK
<1>5. CASE RefreshSkipped(j)
  BY <1>5, EndJob DEF RefreshSkipped, TypeOK
<1>6. CASE FilesDone(j)
  <2>1. job[j] \in JobRecord  BY <1>6, BusyJob DEF FilesDone
  <2>2. job' \in [Jobs -> JobRecord \cup {NoJob}]
    BY <1>6, <2>1, GotoJob DEF FilesDone, AfterEmbedding, Steps
  <2> QED  BY <1>6, <2>2 DEF FilesDone, TypeOK
<1>7. CASE IngestDone(j)
  <2>1. job' \in [Jobs -> JobRecord \cup {NoJob}]
    BY <1>7, BusyJob, GotoJob DEF IngestDone, Steps
  <2> QED  BY <1>7, <2>1 DEF IngestDone, TypeOK
<1>8. CASE Consolidating(j)
  <2>1. job' \in [Jobs -> JobRecord \cup {NoJob}]
    BY <1>8, BusyJob, GotoJob DEF Consolidating, At, Ingesting, Busy, Steps
  <2> QED  BY <1>8, <2>1 DEF Consolidating, TypeOK
<1>9. CASE NothingPending(j)  BY <1>9, RaiseTypeOK DEF NothingPending
<1>10. CASE Assembles(j)
  BY <1>10, EndJob DEF Assembles, TypeOK
<1>11. CASE AssembleFails(j)  BY <1>11, RaiseTypeOK DEF AssembleFails
<1> QED  BY <1>1, <1>2, <1>3, <1>4, <1>5, <1>6, <1>7, <1>8, <1>9, <1>10, <1>11

\* The steps that touch the memories, the chunks or the work of a job.
LEMMA WorkStepTypeOK ==
  ASSUME TypeOK, NEW j \in Jobs,
         \/ RefreshStarts(j) \/ Walk(j) \/ Purge(j) \/ Plan(j) \/ FileIngested(j)
         \/ FileFails(j) \/ Embed(j) \/ Inserts(j) \/ InsertFails(j) \/ Lists(j)
         \/ BatchStored(j) \/ BatchFails(j)
  PROVE  TypeOK'
<1> USE ConstantsAssumption DEF Hashes
<1>1. CASE RefreshStarts(j)
  <2>1. job[j] \in JobRecord  BY <1>1, BusyJob DEF RefreshStarts, At, Busy
  <2>0. PICK changed \in SUBSET Files :
          \E content \in [changed -> 0..MaxVersion] :
            job' = [job EXCEPT ![j].at = "files", ![j].walk = changed,
                      ![j].todo = {[file |-> f, hash |-> content[f]] :
                                   f \in {g \in changed : content[g] # 0}}]
    BY <1>1 DEF RefreshStarts
  <2>2. PICK content \in [changed -> 0..MaxVersion] :
           job' = [job EXCEPT ![j].at = "files", ![j].walk = changed,
                     ![j].todo = {[file |-> f, hash |-> content[f]] :
                                  f \in {g \in changed : content[g] # 0}}]
    BY <2>0
  <2> DEFINE todo == {[file |-> f, hash |-> content[f]] :
                      f \in {g \in changed : content[g] # 0}}
  <2>3. todo \in SUBSET Item  BY DEF Item
  <2> HIDE DEF todo
  <2>4. [job[j] EXCEPT !.at = "files", !.walk = changed, !.todo = todo] \in JobRecord
    BY <2>1, <2>3 DEF JobRecord, Steps
  <2>5. job' \in [Jobs -> JobRecord \cup {NoJob}]
    BY <2>2, <2>4 DEF TypeOK, todo
  <2> QED  BY <1>1, <2>5 DEF RefreshStarts, TypeOK, rowVars
<1>2. CASE Walk(j)
  <2>1. job[j] \in JobRecord  BY <1>2, BusyJob DEF Walk, At
  <2>2. [job[j] EXCEPT !.at = "purge", !.walk = OnDisk] \in JobRecord
    BY <2>1 DEF JobRecord, Steps, OnDisk
  <2>3. job' \in [Jobs -> JobRecord \cup {NoJob}]
    BY <1>2, <2>2 DEF Walk, TypeOK
  <2> QED  BY <1>2, <2>3 DEF Walk, TypeOK, SetStatus, Statuses
<1>3. CASE Purge(j)
  <2>1. job' \in [Jobs -> JobRecord \cup {NoJob}]
    BY <1>3, BusyJob, GotoJob DEF Purge, At, Steps
  <2>2. memory' \in [Files -> Memory \cup {NoRow}]  BY <1>3 DEF Purge, TypeOK
  <2> QED  BY <1>3, <2>1, <2>2 DEF Purge, TypeOK, rowVars
<1>4. CASE Plan(j)
  <2>1. job[j] \in JobRecord  BY <1>4, BusyJob DEF Plan, At
  <2> DEFINE todo == {[file |-> f, hash |-> disk[f]] :
                      f \in {g \in job[j].walk : disk[g] \notin {0, HashIn(g)}}}
  <2>2. job[j].walk \subseteq Files  BY <2>1 DEF JobRecord
  <2>3. todo \in SUBSET Item  BY <2>2 DEF Item, TypeOK
  <2> HIDE DEF todo
  <2>4. [job[j] EXCEPT !.at = "files", !.todo = todo] \in JobRecord
    BY <2>1, <2>3 DEF JobRecord, Steps
  <2>5. job' \in [Jobs -> JobRecord \cup {NoJob}]
    BY <1>4, <2>4 DEF Plan, TypeOK, todo
  <2> QED  BY <1>4, <2>5 DEF Plan, TypeOK, rowVars
<1>5. CASE FileIngested(j)
  <2>1. job[j] \in JobRecord  BY <1>5, BusyJob DEF FileIngested
  <2>2. PICK i \in job[j].todo :
          /\ \E id \in IF memory[i.file] = NoRow THEN FreeIds ELSE {memory[i.file].id} :
               memory' = [memory EXCEPT ![i.file] =
                            [id |-> id, hash |-> i.hash, pending |-> TRUE]]
          /\ job' = [job EXCEPT ![j].todo = @ \ {i}, ![j].got = @ \cup {i}]
          /\ torn' \in {torn, torn \cup {i.file}}
          /\ others' = [k \in Jobs |-> IF k # j /\ Busy(k)
                                         THEN others[k] \cup {i.file} ELSE others[k]]
    BY <1>5 DEF FileIngested
  <2>3. i \in Item  BY <2>1 DEF JobRecord
  <2>4. \A id \in IF memory[i.file] = NoRow THEN FreeIds ELSE {memory[i.file].id} :
           id \in RowIds
    BY <2>3 DEF FreeIds, Item, TypeOK, Memory
  <2>5. memory' \in [Files -> Memory \cup {NoRow}]
    BY <2>2, <2>3, <2>4 DEF TypeOK, Memory, Item
  <2>6. [job[j] EXCEPT !.todo = @ \ {i}, !.got = @ \cup {i}] \in JobRecord
    BY <2>1, <2>3 DEF JobRecord
  <2>7. job' \in [Jobs -> JobRecord \cup {NoJob}]
    BY <2>2, <2>6 DEF TypeOK
  <2>8. torn' \in SUBSET Files /\ others' \in [Jobs -> SUBSET Files]
    BY <2>2, <2>3 DEF TypeOK, Item
  <2> QED  BY <1>5, <2>5, <2>7, <2>8 DEF FileIngested, TypeOK, rowVars
<1>6. CASE FileFails(j)
  <2>1. job[j] \in JobRecord  BY <1>6, BusyJob DEF FileFails
  <2>2. PICK i \in job[j].todo : job' = [job EXCEPT ![j].todo = @ \ {i}]
    BY <1>6 DEF FileFails
  <2>3. [job[j] EXCEPT !.todo = @ \ {i}] \in JobRecord  BY <2>1 DEF JobRecord
  <2>4. job' \in [Jobs -> JobRecord \cup {NoJob}]  BY <2>2, <2>3 DEF TypeOK
  <2> QED  BY <1>6, <2>4 DEF FileFails, TypeOK, rowVars
<1>7. CASE Embed(j)
  <2>1. job[j] \in JobRecord  BY <1>7, BusyJob DEF Embed
  <2>2. chunks' \in [Files -> 0..MaxVersion]  BY <1>7 DEF Embed, TypeOK
  <2>3. PICK todo \in SUBSET job[j].got :
          job' = [job EXCEPT ![j].at = "insert", ![j].todo = todo]
    <3> DEFINE changed == {i \in job[j].got : chunks[i.file] # i.hash}
               todo == IF job[j].kind = "refresh" THEN job[j].got ELSE changed
    <3>1. todo \in SUBSET job[j].got  OBVIOUS
    <3>2. job' = [job EXCEPT ![j].at = "insert", ![j].todo = todo]
      BY <1>7 DEF Embed
    <3> QED  BY <3>1, <3>2
  <2>4. [job[j] EXCEPT !.at = "insert", !.todo = todo] \in JobRecord
    BY <2>1, <2>3 DEF JobRecord, Steps
  <2>5. job' \in [Jobs -> JobRecord \cup {NoJob}]  BY <2>3, <2>4 DEF TypeOK
  <2> QED  BY <1>7, <2>2, <2>5 DEF Embed, TypeOK, rowVars
<1>8. CASE Inserts(j)
  <2>1. job[j] \in JobRecord  BY <1>8, BusyJob DEF Inserts
  <2>2. [job[j] EXCEPT !.at = AfterEmbedding(j), !.todo = {}] \in JobRecord
    BY <2>1 DEF JobRecord, Steps, AfterEmbedding
  <2>3. job' \in [Jobs -> JobRecord \cup {NoJob}]
    BY <1>8, <2>2 DEF Inserts, TypeOK
  <2>4. \A i \in job[j].todo : i.hash \in 0..MaxVersion
    BY <2>1 DEF JobRecord, Item
  <2>5. \A f \in Files : (\E i \in job[j].todo : i.file = f) =>
           (CHOOSE i \in job[j].todo : i.file = f) \in job[j].todo
    OBVIOUS
  <2>6. chunks' \in [Files -> 0..MaxVersion]
    BY <1>8, <2>4, <2>5 DEF Inserts, TypeOK
  <2> QED  BY <1>8, <2>3, <2>6 DEF Inserts, TypeOK, rowVars
<1>9. CASE InsertFails(j)
  <2>1. job[j] \in JobRecord  BY <1>9, BusyJob DEF InsertFails
  <2>2. [job[j] EXCEPT !.at = AfterEmbedding(j), !.todo = {}] \in JobRecord
    BY <2>1 DEF JobRecord, Steps, AfterEmbedding
  <2>3. job' \in [Jobs -> JobRecord \cup {NoJob}]
    BY <1>9, <2>2 DEF InsertFails, TypeOK
  <2> QED  BY <1>9, <2>3 DEF InsertFails, TypeOK, rowVars
<1>10. CASE Lists(j)
  <2>1. job[j] \in JobRecord  BY <1>10, BusyJob DEF Lists
  <2>2. PendingRows \in SUBSET Pending
    BY DEF PendingRows, Pending, TypeOK, Memory
  <2>3. [job[j] EXCEPT !.at = "batches", !.rows = PendingRows] \in JobRecord
    BY <2>1, <2>2 DEF JobRecord, Steps
  <2>4. job' \in [Jobs -> JobRecord \cup {NoJob}]  BY <1>10, <2>3 DEF Lists, TypeOK
  <2> QED  BY <1>10, <2>4 DEF Lists, TypeOK, rowVars
<1>11. ASSUME NEW b, job' = [job EXCEPT ![j].rows = @ \ b], job[j] \in JobRecord
       PROVE  job' \in [Jobs -> JobRecord \cup {NoJob}]
  <2>1. [job[j] EXCEPT !.rows = @ \ b] \in JobRecord  BY <1>11 DEF JobRecord
  <2> QED  BY <1>11, <2>1 DEF TypeOK
<1>12. CASE BatchStored(j)
  <2>1. job[j] \in JobRecord  BY <1>12, BusyJob DEF BatchStored
  <2>2. memory' \in [Files -> Memory \cup {NoRow}]
    <3>1. \A f \in Files : memory[f] # NoRow =>
             [memory[f] EXCEPT !.pending = FALSE] \in Memory
      BY DEF TypeOK, Memory
    <3> QED  BY <1>12, <3>1 DEF BatchStored, TypeOK
  <2>3. job' \in [Jobs -> JobRecord \cup {NoJob}]
    BY <1>11, <1>12, <2>1 DEF BatchStored
  <2>4. insights' \in BOOLEAN  BY <1>12 DEF BatchStored, TypeOK
  <2> QED  BY <1>12, <2>2, <2>3, <2>4 DEF BatchStored, TypeOK, rowVars
<1>13. CASE BatchFails(j)
  <2>1. job[j] \in JobRecord  BY <1>13, BusyJob DEF BatchFails
  <2>2. job' \in [Jobs -> JobRecord \cup {NoJob}]
    BY <1>11, <1>13, <2>1 DEF BatchFails
  <2> QED  BY <1>13, <2>2 DEF BatchFails, TypeOK, rowVars
<1> QED  BY <1>1, <1>2, <1>3, <1>4, <1>5, <1>6, <1>7, <1>8, <1>9, <1>10, <1>12, <1>13

\* Requests, merges and a crash.
LEMMA RequestTypeOK ==
  ASSUME TypeOK,
         \/ \E j \in Jobs : Register(j) \/ Request(j) \/ Retry(j)
         \/ \E j \in Jobs : AgentFinishes(j) \/ MergeReindexes(j)
         \/ SessionCreated \/ MergeLands \/ Crash
  PROVE  TypeOK'
<1>1. ASSUME NEW j \in Jobs, Register(j)  PROVE TypeOK'
  BY <1>1, ScheduleJob DEF Register, TypeOK, SetStatus, Statuses, Kinds
<1>2. ASSUME NEW j \in Jobs, Request(j)  PROVE TypeOK'
  <2>1. job' \in [Jobs -> JobRecord \cup {NoJob}]
    BY <1>2, ScheduleJob DEF Request, Kinds
  <2> QED  BY <1>2, <2>1 DEF Request, TypeOK, rowVars
<1>3. ASSUME NEW j \in Jobs, Retry(j)  PROVE TypeOK'
  BY <1>3, ScheduleJob DEF Retry, TypeOK, SetStatus, Statuses, Kinds
<1>4. ASSUME NEW j \in Jobs, AgentFinishes(j)  PROVE TypeOK'
  BY <1>4, ScheduleJob DEF AgentFinishes, TypeOK, rowVars, Kinds
<1>5. ASSUME NEW j \in Jobs, MergeReindexes(j)  PROVE TypeOK'
  <2>1. job' \in [Jobs -> JobRecord \cup {NoJob}]
    BY <1>5, ScheduleJob DEF MergeReindexes, Kinds
  <2>2. owed' \in 0..MaxOwed  BY <1>5, ConstantsAssumption DEF MergeReindexes, TypeOK
  <2> QED  BY <1>5, <2>1, <2>2 DEF MergeReindexes, TypeOK, rowVars
<1>6. CASE SessionCreated
  BY <1>6 DEF SessionCreated, TypeOK, rowVars
<1>7. CASE MergeLands
  <2>1. owed' \in 0..MaxOwed  BY <1>7, ConstantsAssumption DEF MergeLands, TypeOK
  <2>2. PICK f \in Files : \E v \in {0} \cup {disk[f] + 1} :
           v <= MaxVersion /\ disk' = [disk EXCEPT ![f] = v]
    BY <1>7 DEF MergeLands
  <2>3. disk' \in [Files -> 0..MaxVersion]
    BY <2>2, ConstantsAssumption DEF TypeOK
  <2> QED  BY <1>7, <2>1, <2>3 DEF MergeLands, TypeOK, rowVars
<1>8. CASE Crash
  <2>1. job' \in [Jobs -> JobRecord \cup {NoJob}]  BY <1>8 DEF Crash
  <2>2. owed' \in 0..MaxOwed  BY <1>8, ConstantsAssumption DEF Crash
  <2>3. cloned' \in BOOLEAN  BY <1>8 DEF Crash, TypeOK
  <2>4. torn' \in SUBSET Files
    <3>1. \A j \in Jobs : InHand(j) \subseteq Files
      BY BusyJob DEF InHand, JobRecord, Item
    <3> QED  BY <1>8, <3>1 DEF Crash, TypeOK
  <2> QED  BY <1>8, <2>1, <2>2, <2>3, <2>4 DEF Crash, TypeOK, rowVars
<1> QED  BY <1>1, <1>2, <1>3, <1>4, <1>5, <1>6, <1>7, <1>8

\* Type correctness of the indexing pipeline, for any number of jobs.
THEOREM TypeCorrect == Spec => []TypeOK
<1>1. Init => TypeOK  BY InitTypeOK
<1>2. TypeOK /\ [Next]_vars => TypeOK'
  <2> SUFFICES ASSUME TypeOK, [Next]_vars  PROVE TypeOK'  OBVIOUS
  <2>1. ASSUME NEW j \in Jobs, JobStep(j)  PROVE TypeOK'
    BY <2>1, ControlStepTypeOK, WorkStepTypeOK DEF JobStep
  <2>2. CASE Next  BY <2>1, <2>2, RequestTypeOK DEF Next
  <2>3. CASE UNCHANGED vars  BY <2>3 DEF vars, rowVars, TypeOK
  <2> QED  BY <2>2, <2>3
<1> QED  BY <1>1, <1>2, PTL DEF Spec

-----------------------------------------------------------------------------
\* The steps before ingest_repo's mark_indexed, and those of consolidate_repo.
PreMark == {"queued", "walk", "purge", "plan", "files", "embed", "insert", "mark"}
Merging == {"list", "batches"}

\* A full reindex is only ever scheduled on request or after a merge.
ReindexRequested ==
  /\ owed > 0 => "merge" \in Requests
  /\ \A j \in Jobs : job[j].kind = "reindex" =>
       "reindex" \in Requests \/ "merge" \in Requests

\* The job that will overwrite an intermediate status has not yet passed the
\* statement that does so: what Settled needs to be inductive.
StatusOwned ==
  ~ restarted =>
    /\ status \in {"pending", "indexing"} =>
         \E j \in Jobs : job[j].kind \in Ingesting /\ job[j].at \in PreMark
    /\ status = "consolidating" =>
         \/ "reindex" \in Requests \/ "merge" \in Requests
         \/ \E j \in Jobs : job[j].kind \in Ingesting \cup {"consolidate"}
                             /\ job[j].at \in Merging

IInv == TypeOK /\ ReindexRequested /\ StatusOwned

\* A step of a job moves that job only; an ingesting job that has not reached
\* mark_indexed either stays before it or writes the status, and so does one
\* that consolidates.
LEMMA JobStepFrame ==
  ASSUME TypeOK, NEW j \in Jobs, JobStep(j)
  PROVE  /\ \A k \in Jobs \ {j} : job'[k] = job[k]
         /\ job'[j].kind \in {job[j].kind, "none"}
         /\ owed' = owed /\ restarted' = restarted
         /\ \/ status' \in {"ready", "failed"}
            \/ status' = "indexing" /\ job'[j].kind \in Ingesting /\ job'[j].at \in PreMark
            \/ status' = "consolidating" /\ job'[j].at \in Merging
                 /\ job'[j].kind \in Ingesting \cup {"consolidate"}
            \/ /\ status' = status
               /\ job[j].kind \in Ingesting /\ job[j].at \in PreMark =>
                    job'[j].kind \in Ingesting /\ job'[j].at \in PreMark
               /\ job[j].kind \in Ingesting \cup {"consolidate"} /\ job[j].at \in Merging =>
                    \/ job[j].kind = "reindex"
                    \/ job'[j].kind = job[j].kind /\ job'[j].at \in Merging
<1> USE DEF TypeOK, SetStatus, MarkIndexed, rowVars, PreMark, Merging, Ingesting,
            Pipelines, At, Goto, End, Raise, NoJob, AfterEmbedding
<1>1. CASE Clones(j)  BY <1>1 DEF Clones
<1>2. CASE CloneFails(j)  BY <1>2 DEF CloneFails
<1>3. CASE SkipsClone(j)  BY <1>3 DEF SkipsClone
<1>4. CASE ReindexStarts(j)  BY <1>4 DEF ReindexStarts
<1>5. CASE RefreshStarts(j)  BY <1>5 DEF RefreshStarts
<1>6. CASE RefreshSkipped(j)  BY <1>6 DEF RefreshSkipped
<1>7. CASE Walk(j)  BY <1>7 DEF Walk
<1>8. CASE Purge(j)  BY <1>8 DEF Purge
<1>9. CASE Plan(j)  BY <1>9 DEF Plan
<1>10. CASE FileIngested(j)  BY <1>10 DEF FileIngested
<1>11. CASE FileFails(j)  BY <1>11 DEF FileFails
<1>12. CASE FilesDone(j)  BY <1>12 DEF FilesDone
<1>13. CASE Embed(j)  BY <1>13 DEF Embed
<1>14. CASE Inserts(j)  BY <1>14 DEF Inserts
<1>15. CASE InsertFails(j)  BY <1>15 DEF InsertFails
<1>16. CASE IngestDone(j)  BY <1>16 DEF IngestDone
<1>17. CASE Consolidating(j)  BY <1>17 DEF Consolidating
<1>18. CASE Lists(j)  BY <1>18 DEF Lists
<1>19. CASE NothingPending(j)  BY <1>19 DEF NothingPending
<1>20. CASE BatchStored(j)  BY <1>20 DEF BatchStored
<1>21. CASE BatchFails(j)  BY <1>21 DEF BatchFails
<1>22. CASE Assembles(j)  BY <1>22 DEF Assembles
<1>23. CASE AssembleFails(j)  BY <1>23 DEF AssembleFails
<1> QED  BY <1>1, <1>2, <1>3, <1>4, <1>5, <1>6, <1>7, <1>8, <1>9, <1>10, <1>11, <1>12,
            <1>13, <1>14, <1>15, <1>16, <1>17, <1>18, <1>19, <1>20, <1>21, <1>22, <1>23
         DEF JobStep

LEMMA JobStepIInv ==
  ASSUME IInv, NEW j \in Jobs, JobStep(j)
  PROVE  ReindexRequested' /\ StatusOwned'
<1>1. TypeOK  BY DEF IInv
<1>2. ReindexRequested'  BY <1>1, JobStepFrame DEF IInv, ReindexRequested
<1>3. ASSUME ~ restarted, status' \in {"pending", "indexing"}
      PROVE  \E k \in Jobs : job'[k].kind \in Ingesting /\ job'[k].at \in PreMark
  BY <1>1, <1>3, JobStepFrame DEF IInv, StatusOwned
<1>4. ASSUME ~ restarted, status' = "consolidating"
      PROVE  \/ "reindex" \in Requests \/ "merge" \in Requests
             \/ \E k \in Jobs : job'[k].kind \in Ingesting \cup {"consolidate"}
                                 /\ job'[k].at \in Merging
  <2>1. SUFFICES ASSUME "reindex" \notin Requests, "merge" \notin Requests
        PROVE  \E k \in Jobs : job'[k].kind \in Ingesting \cup {"consolidate"}
                               /\ job'[k].at \in Merging
    OBVIOUS
  <2>2. job[j].kind # "reindex"  BY <2>1 DEF IInv, ReindexRequested
  <2> QED  BY <1>1, <1>4, <2>1, <2>2, JobStepFrame DEF IInv, StatusOwned
<1> QED  BY <1>1, <1>2, <1>3, <1>4, JobStepFrame DEF StatusOwned

\* Requests use a free slot: the job that owns the status is not disturbed.
LEMMA RequestIInv ==
  ASSUME IInv,
         \/ \E j \in Jobs : Register(j) \/ Request(j) \/ Retry(j)
         \/ \E j \in Jobs : AgentFinishes(j) \/ MergeReindexes(j)
         \/ SessionCreated \/ MergeLands \/ Crash
  PROVE  ReindexRequested' /\ StatusOwned'
<1> USE DEF IInv, TypeOK, ReindexRequested, StatusOwned, Schedule, Busy, NewJob, NoJob,
            SetStatus, rowVars, PreMark, Merging, Ingesting
<1>1. ASSUME NEW j \in Jobs, Register(j)  PROVE ReindexRequested' /\ StatusOwned'
  BY <1>1 DEF Register
<1>2. ASSUME NEW j \in Jobs, Request(j)  PROVE ReindexRequested' /\ StatusOwned'
  BY <1>2 DEF Request
<1>3. ASSUME NEW j \in Jobs, Retry(j)  PROVE ReindexRequested' /\ StatusOwned'
  BY <1>3 DEF Retry
<1>4. ASSUME NEW j \in Jobs, AgentFinishes(j)  PROVE ReindexRequested' /\ StatusOwned'
  BY <1>4 DEF AgentFinishes
<1>5. ASSUME NEW j \in Jobs, MergeReindexes(j)  PROVE ReindexRequested' /\ StatusOwned'
  BY <1>5 DEF MergeReindexes
<1>6. CASE SessionCreated  BY <1>6 DEF SessionCreated
<1>7. CASE MergeLands  BY <1>7 DEF MergeLands
<1>8. CASE Crash  BY <1>8 DEF Crash
<1> QED  BY <1>1, <1>2, <1>3, <1>4, <1>5, <1>6, <1>7, <1>8

\* Whatever jobs run against each other, an intermediate indexing status has a
\* job behind it that is going to replace it.
THEOREM IndexingSettles == Spec => []Settled
<1>1. Init => IInv
  BY InitTypeOK DEF Init, IInv, ReindexRequested, StatusOwned, NoJob
<1>2. IInv /\ [Next]_vars => IInv'
  <2> SUFFICES ASSUME IInv, [Next]_vars  PROVE IInv'  OBVIOUS
  <2>1. TypeOK  BY DEF IInv
  <2>2. ASSUME NEW j \in Jobs, JobStep(j)  PROVE IInv'
    BY <2>1, <2>2, ControlStepTypeOK, WorkStepTypeOK, JobStepIInv DEF IInv, JobStep
  <2>3. CASE Next  BY <2>1, <2>2, <2>3, RequestTypeOK, RequestIInv DEF IInv, Next
  <2>4. CASE UNCHANGED vars
    BY <2>4 DEF vars, rowVars, IInv, TypeOK, ReindexRequested, StatusOwned
  <2> QED  BY <2>3, <2>4
<1>3. IInv => Settled  BY DEF IInv, StatusOwned, Settled
<1> QED  BY <1>1, <1>2, <1>3, PTL DEF Spec

-----------------------------------------------------------------------------
(* What the passes have analysed, are analysing and still have to embed,     *)
(* beside the rows of the two tables, however many jobs run together.        *)

Synced(f) == memory[f] # NoRow => chunks[f] \in {0, memory[f].hash}

Unstarted(j) ==
  job[j].at \in {"queued", "walk", "purge", "plan"} =>
    job[j].todo = {} /\ job[j].got = {}

\* A pass holds one version of a file, one of those it walked; what it has
\* analysed is what the memory says, if there still is one.
Analysed(j) ==
  job[j].at \in {"files", "embed", "insert"} =>
    /\ \A i \in job[j].todo \cup job[j].got :
         /\ i.file \in job[j].walk
         /\ \A k \in job[j].todo \cup job[j].got : i.file = k.file => i = k
    /\ \A i \in job[j].got :
         i.file \in torn \/ memory[i.file] = NoRow \/ memory[i.file].hash = i.hash
    /\ job[j].at = "insert" => job[j].todo \subseteq job[j].got

\* After the purge nothing outside the walk has a memory that this job knows of.
Walked(j) ==
  job[j].kind \in Ingesting /\ job[j].at \in {"plan", "files", "embed", "insert", "mark"} =>
    \A f \in Files : memory[f] # NoRow => f \in job[j].walk \cup others[j]

\* The rows that consolidate_repo holds are rows of the table, or are gone; an id is
\* not given to another file.
Listed(j) ==
  job[j].at = "batches" =>
    \A r \in job[j].rows : \A f \in Files :
      memory[f] # NoRow /\ memory[f].id = r.id =>
        f = r.file /\ (memory[f].hash = r.hash \/ f \in others[j])

JobInv(j) == Unstarted(j) /\ Analysed(j) /\ Walked(j) /\ Listed(j)

UniqueIds ==
  \A f, g \in Files :
    memory[f] # NoRow /\ memory[g] # NoRow /\ memory[f].id = memory[g].id => f = g

\* Two jobs have a file in hand at a time only when one has stored it under the other.
Apart == \A f \in Files \ torn : \A j, k \in Jobs : f \in InHand(j) \cap InHand(k) => j = k

\* The chunks of a file lag behind its memory only while the pass that analysed it
\* has not come to them yet.
ChunksInStep ==
  \A f \in Files \ torn :
    Synced(f) \/ \E j \in Jobs : job[j].at \in {"files", "embed"} /\ f \in InHand(j)

WorkInv == UniqueIds /\ Apart /\ ChunksInStep /\ \A j \in Jobs : JobInv(j)

\* A job that does not move keeps its part of the invariant while others purge, mark
\* and store memories.
LEMMA KeepsJobInv ==
  ASSUME TypeOK, NEW k \in Jobs, JobInv(k), job'[k] = job[k],
         others'[k] = others[k] \/ (Busy(k) /\ others[k] \subseteq others'[k]),
         torn \subseteq torn',
         \A f \in Files : memory'[f] # NoRow =>
           \/ /\ memory[f] # NoRow
              /\ memory'[f].id = memory[f].id /\ memory'[f].hash = memory[f].hash
           \/ /\ Busy(k) => f \in others'[k]
              /\ f \in torn' \/ f \notin InHand(k)
              /\ job[k].at = "batches" =>
                   \A r \in job[k].rows : memory'[f].id = r.id => f = r.file
  PROVE  JobInv(k)'
<1>1. Unstarted(k)'
  BY DEF JobInv, Unstarted
<1>2. Analysed(k)'
  <2> SUFFICES ASSUME job[k].at \in {"files", "embed", "insert"}
      PROVE  \A i \in job[k].got :
               i.file \in torn' \/ memory'[i.file] = NoRow \/ memory'[i.file].hash = i.hash
    BY DEF JobInv, Analysed
  <2> TAKE i \in job[k].got
  <2>1. i.file \in Files /\ i.file \in InHand(k)
    BY BusyJob DEF InHand, JobRecord, Item
  <2> QED BY <2>1 DEF JobInv, Analysed
<1>3. Walked(k)'
  <2> SUFFICES ASSUME job[k].kind \in Ingesting,
                      job[k].at \in {"plan", "files", "embed", "insert", "mark"},
                      NEW f \in Files, memory'[f] # NoRow
      PROVE  f \in job[k].walk \cup others'[k]
    BY DEF Walked
  <2>1. Busy(k)
    BY DEF Ingesting, Busy
  <2> QED BY <2>1 DEF JobInv, Walked
<1>4. Listed(k)'
  <2> SUFFICES ASSUME job[k].at = "batches", NEW r \in job[k].rows, NEW f \in Files,
                      memory'[f] # NoRow, memory'[f].id = r.id
      PROVE  f = r.file /\ (memory'[f].hash = r.hash \/ f \in others'[k])
    BY DEF Listed
  <2>1. Busy(k)
    BY DEF TypeOK, Busy, JobRecord, Kinds, NoJob
  <2> QED BY <2>1 DEF JobInv, Listed
<1> QED BY <1>1, <1>2, <1>3, <1>4 DEF JobInv

\* The job goes to, or is at, a place where it holds nothing.
LEMMA MoveWorkInv ==
  ASSUME TypeOK, WorkInv, NEW j \in Jobs, UNCHANGED <<memory, chunks, torn>>,
         others'[j] = others[j] \/ job'[j].at \notin {"mark", "batches"},
         \A k \in Jobs \ {j} : job'[k] = job[k] /\ others'[k] = others[k],
         job'[j].at \in {"queued", "walk", "purge", "mark", "consolidating", "list"},
         job'[j].at \in {"queued", "walk", "purge"} => job'[j].todo = {} /\ job'[j].got = {},
         job'[j].at = "mark" =>
           job[j].at \in {"files", "insert"} /\ job'[j].kind = job[j].kind
           /\ job'[j].walk = job[j].walk,
         job[j].at \in {"files", "embed"} => job[j].got = {}
  PROVE  WorkInv'
<1>1. \A k \in Jobs \ {j} : JobInv(k)' /\ InHand(k)' = InHand(k)
  <2> TAKE k \in Jobs \ {j}
  <2>1. JobInv(k)'
    BY KeepsJobInv DEF WorkInv
  <2> QED BY <2>1 DEF InHand
<1>2. JobInv(j)'
  BY DEF WorkInv, JobInv, Unstarted, Analysed, Walked, Listed
<1>3. InHand(j)' = {} /\ (job[j].at \in {"files", "embed"} => InHand(j) = {})
  BY DEF InHand
<1>4. UniqueIds'
  BY DEF WorkInv, UniqueIds
<1>5. Apart'
  BY <1>1, <1>3 DEF WorkInv, Apart
<1>6. ChunksInStep'
  BY <1>1, <1>3 DEF WorkInv, ChunksInStep, Synced
<1> QED BY <1>1, <1>2, <1>4, <1>5, <1>6 DEF WorkInv

\* A job that has not started, or no longer holds what it ingested, moves on.
LEMMA QuietStepWorkInv ==
  ASSUME TypeOK, WorkInv, NEW j \in Jobs,
         \/ Clones(j) \/ CloneFails(j) \/ SkipsClone(j) \/ ReindexStarts(j)
         \/ RefreshSkipped(j) \/ Walk(j) \/ InsertFails(j) \/ IngestDone(j)
         \/ Consolidating(j) \/ NothingPending(j) \/ Assembles(j) \/ AssembleFails(j)
  PROVE  WorkInv'
<1>1. UNCHANGED <<memory, chunks, torn, others>> /\ job \in [Jobs -> JobRecord \cup {NoJob}]
  BY DEF TypeOK, Clones, CloneFails, SkipsClone, ReindexStarts, RefreshSkipped, Walk,
         InsertFails, IngestDone, Consolidating, NothingPending, Assembles, AssembleFails,
         Raise
<1>0. \A k \in Jobs \ {j} : job'[k] = job[k] /\ others'[k] = others[k]
  BY <1>1, JobStepFrame DEF JobStep
<1>2. CASE CloneFails(j) \/ RefreshSkipped(j) \/ NothingPending(j) \/ Assembles(j)
           \/ AssembleFails(j)
  <2>1. job'[j] = NoJob /\ job[j].at \in {"queued", "list", "batches"}
    BY <1>1, <1>2 DEF CloneFails, RefreshSkipped, NothingPending, Assembles, AssembleFails,
                      Raise, End, At
  <2>2. /\ job'[j].at = "queued" /\ job'[j].todo = {} /\ job'[j].got = {}
        /\ job[j].at \notin {"files", "embed"}
    BY <2>1 DEF NoJob
  <2> QED BY <1>0, <1>1, <2>2, MoveWorkInv
<1>3. CASE Clones(j) \/ SkipsClone(j) \/ ReindexStarts(j)
  <2>1. job' = [job EXCEPT ![j].at = "walk"] /\ job[j].at = "queued"
    BY <1>3 DEF Clones, SkipsClone, ReindexStarts, Goto, At
  <2>2. job[j] \in JobRecord
    BY <1>3, BusyJob DEF Clones, SkipsClone, ReindexStarts, At, Busy, Pipelines
  <2>3. job'[j].at = "walk" /\ job'[j].todo = job[j].todo /\ job'[j].got = job[j].got
    BY <1>1, <2>1, <2>2 DEF JobRecord
  <2>4. job[j].todo = {} /\ job[j].got = {}
    BY <2>1 DEF WorkInv, JobInv, Unstarted
  <2> QED BY <1>0, <1>1, <2>1, <2>3, <2>4, MoveWorkInv
<1>4. CASE Walk(j)
  <2>1. job' = [job EXCEPT ![j].at = "purge", ![j].walk = OnDisk] /\ job[j].at = "walk"
    BY <1>4 DEF Walk, At
  <2>2. job[j] \in JobRecord
    BY <2>1, BusyJob
  <2>3. job'[j].at = "purge" /\ job'[j].todo = job[j].todo /\ job'[j].got = job[j].got
    BY <1>1, <2>1, <2>2 DEF JobRecord
  <2>4. job[j].todo = {} /\ job[j].got = {}
    BY <2>1 DEF WorkInv, JobInv, Unstarted
  <2> QED BY <1>0, <1>1, <2>1, <2>3, <2>4, MoveWorkInv
<1>5. CASE InsertFails(j)
  <2>1. job' = [job EXCEPT ![j].at = AfterEmbedding(j), ![j].todo = {}]
        /\ job[j].at = "insert"
    BY <1>5 DEF InsertFails
  <2>2. job[j] \in JobRecord /\ AfterEmbedding(j) \in {"list", "mark"}
    BY <2>1, BusyJob DEF AfterEmbedding
  <2>3. /\ job'[j].at \in {"list", "mark"} /\ job'[j].kind = job[j].kind
        /\ job'[j].walk = job[j].walk
    BY <1>1, <2>1, <2>2 DEF JobRecord
  <2> QED BY <1>0, <1>1, <2>1, <2>3, MoveWorkInv
<1>6. CASE IngestDone(j) \/ Consolidating(j)
  <2>1. PICK step \in {"consolidating", "list"} : job' = [job EXCEPT ![j].at = step]
    BY <1>6 DEF IngestDone, Consolidating, Goto
  <2>2. job[j] \in JobRecord /\ job[j].at \in {"mark", "consolidating", "queued"}
    BY <1>6, BusyJob DEF IngestDone, Consolidating, At, Busy, Ingesting
  <2>3. job'[j].at \in {"consolidating", "list"}
    BY <1>1, <2>1, <2>2 DEF JobRecord
  <2> QED BY <1>0, <1>1, <2>2, <2>3, MoveWorkInv
<1> QED BY <1>2, <1>3, <1>4, <1>5, <1>6

\* Requests and merges use a free slot and leave the tables alone.
LEMMA RequestWorkInv ==
  ASSUME TypeOK, WorkInv,
         \/ \E j \in Jobs : Register(j) \/ Request(j) \/ Retry(j)
         \/ \E j \in Jobs : AgentFinishes(j) \/ MergeReindexes(j)
         \/ SessionCreated \/ MergeLands \/ Crash
  PROVE  WorkInv'
<1>1. ASSUME NEW j \in Jobs,
             Register(j) \/ Request(j) \/ Retry(j) \/ AgentFinishes(j) \/ MergeReindexes(j)
      PROVE  WorkInv'
  <2>1. UNCHANGED <<memory, chunks, torn, others>> /\ \E k \in Kinds : Schedule(j, k)
    BY <1>1 DEF Register, Request, Retry, AgentFinishes, MergeReindexes, Kinds
  <2>2. PICK k \in Kinds : job' = [job EXCEPT ![j] = NewJob(k)] /\ job[j].kind = "none"
    BY <2>1 DEF Schedule, Busy
  <2>3. job[j] = NoJob
    BY <2>2 DEF TypeOK, JobRecord, Kinds
  <2>4. job'[j] = NewJob(k) /\ \A x \in Jobs \ {j} : job'[x] = job[x]
    BY <2>2 DEF TypeOK
  <2>5. job'[j].at = "queued" /\ job'[j].todo = {} /\ job'[j].got = {}
    BY <2>4 DEF NewJob, NoJob
  <2>6. job[j].at = "queued"
    BY <2>3 DEF NoJob
  <2> QED BY <2>1, <2>4, <2>5, <2>6, MoveWorkInv
<1>2. CASE SessionCreated \/ MergeLands
  <2>1. UNCHANGED <<memory, chunks, job, torn, others>>
    BY <1>2 DEF SessionCreated, MergeLands
  <2>2. \A k \in Jobs : JobInv(k)' /\ InHand(k)' = InHand(k)
    BY <2>1, KeepsJobInv DEF WorkInv, InHand
  <2> QED BY <2>1, <2>2 DEF WorkInv, UniqueIds, Apart, ChunksInStep, Synced
<1>3. CASE Crash
  <2>1. UNCHANGED <<memory, chunks, others>> /\ \A j \in Jobs : job'[j] = NoJob
    BY <1>3 DEF Crash
  <2>2. torn \subseteq torn'
        /\ \A j \in Jobs : job[j].at # "insert" => InHand(j) \subseteq torn'
    BY <1>3 DEF Crash
  <2>3. \A j \in Jobs : /\ job'[j].at = "queued" /\ job'[j].todo = {} /\ job'[j].got = {}
                        /\ job'[j].kind = "none"
    BY <2>1 DEF NoJob
  <2>4. \A j \in Jobs : JobInv(j)' /\ InHand(j)' = {}
    BY <2>3 DEF JobInv, Unstarted, Analysed, Walked, Listed, InHand
  <2>5. \A f \in Files \ torn' : Synced(f)
    BY <2>2 DEF WorkInv, ChunksInStep
  <2> QED BY <2>1, <2>4, <2>5 DEF WorkInv, UniqueIds, Apart, ChunksInStep, Synced
<1> QED BY <1>1, <1>2, <1>3

\* What marking a batch leaves of the memories.
LEMMA BatchKeepsRows ==
  ASSUME TypeOK, NEW j \in Jobs, BatchStored(j), NEW f \in Files
  PROVE  /\ memory'[f] = NoRow <=> memory[f] = NoRow
         /\ memory[f] # NoRow => memory'[f].id = memory[f].id
                                 /\ memory'[f].hash = memory[f].hash
<1>1. PICK b \in Batches(j) :
        memory' = [g \in Files |->
                     IF memory[g] # NoRow /\ \E r \in b : r.id = memory[g].id
                       THEN [memory[g] EXCEPT !.pending = FALSE] ELSE memory[g]]
  BY DEF BatchStored
<1>2. memory[f] # NoRow => memory[f] \in Memory
  BY DEF TypeOK
<1>3. CASE memory[f] # NoRow /\ \E r \in b : r.id = memory[f].id
  <2>1. memory'[f] = [memory[f] EXCEPT !.pending = FALSE]
    BY <1>1, <1>3
  <2>2. [memory[f] EXCEPT !.pending = FALSE] \in Memory
    BY <1>2, <1>3 DEF Memory
  <2>3. memory'[f] # NoRow
    BY <2>1, <2>2, ConstantsAssumption DEF Memory, Hashes
  <2> QED BY <1>2, <1>3, <2>1, <2>3 DEF Memory
<1>4. CASE ~ (memory[f] # NoRow /\ \E r \in b : r.id = memory[f].id)
  <2>1. memory'[f] = memory[f]
    BY <1>1, <1>4
  <2> QED BY <2>1
<1> QED BY <1>3, <1>4

\* What storing the memory of a file does: to the row, to what the job has in hand, and
\* to the two histories.
Ingests(j, i) ==
  /\ i \in Item /\ i.file \in Files
  /\ memory'[i.file] # NoRow /\ memory'[i.file].hash = i.hash
  /\ \A f \in Files \ {i.file} : memory'[f] = memory[f]
  /\ \A f \in Files \ {i.file} : memory[f] # NoRow => memory[f].id # memory'[i.file].id
  /\ \A k \in Jobs \ {j} : job[k].at = "batches" =>
       \A r \in job[k].rows : r.id = memory'[i.file].id => r.file = i.file
  /\ job'[j] = [job[j] EXCEPT !.todo = @ \ {i}, !.got = @ \cup {i}]
  /\ torn \subseteq torn'
  /\ i.file \in torn' \/ \A k \in Jobs \ {j} : i.file \notin InHand(k)
  /\ others'[j] = others[j]
  /\ \A k \in Jobs \ {j} : Busy(k) => others'[k] = others[k] \cup {i.file}
  /\ \A k \in Jobs \ {j} : ~ Busy(k) => others'[k] = others[k]

LEMMA Ingested ==
  ASSUME TypeOK, WorkInv, NEW j \in Jobs, FileIngested(j)
  PROVE  \E i \in job[j].todo : Ingests(j, i)
<1>0. job \in [Jobs -> JobRecord \cup {NoJob}] /\ memory \in [Files -> Memory \cup {NoRow}]
      /\ others \in [Jobs -> SUBSET Files]
  BY DEF TypeOK
<1>1. PICK i \in job[j].todo :
        /\ \E id \in IF memory[i.file] = NoRow THEN FreeIds ELSE {memory[i.file].id} :
             memory' = [memory EXCEPT ![i.file] =
                          [id |-> id, hash |-> i.hash, pending |-> TRUE]]
        /\ job' = [job EXCEPT ![j].todo = @ \ {i}, ![j].got = @ \cup {i}]
        /\ torn' = IF \E k \in Jobs \ {j} : i.file \in InHand(k)
                     THEN torn \cup {i.file} ELSE torn
        /\ others' = [k \in Jobs |-> IF k # j /\ Busy(k)
                                       THEN others[k] \cup {i.file} ELSE others[k]]
  BY DEF FileIngested
<1>2. PICK id \in IF memory[i.file] = NoRow THEN FreeIds ELSE {memory[i.file].id} :
        memory' = [memory EXCEPT ![i.file] =
                     [id |-> id, hash |-> i.hash, pending |-> TRUE]]
  BY <1>1
<1>3. i \in Item /\ i.file \in Files
  BY <1>1, BusyJob DEF FileIngested, JobRecord, Item
<1>4. \A f \in Files \ {i.file} : memory'[f] = memory[f]
  BY <1>0, <1>2
<1>5. id \in RowIds /\ \A f \in Files \ {i.file} : memory[f] # NoRow => memory[f].id # id
  <2>1. CASE memory[i.file] = NoRow
    BY <1>2, <1>3, <2>1 DEF FreeIds
  <2>2. CASE memory[i.file] # NoRow
    BY <1>0, <1>2, <1>3, <2>2 DEF WorkInv, UniqueIds, Memory
  <2> QED BY <2>1, <2>2
<1>6. /\ memory'[i.file].id = id /\ memory'[i.file].hash = i.hash
      /\ memory'[i.file] # NoRow
  <2> DEFINE row == [id |-> id, hash |-> i.hash, pending |-> TRUE]
  <2>1. row \in [id : RowIds, hash : 1..MaxVersion, pending : BOOLEAN]
    BY <1>3, <1>5 DEF Item, Hashes
  <2>2. row # NoRow
    BY <2>1, ConstantsAssumption
  <2>3. memory'[i.file] = row
    BY <1>0, <1>2, <1>3
  <2> QED BY <2>2, <2>3
<1>7. \A k \in Jobs \ {j} : job[k].at = "batches" =>
        \A r \in job[k].rows : r.id = id => r.file = i.file
  <2> SUFFICES ASSUME NEW k \in Jobs \ {j}, job[k].at = "batches",
                      NEW r \in job[k].rows, r.id = id
      PROVE  r.file = i.file
    OBVIOUS
  <2>1. memory[i.file] # NoRow
    BY <1>2 DEF FreeIds
  <2>2. memory[i.file].id = r.id
    BY <1>2, <2>1
  <2> QED BY <1>3, <2>1, <2>2 DEF WorkInv, JobInv, Listed
<1>8. job'[j] = [job[j] EXCEPT !.todo = @ \ {i}, !.got = @ \cup {i}]
  BY <1>0, <1>1
<1>9. /\ torn \subseteq torn'
      /\ i.file \in torn' \/ \A k \in Jobs \ {j} : i.file \notin InHand(k)
  BY <1>1
<1>10. /\ others'[j] = others[j]
       /\ \A k \in Jobs \ {j} : Busy(k) => others'[k] = others[k] \cup {i.file}
       /\ \A k \in Jobs \ {j} : ~ Busy(k) => others'[k] = others[k]
  BY <1>1
<1>11. Ingests(j, i)
  BY <1>3, <1>4, <1>5, <1>6, <1>7, <1>8, <1>9, <1>10 DEF Ingests
<1> QED BY <1>11

\* A step of one job leaves what the others hold in order.
LEMMA OthersKeep ==
  ASSUME TypeOK, WorkInv, NEW j \in Jobs, JobStep(j), NEW k \in Jobs \ {j}
  PROVE  JobInv(k)' /\ InHand(k)' = InHand(k) /\ job'[k] = job[k]
<1>1. job'[k] = job[k]
  BY JobStepFrame
<1>2. InHand(k)' = InHand(k)
  BY <1>1 DEF InHand
<1>3. JobInv(k)
  BY DEF WorkInv
<1>4. CASE FileIngested(j)
  <2>1. PICK i \in job[j].todo : Ingests(j, i)
    BY <1>4, Ingested
  <2>2. \A f \in Files : memory'[f] # NoRow => memory'[f] = memory[f] \/ f = i.file
    BY <2>1 DEF Ingests
  <2>3. others'[k] = others[k] \/ (Busy(k) /\ others[k] \subseteq others'[k])
    BY <2>1 DEF Ingests
  <2>4. /\ Busy(k) => i.file \in others'[k]
        /\ i.file \in torn' \/ i.file \notin InHand(k)
        /\ job[k].at = "batches" =>
             \A r \in job[k].rows : memory'[i.file].id = r.id => i.file = r.file
        /\ torn \subseteq torn'
    BY <2>1 DEF Ingests
  <2> QED BY <1>1, <1>2, <1>3, <2>2, <2>3, <2>4, KeepsJobInv
<1>5. CASE BatchStored(j)
  <2>1. torn' = torn /\ others' = others
    BY <1>5 DEF BatchStored
  <2> QED BY <1>1, <1>2, <1>3, <1>5, <2>1, BatchKeepsRows, KeepsJobInv
<1>6. CASE Purge(j) \/ Lists(j)
  <2>1. torn' = torn /\ others'[k] = others[k]
        /\ \A f \in Files : memory'[f] # NoRow => memory'[f] = memory[f]
    BY <1>6 DEF Purge, Lists, TypeOK
  <2> QED BY <1>1, <1>2, <1>3, <2>1, KeepsJobInv
<1>7. CASE ~ (FileIngested(j) \/ BatchStored(j) \/ Purge(j) \/ Lists(j))
  <2>1. UNCHANGED <<memory, torn, others>>
    BY <1>7 DEF JobStep, Clones, CloneFails, SkipsClone, ReindexStarts, RefreshStarts,
       RefreshSkipped, Walk, Plan, FileFails, FilesDone, Embed, Inserts, InsertFails,
       IngestDone, Consolidating, NothingPending, BatchFails, Assembles,
       AssembleFails, Raise
  <2> QED BY <1>1, <1>2, <1>3, <2>1, KeepsJobInv
<1> QED BY <1>4, <1>5, <1>6, <1>7

\* So a step keeps the invariant when the job that takes it does.
LEMMA MineWorkInv ==
  ASSUME TypeOK, WorkInv, NEW j \in Jobs, JobStep(j), torn \subseteq torn',
         JobInv(j)', UniqueIds',
         \A f \in InHand(j)' : \/ f \in InHand(j) \/ f \in torn'
                               \/ \A k \in Jobs \ {j} : f \notin InHand(k),
         \A f \in Files \ torn' :
           \/ Synced(f)'
           \/ job'[j].at \in {"files", "embed"} /\ f \in InHand(j)'
           \/ \E k \in Jobs \ {j} : job[k].at \in {"files", "embed"} /\ f \in InHand(k)
  PROVE  WorkInv'
<1>1. \A k \in Jobs \ {j} : JobInv(k)' /\ InHand(k)' = InHand(k) /\ job'[k] = job[k]
  BY OthersKeep
<1>2. Apart'
  <2> SUFFICES ASSUME NEW f \in Files \ torn', NEW k \in Jobs, NEW l \in Jobs,
                      f \in InHand(k)' /\ f \in InHand(l)'
      PROVE  k = l
    BY DEF Apart
  <2>1. \A x, y \in Jobs : f \in InHand(x) /\ f \in InHand(y) => x = y
    BY DEF WorkInv, Apart
  <2> QED BY <1>1, <2>1
<1>3. ChunksInStep'
  BY <1>1 DEF ChunksInStep
<1> QED BY <1>1, <1>2, <1>3 DEF WorkInv

\* The steps that give a pass its files.
LEMMA PlanStepWorkInv ==
  ASSUME TypeOK, WorkInv, NEW j \in Jobs,
         RefreshStarts(j) \/ Purge(j) \/ Plan(j)
  PROVE  WorkInv'
<1>1. /\ job \in [Jobs -> JobRecord \cup {NoJob}]
      /\ memory \in [Files -> Memory \cup {NoRow}] /\ others \in [Jobs -> SUBSET Files]
  BY DEF TypeOK
<1>2. job[j].at \in {"queued", "purge", "plan"} /\ job[j] \in JobRecord /\ JobStep(j)
  BY BusyJob DEF RefreshStarts, Purge, Plan, At, Busy, Ingesting, JobStep
<1>3. job[j].todo = {} /\ job[j].got = {}
  BY <1>2 DEF WorkInv, JobInv, Unstarted
<1>4. \A f \in Files \ torn :
        \/ Synced(f)
        \/ \E k \in Jobs \ {j} : job[k].at \in {"files", "embed"} /\ f \in InHand(k)
  BY <1>2 DEF WorkInv, ChunksInStep
<1>5. ASSUME NEW todo, NEW walk, UNCHANGED <<memory, chunks, torn, others>>,
             job' = [job EXCEPT ![j].at = "files", ![j].walk = walk, ![j].todo = todo],
             \A i \in todo : i.file \in walk,
             \A i, k \in todo : i.file = k.file => i = k,
             job[j].kind \in Ingesting =>
               \A f \in Files : memory[f] # NoRow => f \in walk \cup others[j]
      PROVE  WorkInv'
  <2>1. /\ job'[j].at = "files" /\ job'[j].walk = walk /\ job'[j].todo = todo
        /\ job'[j].got = {} /\ job'[j].kind = job[j].kind
    BY <1>1, <1>2, <1>3, <1>5 DEF JobRecord
  <2>2. UniqueIds' /\ \A f \in Files : Synced(f)' <=> Synced(f)
    BY <1>5 DEF WorkInv, UniqueIds, Synced
  <2>3. Unstarted(j)' /\ Listed(j)'
    BY <2>1 DEF Unstarted, Listed
  <2>4. Analysed(j)'
    BY <1>5, <2>1 DEF Analysed
  <2>5. Walked(j)'
    BY <1>5, <2>1 DEF Walked
  <2>6. InHand(j)' = {}
    BY <2>1 DEF InHand
  <2> QED BY <1>2, <1>4, <1>5, <2>2, <2>3, <2>4, <2>5, <2>6, MineWorkInv DEF JobInv
<1>6. CASE RefreshStarts(j)
  <2>1. job[j].kind = "refresh" /\ UNCHANGED <<memory, chunks, torn, others>>
    BY <1>6 DEF RefreshStarts, At
  <2>2. PICK changed \in SUBSET Files :
          \E content \in [changed -> 0..MaxVersion] :
            job' = [job EXCEPT ![j].at = "files", ![j].walk = changed,
                      ![j].todo = {[file |-> f, hash |-> content[f]] :
                                   f \in {g \in changed : content[g] # 0}}]
    BY <1>6 DEF RefreshStarts
  <2>3. PICK content \in [changed -> 0..MaxVersion] :
          job' = [job EXCEPT ![j].at = "files", ![j].walk = changed,
                    ![j].todo = {[file |-> f, hash |-> content[f]] :
                                 f \in {g \in changed : content[g] # 0}}]
    BY <2>2
  <2> DEFINE todo == {[file |-> f, hash |-> content[f]] :
                      f \in {g \in changed : content[g] # 0}}
  <2>4. (\A i \in todo : i.file \in changed)
        /\ \A i, k \in todo : i.file = k.file => i = k
    OBVIOUS
  <2>5. job' = [job EXCEPT ![j].at = "files", ![j].walk = changed, ![j].todo = todo]
    BY <2>3
  <2> HIDE DEF todo
  <2> QED BY <1>5, <2>1, <2>4, <2>5 DEF Ingesting
<1>7. CASE Purge(j)
  <2>1. UNCHANGED <<chunks, torn>> /\ job' = [job EXCEPT ![j].at = "plan"]
    BY <1>7 DEF Purge, Goto
  <2>2. \A f \in Files : memory'[f] # NoRow => memory'[f] = memory[f] /\ f \in job[j].walk
    BY <1>7 DEF Purge
  <2>3. /\ job'[j].at = "plan" /\ job'[j].todo = {} /\ job'[j].got = {}
        /\ job'[j].walk = job[j].walk
    BY <1>1, <1>2, <1>3, <2>1 DEF JobRecord
  <2>4. UniqueIds' /\ \A f \in Files : Synced(f) => Synced(f)'
    BY <2>1, <2>2 DEF WorkInv, UniqueIds, Synced
  <2>5. Unstarted(j)' /\ Listed(j)' /\ Analysed(j)' /\ Walked(j)'
    BY <2>2, <2>3 DEF Unstarted, Listed, Analysed, Walked
  <2>6. InHand(j)' = {}
    BY <2>3 DEF InHand
  <2> QED BY <1>2, <1>4, <2>1, <2>4, <2>5, <2>6, MineWorkInv DEF JobInv
<1>8. CASE Plan(j)
  <2>1. UNCHANGED <<memory, chunks, torn, others>>
        /\ job[j].kind \in Ingesting /\ job[j].at = "plan"
    BY <1>8 DEF Plan, At
  <2> DEFINE walk == job[j].walk
             todo == {[file |-> f, hash |-> disk[f]] :
                      f \in {g \in walk : disk[g] \notin {0, HashIn(g)}}}
  <2>2. job' = [job EXCEPT ![j].at = "files", ![j].todo = todo]
    BY <1>8 DEF Plan
  <2>3. (\A i \in todo : i.file \in walk) /\ \A i, k \in todo : i.file = k.file => i = k
    OBVIOUS
  <2>4. \A f \in Files : memory[f] # NoRow => f \in walk \cup others[j]
    BY <2>1 DEF WorkInv, JobInv, Walked
  <2> HIDE DEF todo
  <2>5. job' = [job EXCEPT ![j].at = "files", ![j].walk = walk, ![j].todo = todo]
    <3>1. [job[j] EXCEPT !.at = "files", !.todo = todo]
            = [job[j] EXCEPT !.at = "files", !.walk = walk, !.todo = todo]
      BY <1>2 DEF JobRecord
    <3> QED BY <1>1, <2>2, <3>1
  <2> HIDE DEF walk
  <2> QED BY <1>5, <2>1, <2>3, <2>4, <2>5
<1> QED BY <1>6, <1>7, <1>8

\* The steps of the loop over the files.
LEMMA FileStepWorkInv ==
  ASSUME TypeOK, WorkInv, NEW j \in Jobs,
         FileIngested(j) \/ FileFails(j) \/ FilesDone(j)
  PROVE  WorkInv'
<1>1. job \in [Jobs -> JobRecord \cup {NoJob}] /\ memory \in [Files -> Memory \cup {NoRow}]
  BY DEF TypeOK
<1>2. job[j].at = "files" /\ job[j] \in JobRecord /\ UNCHANGED chunks /\ JobStep(j)
  BY BusyJob DEF FileIngested, FileFails, FilesDone, JobStep
<1>3. /\ \A i \in job[j].todo \cup job[j].got : i.file \in job[j].walk /\ i \in Item
      /\ \A i, k \in job[j].todo \cup job[j].got : i.file = k.file => i = k
      /\ \A i \in job[j].got :
           i.file \in torn \/ memory[i.file] = NoRow \/ memory[i.file].hash = i.hash
  BY <1>2 DEF WorkInv, JobInv, Analysed, JobRecord
<1>4. \A f \in Files \ torn :
        \/ Synced(f) \/ f \in InHand(j)
        \/ \E k \in Jobs \ {j} : job[k].at \in {"files", "embed"} /\ f \in InHand(k)
  BY DEF WorkInv, ChunksInStep
<1>5. job[j].kind \in Ingesting =>
        \A f \in Files : memory[f] # NoRow => f \in job[j].walk \cup others[j]
  BY <1>2 DEF WorkInv, JobInv, Walked
<1>6. CASE FileIngested(j)
  <2>0. PICK i \in job[j].todo : Ingests(j, i)
    BY <1>6, Ingested
  <2>1. /\ i \in Item /\ i.file \in Files
        /\ memory'[i.file] # NoRow /\ memory'[i.file].hash = i.hash
        /\ \A f \in Files \ {i.file} : memory'[f] = memory[f]
        /\ \A f \in Files \ {i.file} :
             memory[f] # NoRow => memory[f].id # memory'[i.file].id
        /\ job'[j] = [job[j] EXCEPT !.todo = @ \ {i}, !.got = @ \cup {i}]
        /\ torn \subseteq torn'
        /\ i.file \in torn' \/ \A k \in Jobs \ {j} : i.file \notin InHand(k)
        /\ others'[j] = others[j]
    BY <2>0 DEF Ingests
  <2>2. /\ job'[j].todo = job[j].todo \ {i} /\ job'[j].got = job[j].got \cup {i}
        /\ job'[j].at = "files" /\ job'[j].kind = job[j].kind
        /\ job'[j].walk = job[j].walk
    BY <1>2, <2>1 DEF JobRecord
  <2>3. InHand(j)' = InHand(j) \cup {i.file}
    BY <1>2, <2>2 DEF InHand
  <2>4. UniqueIds'
    BY <2>1 DEF WorkInv, UniqueIds
  <2>5. \A f \in Files \ {i.file} : Synced(f)' <=> Synced(f)
    BY <1>2, <2>1 DEF Synced
  <2>6. Unstarted(j)' /\ Listed(j)'
    BY <2>2 DEF Unstarted, Listed
  <2>7. Walked(j)'
    BY <1>3, <1>5, <2>1, <2>2 DEF Walked
  <2>8. \A k \in job'[j].got :
          k.file \in torn' \/ memory'[k.file] = NoRow \/ memory'[k.file].hash = k.hash
    <3> SUFFICES ASSUME NEW k \in job[j].got \cup {i}
        PROVE  k.file \in torn' \/ memory'[k.file] = NoRow \/ memory'[k.file].hash = k.hash
      BY <2>2
    <3>1. CASE k = i
      BY <2>1, <3>1
    <3>2. CASE k # i
      <4>1. k \in job[j].got /\ k.file # i.file /\ k.file \in Files
        BY <1>3, <2>1, <3>2 DEF Item
      <4> QED BY <1>3, <2>1, <4>1
    <3> QED BY <3>1, <3>2
  <2>9. Analysed(j)'
    BY <1>3, <2>1, <2>2, <2>8 DEF Analysed
  <2>10. \A f \in Files \ torn' :
           \/ Synced(f)' \/ f \in InHand(j)'
           \/ \E k \in Jobs \ {j} : job[k].at \in {"files", "embed"} /\ f \in InHand(k)
    BY <1>4, <2>1, <2>3, <2>5
  <2> QED BY <1>2, <2>1, <2>2, <2>3, <2>4, <2>6, <2>7, <2>9, <2>10, MineWorkInv, ZenonT(60)
      DEF JobInv
<1>7. CASE FileFails(j)
  <2>1. PICK i \in job[j].todo : job' = [job EXCEPT ![j].todo = @ \ {i}]
    BY <1>7 DEF FileFails
  <2>2. /\ job'[j].todo = job[j].todo \ {i} /\ job'[j].got = job[j].got
        /\ job'[j].at = "files" /\ job'[j].kind = job[j].kind
        /\ job'[j].walk = job[j].walk
    BY <1>1, <1>2, <2>1 DEF JobRecord
  <2>3. UNCHANGED <<memory, torn, others>>
    BY <1>7 DEF FileFails
  <2>4. UniqueIds' /\ \A f \in Files : Synced(f)' <=> Synced(f)
    BY <1>2, <2>3 DEF WorkInv, UniqueIds, Synced
  <2>5. Unstarted(j)' /\ Listed(j)' /\ Walked(j)'
    BY <1>5, <2>2, <2>3 DEF Unstarted, Listed, Walked
  <2>6. Analysed(j)'
    BY <1>3, <2>2, <2>3 DEF Analysed
  <2>7. InHand(j)' = InHand(j)
    BY <1>2, <2>2 DEF InHand
  <2> QED BY <1>2, <1>4, <2>2, <2>3, <2>4, <2>5, <2>6, <2>7, MineWorkInv DEF JobInv
<1>8. CASE FilesDone(j)
  <2>1. UNCHANGED <<memory, chunks, torn, others>>
    BY <1>8 DEF FilesDone
  <2>2. PICK step \in {"embed", "list", "mark"} :
          /\ job' = [job EXCEPT ![j].at = step]
          /\ step # "embed" => job[j].got = {}
    BY <1>8 DEF FilesDone, Goto, AfterEmbedding
  <2>3. /\ job'[j].todo = job[j].todo /\ job'[j].got = job[j].got
        /\ job'[j].at = step /\ job'[j].kind = job[j].kind
        /\ job'[j].walk = job[j].walk
    BY <1>1, <1>2, <2>2 DEF JobRecord
  <2>4. CASE step # "embed"
    <3>1. \A k \in Jobs \ {j} : job'[k] = job[k]
      BY <1>2, JobStepFrame
    <3> QED BY <1>2, <2>1, <2>2, <2>3, <2>4, <3>1, MoveWorkInv
  <2>5. CASE step = "embed"
    <3>1. UniqueIds' /\ \A f \in Files : Synced(f)' <=> Synced(f)
      BY <2>1 DEF WorkInv, UniqueIds, Synced
    <3>2. Unstarted(j)' /\ Listed(j)' /\ Walked(j)'
      BY <1>5, <2>1, <2>3, <2>5 DEF Unstarted, Listed, Walked
    <3>3. Analysed(j)'
      BY <1>3, <2>1, <2>3, <2>5 DEF Analysed
    <3>4. InHand(j)' = InHand(j)
      BY <1>2, <2>3, <2>5 DEF InHand
    <3> QED BY <1>2, <1>4, <2>1, <2>3, <2>5, <3>1, <3>2, <3>3, <3>4, MineWorkInv DEF JobInv
  <2> QED BY <2>4, <2>5
<1> QED BY <1>6, <1>7, <1>8

\* The steps that bring the chunks up to date.
LEMMA EmbedStepWorkInv ==
  ASSUME TypeOK, WorkInv, NEW j \in Jobs, Embed(j) \/ Inserts(j)
  PROVE  WorkInv'
<1>1. job \in [Jobs -> JobRecord \cup {NoJob}]
      /\ chunks \in [Files -> 0..MaxVersion] /\ UNCHANGED <<memory, torn, others>>
  BY DEF TypeOK, Embed, Inserts
<1>2. job[j].at \in {"embed", "insert"} /\ job[j] \in JobRecord /\ JobStep(j)
  BY BusyJob DEF Embed, Inserts, JobStep
<1>3. /\ \A i \in job[j].got : i.file \in job[j].walk /\ i.file \in Files
      /\ \A i, k \in job[j].got : i.file = k.file => i = k
      /\ \A i \in job[j].got :
           i.file \in torn \/ memory[i.file] = NoRow \/ memory[i.file].hash = i.hash
      /\ job[j].at = "insert" => job[j].todo \subseteq job[j].got
  BY <1>2 DEF WorkInv, JobInv, Analysed, JobRecord, Item
<1>4. job[j].kind \in Ingesting =>
        \A f \in Files : memory[f] # NoRow => f \in job[j].walk \cup others[j]
  BY <1>2 DEF WorkInv, JobInv, Walked
<1>5. UniqueIds'
  BY <1>1 DEF WorkInv, UniqueIds
<1>6. CASE Embed(j)
  <2>1. \A f \in Files \ torn :
          \/ Synced(f) \/ \E i \in job[j].got : i.file = f
          \/ \E k \in Jobs \ {j} : job[k].at \in {"files", "embed"} /\ f \in InHand(k)
    BY <1>6 DEF WorkInv, ChunksInStep, Embed, InHand
  <2> DEFINE changed == {i \in job[j].got : chunks[i.file] # i.hash}
             todo == IF job[j].kind = "refresh" THEN job[j].got ELSE changed
             dropped == IF job[j].kind = "refresh" THEN job[j].walk
                        ELSE {i.file : i \in changed} \cup (Files \ {i.file : i \in job[j].got})
  <2>2. todo \subseteq job[j].got
    OBVIOUS
  <2>3. job' = [job EXCEPT ![j].at = "insert", ![j].todo = todo]
    BY <1>6 DEF Embed
  <2>4. chunks' = [f \in Files |-> IF f \in dropped THEN 0 ELSE chunks[f]]
    BY <1>6 DEF Embed
  <2>5. \A f \in Files \ dropped : (\E i \in job[j].got : i.file = f) =>
           f \in torn \/ memory[f] = NoRow \/ memory[f].hash = chunks[f]
    BY <1>3
  <2> HIDE DEF todo, dropped
  <2>6. /\ job'[j].todo = todo /\ job'[j].got = job[j].got
        /\ job'[j].at = "insert" /\ job'[j].kind = job[j].kind
        /\ job'[j].walk = job[j].walk
    BY <1>1, <1>2, <2>3 DEF JobRecord
  <2>7. \A f \in Files \ torn' :
          \/ Synced(f)'
          \/ \E k \in Jobs \ {j} : job[k].at \in {"files", "embed"} /\ f \in InHand(k)
    <3> SUFFICES ASSUME NEW f \in Files \ torn,
                        ~ \E k \in Jobs \ {j} : job[k].at \in {"files", "embed"}
                                                /\ f \in InHand(k)
        PROVE  Synced(f)'
      BY <1>1
    <3>1. CASE f \in dropped
      BY <2>4, <3>1 DEF Synced
    <3>2. CASE f \notin dropped
      <4>1. chunks'[f] = chunks[f]
        BY <2>4, <3>2
      <4> QED BY <1>1, <2>1, <2>5, <3>2, <4>1 DEF Synced
    <3> QED BY <3>1, <3>2
  <2>8. Unstarted(j)' /\ Listed(j)' /\ Walked(j)'
    BY <1>1, <1>4, <2>6 DEF Unstarted, Listed, Walked
  <2>9. Analysed(j)'
    BY <1>1, <1>3, <2>2, <2>6 DEF Analysed
  <2>10. InHand(j)' = InHand(j)
    BY <1>6, <2>6 DEF InHand, Embed
  <2> QED BY <1>1, <1>2, <1>5, <2>7, <2>8, <2>9, <2>10, MineWorkInv DEF JobInv
<1>7. CASE Inserts(j)
  <2>1. job[j].at = "insert" /\ \A f \in Files \ torn :
          \/ Synced(f)
          \/ \E k \in Jobs \ {j} : job[k].at \in {"files", "embed"} /\ f \in InHand(k)
    BY <1>7 DEF WorkInv, ChunksInStep, Inserts
  <2>2. chunks' = [f \in Files |->
                    IF \E i \in job[j].todo : i.file = f
                      THEN (CHOOSE i \in job[j].todo : i.file = f).hash ELSE chunks[f]]
    BY <1>7 DEF Inserts
  <2>3. \A f \in Files : (\E i \in job[j].todo : i.file = f) =>
          f \in torn \/ memory[f] = NoRow \/ chunks'[f] = memory[f].hash
    <3> SUFFICES ASSUME NEW f \in Files, \E i \in job[j].todo : i.file = f
        PROVE  f \in torn \/ memory[f] = NoRow \/ chunks'[f] = memory[f].hash
      OBVIOUS
    <3>1. PICK i \in job[j].todo : i = CHOOSE x \in job[j].todo : x.file = f
      OBVIOUS
    <3>2. i.file = f
      BY <3>1
    <3> QED BY <1>3, <2>1, <2>2, <3>1, <3>2
  <2>4. \A f \in Files : (~ \E i \in job[j].todo : i.file = f) => chunks'[f] = chunks[f]
    BY <2>2
  <2>5. \A f \in Files \ torn' :
          \/ Synced(f)'
          \/ \E k \in Jobs \ {j} : job[k].at \in {"files", "embed"} /\ f \in InHand(k)
    BY <1>1, <2>1, <2>3, <2>4 DEF Synced
  <2>6. job' = [job EXCEPT ![j].at = AfterEmbedding(j), ![j].todo = {}]
        /\ AfterEmbedding(j) \in {"list", "mark"}
    BY <1>7 DEF Inserts, AfterEmbedding
  <2>7. /\ job'[j].at \in {"list", "mark"} /\ job'[j].kind = job[j].kind
        /\ job'[j].walk = job[j].walk
    BY <1>1, <1>2, <2>6 DEF JobRecord
  <2>8. Unstarted(j)' /\ Listed(j)' /\ Analysed(j)' /\ InHand(j)' = {}
    BY <2>7 DEF Unstarted, Listed, Analysed, InHand
  <2>9. Walked(j)'
    BY <1>1, <1>4, <2>7 DEF Walked
  <2> QED BY <1>1, <1>2, <1>5, <2>5, <2>8, <2>9, MineWorkInv DEF JobInv
<1> QED BY <1>6, <1>7

\* The steps of consolidate_repo.
LEMMA BatchStepWorkInv ==
  ASSUME TypeOK, WorkInv, NEW j \in Jobs,
         Lists(j) \/ BatchStored(j) \/ BatchFails(j)
  PROVE  WorkInv'
<1>1. job \in [Jobs -> JobRecord \cup {NoJob}] /\ others \in [Jobs -> SUBSET Files]
      /\ memory \in [Files -> Memory \cup {NoRow}] /\ UNCHANGED <<chunks, torn>>
  BY DEF TypeOK, Lists, BatchStored, BatchFails
<1>2. job[j].at \in {"list", "batches"} /\ job[j] \in JobRecord /\ JobStep(j)
  BY BusyJob DEF Lists, BatchStored, BatchFails, JobStep
<1>3. \A f \in Files \ torn :
        \/ Synced(f)
        \/ \E k \in Jobs \ {j} : job[k].at \in {"files", "embed"} /\ f \in InHand(k)
  BY <1>2 DEF WorkInv, ChunksInStep
<1>4. \A f \in Files :
        /\ memory'[f] = NoRow <=> memory[f] = NoRow
        /\ memory[f] # NoRow => memory'[f].id = memory[f].id
                                /\ memory'[f].hash = memory[f].hash
  <2>1. CASE BatchStored(j)
    BY <2>1, BatchKeepsRows
  <2>2. CASE ~ BatchStored(j)
    BY <2>2 DEF Lists, BatchFails
  <2> QED BY <2>1, <2>2
<1>5. UniqueIds'
  BY <1>4 DEF WorkInv, UniqueIds
<1>6. \A f \in Files : Synced(f)' <=> Synced(f)
  BY <1>1, <1>4 DEF Synced
<1>7. /\ job'[j].at = "batches"
      /\ \A r \in job'[j].rows : \A f \in Files :
             memory[f] # NoRow /\ memory[f].id = r.id =>
               f = r.file /\ (memory[f].hash = r.hash \/ f \in others'[j])
  <2>1. CASE Lists(j)
    <3>1. job' = [job EXCEPT ![j].at = "batches", ![j].rows = PendingRows]
      BY <2>1 DEF Lists
    <3>2. job'[j].at = "batches" /\ job'[j].rows = PendingRows
      BY <1>1, <1>2, <3>1 DEF JobRecord
    <3>3. \A r \in PendingRows :
            /\ r.file \in Files /\ memory[r.file] # NoRow
            /\ memory[r.file].id = r.id /\ memory[r.file].hash = r.hash
      BY DEF PendingRows
    <3>4. \A r \in PendingRows : \A f \in Files :
            memory[f] # NoRow /\ memory[f].id = r.id =>
              f = r.file /\ memory[f].hash = r.hash
      BY <3>3 DEF WorkInv, UniqueIds
    <3> QED BY <3>2, <3>4
  <2>2. CASE BatchStored(j) \/ BatchFails(j)
    <3>1. job[j].at = "batches" /\ (\E b : job' = [job EXCEPT ![j].rows = @ \ b])
          /\ others' = others
      BY <2>2 DEF BatchStored, BatchFails
    <3>2. PICK b : job' = [job EXCEPT ![j].rows = @ \ b]
      BY <3>1
    <3>3. job'[j].at = "batches" /\ job'[j].rows = job[j].rows \ b
      BY <1>1, <1>2, <3>1, <3>2 DEF JobRecord
    <3>4. \A r \in job[j].rows : \A f \in Files :
            memory[f] # NoRow /\ memory[f].id = r.id =>
              f = r.file /\ (memory[f].hash = r.hash \/ f \in others[j])
      BY <3>1 DEF WorkInv, JobInv, Listed
    <3> QED BY <3>1, <3>3, <3>4
  <2> QED BY <2>1, <2>2
<1>8. Unstarted(j)' /\ Analysed(j)' /\ Walked(j)' /\ InHand(j)' = {}
  BY <1>7 DEF Unstarted, Analysed, Walked, InHand
<1>9. Listed(j)'
  BY <1>4, <1>7 DEF Listed
<1> QED BY <1>1, <1>2, <1>3, <1>5, <1>6, <1>8, <1>9, MineWorkInv DEF JobInv

\* A batch marks what it was given: a row it turns has the id and the file of a row it
\* listed, and its hash unless another job has stored the file since.
LEMMA BatchMarksRead ==
  ASSUME TypeOK, WorkInv, NEW j \in Jobs, BatchStored(j), NEW f \in Files,
         memory[f] # NoRow, memory[f].pending, ~ memory'[f].pending
  PROVE  \E r \in job[j].rows : /\ r.file = f /\ r.id = memory[f].id
                                /\ r.hash = memory'[f].hash \/ f \in others[j]
<1>1. PICK b \in Batches(j) :
        memory' = [g \in Files |->
                     IF memory[g] # NoRow /\ \E r \in b : r.id = memory[g].id
                       THEN [memory[g] EXCEPT !.pending = FALSE] ELSE memory[g]]
  BY DEF BatchStored
<1>2. PICK r \in b : r.id = memory[f].id
  BY <1>1
<1>3. job[j].at = "batches" /\ r \in job[j].rows
  BY <1>2 DEF BatchStored, Batches
<1>4. f = r.file /\ (memory[f].hash = r.hash \/ f \in others[j])
  BY <1>2, <1>3 DEF WorkInv, JobInv, Listed
<1>5. memory'[f].hash = memory[f].hash
  BY BatchKeepsRows
<1> QED BY <1>2, <1>3, <1>4, <1>5

\* Only a batch turns a pending row.
LEMMA OnlyBatchesMark ==
  ASSUME TypeOK, Next, NEW f \in Files, memory[f] # NoRow, memory'[f] # NoRow,
         memory[f].pending, ~ memory'[f].pending
  PROVE  \E j \in Jobs : BatchStored(j)
<1> SUFFICES ASSUME \A j \in Jobs : ~ BatchStored(j)  PROVE FALSE
  OBVIOUS
<1>1. memory \in [Files -> Memory \cup {NoRow}] /\ memory' # memory
  BY DEF TypeOK
<1>2. PICK j \in Jobs : Purge(j) \/ FileIngested(j)
  BY <1>1, ZenonT(60) DEF Next, JobStep, Clones, CloneFails, SkipsClone, ReindexStarts, RefreshStarts,
     RefreshSkipped, Walk, Plan, FileFails, FilesDone, Embed, Inserts, InsertFails,
     IngestDone, Consolidating, Lists, NothingPending, BatchFails, Assembles,
     AssembleFails, Raise, Register, Request, Retry, AgentFinishes, MergeReindexes,
     SessionCreated, MergeLands, Crash
<1>3. CASE Purge(j)
  BY <1>3 DEF Purge
<1>4. CASE FileIngested(j)
  <2>1. PICK i \in job[j].todo :
          \E id \in IF memory[i.file] = NoRow THEN FreeIds ELSE {memory[i.file].id} :
            memory' = [memory EXCEPT ![i.file] =
                         [id |-> id, hash |-> i.hash, pending |-> TRUE]]
    BY <1>4 DEF FileIngested
  <2>2. PICK id : memory' = [memory EXCEPT ![i.file] =
                               [id |-> id, hash |-> i.hash, pending |-> TRUE]]
    BY <2>1
  <2> QED BY <1>1, <2>2
<1> QED BY <1>2, <1>3, <1>4

LEMMA InitWorkInv == Init => WorkInv
  BY DEF Init, WorkInv, JobInv, UniqueIds, Apart, ChunksInStep, Synced, Unstarted, Analysed,
         Walked, Listed, InHand, NoJob

LEMMA NextWorkInv ==
  ASSUME TypeOK, WorkInv, [Next]_vars
  PROVE  TypeOK' /\ WorkInv'
<1>1. ASSUME NEW j \in Jobs, JobStep(j)  PROVE TypeOK' /\ WorkInv'
  BY <1>1, ControlStepTypeOK, WorkStepTypeOK, QuietStepWorkInv, PlanStepWorkInv,
     FileStepWorkInv, EmbedStepWorkInv, BatchStepWorkInv
     DEF JobStep
<1>2. CASE Next
  BY <1>1, <1>2, RequestTypeOK, RequestWorkInv DEF Next
<1>3. CASE UNCHANGED vars
  <2>1. TypeOK'
    BY <1>3 DEF vars, rowVars, TypeOK
  <2>2. \A k \in Jobs : JobInv(k)' /\ InHand(k)' = InHand(k)
    BY <1>3, KeepsJobInv DEF WorkInv, InHand, vars
  <2>3. WorkInv'
    BY <1>3, <2>2 DEF vars, WorkInv, UniqueIds, Apart, ChunksInStep, Synced
  <2> QED BY <2>1, <2>3
<1> QED BY <1>2, <1>3

\* Whatever jobs run together, fail or are killed: when nothing runs, the chunks of a
\* file are those of its memory, or are gone, unless two jobs had the file in hand at a
\* time or a crash interrupted the pass that had.
THEOREM ChunksFollowMemoryCorrect == Spec => []ChunksFollowMemory
<1>1. Init => TypeOK /\ WorkInv
  BY InitTypeOK, InitWorkInv
<1>2. TypeOK /\ WorkInv /\ [Next]_vars => (TypeOK /\ WorkInv)'
  BY NextWorkInv
<1>3. TypeOK /\ WorkInv => ChunksFollowMemory
  <2> SUFFICES ASSUME TypeOK, WorkInv, \A j \in Jobs : ~ Busy(j), NEW f \in Files \ torn
      PROVE  Synced(f)
    BY DEF ChunksFollowMemory, Synced
  <2>1. \A j \in Jobs : job[j].at = "queued"
    BY DEF TypeOK, Busy, JobRecord, Kinds, NoJob
  <2> QED BY <2>1 DEF WorkInv, ChunksInStep
<1> QED BY <1>1, <1>2, <1>3, PTL DEF Spec

\* Whatever jobs run together, ingest_repo reaches mark_indexed with memories of the
\* files it walked and of those that other jobs have stored since its purge.
THEOREM MemoriesOfWalkedFilesCorrect == Spec => []MemoriesOfWalkedFiles
<1>1. Init => TypeOK /\ WorkInv
  BY InitTypeOK, InitWorkInv
<1>2. TypeOK /\ WorkInv /\ [Next]_vars => (TypeOK /\ WorkInv)'
  BY NextWorkInv
<1>3. WorkInv => MemoriesOfWalkedFiles
  BY DEF WorkInv, JobInv, Walked, MemoriesOfWalkedFiles, At
<1> QED BY <1>1, <1>2, <1>3, PTL DEF Spec

\* Whatever jobs run together, a memory leaves the pending state only as a row that the
\* marking job has listed, in the version it listed unless another job has stored the
\* file since.
THEOREM MarkedAsReadCorrect == Spec => MarkedAsRead
<1>1. Init => TypeOK /\ WorkInv
  BY InitTypeOK, InitWorkInv
<1>2. TypeOK /\ WorkInv /\ [Next]_vars => (TypeOK /\ WorkInv)'
  BY NextWorkInv
<1>3. TypeOK /\ WorkInv /\ [Next]_vars =>
        [\A f \in Files :
           (/\ memory[f] # NoRow /\ memory'[f] # NoRow
            /\ memory[f].pending /\ ~ memory'[f].pending)
             => \E j \in Jobs : \E r \in job[j].rows :
                  /\ r.file = f /\ r.id = memory[f].id
                  /\ r.hash = memory'[f].hash \/ f \in others[j]]_vars
  <2> SUFFICES ASSUME TypeOK, WorkInv, Next, NEW f \in Files,
                      memory[f] # NoRow, memory'[f] # NoRow,
                      memory[f].pending, ~ memory'[f].pending
      PROVE  \E j \in Jobs : \E r \in job[j].rows :
               /\ r.file = f /\ r.id = memory[f].id
               /\ r.hash = memory'[f].hash \/ f \in others[j]
    OBVIOUS
  <2> QED BY OnlyBatchesMark, BatchMarksRead
<1> QED BY <1>1, <1>2, <1>3, PTL DEF Spec, MarkedAsRead
=============================================================================
