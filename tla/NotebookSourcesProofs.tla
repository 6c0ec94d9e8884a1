----------------------- MODULE NotebookSourcesProofs -----------------------
(***************************************************************************)
(* Proofs about NotebookSources, for any notebooks, sources, documents and  *)
(* cuts, whatever chunk ids documents share and whatever fails.            *)
(***************************************************************************)
EXTENDS NotebookSources, TLAPS

LEMMA InitTypeOK == Init => TypeOK
<1> SUFFICES ASSUME Init PROVE TypeOK
  OBVIOUS
<1>1. \A s \in Sources : job[s] = NoJob /\ job[s].at # "store"
  BY DEF Init, NoJob
<1>2. job \in [Sources -> Jobs \cup {NoJob}]
  BY DEF Init
<1>3. notebooks \in SUBSET Notebooks /\ lost \in BOOLEAN
  BY DEF Init
<1>4. source \in [Sources -> SourceRow \cup {NoSource}]
  BY DEF Init
<1>5. file \in [Notebooks \X Names -> Docs \cup {NoDoc}]
  BY DEF Init
<1>6. chunk \in [ChunkIds -> Rows \cup {NoRow}]
  BY DEF Init
<1> QED BY <1>1, <1>2, <1>3, <1>4, <1>5, <1>6 DEF TypeOK

-----------------------------------------------------------------------------
(* Types.                                                                  *)

\* The parts of TypeOK about the variables that most steps change.
SourceOK == source \in [Sources -> SourceRow \cup {NoSource}]
JobOK == /\ job \in [Sources -> Jobs \cup {NoJob}]
         /\ \A s \in Sources : job[s].at = "store" =>
              job[s].doc \in Docs /\ job[s].todo \subseteq Cut[job[s].doc]

LEMMA StatusOK ==
  ASSUME SourceOK, NEW s \in Sources, NEW st \in Statuses, SetStatus(s, st)
  PROVE  SourceOK'
<1>1. CASE Lives(s)
  <2>1. source[s] \in SourceRow
    BY <1>1 DEF SourceOK, Lives
  <2>2. [source[s] EXCEPT !.status = st] \in SourceRow
    BY <2>1 DEF SourceRow
  <2> QED BY <1>1, <2>2 DEF SetStatus, SourceOK
<1>2. CASE ~ Lives(s)
  BY <1>2 DEF SetStatus, SourceOK
<1> QED BY <1>1, <1>2

LEMMA ProgressOK ==
  ASSUME SourceOK, NEW s \in Sources, Progresses(s)
  PROVE  SourceOK'
<1>1. CASE SetStatus(s, "processing")
  BY <1>1, StatusOK DEF Statuses
<1>2. CASE UNCHANGED source
  BY <1>2 DEF SourceOK
<1> QED BY <1>1, <1>2 DEF Progresses

LEMMA EndOK ==
  ASSUME JobOK, NEW s \in Sources, Ends(s)
  PROVE  JobOK'
BY DEF JobOK, Ends, NoJob

LEMMA RaiseOK ==
  ASSUME TypeOK, NEW s \in Sources, Raise(s)
  PROVE  TypeOK'
<1>1. SourceOK'
  <2>1. CASE SetStatus(s, "error")
    BY <2>1, StatusOK DEF Statuses, TypeOK, SourceOK
  <2>2. CASE UNCHANGED source
    BY <2>2 DEF TypeOK, SourceOK
  <2> QED BY <2>1, <2>2 DEF Raise
<1>2. JobOK'
  BY EndOK DEF Raise, TypeOK, JobOK
<1>3. lost' \in BOOLEAN /\ UNCHANGED <<notebooks, file, chunk>>
  BY DEF Raise, TypeOK
<1> QED BY <1>1, <1>2, <1>3 DEF TypeOK, SourceOK, JobOK

\* What a job that has reached a step looks like.
LEMMA JobIsThere ==
  ASSUME TypeOK, NEW s \in Sources, job[s].at # "none"
  PROVE  job[s] \in Jobs
BY DEF TypeOK, NoJob

LEMMA ContentOK ==
  ASSUME TypeOK, NEW s \in Sources, source[s] # NoSource
  PROVE  Content(s) \in Docs \cup {NoDoc}
<1>1. source[s] \in SourceRow
  BY DEF TypeOK
<1>2. CASE IsFile(s)
  <2>1. KeyOf(s) \in Notebooks \X Names
    BY <1>1, <1>2 DEF SourceRow, IsFile, KeyOf, FileKey
  <2> QED BY <1>2, <2>1 DEF Content, TypeOK
<1>3. CASE ~ IsFile(s)
  BY <1>1, <1>3 DEF Content, SourceRow
<1> QED BY <1>2, <1>3

\* A pipeline belongs to a source that was once created.
JobHasRow == \A s \in Sources : job[s].at # "none" => source[s] # NoSource

LEMMA RequestTypeOK ==
  ASSUME TypeOK, NEW s \in Sources
  PROVE  /\ Upload(s) \/ UploadFails(s) \/ AddText(s) => TypeOK'
         /\ DeleteSource(s) \/ DeleteFails(s) => TypeOK'
<1>1. ASSUME NEW st \in Statuses, NEW n \in notebooks, NEW name \in Names \cup {NoName},
             NEW d \in Docs, Creates(s, st, n, name, d)
      PROVE  SourceOK'
  <2>1. [status |-> st, nb |-> n, name |-> name, given |-> d] \in SourceRow
    BY DEF TypeOK, SourceRow
  <2> QED BY <1>1, <2>1 DEF Creates, TypeOK, SourceOK
<1>2. ASSUME NEW st \in Statuses, Saves(s, st)
      PROVE  SourceOK' /\ file' \in [Notebooks \X Names -> Docs \cup {NoDoc}]
  <2>1. PICK n \in notebooks, name \in Names, d \in Docs :
          /\ file' = [file EXCEPT ![FileKey(n, name)] = d]
          /\ Creates(s, st, n, name, d)
    BY <1>2 DEF Saves
  <2> QED BY <2>1, <1>1 DEF TypeOK, FileKey
<1>3. ASSUME Schedules(s)
      PROVE  JobOK'
  <2>1. NewJob \in Jobs /\ NewJob.at = "queued"
    BY DEF NewJob, NoJob, Jobs
  <2> QED BY <1>3, <2>1 DEF Schedules, TypeOK, JobOK
<1>4. ASSUME Unlinks(s), Lives(s)
      PROVE  file' \in [Notebooks \X Names -> Docs \cup {NoDoc}]
  BY <1>4 DEF Unlinks, TypeOK
<1>5. ASSUME Upload(s) PROVE TypeOK'
  <2>1. SourceOK' /\ file' \in [Notebooks \X Names -> Docs \cup {NoDoc}] /\ JobOK'
    BY <1>5, <1>2, <1>3 DEF Upload, Statuses
  <2> QED BY <1>5, <2>1 DEF Upload, TypeOK, SourceOK, JobOK
<1>6. ASSUME UploadFails(s) PROVE TypeOK'
  <2>1. SourceOK' /\ file' \in [Notebooks \X Names -> Docs \cup {NoDoc}]
    BY <1>6, <1>2 DEF UploadFails, Statuses
  <2> QED BY <1>6, <2>1 DEF UploadFails, TypeOK, SourceOK
<1>7. ASSUME AddText(s) PROVE TypeOK'
  <2>1. PICK n \in notebooks, d \in Docs : Creates(s, "pending", n, NoName, d)
    BY <1>7 DEF AddText
  <2>2. SourceOK' /\ JobOK'
    BY <1>7, <2>1, <1>1, <1>3 DEF AddText, Statuses
  <2> QED BY <1>7, <2>2 DEF AddText, TypeOK, SourceOK, JobOK
<1>8. ASSUME DeleteSource(s) PROVE TypeOK'
  <2>1. SetStatus(s, "deleted")
    BY <1>8 DEF DeleteSource, SetStatus
  <2>2. SourceOK'
    BY <2>1, StatusOK DEF Statuses, TypeOK, SourceOK
  <2> QED BY <1>8, <1>4, <2>2 DEF DeleteSource, TypeOK, SourceOK
<1>9. ASSUME DeleteFails(s) PROVE TypeOK'
  BY <1>9, <1>4 DEF DeleteFails, TypeOK
<1> QED BY <1>5, <1>6, <1>7, <1>8, <1>9

LEMMA DeleteNotebookTypeOK ==
  ASSUME TypeOK, NEW n \in Notebooks, DeleteNotebook(n)
  PROVE  TypeOK'
<1>1. SourceOK'
  <2>1. ASSUME NEW s \in Sources, source[s] # NoSource
        PROVE  [source[s] EXCEPT !.status = "deleted"] \in SourceRow
    BY <2>1 DEF TypeOK, SourceRow, Statuses
  <2> QED BY <2>1 DEF DeleteNotebook, TypeOK, SourceOK
<1> QED BY <1>1 DEF DeleteNotebook, TypeOK, SourceOK

LEMMA JobStepTypeOK ==
  ASSUME TypeOK, JobHasRow, NEW s \in Sources, JobStep(s)
  PROVE  TypeOK'
<1> USE DEF SourceOK, JobOK
<1>1. CASE Starts(s)
  <2>1. SourceOK'
    BY <1>1, ProgressOK DEF Starts, TypeOK
  <2>2. job[s] \in Jobs
    BY <1>1, JobIsThere DEF Starts
  <2>3. [job[s] EXCEPT !.at = "extract"] \in Jobs
    BY <2>2 DEF Jobs
  <2>4. JobOK'
    BY <1>1, <2>2, <2>3 DEF Starts, TypeOK, Jobs
  <2> QED BY <1>1, <2>1, <2>4 DEF Starts, TypeOK
<1>2. CASE Skips(s)
  BY <1>2, EndOK DEF Skips, TypeOK
<1>3. CASE StartFails(s)
  BY <1>3, EndOK DEF StartFails, TypeOK
<1>4. CASE Extracts(s)
  <2>1. SourceOK'
    BY <1>4, ProgressOK DEF Extracts, TypeOK
  <2>2. Content(s) \in Docs
    BY <1>4, ContentOK DEF Extracts, JobHasRow
  <2>3. job[s] \in Jobs
    BY <1>4, JobIsThere DEF Extracts
  <2>4. Cut[Content(s)] \in SUBSET SUBSET ChunkIds
    BY <2>2, ConstantsAssumption
  <2>5. job'[s] = [job[s] EXCEPT !.at = "store", !.doc = Content(s), !.todo = Cut[Content(s)]]
    BY <1>4 DEF Extracts, TypeOK
  <2>6. job'[s] \in Jobs /\ job'[s].doc = Content(s) /\ job'[s].todo = Cut[Content(s)]
    BY <2>2, <2>3, <2>4, <2>5 DEF Jobs
  <2>7. JobOK'
    BY <1>4, <2>2, <2>6 DEF Extracts, TypeOK
  <2> QED BY <1>4, <2>1, <2>7 DEF Extracts, TypeOK
<1>5. CASE ExtractsNothing(s)
  BY <1>5, EndOK, StatusOK DEF ExtractsNothing, TypeOK, Statuses
<1>6. CASE ExtractFails(s)
  BY <1>6, RaiseOK DEF ExtractFails
<1>7. CASE EmbedFails(s)
  BY <1>7, RaiseOK DEF EmbedFails
<1>8. CASE BatchStored(s)
  <2>1. PICK b \in job[s].todo :
          /\ chunk' = [c \in ChunkIds |->
                         IF c \in b THEN Upserted(chunk[c], s) ELSE chunk[c]]
          /\ job' = [job EXCEPT ![s].todo = @ \ {b}]
    BY <1>8 DEF BatchStored
  <2>2. job[s] \in Jobs /\ job[s].doc \in Docs
    BY <1>8, JobIsThere DEF BatchStored, TypeOK
  <2>3. source[s] \in SourceRow
    BY <1>8 DEF BatchStored, JobHasRow, TypeOK
  <2>4. \A c \in ChunkIds : Upserted(chunk[c], s) \in Rows
    BY <2>2, <2>3 DEF Upserted, Rows, SourceRow, TypeOK
  <2>5. chunk' \in [ChunkIds -> Rows \cup {NoRow}]
    BY <2>1, <2>4 DEF TypeOK
  <2>6. job'[s] = [job[s] EXCEPT !.todo = @ \ {b}]
    BY <2>1 DEF TypeOK
  <2>7. job'[s] \in Jobs /\ job'[s].doc = job[s].doc /\ job'[s].todo \subseteq job[s].todo
    BY <2>2, <2>6 DEF Jobs
  <2>8. JobOK'
    BY <1>8, <2>1, <2>2, <2>7 DEF BatchStored, TypeOK
  <2> QED BY <1>8, <2>5, <2>8 DEF BatchStored, TypeOK
<1>9. CASE BatchFails(s)
  <2>1. PICK b \in job[s].todo :
          job' = [job EXCEPT ![s].todo = @ \ {b}, ![s].bad = TRUE]
    BY <1>9 DEF BatchFails
  <2>2. job[s] \in Jobs /\ job[s].doc \in Docs
    BY <1>9, JobIsThere DEF BatchFails, TypeOK
  <2>6. job'[s] = [job[s] EXCEPT !.todo = @ \ {b}, !.bad = TRUE]
    BY <2>1 DEF TypeOK
  <2>3. job[s].todo \in SUBSET SUBSET ChunkIds
    BY <2>2 DEF Jobs
  <2>4. job[s].todo \ {b} \in SUBSET SUBSET ChunkIds
    BY <2>3
  <2>5. job'[s] \in Jobs
    BY <2>2, <2>4, <2>6 DEF Jobs
  <2>7. job'[s].doc = job[s].doc /\ job'[s].todo \subseteq job[s].todo
    BY <2>2, <2>6 DEF Jobs
  <2>8. JobOK'
    BY <1>9, <2>1, <2>2, <2>5, <2>7 DEF BatchFails, TypeOK
  <2> QED BY <1>9, <2>8 DEF BatchFails, TypeOK
<1>10. CASE Finishes(s)
  BY <1>10, EndOK, StatusOK DEF Finishes, TypeOK, Statuses
<1>11. CASE FinishFails(s)
  BY <1>11, RaiseOK DEF FinishFails
<1> QED BY <1>1, <1>2, <1>3, <1>4, <1>5, <1>6, <1>7, <1>8, <1>9, <1>10, <1>11
        DEF JobStep

-----------------------------------------------------------------------------
(* What a step may do to rows, jobs, chunks and files.                     *)

\* A row, once there, keeps its notebook, its name and what it was given.
RowsKept ==
  \A t \in Sources : source[t] # NoSource =>
    /\ source'[t] # NoSource
    /\ source'[t].nb = source[t].nb
    /\ source'[t].name = source[t].name
    /\ source'[t].given = source[t].given

JobsFrame ==
  \A s \in Sources : job'[s].at # "none" => job[s].at # "none" \/ source'[s] # NoSource

DocsFrame ==
  \A s \in Sources : job'[s].at = "store" =>
    \/ job[s].at = "store" /\ job'[s].doc = job[s].doc
    \/ source[s] # NoSource /\ Content(s) # NoDoc /\ job'[s].doc = Content(s)

ChunksFrame ==
  \A c \in ChunkIds :
    \/ chunk'[c] = chunk[c]
    \/ \E s \in Sources : /\ job[s].at = "store" /\ source[s] # NoSource
                          /\ c \in Ids(job[s].doc)
                          /\ chunk'[c] = Upserted(chunk[c], s)

FilesFrame ==
  \A n \in Notebooks, name \in Names :
    \/ file'[<<n, name>>] \in {file[<<n, name>>], NoDoc}
    \/ \E t \in Sources : /\ source'[t] # NoSource
                          /\ source'[t].nb = n /\ source'[t].name = name
                          /\ source'[t].given = file'[<<n, name>>]

Frame == RowsKept /\ JobsFrame /\ DocsFrame /\ ChunksFrame /\ FilesFrame

LEMMA StatusRows ==
  ASSUME TypeOK, NEW s \in Sources, NEW st \in Statuses, SetStatus(s, st) \/ UNCHANGED source
  PROVE  RowsKept
<1>1. CASE UNCHANGED source
  BY <1>1 DEF RowsKept
<1>2. CASE SetStatus(s, st) /\ Lives(s)
  <2>1. source[s] \in SourceRow
    BY <1>2 DEF TypeOK, Lives
  <2>2. source' = [source EXCEPT ![s].status = st]
    BY <1>2 DEF SetStatus
  <2>3. [source[s] EXCEPT !.status = st] \in SourceRow
    BY <2>1 DEF SourceRow
  <2>4. source'[s] = [source[s] EXCEPT !.status = st]
    BY <2>2 DEF TypeOK
  <2>5. /\ source'[s] # NoSource
        /\ source'[s].nb = source[s].nb
        /\ source'[s].name = source[s].name
        /\ source'[s].given = source[s].given
    BY <2>1, <2>3, <2>4, ConstantsAssumption DEF SourceRow
  <2> QED BY <2>2, <2>5 DEF RowsKept, TypeOK
<1>3. CASE SetStatus(s, st) /\ ~ Lives(s)
  BY <1>3 DEF SetStatus, RowsKept
<1> QED BY <1>1, <1>2, <1>3

LEMMA RaiseRows ==
  ASSUME TypeOK, NEW s \in Sources, Raise(s)
  PROVE  RowsKept
<1>1. SetStatus(s, "error") \/ UNCHANGED source
  BY DEF Raise
<1> QED BY <1>1, StatusRows DEF Statuses

LEMMA ProgressRows ==
  ASSUME TypeOK, NEW s \in Sources, Progresses(s)
  PROVE  RowsKept
<1>1. SetStatus(s, "processing") \/ UNCHANGED source
  BY DEF Progresses
<1> QED BY <1>1, StatusRows DEF Statuses

LEMMA EndFrame ==
  ASSUME TypeOK, NEW s \in Sources, Ends(s)
  PROVE  JobsFrame /\ DocsFrame
BY DEF Ends, NoJob, TypeOK, JobsFrame, DocsFrame

LEMMA JobStepFrame ==
  ASSUME TypeOK, JobHasRow, NEW s \in Sources, JobStep(s)
  PROVE  Frame
<1>1. FilesFrame
  <2>1. UNCHANGED file
    BY DEF JobStep, Starts, Skips, StartFails, Extracts, ExtractsNothing,
           ExtractFails, EmbedFails, BatchStored, BatchFails, Finishes,
           FinishFails, Raise
  <2> QED BY <2>1 DEF FilesFrame
<1>2. CASE Starts(s)
  <2>1. RowsKept
    BY <1>2, ProgressRows DEF Starts
  <2>2. JobsFrame /\ DocsFrame
    BY <1>2 DEF Starts, TypeOK, JobsFrame, DocsFrame
  <2> QED BY <1>1, <1>2, <2>1, <2>2 DEF Starts, Frame, ChunksFrame
<1>3. CASE Skips(s) \/ StartFails(s)
  BY <1>1, <1>3, EndFrame DEF Skips, StartFails, Frame, ChunksFrame, RowsKept
<1>4. CASE Extracts(s)
  <2>1. RowsKept
    BY <1>4, ProgressRows DEF Extracts
  <2>2. source[s] # NoSource
    BY <1>4 DEF Extracts, JobHasRow
  <2>3. /\ job'[s].doc = Content(s) /\ Content(s) # NoDoc
        /\ \A t \in Sources \ {s} : job'[t] = job[t]
    <3>1. job[s] \in Jobs
      BY <1>4, JobIsThere DEF Extracts
    <3>2. job'[s] = [job[s] EXCEPT !.at = "store", !.doc = Content(s), !.todo = Cut[Content(s)]]
      BY <1>4 DEF Extracts, TypeOK
    <3>3. job'[s].doc = Content(s)
      BY <3>1, <3>2 DEF Jobs
    <3> QED BY <1>4, <3>3 DEF Extracts, TypeOK
  <2>4. JobsFrame
    BY <1>4, <2>1, <2>2, <2>3 DEF JobsFrame, RowsKept, Extracts
  <2>5. DocsFrame
    BY <2>2, <2>3 DEF DocsFrame
  <2> QED BY <1>1, <1>4, <2>1, <2>4, <2>5 DEF Extracts, Frame, ChunksFrame
<1>5. CASE ExtractsNothing(s) \/ Finishes(s)
  <2>1. RowsKept
    BY <1>5, StatusRows DEF ExtractsNothing, Finishes, Statuses
  <2> QED BY <1>1, <1>5, <2>1, EndFrame DEF ExtractsNothing, Finishes, Frame, ChunksFrame
<1>6. CASE ExtractFails(s) \/ EmbedFails(s) \/ FinishFails(s)
  <2>1. Raise(s)
    BY <1>6 DEF ExtractFails, EmbedFails, FinishFails
  <2> QED BY <1>1, <2>1, RaiseRows, EndFrame DEF Raise, Frame, ChunksFrame
<1>7. CASE BatchStored(s)
  <2>1. PICK b \in job[s].todo :
          /\ chunk' = [c \in ChunkIds |->
                         IF c \in b THEN Upserted(chunk[c], s) ELSE chunk[c]]
          /\ job' = [job EXCEPT ![s].todo = @ \ {b}]
    BY <1>7 DEF BatchStored
  <2>2. job[s] \in Jobs /\ source[s] # NoSource /\ job[s].at = "store"
    BY <1>7, JobIsThere DEF BatchStored, JobHasRow
  <2>3. job'[s] = [job[s] EXCEPT !.todo = @ \ {b}]
    BY <2>1 DEF TypeOK
  <2>4. job'[s].at = job[s].at /\ job'[s].doc = job[s].doc
    BY <2>2, <2>3 DEF Jobs
  <2>5. JobsFrame /\ DocsFrame
    BY <2>1, <2>2, <2>4 DEF JobsFrame, DocsFrame, TypeOK
  <2>6. ChunksFrame
    <3>1. \A c \in b : c \in Ids(job[s].doc)
      BY <2>2 DEF TypeOK, Ids
    <3> QED BY <2>1, <2>2, <3>1 DEF ChunksFrame
  <2> QED BY <1>1, <1>7, <2>5, <2>6 DEF BatchStored, Frame, RowsKept
<1>8. CASE BatchFails(s)
  <2>1. PICK b \in job[s].todo :
          job' = [job EXCEPT ![s].todo = @ \ {b}, ![s].bad = TRUE]
    BY <1>8 DEF BatchFails
  <2>2. job[s] \in Jobs /\ job[s].at = "store"
    BY <1>8, JobIsThere DEF BatchFails
  <2>3. job'[s] = [job[s] EXCEPT !.todo = @ \ {b}, !.bad = TRUE]
    BY <2>1 DEF TypeOK
  <2>4. job'[s].at = job[s].at /\ job'[s].doc = job[s].doc
    BY <2>2, <2>3 DEF Jobs
  <2>5. JobsFrame /\ DocsFrame
    BY <2>1, <2>2, <2>4 DEF JobsFrame, DocsFrame, TypeOK
  <2> QED BY <1>1, <1>8, <2>5 DEF BatchFails, Frame, RowsKept, ChunksFrame
<1> QED BY <1>2, <1>3, <1>4, <1>5, <1>6, <1>7, <1>8 DEF JobStep

LEMMA CreatesFrame ==
  ASSUME TypeOK, NEW s \in Sources, NEW st \in Statuses, NEW n \in notebooks,
         NEW name \in Names \cup {NoName}, NEW d \in Docs, Creates(s, st, n, name, d)
  PROVE  /\ RowsKept
         /\ source'[s] # NoSource
         /\ source'[s].nb = n /\ source'[s].name = name /\ source'[s].given = d
<1> DEFINE row == [status |-> st, nb |-> n, name |-> name, given |-> d]
<1>1. row \in SourceRow
  BY DEF TypeOK, SourceRow
<1>2. source'[s] = row /\ \A t \in Sources \ {s} : source'[t] = source[t]
  BY DEF Creates, TypeOK
<1>3. source'[s] # NoSource
  BY <1>1, <1>2, ConstantsAssumption
<1> QED BY <1>2, <1>3 DEF Creates, RowsKept

LEMMA SavesFrame ==
  ASSUME TypeOK, NEW s \in Sources, NEW st \in Statuses, Saves(s, st)
  PROVE  RowsKept /\ FilesFrame /\ source'[s] # NoSource
<1>1. PICK n \in notebooks, name \in Names, d \in Docs :
        /\ file' = [file EXCEPT ![FileKey(n, name)] = d]
        /\ Creates(s, st, n, name, d)
  BY DEF Saves
<1>2. /\ RowsKept
      /\ source'[s] # NoSource
      /\ source'[s].nb = n /\ source'[s].name = name /\ source'[s].given = d
  BY <1>1, CreatesFrame
<1>3. ASSUME NEW m \in Notebooks, NEW other \in Names,
             file'[<<m, other>>] # file[<<m, other>>]
      PROVE  m = n /\ other = name /\ file'[<<m, other>>] = d
  BY <1>1, <1>3 DEF FileKey, TypeOK
<1>4. FilesFrame
  BY <1>2, <1>3 DEF FilesFrame
<1> QED BY <1>2, <1>4

LEMMA SchedulesFrame ==
  ASSUME TypeOK, NEW s \in Sources, Schedules(s), source'[s] # NoSource
  PROVE  JobsFrame /\ DocsFrame
BY DEF Schedules, NewJob, NoJob, TypeOK, JobsFrame, DocsFrame

LEMMA UnlinksFrame ==
  ASSUME TypeOK, NEW s \in Sources, Lives(s), Unlinks(s)
  PROVE  FilesFrame
BY DEF Unlinks, TypeOK, FilesFrame

LEMMA RequestFrame ==
  ASSUME TypeOK, NEW s \in Sources
  PROVE  /\ Upload(s) \/ UploadFails(s) \/ AddText(s) => Frame
         /\ DeleteSource(s) \/ DeleteFails(s) => Frame
<1>1. ASSUME Upload(s) PROVE Frame
  <2>1. RowsKept /\ FilesFrame /\ source'[s] # NoSource
    BY <1>1, SavesFrame DEF Upload, Statuses
  <2> QED BY <1>1, <2>1, SchedulesFrame DEF Upload, Frame, ChunksFrame
<1>2. ASSUME UploadFails(s) PROVE Frame
  <2>1. RowsKept /\ FilesFrame
    BY <1>2, SavesFrame DEF UploadFails, Statuses
  <2> QED BY <1>2, <2>1 DEF UploadFails, Frame, JobsFrame, DocsFrame, ChunksFrame
<1>3. ASSUME AddText(s) PROVE Frame
  <2>1. PICK n \in notebooks, d \in Docs : Creates(s, "pending", n, NoName, d)
    BY <1>3 DEF AddText
  <2>2. RowsKept /\ source'[s] # NoSource
    BY <2>1, CreatesFrame DEF Statuses
  <2>3. JobsFrame /\ DocsFrame
    BY <1>3, <2>2, SchedulesFrame DEF AddText
  <2> QED BY <1>3, <2>2, <2>3 DEF AddText, Frame, ChunksFrame, FilesFrame
<1>4. ASSUME DeleteSource(s) PROVE Frame
  <2>1. SetStatus(s, "deleted")
    BY <1>4 DEF DeleteSource, SetStatus
  <2>2. RowsKept
    BY <2>1, StatusRows DEF Statuses
  <2>3. FilesFrame
    BY <1>4, UnlinksFrame DEF DeleteSource
  <2> QED BY <1>4, <2>2, <2>3 DEF DeleteSource, Frame, JobsFrame, DocsFrame, ChunksFrame
<1>5. ASSUME DeleteFails(s) PROVE Frame
  <2>1. FilesFrame
    BY <1>5, UnlinksFrame DEF DeleteFails
  <2> QED BY <1>5, <2>1
          DEF DeleteFails, Frame, RowsKept, JobsFrame, DocsFrame, ChunksFrame
<1> QED BY <1>1, <1>2, <1>3, <1>4, <1>5

LEMMA DeleteNotebookFrame ==
  ASSUME TypeOK, NEW n \in Notebooks, DeleteNotebook(n)
  PROVE  Frame
<1>1. ASSUME NEW t \in Sources, source[t] # NoSource
      PROVE  /\ source'[t] # NoSource
             /\ source'[t].nb = source[t].nb
             /\ source'[t].name = source[t].name
             /\ source'[t].given = source[t].given
  <2>1. source[t] \in SourceRow
    BY <1>1 DEF TypeOK
  <2>2. [source[t] EXCEPT !.status = "deleted"] \in SourceRow
    BY <2>1 DEF SourceRow, Statuses
  <2>3. source'[t] \in {source[t], [source[t] EXCEPT !.status = "deleted"]}
    BY DEF DeleteNotebook
  <2> QED BY <2>1, <2>2, <2>3, ConstantsAssumption DEF SourceRow
<1>2. RowsKept
  BY <1>1 DEF RowsKept
<1> QED BY <1>2 DEF DeleteNotebook, Frame, JobsFrame, DocsFrame, ChunksFrame, FilesFrame

LEMMA CrashFrame ==
  ASSUME TypeOK, Crash
  PROVE  TypeOK' /\ Frame
BY DEF Crash, NoJob, TypeOK, Frame, RowsKept, JobsFrame, DocsFrame, ChunksFrame, FilesFrame

LEMMA StepFrame ==
  ASSUME TypeOK, JobHasRow, [Next]_vars
  PROVE  TypeOK' /\ Frame
<1>1. CASE \E s \in Sources : Upload(s) \/ UploadFails(s) \/ AddText(s)
  BY <1>1, RequestTypeOK, RequestFrame
<1>2. CASE \E s \in Sources : DeleteSource(s) \/ DeleteFails(s)
  BY <1>2, RequestTypeOK, RequestFrame
<1>3. CASE \E n \in Notebooks : DeleteNotebook(n)
  BY <1>3, DeleteNotebookTypeOK, DeleteNotebookFrame
<1>4. CASE \E s \in Sources : JobStep(s)
  BY <1>4, JobStepTypeOK, JobStepFrame
<1>5. CASE Crash
  BY <1>5, CrashFrame
<1>6. CASE UNCHANGED vars
  BY <1>6 DEF vars, TypeOK, Frame, RowsKept, JobsFrame, DocsFrame, ChunksFrame, FilesFrame
<1> QED BY <1>1, <1>2, <1>3, <1>4, <1>5, <1>6 DEF Next

LEMMA JobHasRowKept ==
  ASSUME JobHasRow, Frame
  PROVE  JobHasRow'
BY DEF JobHasRow, Frame, JobsFrame, RowsKept

\* Every variable stays in its range, and what a pipeline has left to store
\* belongs to the content it read.
THEOREM TypeCorrect == Spec => []TypeOK
<1>1. Init => TypeOK /\ JobHasRow
  BY InitTypeOK DEF Init, NoJob, JobHasRow
<1>2. (TypeOK /\ JobHasRow) /\ [Next]_vars => (TypeOK /\ JobHasRow)'
  BY StepFrame, JobHasRowKept
<1> QED BY <1>1, <1>2, PTL DEF Spec

-----------------------------------------------------------------------------
(* Where the texts of chunks come from.                                    *)

\* What was uploaded under a name in a notebook.
UploadedAs(n, name) ==
  {source[t].given : t \in {u \in Sources : /\ source[u] # NoSource
                                            /\ source[u].nb = n
                                            /\ source[u].name = name}}

FileGiven ==
  \A n \in Notebooks, name \in Names :
    file[<<n, name>>] # NoDoc => file[<<n, name>>] \in UploadedAs(n, name)

JobGiven == \A s \in Sources : job[s].at = "store" => job[s].doc \in Given(s)

ChunkInNotebook ==
  \A c \in ChunkIds : chunk[c] # NoRow => chunk[c].nb = source[chunk[c].src].nb

\* The labels of a chunk are those of a source whose text has the chunk.
LabelsShared ==
  \A c \in ChunkIds : chunk[c] # NoRow =>
    /\ source[chunk[c].labels] # NoSource
    /\ \E d \in Given(chunk[c].labels) : c \in Ids(d)

\* The inductive invariant: a pipeline reads a file some time before it stores,
\* and the file may be overwritten or unlinked in between.
TextsInv ==
  TypeOK /\ JobHasRow /\ FileGiven /\ JobGiven /\ OwnContent /\ ChunkInNotebook /\ LabelsShared

LEMMA UploadedAsGrows ==
  ASSUME RowsKept, NEW n, NEW name
  PROVE  UploadedAs(n, name) \subseteq UploadedAs(n, name)'
<1> SUFFICES ASSUME NEW d \in UploadedAs(n, name)
             PROVE  d \in UploadedAs(n, name)'
  OBVIOUS
<1>1. PICK t \in Sources : /\ source[t] # NoSource /\ source[t].nb = n
                           /\ source[t].name = name /\ d = source[t].given
  BY DEF UploadedAs
<1>2. /\ source'[t] # NoSource /\ source'[t].nb = n
      /\ source'[t].name = name /\ d = source'[t].given
  BY <1>1 DEF RowsKept
<1> QED BY <1>2 DEF UploadedAs

LEMMA GivenGrows ==
  ASSUME RowsKept, NEW s \in Sources, source[s] # NoSource
  PROVE  Given(s) \subseteq Given(s)'
<1>1. /\ source'[s].nb = source[s].nb
      /\ source'[s].name = source[s].name
      /\ source'[s].given = source[s].given
  BY DEF RowsKept
<1>2. CASE IsFile(s)
  <2> SUFFICES ASSUME NEW d \in Given(s)
               PROVE  d \in Given(s)'
    OBVIOUS
  <2>1. PICK t \in Sources :
          /\ source[t] # NoSource /\ source[t].nb = source[s].nb
          /\ source[t].name = source[s].name /\ d = source[t].given
    BY <1>2 DEF Given
  <2>2. /\ source'[t] # NoSource /\ source'[t].nb = source'[s].nb
        /\ source'[t].name = source'[s].name /\ d = source'[t].given
    BY <1>1, <2>1 DEF RowsKept
  <2> QED BY <1>1, <1>2, <2>2 DEF Given, IsFile
<1>3. CASE ~ IsFile(s)
  BY <1>1, <1>3 DEF Given, IsFile
<1> QED BY <1>2, <1>3

LEMMA ContentGiven ==
  ASSUME TypeOK, FileGiven, NEW s \in Sources, source[s] # NoSource, Content(s) # NoDoc
  PROVE  Content(s) \in Given(s)
<1>1. source[s] \in SourceRow
  BY DEF TypeOK
<1>2. CASE IsFile(s)
  BY <1>1, <1>2 DEF FileGiven, UploadedAs, Given, Content, KeyOf, FileKey, IsFile, SourceRow
<1>3. CASE ~ IsFile(s)
  BY <1>3 DEF Content, Given
<1> QED BY <1>2, <1>3

LEMMA FileGivenKept ==
  ASSUME FileGiven, Frame
  PROVE  FileGiven'
<1> SUFFICES ASSUME NEW n \in Notebooks, NEW name \in Names, file'[<<n, name>>] # NoDoc
             PROVE  file'[<<n, name>>] \in UploadedAs(n, name)'
  BY DEF FileGiven
<1>1. CASE file'[<<n, name>>] = file[<<n, name>>]
  <2>1. file'[<<n, name>>] \in UploadedAs(n, name)
    BY <1>1 DEF FileGiven
  <2> QED BY <2>1, UploadedAsGrows DEF Frame
<1>2. CASE \E t \in Sources : /\ source'[t] # NoSource
                              /\ source'[t].nb = n /\ source'[t].name = name
                              /\ source'[t].given = file'[<<n, name>>]
  BY <1>2 DEF UploadedAs
<1> QED BY <1>1, <1>2 DEF Frame, FilesFrame

LEMMA JobGivenKept ==
  ASSUME TypeOK, JobHasRow, FileGiven, JobGiven, Frame
  PROVE  JobGiven'
<1> SUFFICES ASSUME NEW s \in Sources, job'[s].at = "store"
             PROVE  job'[s].doc \in Given(s)'
  BY DEF JobGiven
<1>1. CASE job[s].at = "store" /\ job'[s].doc = job[s].doc
  <2>1. source[s] # NoSource /\ job'[s].doc \in Given(s)
    BY <1>1 DEF JobGiven, JobHasRow
  <2> QED BY <2>1, GivenGrows DEF Frame
<1>2. CASE source[s] # NoSource /\ Content(s) # NoDoc /\ job'[s].doc = Content(s)
  <2>1. job'[s].doc \in Given(s)
    BY <1>2, ContentGiven
  <2> QED BY <1>2, <2>1, GivenGrows DEF Frame
<1> QED BY <1>1, <1>2 DEF Frame, DocsFrame

LEMMA ChunksKept ==
  ASSUME TypeOK, JobHasRow, JobGiven, OwnContent, ChunkInNotebook, Frame
  PROVE  (OwnContent /\ ChunkInNotebook)'
<1> SUFFICES ASSUME NEW c \in ChunkIds, chunk'[c] # NoRow
             PROVE  (/\ source[chunk[c].src] # NoSource
                     /\ chunk[c].doc \in Given(chunk[c].src)
                     /\ chunk[c].nb = source[chunk[c].src].nb)'
  BY DEF OwnContent, ChunkInNotebook
<1>1. ASSUME NEW s \in Sources, source[s] # NoSource, chunk'[c].src = s,
             chunk'[c].doc \in Given(s), chunk'[c].nb = source[s].nb
      PROVE  (/\ source[chunk[c].src] # NoSource
              /\ chunk[c].doc \in Given(chunk[c].src)
              /\ chunk[c].nb = source[chunk[c].src].nb)'
  <2>1. chunk'[c].doc \in Given(s)'
    BY <1>1, GivenGrows DEF Frame
  <2>2. source'[s] # NoSource /\ chunk'[c].nb = source'[s].nb
    BY <1>1 DEF Frame, RowsKept
  <2> QED BY <1>1, <2>1, <2>2 DEF Given, IsFile
<1>2. CASE chunk'[c] = chunk[c]
  <2>1. chunk[c].src \in Sources
    BY <1>2 DEF TypeOK, Rows
  <2> QED BY <1>1, <1>2, <2>1 DEF OwnContent, ChunkInNotebook
<1>3. ASSUME NEW s \in Sources, job[s].at = "store", source[s] # NoSource,
             chunk'[c] = Upserted(chunk[c], s)
      PROVE  (/\ source[chunk[c].src] # NoSource
              /\ chunk[c].doc \in Given(chunk[c].src)
              /\ chunk[c].nb = source[chunk[c].src].nb)'
  <2>1. chunk'[c].src = s /\ chunk'[c].nb = source[s].nb /\ chunk'[c].doc = job[s].doc
    BY <1>3 DEF Upserted
  <2> QED BY <1>1, <1>3, <2>1 DEF JobGiven
<1> QED BY <1>2, <1>3 DEF Frame, ChunksFrame

LEMMA LabelsKept ==
  ASSUME TypeOK, JobHasRow, JobGiven, LabelsShared, Frame
  PROVE  LabelsShared'
<1> SUFFICES ASSUME NEW c \in ChunkIds, chunk'[c] # NoRow
             PROVE  /\ source'[chunk'[c].labels] # NoSource
                    /\ \E d \in Given(chunk[c].labels)' : c \in Ids(d)
  BY DEF LabelsShared, Ids
<1>1. ASSUME NEW s \in Sources, source[s] # NoSource, chunk'[c].labels = s,
             NEW d \in Given(s), c \in Ids(d)
      PROVE  /\ source'[chunk'[c].labels] # NoSource
             /\ \E e \in Given(chunk[c].labels)' : c \in Ids(e)
  <2>1. d \in Given(s)'
    BY <1>1, GivenGrows DEF Frame
  <2>2. source'[s] # NoSource
    BY <1>1 DEF Frame, RowsKept
  <2> QED BY <1>1, <2>1, <2>2 DEF Given, IsFile
<1>2. ASSUME chunk[c] # NoRow, chunk'[c].labels = chunk[c].labels
      PROVE  /\ source'[chunk'[c].labels] # NoSource
             /\ \E d \in Given(chunk[c].labels)' : c \in Ids(d)
  <2>1. chunk[c].labels \in Sources
    BY <1>2 DEF TypeOK, Rows
  <2> QED BY <1>1, <1>2, <2>1 DEF LabelsShared
<1>3. CASE chunk'[c] = chunk[c]
  BY <1>2, <1>3
<1>4. ASSUME NEW s \in Sources, job[s].at = "store", source[s] # NoSource,
             c \in Ids(job[s].doc), chunk'[c] = Upserted(chunk[c], s)
      PROVE  /\ source'[chunk'[c].labels] # NoSource
             /\ \E d \in Given(chunk[c].labels)' : c \in Ids(d)
  <2>1. chunk'[c].labels = IF chunk[c] = NoRow THEN s ELSE chunk[c].labels
    BY <1>4 DEF Upserted
  <2>2. job[s].doc \in Given(s)
    BY <1>4 DEF JobGiven
  <2> QED BY <1>1, <1>2, <1>4, <2>1, <2>2
<1> QED BY <1>3, <1>4 DEF Frame, ChunksFrame

LEMMA TextsInvStep == TextsInv /\ [Next]_vars => TextsInv'
<1> SUFFICES ASSUME TextsInv, [Next]_vars PROVE TextsInv'
  OBVIOUS
<1>1. TypeOK' /\ Frame
  BY StepFrame DEF TextsInv
<1> QED BY <1>1, JobHasRowKept, FileGivenKept, JobGivenKept, ChunksKept, LabelsKept
        DEF TextsInv

LEMMA TextsInvInit == Init => TextsInv
<1> SUFFICES ASSUME Init PROVE TextsInv
  OBVIOUS
<1>1. TypeOK
  BY InitTypeOK
<1> QED BY <1>1 DEF Init, NoJob, TextsInv, JobHasRow, FileGiven, JobGiven, OwnContent,
                    ChunkInNotebook, LabelsShared

\* However uploads, overwritten files, deletions and pipelines interleave, a
\* stored chunk holds a text that was given for the source it is filed under.
THEOREM OwnContentCorrect == Spec => []OwnContent
<1>1. TextsInv => OwnContent
  BY DEF TextsInv
<1> QED BY <1>1, TextsInvInit, TextsInvStep, PTL DEF Spec

LEMMA TextsStayHome == TextsInv => NoForeignText
<1> SUFFICES ASSUME TextsInv, NEW n \in Notebooks, NEW c \in Searched(n)
             PROVE  /\ chunk[c].doc \in GivenTo(n)
                    /\ \E d \in Given(chunk[c].labels) : c \in Ids(d)
  BY DEF NoForeignText
<1>1. c \in ChunkIds /\ chunk[c] # NoRow /\ chunk[c].nb = n
  BY DEF Searched, InNotebook
<1> DEFINE s == chunk[c].src
<1>2. s \in Sources /\ source[s] # NoSource /\ source[s].nb = n /\ chunk[c].doc \in Given(s)
  BY <1>1 DEF TextsInv, TypeOK, Rows, OwnContent, ChunkInNotebook
<1>3. Given(s) \subseteq GivenTo(n)
  <2>1. CASE IsFile(s)
    BY <1>2, <2>1 DEF Given, GivenTo
  <2>2. CASE ~ IsFile(s)
    BY <1>2, <2>2 DEF Given, GivenTo
  <2> QED BY <2>1, <2>2
<1> QED BY <1>1, <1>2, <1>3 DEF TextsInv, LabelsShared

\* Notebooks whose documents share chunk ids take rows from each other, yet the
\* text a query shows is one that its own notebook was given, and the labels
\* beside it are those of a source whose text has the same chunk id.
THEOREM NoForeignTextCorrect == Spec => []NoForeignText
BY TextsInvInit, TextsInvStep, TextsStayHome, PTL DEF Spec

-----------------------------------------------------------------------------
(* Every source comes to rest.                                             *)

\* What one step may do to a source: whenever its pipeline ends or its row
\* starts to say that one is under way, there is a reason.
Settles(s) == Unsettled(s)' => lost' \/ job'[s].at # "none"

\* The step neither loses the pipeline of t nor makes its row say pending.
Bystander(t) ==
  /\ source'[t] = source[t]
  /\ lost => lost'
  /\ job'[t] = job[t]

LEMMA BystandersSettle ==
  ASSUME SourcesSettle, NEW t \in Sources, Bystander(t)
  PROVE  Settles(t)
BY DEF SourcesSettle, Settles, Unsettled, Bystander

LEMMA StatusSettles ==
  ASSUME TypeOK, NEW s \in Sources, NEW st \in {"ready", "error"}, SetStatus(s, st)
  PROVE  ~ Unsettled(s)'
<1>1. CASE Lives(s)
  <2>1. source[s] \in SourceRow
    BY <1>1 DEF TypeOK, Lives
  <2>2. source'[s] = [source[s] EXCEPT !.status = st]
    BY <1>1 DEF SetStatus, TypeOK
  <2>3. source'[s].status = st
    BY <2>1, <2>2 DEF SourceRow
  <2> QED BY <2>3 DEF Unsettled
<1>2. CASE ~ Lives(s)
  BY <1>2 DEF SetStatus, Lives, Unsettled
<1> QED BY <1>1, <1>2

LEMMA OthersStand ==
  ASSUME TypeOK, NEW s \in Sources, JobStep(s)
  PROVE  \A t \in Sources \ {s} : Bystander(t)
<1>1. ASSUME NEW st \in Statuses, SetStatus(s, st)
      PROVE  \A t \in Sources \ {s} : source'[t] = source[t]
  BY <1>1 DEF SetStatus, TypeOK
<1>2. ASSUME Progresses(s)
      PROVE  \A t \in Sources \ {s} : source'[t] = source[t]
  BY <1>1, <1>2 DEF Progresses, Statuses
<1>3. ASSUME Ends(s)
      PROVE  \A t \in Sources \ {s} : job'[t] = job[t]
  BY <1>3 DEF Ends, TypeOK
<1>4. ASSUME Raise(s)
      PROVE  \A t \in Sources \ {s} : Bystander(t)
  BY <1>1, <1>3, <1>4 DEF Raise, Bystander, Statuses
<1>5. CASE Starts(s) \/ Extracts(s)
  BY <1>2, <1>5 DEF Starts, Extracts, Bystander, TypeOK
<1>6. CASE Skips(s) \/ StartFails(s)
  BY <1>3, <1>6 DEF Skips, StartFails, Bystander
<1>7. CASE ExtractsNothing(s) \/ Finishes(s)
  BY <1>1, <1>3, <1>7 DEF ExtractsNothing, Finishes, Bystander, Statuses
<1>8. CASE ExtractFails(s) \/ EmbedFails(s) \/ FinishFails(s)
  BY <1>4, <1>8 DEF ExtractFails, EmbedFails, FinishFails
<1>9. CASE BatchStored(s) \/ BatchFails(s)
  BY <1>9 DEF BatchStored, BatchFails, Bystander, TypeOK
<1> QED BY <1>5, <1>6, <1>7, <1>8, <1>9 DEF JobStep

LEMMA OwnStepSettles ==
  ASSUME TypeOK, SourcesSettle, NEW s \in Sources, JobStep(s)
  PROVE  Settles(s)
<1>1. ASSUME Raise(s) PROVE Settles(s)
  BY <1>1, StatusSettles DEF Raise, Settles
<1>2. CASE Starts(s)
  <2>1. job[s] \in Jobs
    BY <1>2, JobIsThere DEF Starts
  <2>2. job'[s].at = "extract"
    BY <1>2, <2>1 DEF Starts, TypeOK, Jobs
  <2> QED BY <2>2 DEF Settles
<1>3. CASE Extracts(s)
  <2>1. job[s] \in Jobs
    BY <1>3, JobIsThere DEF Extracts
  <2>2. job'[s] = [job[s] EXCEPT !.at = "store", !.doc = Content(s), !.todo = Cut[Content(s)]]
    BY <1>3 DEF Extracts, TypeOK
  <2>3. job'[s].at = "store"
    BY <2>1, <2>2 DEF Jobs
  <2> QED BY <2>3 DEF Settles
<1>4. CASE Skips(s)
  BY <1>4 DEF Skips, Settles, Unsettled, Lives
<1>5. CASE StartFails(s)
  BY <1>5 DEF StartFails, Settles
<1>6. CASE ExtractsNothing(s) \/ Finishes(s)
  BY <1>6, StatusSettles DEF ExtractsNothing, Finishes, Settles
<1>7. CASE ExtractFails(s) \/ EmbedFails(s) \/ FinishFails(s)
  BY <1>1, <1>7 DEF ExtractFails, EmbedFails, FinishFails
<1>8. CASE BatchStored(s)
  <2>1. job[s] \in Jobs
    BY <1>8, JobIsThere DEF BatchStored
  <2>2. PICK b \in job[s].todo : job' = [job EXCEPT ![s].todo = @ \ {b}]
    BY <1>8 DEF BatchStored
  <2>3. job'[s] = [job[s] EXCEPT !.todo = @ \ {b}]
    BY <2>2 DEF TypeOK
  <2>4. job'[s].at = "store"
    BY <1>8, <2>1, <2>3 DEF BatchStored, Jobs
  <2> QED BY <2>4 DEF Settles
<1>9. CASE BatchFails(s)
  <2>1. job[s] \in Jobs
    BY <1>9, JobIsThere DEF BatchFails
  <2>2. PICK b \in job[s].todo : job' = [job EXCEPT ![s].todo = @ \ {b}, ![s].bad = TRUE]
    BY <1>9 DEF BatchFails
  <2>3. job'[s] = [job[s] EXCEPT !.todo = @ \ {b}, !.bad = TRUE]
    BY <2>2 DEF TypeOK
  <2>4. job'[s].at = "store"
    BY <1>9, <2>1, <2>3 DEF BatchFails, Jobs
  <2> QED BY <2>4 DEF Settles
<1> QED BY <1>2, <1>3, <1>4, <1>5, <1>6, <1>7, <1>8, <1>9 DEF JobStep

LEMMA RequestSettles ==
  ASSUME TypeOK, SourcesSettle, NEW s \in Sources,
         \/ Upload(s) \/ UploadFails(s) \/ AddText(s)
         \/ DeleteSource(s) \/ DeleteFails(s)
  PROVE  \A t \in Sources : Settles(t)
<1>1. \A t \in Sources \ {s} : Bystander(t)
  BY DEF Upload, UploadFails, AddText, DeleteSource, DeleteFails, Saves, Creates,
         Schedules, Bystander, TypeOK
<1>2. CASE Upload(s) \/ AddText(s)
  <2>1. NewJob.at = "queued"
    BY DEF NewJob, NoJob
  <2>2. job'[s] = NewJob
    BY <1>2 DEF Upload, AddText, Schedules, TypeOK
  <2> QED BY <1>1, <2>1, <2>2, BystandersSettle DEF Settles
<1>3. CASE UploadFails(s)
  <2>1. source'[s].status = "deleted"
    BY <1>3 DEF UploadFails, Saves, Creates, TypeOK
  <2> QED BY <1>1, <2>1, BystandersSettle DEF Settles, Unsettled
<1>4. CASE DeleteSource(s)
  <2>1. source[s] \in SourceRow
    BY <1>4 DEF DeleteSource, Lives, TypeOK
  <2>2. source'[s] = [source[s] EXCEPT !.status = "deleted"]
    BY <1>4 DEF DeleteSource, TypeOK
  <2>3. source'[s].status = "deleted"
    BY <2>1, <2>2 DEF SourceRow
  <2> QED BY <1>1, <2>3, BystandersSettle DEF Settles, Unsettled
<1>5. CASE DeleteFails(s)
  <2>1. Bystander(s)
    BY <1>5 DEF DeleteFails, Bystander
  <2> QED BY <1>1, <2>1, BystandersSettle
<1> QED BY <1>2, <1>3, <1>4, <1>5

LEMMA DeleteNotebookSettles ==
  ASSUME TypeOK, SourcesSettle, NEW n \in Notebooks, DeleteNotebook(n), NEW t \in Sources
  PROVE  Settles(t)
<1>1. CASE source[t] # NoSource /\ source[t].nb = n
  <2>1. source[t] \in SourceRow
    BY <1>1 DEF TypeOK
  <2>2. source'[t] = [source[t] EXCEPT !.status = "deleted"]
    BY <1>1 DEF DeleteNotebook
  <2>3. source'[t].status = "deleted"
    BY <2>1, <2>2 DEF SourceRow
  <2> QED BY <2>3 DEF Settles, Unsettled
<1>2. CASE ~ (source[t] # NoSource /\ source[t].nb = n)
  <2>1. Bystander(t)
    BY <1>2 DEF DeleteNotebook, Bystander
  <2> QED BY <2>1, BystandersSettle
<1> QED BY <1>1, <1>2

LEMMA SettleStep ==
  ASSUME TypeOK, SourcesSettle, [Next]_vars
  PROVE  SourcesSettle'
<1> SUFFICES \A t \in Sources : Settles(t)
  BY DEF Settles, SourcesSettle
<1>1. CASE \E s \in Sources : \/ Upload(s) \/ UploadFails(s) \/ AddText(s)
                              \/ DeleteSource(s) \/ DeleteFails(s)
  BY <1>1, RequestSettles
<1>2. CASE \E n \in Notebooks : DeleteNotebook(n)
  BY <1>2, DeleteNotebookSettles
<1>3. CASE \E s \in Sources : JobStep(s)
  BY <1>3, OthersStand, BystandersSettle, OwnStepSettles
<1>4. CASE Crash
  BY <1>4 DEF Crash, Settles
<1>5. CASE UNCHANGED vars
  BY <1>5, BystandersSettle DEF vars, Bystander
<1> QED BY <1>1, <1>2, <1>3, <1>4, <1>5 DEF Next

\* A source that says pending or processing is still on its way to ready or
\* error, unless the process died or the database refused the final word.
THEOREM SourcesSettleCorrect == Spec => []SourcesSettle
<1>1. Init => SourcesSettle
  BY DEF Init, SourcesSettle, Unsettled
<1>2. TypeOK /\ SourcesSettle /\ [Next]_vars => SourcesSettle'
  BY SettleStep
<1> QED BY <1>1, <1>2, TypeCorrect, PTL DEF Spec
-----------------------------------------------------------------------------
(* A ready source is stored completely.                                    *)

\* Every chunk of a content has a row.
Stored(d) == \A c \in Ids(d) : chunk[c] # NoRow

\* What a pipeline without a failed batch has still to store, and what it has.
StoreProgress ==
  \A s \in Sources : job[s].at = "store" /\ ~ job[s].bad =>
    \A c \in Ids(job[s].doc) : chunk[c] # NoRow \/ c \in UNION job[s].todo

\* The inductive invariant: the last batch may be stored long after others have
\* failed or have been overwritten by another source's.
ReadyInv == TextsInv /\ StoreProgress /\ ReadyIsComplete

\* A row may change hands but it is never removed.
RowsStay == \A c \in ChunkIds : chunk[c] # NoRow => chunk'[c] # NoRow

\* The step makes no other source ready than one whose content is stored.
ReadyFrame ==
  \A s \in Sources : source'[s] # NoSource /\ source'[s].status = "ready" =>
    \/ source[s] # NoSource /\ source[s].status = "ready"
    \/ source[s] # NoSource /\ \E d \in Given(s) \cap Docs : Stored(d)

\* A pipeline that stores has just cut its content, goes on, or drops a batch
\* that it has stored.
StoreFrame ==
  \A s \in Sources : job'[s].at = "store" /\ ~ job'[s].bad =>
    \/ job'[s].todo = Cut[job'[s].doc]
    \/ /\ job[s].at = "store" /\ ~ job[s].bad
       /\ job'[s].doc = job[s].doc
       /\ \A c \in ChunkIds : c \in UNION job[s].todo =>
            c \in UNION job'[s].todo \/ chunk'[c] # NoRow

LEMMA IdsOK ==
  ASSUME NEW d \in Docs
  PROVE  Ids(d) \subseteq ChunkIds
<1>1. Cut[d] \in SUBSET SUBSET ChunkIds
  BY ConstantsAssumption
<1> QED BY <1>1 DEF Ids

LEMMA UpsertedIsRow ==
  ASSUME TypeOK, NEW s \in Sources, job[s].at = "store", source[s] # NoSource,
         NEW old \in Rows \cup {NoRow}
  PROVE  Upserted(old, s) \in Rows /\ Upserted(old, s) # NoRow
<1>1. job[s].doc \in Docs /\ source[s] \in SourceRow
  BY DEF TypeOK
<1>2. Upserted(old, s) \in Rows
  BY <1>1 DEF Upserted, Rows, SourceRow
<1> QED BY <1>2, ConstantsAssumption

LEMMA RowsStayKept ==
  ASSUME TypeOK, Frame
  PROVE  RowsStay
BY UpsertedIsRow DEF RowsStay, Frame, ChunksFrame, TypeOK

LEMMA StatusReadyFrame ==
  ASSUME TypeOK, NEW s \in Sources, NEW st \in Statuses \ {"ready"},
         SetStatus(s, st) \/ UNCHANGED source
  PROVE  ReadyFrame
<1>1. CASE UNCHANGED source
  BY <1>1 DEF ReadyFrame
<1>2. CASE SetStatus(s, st) /\ Lives(s)
  <2>1. source[s] \in SourceRow /\ source[s] # NoSource
    BY <1>2 DEF TypeOK, Lives
  <2>2. source' = [source EXCEPT ![s] = [source[s] EXCEPT !.status = st]]
    BY <1>2 DEF SetStatus
  <2>3. source'[s].status = st /\ \A t \in Sources \ {s} : source'[t] = source[t]
    BY <2>1, <2>2 DEF TypeOK, SourceRow
  <2> QED BY <2>3 DEF ReadyFrame
<1>3. CASE SetStatus(s, st) /\ ~ Lives(s)
  BY <1>3 DEF SetStatus, ReadyFrame
<1> QED BY <1>1, <1>2, <1>3

LEMMA ReadyStatusFrame ==
  ASSUME TypeOK, NEW s \in Sources, SetStatus(s, "ready"), source[s] # NoSource,
         NEW d \in Docs, d \in Given(s), Stored(d)
  PROVE  ReadyFrame
<1>1. \A t \in Sources \ {s} : source'[t] = source[t]
  BY DEF SetStatus, TypeOK
<1> QED BY <1>1 DEF ReadyFrame

LEMMA EndStoreFrame ==
  ASSUME TypeOK, NEW s \in Sources, Ends(s)
  PROVE  StoreFrame
<1>1. job'[s].at # "store" /\ \A t \in Sources \ {s} : job'[t] = job[t]
  BY DEF Ends, NoJob, TypeOK
<1> QED BY <1>1 DEF StoreFrame

LEMMA JobStepReady ==
  ASSUME ReadyInv, NEW s \in Sources, JobStep(s), TypeOK'
  PROVE  ReadyFrame /\ StoreFrame
<1> USE DEF ReadyInv, TextsInv
<1>1. ASSUME UNCHANGED source PROVE ReadyFrame
  BY <1>1 DEF ReadyFrame
<1>2. ASSUME Progresses(s) PROVE ReadyFrame
  BY <1>2, StatusReadyFrame DEF Progresses, Statuses
<1>3. CASE Starts(s)
  <2>1. job[s] \in Jobs
    BY <1>3, JobIsThere DEF Starts
  <2>2. job'[s].at = "extract" /\ \A t \in Sources \ {s} : job'[t] = job[t]
    BY <1>3, <2>1 DEF Starts, TypeOK, Jobs
  <2>3. StoreFrame
    BY <2>2 DEF StoreFrame
  <2> QED BY <1>2, <1>3, <2>3 DEF Starts
<1>4. CASE Skips(s) \/ StartFails(s)
  BY <1>1, <1>4, EndStoreFrame DEF Skips, StartFails
<1>5. CASE Extracts(s)
  <2>1. job[s] \in Jobs
    BY <1>5, JobIsThere DEF Extracts
  <2>2. job'[s] = [job[s] EXCEPT !.at = "store", !.doc = Content(s), !.todo = Cut[Content(s)]]
    BY <1>5 DEF Extracts, TypeOK
  <2>3. job'[s].todo = Cut[job'[s].doc]
    BY <2>1, <2>2 DEF Jobs
  <2>4. \A t \in Sources \ {s} : job'[t] = job[t]
    BY <1>5 DEF Extracts, TypeOK
  <2>5. StoreFrame
    BY <2>3, <2>4 DEF StoreFrame
  <2> QED BY <1>2, <1>5, <2>5 DEF Extracts
<1>6. CASE ExtractsNothing(s)
  <2>1. source[s] # NoSource
    BY <1>6 DEF ExtractsNothing, JobHasRow
  <2>2. Content(s) \in Docs /\ Content(s) \in Given(s)
    BY <1>6, <2>1, ContentOK, ContentGiven DEF ExtractsNothing
  <2>3. Stored(Content(s))
    BY <1>6 DEF ExtractsNothing, Stored, Ids
  <2>4. ReadyFrame
    BY <1>6, <2>1, <2>2, <2>3, ReadyStatusFrame DEF ExtractsNothing
  <2> QED BY <1>6, <2>4, EndStoreFrame DEF ExtractsNothing
<1>7. CASE ExtractFails(s) \/ EmbedFails(s) \/ FinishFails(s)
  <2>1. Raise(s)
    BY <1>7 DEF ExtractFails, EmbedFails, FinishFails
  <2>2. SetStatus(s, "error") \/ UNCHANGED source
    BY <2>1 DEF Raise
  <2> QED BY <2>1, <2>2, StatusReadyFrame, EndStoreFrame DEF Raise, Statuses
<1>8. CASE BatchStored(s)
  <2>1. PICK b \in job[s].todo :
          /\ chunk' = [c \in ChunkIds |->
                         IF c \in b THEN Upserted(chunk[c], s) ELSE chunk[c]]
          /\ job' = [job EXCEPT ![s].todo = @ \ {b}]
    BY <1>8 DEF BatchStored
  <2>2. job[s] \in Jobs /\ job[s].at = "store" /\ source[s] # NoSource
    BY <1>8, JobIsThere DEF BatchStored, JobHasRow
  <2>3. job'[s] = [job[s] EXCEPT !.todo = @ \ {b}]
    BY <2>1 DEF TypeOK
  <2>4. /\ job'[s].doc = job[s].doc /\ job'[s].bad = job[s].bad
        /\ job'[s].todo = job[s].todo \ {b}
    BY <2>2, <2>3 DEF Jobs
  <2>5. \A c \in ChunkIds : c \in b => chunk'[c] # NoRow
    BY <2>1, <2>2, UpsertedIsRow DEF TypeOK
  <2>6. \A c \in ChunkIds : c \in UNION job[s].todo =>
          c \in UNION job'[s].todo \/ chunk'[c] # NoRow
    BY <2>4, <2>5
  <2>7. \A t \in Sources \ {s} : job'[t] = job[t]
    BY <2>1 DEF TypeOK
  <2>8. StoreFrame
    BY <2>2, <2>4, <2>6, <2>7 DEF StoreFrame
  <2> QED BY <1>1, <1>8, <2>8 DEF BatchStored
<1>9. CASE BatchFails(s)
  <2>1. PICK b \in job[s].todo :
          job' = [job EXCEPT ![s].todo = @ \ {b}, ![s].bad = TRUE]
    BY <1>9 DEF BatchFails
  <2>2. job[s] \in Jobs
    BY <1>9, JobIsThere DEF BatchFails
  <2>3. job'[s] = [job[s] EXCEPT !.todo = @ \ {b}, !.bad = TRUE]
    BY <2>1 DEF TypeOK
  <2>4. job'[s].bad /\ \A t \in Sources \ {s} : job'[t] = job[t]
    BY <2>1, <2>2, <2>3 DEF TypeOK, Jobs
  <2>5. StoreFrame
    BY <2>4 DEF StoreFrame
  <2> QED BY <1>1, <1>9, <2>5 DEF BatchFails
<1>10. CASE Finishes(s)
  <2>1. source[s] # NoSource /\ job[s].doc \in Docs /\ job[s].doc \in Given(s)
    BY <1>10 DEF Finishes, JobHasRow, TypeOK, JobGiven
  <2>2. Stored(job[s].doc)
    BY <1>10 DEF Finishes, StoreProgress, Stored
  <2>3. ReadyFrame
    BY <1>10, <2>1, <2>2, ReadyStatusFrame DEF Finishes
  <2> QED BY <1>10, <2>3, EndStoreFrame DEF Finishes
<1> QED BY <1>3, <1>4, <1>5, <1>6, <1>7, <1>8, <1>9, <1>10 DEF JobStep

LEMMA RequestReady ==
  ASSUME TypeOK, NEW s \in Sources,
         \/ Upload(s) \/ UploadFails(s) \/ AddText(s)
         \/ DeleteSource(s) \/ DeleteFails(s)
  PROVE  ReadyFrame /\ StoreFrame
<1>1. ASSUME Schedules(s) PROVE StoreFrame
  <2>1. job'[s].at # "store" /\ \A t \in Sources \ {s} : job'[t] = job[t]
    BY <1>1 DEF Schedules, NewJob, NoJob, TypeOK
  <2> QED BY <2>1 DEF StoreFrame
<1>2. ASSUME UNCHANGED job PROVE StoreFrame
  BY <1>2 DEF StoreFrame
<1>3. ASSUME NEW st \in {"pending", "deleted"}, NEW n, NEW name, NEW d,
             Creates(s, st, n, name, d)
      PROVE  ReadyFrame
  <2>1. source'[s].status = st /\ \A t \in Sources \ {s} : source'[t] = source[t]
    BY <1>3 DEF Creates, TypeOK
  <2> QED BY <2>1 DEF ReadyFrame
<1>4. CASE Upload(s) \/ AddText(s)
  BY <1>1, <1>3, <1>4 DEF Upload, AddText, Saves
<1>5. CASE UploadFails(s)
  BY <1>2, <1>3, <1>5 DEF UploadFails, Saves
<1>6. CASE DeleteSource(s)
  <2>1. SetStatus(s, "deleted")
    BY <1>6 DEF DeleteSource, SetStatus
  <2>2. ReadyFrame
    BY <2>1, StatusReadyFrame DEF Statuses
  <2> QED BY <1>2, <1>6, <2>2 DEF DeleteSource
<1>7. CASE DeleteFails(s)
  BY <1>2, <1>7 DEF DeleteFails, ReadyFrame
<1> QED BY <1>4, <1>5, <1>6, <1>7

LEMMA OtherReady ==
  ASSUME TypeOK, (\E n \in Notebooks : DeleteNotebook(n)) \/ Crash \/ UNCHANGED vars
  PROVE  ReadyFrame /\ StoreFrame
<1>1. ASSUME NEW n \in Notebooks, DeleteNotebook(n)
      PROVE  ReadyFrame /\ StoreFrame
  <2>1. ASSUME NEW t \in Sources, source[t] # NoSource
        PROVE  [source[t] EXCEPT !.status = "deleted"].status = "deleted"
    BY <2>1 DEF TypeOK, SourceRow
  <2>2. ReadyFrame
    BY <1>1, <2>1 DEF DeleteNotebook, ReadyFrame
  <2> QED BY <1>1, <2>2 DEF DeleteNotebook, StoreFrame
<1>2. CASE Crash
  BY <1>2 DEF Crash, NoJob, ReadyFrame, StoreFrame
<1>3. CASE UNCHANGED vars
  BY <1>3 DEF vars, ReadyFrame, StoreFrame
<1> QED BY <1>1, <1>2, <1>3

LEMMA StoreProgressKept ==
  ASSUME TypeOK', StoreProgress, RowsStay, StoreFrame
  PROVE  StoreProgress'
<1> SUFFICES ASSUME NEW s \in Sources, job'[s].at = "store", ~ job'[s].bad,
                    NEW c \in Ids(job'[s].doc)
             PROVE  chunk'[c] # NoRow \/ c \in UNION job'[s].todo
  BY DEF StoreProgress, Ids
<1>1. c \in ChunkIds
  BY IdsOK DEF TypeOK
<1>2. CASE job'[s].todo = Cut[job'[s].doc]
  BY <1>2 DEF Ids
<1>3. CASE /\ job[s].at = "store" /\ ~ job[s].bad
           /\ job'[s].doc = job[s].doc
           /\ \A i \in ChunkIds : i \in UNION job[s].todo =>
                i \in UNION job'[s].todo \/ chunk'[i] # NoRow
  BY <1>1, <1>3 DEF StoreProgress, RowsStay
<1> QED BY <1>2, <1>3 DEF StoreFrame

LEMMA ReadyKept ==
  ASSUME TypeOK, ReadyIsComplete, RowsStay, RowsKept, ReadyFrame
  PROVE  ReadyIsComplete'
<1> SUFFICES ASSUME NEW s \in Sources, source'[s] # NoSource, source'[s].status = "ready"
             PROVE  \E d \in Given(s)' : \A c \in Ids(d) : chunk'[c] # NoRow
  BY DEF ReadyIsComplete, Ids
<1>1. PICK d \in Given(s) : source[s] # NoSource /\ d \in Docs /\ Stored(d)
  <2>1. \A d \in Given(s) : source[s] # NoSource => d \in Docs
    BY DEF Given, IsFile, TypeOK, SourceRow
  <2> QED BY <2>1 DEF ReadyFrame, ReadyIsComplete, Stored
<1>2. d \in Given(s)'
  BY <1>1, GivenGrows
<1>3. \A c \in Ids(d) : chunk'[c] # NoRow
  BY <1>1, IdsOK DEF Stored, RowsStay
<1> QED BY <1>2, <1>3

LEMMA ReadyInvStep == ReadyInv /\ [Next]_vars => ReadyInv'
<1> SUFFICES ASSUME ReadyInv, [Next]_vars PROVE ReadyInv'
  OBVIOUS
<1>1. TextsInv' /\ TypeOK' /\ Frame
  BY TextsInvStep, StepFrame DEF ReadyInv, TextsInv
<1>2. ReadyFrame /\ StoreFrame
  BY <1>1, JobStepReady, RequestReady, OtherReady DEF ReadyInv, TextsInv, Next
<1>3. RowsStay
  BY <1>1, RowsStayKept DEF ReadyInv, TextsInv
<1>4. StoreProgress'
  BY <1>1, <1>2, <1>3, StoreProgressKept DEF ReadyInv
<1>5. ReadyIsComplete'
  BY <1>1, <1>2, <1>3, ReadyKept DEF ReadyInv, TextsInv, Frame
<1> QED BY <1>1, <1>4, <1>5 DEF ReadyInv

\* A source is shown as ready only when every chunk of the content it read has
\* been stored, whatever batches failed before and whoever holds the row now.
THEOREM ReadyIsCompleteCorrect == Spec => []ReadyIsComplete
<1>1. Init => ReadyInv
  <2> SUFFICES ASSUME Init PROVE ReadyInv
    OBVIOUS
  <2>1. TextsInv
    BY TextsInvInit
  <2>2. \A s \in Sources : source[s] = NoSource /\ job[s].at # "store"
    BY DEF Init, NoJob
  <2> QED BY <2>1, <2>2 DEF ReadyInv, StoreProgress, ReadyIsComplete
<1>2. ReadyInv => ReadyIsComplete
  BY DEF ReadyInv
<1> QED BY <1>1, <1>2, ReadyInvStep, PTL DEF Spec
=============================================================================
