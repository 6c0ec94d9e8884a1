-------------------------- MODULE NotebookSources --------------------------
(***************************************************************************)
(* The sources of notebooks: rows in sources, uploaded files, the rows of   *)
(* document_chunks and one process_source per source in the threads of     *)
(* source_pool.  Request handlers call the services synchronously on the   *)
(* event loop, so each is one step; a pipeline step is one read of the     *)
(* source's content or one transaction.                                    *)
(***************************************************************************)
EXTENDS FiniteSets

CONSTANTS
  Notebooks,
  Sources,   \* ids of source rows, never used again
  Names,     \* names of uploaded files
  Docs,      \* contents of a file or a pasted text
  ChunkIds,
  Cut,       \* the chunk ids of a content, batch by batch
  Faults,    \* subset of {"pipeline", "db", "crash"}: what may go wrong
  NoSource, NoName, NoDoc, NoRow

Ids(d) == UNION Cut[d]

\* labels: the source whose section title, chapter and page stand beside doc.
Rows == [src : Sources, nb : Notebooks, doc : Docs, labels : Sources]

\* All statuses from "extracting" to "graphing" are "processing" here.  A
\* "deleted" row is not in the table; it is kept as history.
Statuses == {"pending", "processing", "ready", "error", "deleted"}
SourceRow == [status : Statuses, nb : Notebooks, name : Names \cup {NoName},
              given : Docs]

\* A chunk_id is the hash of a section number, a chunk's index and the chunk's
\* first 64 characters: contents may share it, whoever uploads them.
ASSUME ConstantsAssumption ==
  /\ Cut \in [Docs -> SUBSET SUBSET ChunkIds]
  /\ Faults \subseteq {"pipeline", "db", "crash"}
  /\ NoName \notin Names /\ NoDoc \notin Docs
  /\ NoSource \notin SourceRow
  /\ NoRow \notin Rows

VARIABLES
  notebooks, \* the rows of notebooks
  source,    \* the rows of sources
  file,      \* UPLOAD_DIR / notebook_id / filename
  chunk,     \* the rows of document_chunks, which has no foreign key
  job,       \* what process_source is doing for a source
  lost       \* history: a crash or a database error cut a pipeline short

vars == <<notebooks, source, file, chunk, job, lost>>

\* todo: batches to store; bad: a batch failed.
Jobs == [at : {"queued", "extract", "store"}, doc : Docs \cup {NoDoc},
         todo : SUBSET SUBSET ChunkIds, bad : BOOLEAN]
NoJob == [at |-> "none", doc |-> NoDoc, todo |-> {}, bad |-> FALSE]
NewJob == [NoJob EXCEPT !.at = "queued"]

\* Mutant of FileKey: one directory for all notebooks.
OneDirectory(n, name) == <<CHOOSE m \in Notebooks : TRUE, name>>

\* Where add_file_source puts a file.
FileKey(n, name) == <<n, name>>

Init ==
  /\ notebooks = Notebooks
  /\ source = [s \in Sources |-> NoSource]
  /\ file = [k \in Notebooks \X Names |-> NoDoc]
  /\ chunk = [c \in ChunkIds |-> NoRow]
  /\ job = [s \in Sources |-> NoJob]
  /\ lost = FALSE

-----------------------------------------------------------------------------
(* Request handlers.                                                       *)

Lives(s) == source[s] # NoSource /\ source[s].status # "deleted"

IsFile(s) == source[s].name # NoName
KeyOf(s) == FileKey(source[s].nb, source[s].name)

\* create_source; given is raw_content, and history for a file.
Creates(s, st, n, name, d) ==
  /\ source[s] = NoSource
  /\ source' = [source EXCEPT ![s] = [status |-> st, nb |-> n, name |-> name, given |-> d]]

\* The executor call that follows in the handler.
Schedules(s) == job' = [job EXCEPT ![s] = NewJob]

\* add_file_source: a file of that name in the notebook is overwritten.
Saves(s, st) ==
  \E n \in notebooks, name \in Names, d \in Docs :
    /\ file' = [file EXCEPT ![FileKey(n, name)] = d]
    /\ Creates(s, st, n, name, d)

Upload(s) ==
  /\ Saves(s, "pending")
  /\ Schedules(s)
  /\ UNCHANGED <<notebooks, chunk, lost>>

\* The row cannot be inserted; the file has been written.
UploadFails(s) ==
  /\ "db" \in Faults
  /\ Saves(s, "deleted")
  /\ UNCHANGED <<notebooks, chunk, job, lost>>

AddText(s) ==
  /\ \E n \in notebooks, d \in Docs : Creates(s, "pending", n, NoName, d)
  /\ Schedules(s)
  /\ UNCHANGED <<notebooks, file, chunk, lost>>

Unlinks(s) ==
  file' = IF IsFile(s) THEN [file EXCEPT ![KeyOf(s)] = NoDoc] ELSE file

\* delete_source; a running pipeline is not told.
DeleteSource(s) ==
  /\ Lives(s)
  /\ Unlinks(s)
  /\ source' = [source EXCEPT ![s].status = "deleted"]
  /\ UNCHANGED <<notebooks, chunk, job, lost>>

\* The file is gone and the row cannot be deleted.
DeleteFails(s) ==
  /\ "db" \in Faults
  /\ Lives(s)
  /\ Unlinks(s)
  /\ UNCHANGED <<notebooks, source, chunk, job, lost>>

\* delete_notebook: the rows of sources go by their foreign key, the files stay.
DeleteNotebook(n) ==
  /\ n \in notebooks
  /\ notebooks' = notebooks \ {n}
  /\ source' = [s \in Sources |->
                  IF source[s] # NoSource /\ source[s].nb = n
                    THEN [source[s] EXCEPT !.status = "deleted"] ELSE source[s]]
  /\ UNCHANGED <<file, chunk, job, lost>>

-----------------------------------------------------------------------------
(* process_source.                                                         *)

Ends(s) == job' = [job EXCEPT ![s] = NoJob]

\* source_db.update_source: no row, no effect.
SetStatus(s, st) == source' = IF Lives(s) THEN [source EXCEPT ![s].status = st] ELSE source

\* _set_status gives up after three attempts and the pipeline goes on.
Progresses(s) ==
  SetStatus(s, "processing") \/ ("db" \in Faults /\ UNCHANGED source)

\* Mutant of Raise: only failures to store are reported.
RaiseUnlessExtracting(s) ==
  /\ IF job[s].at = "store" THEN SetStatus(s, "error") ELSE UNCHANGED source
  /\ UNCHANGED lost
  /\ Ends(s)
  /\ UNCHANGED <<notebooks, file, chunk>>

\* The except clause, whose own update may fail.
Raise(s) ==
  /\ \/ SetStatus(s, "error") /\ UNCHANGED lost
     \/ "db" \in Faults /\ lost' = TRUE /\ UNCHANGED source
  /\ Ends(s)
  /\ UNCHANGED <<notebooks, file, chunk>>

\* get_source, then _set_status(extracting).
Starts(s) ==
  /\ job[s].at = "queued" /\ Lives(s)
  /\ Progresses(s)
  /\ job' = [job EXCEPT ![s].at = "extract"]
  /\ UNCHANGED <<notebooks, file, chunk, lost>>

\* The source has been deleted before its turn came.
Skips(s) ==
  /\ job[s].at = "queued" /\ ~ Lives(s)
  /\ Ends(s)
  /\ UNCHANGED <<notebooks, source, file, chunk, lost>>

\* get_source raises, and it stands before the try.
StartFails(s) ==
  /\ "db" \in Faults
  /\ job[s].at = "queued"
  /\ Ends(s)
  /\ lost' = TRUE
  /\ UNCHANGED <<notebooks, source, file, chunk>>

Content(s) == IF IsFile(s) THEN file[KeyOf(s)] ELSE source[s].given

\* _extract_sections and chunk_sections_unified.
Extracts(s) ==
  /\ job[s].at = "extract"
  /\ LET d == Content(s)
     IN /\ d # NoDoc
        /\ Cut[d] # {}
        /\ job' = [job EXCEPT ![s].at = "store", ![s].doc = d, ![s].todo = Cut[d]]
  /\ Progresses(s)
  /\ UNCHANGED <<notebooks, file, chunk, lost>>

\* No sections or no chunks: the source is ready with none.
ExtractsNothing(s) ==
  /\ job[s].at = "extract"
  /\ Content(s) # NoDoc
  /\ Cut[Content(s)] = {}
  /\ SetStatus(s, "ready")
  /\ Ends(s)
  /\ UNCHANGED <<notebooks, file, chunk, lost>>

\* The file is not there, extraction or chunking raises, or the last update of
\* a source without chunks does.
ExtractFails(s) ==
  /\ job[s].at = "extract"
  /\ \/ Content(s) = NoDoc
     \/ "pipeline" \in Faults
     \/ "db" \in Faults /\ Content(s) # NoDoc /\ Cut[Content(s)] = {}
  /\ Raise(s)

\* embed_batch raises before anything is stored.
EmbedFails(s) ==
  /\ "pipeline" \in Faults
  /\ job[s].at = "store" /\ job[s].todo = Cut[job[s].doc] /\ ~ job[s].bad
  /\ Raise(s)

\* Mutant of Upserted: a row keeps the text it was first stored with.
UpsertedOwnerOnly(old, s) ==
  [src |-> s, nb |-> source[s].nb,
   doc |-> IF old = NoRow THEN job[s].doc ELSE old.doc,
   labels |-> IF old = NoRow THEN s ELSE old.labels]

\* _UPSERT_SQL: on conflict the row changes hands, text and embedding included;
\* section title, chapter, page and index stay those of the first insert.
Upserted(old, s) ==
  [src |-> s, nb |-> source[s].nb, doc |-> job[s].doc,
   labels |-> IF old = NoRow THEN s ELSE old.labels]

\* insert_chunks for one batch; up to three threads take the batches.
BatchStored(s) ==
  /\ job[s].at = "store"
  /\ \E b \in job[s].todo :
       /\ chunk' = [c \in ChunkIds |->
                      IF c \in b THEN Upserted(chunk[c], s) ELSE chunk[c]]
       /\ job' = [job EXCEPT ![s].todo = @ \ {b}]
  /\ UNCHANGED <<notebooks, source, file, lost>>

\* The other batches are stored all the same.
BatchFails(s) ==
  /\ "db" \in Faults
  /\ job[s].at = "store"
  /\ \E b \in job[s].todo :
       job' = [job EXCEPT ![s].todo = @ \ {b}, ![s].bad = TRUE]
  /\ UNCHANGED <<notebooks, source, file, chunk, lost>>

\* Mutant of Finishes: a failed batch is only logged.
FinishesAnyway(s) ==
  /\ job[s].at = "store" /\ job[s].todo = {}
  /\ SetStatus(s, "ready")
  /\ Ends(s)
  /\ UNCHANGED <<notebooks, file, chunk, lost>>

\* After the chunk graph, whose failure is only logged.
Finishes(s) ==
  /\ job[s].at = "store" /\ job[s].todo = {} /\ ~ job[s].bad
  /\ SetStatus(s, "ready")
  /\ Ends(s)
  /\ UNCHANGED <<notebooks, file, chunk, lost>>

\* A batch failed, or the last update does.
FinishFails(s) ==
  /\ job[s].at = "store" /\ job[s].todo = {}
  /\ job[s].bad \/ "db" \in Faults
  /\ Raise(s)

JobStep(s) ==
  \/ Starts(s) \/ Skips(s) \/ StartFails(s)
  \/ Extracts(s) \/ ExtractsNothing(s) \/ ExtractFails(s)
  \/ EmbedFails(s) \/ BatchStored(s) \/ BatchFails(s)
  \/ Finishes(s) \/ FinishFails(s)

\* The process dies and is started again; nothing resumes a pipeline.
Crash ==
  /\ "crash" \in Faults
  /\ job' = [s \in Sources |-> NoJob]
  /\ lost' = TRUE
  /\ UNCHANGED <<notebooks, source, file, chunk>>

Next ==
  \/ \E s \in Sources : Upload(s) \/ UploadFails(s) \/ AddText(s)
  \/ \E s \in Sources : DeleteSource(s) \/ DeleteFails(s)
  \/ \E n \in Notebooks : DeleteNotebook(n)
  \/ \E s \in Sources : JobStep(s)
  \/ Crash

Spec == Init /\ [][Next]_vars

-----------------------------------------------------------------------------
(* What a query may see.                                                   *)

ReadySources(n) ==
  {s \in Sources : source[s] # NoSource /\ source[s].nb = n /\ source[s].status = "ready"}

InNotebook(n) == {c \in ChunkIds : chunk[c] # NoRow /\ chunk[c].nb = n}

\* _per_source_retrieve: without a ready source it searches the whole notebook.
Searched(n) ==
  IF ReadySources(n) = {} THEN InNotebook(n)
  ELSE {c \in InNotebook(n) : chunk[c].src \in ReadySources(n)}

-----------------------------------------------------------------------------
(* Properties.                                                             *)

\* Every variable stays in its range; what a pipeline has left to store belongs
\* to the content it read.
TypeOK ==
  /\ notebooks \in SUBSET Notebooks
  /\ source \in [Sources -> SourceRow \cup {NoSource}]
  /\ file \in [Notebooks \X Names -> Docs \cup {NoDoc}]
  /\ chunk \in [ChunkIds -> Rows \cup {NoRow}]
  /\ job \in [Sources -> Jobs \cup {NoJob}]
  /\ \A s \in Sources : job[s].at = "store" =>
       job[s].doc \in Docs /\ job[s].todo \subseteq Cut[job[s].doc]
  /\ lost \in BOOLEAN

\* What a source may have been made of: the pasted text, or one of the
\* contents uploaded under its name in its notebook.
Given(s) ==
  IF ~ IsFile(s) THEN {source[s].given}
  ELSE {source[t].given : t \in {u \in Sources : /\ source[u] # NoSource
                                                /\ source[u].nb = source[s].nb
                                                /\ source[u].name = source[s].name}}

GivenTo(n) ==
  {source[s].given : s \in {t \in Sources : source[t] # NoSource /\ source[t].nb = n}}

\* However uploads, overwritten files, deletions and pipelines interleave, a
\* stored chunk holds a text that was given for the source it is filed under.
OwnContent ==
  \A c \in ChunkIds : chunk[c] # NoRow =>
    /\ source[chunk[c].src] # NoSource
    /\ chunk[c].doc \in Given(chunk[c].src)

\* Notebooks whose documents share chunk ids take rows from each other, yet the
\* text a query shows is one that its own notebook was given.  The section title
\* and the page beside it may be another notebook's, and no other than those of
\* a source whose own text has this chunk id, so begins alike in this place.
NoForeignText ==
  \A n \in Notebooks : \A c \in Searched(n) :
    /\ chunk[c].doc \in GivenTo(n)
    /\ \E d \in Given(chunk[c].labels) : c \in Ids(d)

\* A source is shown as ready only when every chunk of the content it read has
\* been stored, whatever batches failed before and whoever holds the row now.
ReadyIsComplete ==
  \A s \in Sources : source[s] # NoSource /\ source[s].status = "ready" =>
    \E d \in Given(s) : \A c \in Ids(d) : chunk[c] # NoRow

Unsettled(s) == source[s] # NoSource /\ source[s].status \in {"pending", "processing"}

\* A source that says pending or processing is still on its way to ready or
\* error, unless the process died or the database refused the final word.
SourcesSettle == \A s \in Sources : Unsettled(s) => lost \/ job[s].at # "none"
=============================================================================
