------------------------------ MODULE Podcasts ------------------------------
(***************************************************************************)
(* The podcasts of one notebook: their rows, their audio files, and the     *)
(* process_podcast pipelines that POST /podcast starts in source_pool.      *)
(* Podcasts of different notebooks share nothing but the pool.             *)
(***************************************************************************)
EXTENDS Naturals, Sequences

CONSTANTS
  MaxPodcasts, \* bounds the rows ever created
  Jobs,        \* pipelines that may be scheduled or running at a time
  Faults       \* subset of {"pipeline", "db", "crash"}: what may go wrong

ASSUME ConstantsAssumption ==
  /\ MaxPodcasts \in Nat \ {0}
  /\ Faults \subseteq {"pipeline", "db", "crash"}

VARIABLES
  notebook, \* whether the notebook exists
  rows,    \* the rows of podcasts in the order of created_at
  audio,   \* PODCAST_DIR / notebook_id / podcast_id.mp3
  job,     \* what process_podcast is doing
  again,   \* the podcast that a POST has found in progress, before it schedules; or 0
  crowded, \* history: podcasts asked for again while a pipeline was at work on them
  lost     \* history: a crash or a database error cut a pipeline short

vars == <<notebook, rows, audio, job, again, crowded, lost>>

\* "preparing" stands for "retrieving", "scripting" and "synthesizing", which no
\* reader tells apart, "voicing" for "synthesizing i/n".  A "deleted" row is not
\* in the table; it is kept as history.
Statuses == {"pending", "preparing", "voicing", "assembling", "ready", "error",
             "deleted"}
Row == [status : Statuses, path : BOOLEAN]

\* "mixed": two pipelines have written into the file at the same time.
Audio == {"none", "partial", "mixed", "whole"}

\* The statuses for which generate_podcast returns the row it finds.
InProgress == {"pending", "preparing", "assembling"}

Steps == {"queued", "prepare", "voice", "open", "write", "finish"}
NoJob == [pod |-> 0, at |-> "none"]

Init ==
  /\ notebook = TRUE
  /\ rows = << >>
  /\ audio = [p \in 1..MaxPodcasts |-> "none"]
  /\ job = [j \in Jobs |-> NoJob]
  /\ again = 0
  /\ crowded = {}
  /\ lost = FALSE

Lives(p) == rows[p].status # "deleted"

\* get_podcast_by_notebook returns this row; there may be none.
IsLatest(p) == Lives(p) /\ \A q \in DOMAIN rows : Lives(q) => q <= p

-----------------------------------------------------------------------------
(* Request handlers.  They are coroutines without an await: while a POST has  *)
(* read the status and not yet scheduled, pipelines go on, and no handler does. *)

Schedules(j, p) ==
  /\ job[j] = NoJob
  /\ job' = [job EXCEPT ![j] = [pod |-> p, at |-> "queued"]]

Listens == again = 0

\* generate_podcast while one is in progress: it returns the same row.  (Jobs bounds the
\* requests: there is a pipeline left for this one.)
Finds ==
  /\ Listens /\ notebook
  /\ \E j \in Jobs : job[j] = NoJob
  /\ \E p \in DOMAIN rows :
       /\ IsLatest(p) /\ rows[p].status \in InProgress
       /\ again' = p
       /\ crowded' = IF \E i \in Jobs : job[i].pod = p THEN crowded \cup {p} ELSE crowded
  /\ UNCHANGED <<notebook, rows, audio, job, lost>>

\* create_podcast gives that row a pipeline of its own, whatever its status is by now.
PostAgain(j) ==
  /\ ~ Listens
  /\ Schedules(j, again)
  /\ again' = 0
  /\ UNCHANGED <<notebook, rows, audio, crowded, lost>>

\* None is in progress.
Free == \A p \in DOMAIN rows : IsLatest(p) => rows[p].status \notin InProgress

\* Mutant of PostNew: a podcast that is there is generated anew.
PostReusing(j) ==
  /\ Listens /\ notebook /\ Free
  /\ \/ /\ \A p \in DOMAIN rows : ~ Lives(p)
        /\ Len(rows) < MaxPodcasts
        /\ rows' = Append(rows, [status |-> "pending", path |-> FALSE])
        /\ Schedules(j, Len(rows) + 1)
     \/ \E p \in DOMAIN rows :
          /\ IsLatest(p)
          /\ rows' = [rows EXCEPT ![p].status = "pending"]
          /\ Schedules(j, p)
  /\ UNCHANGED <<notebook, audio, again, crowded, lost>>

\* create_podcast otherwise.
PostNew(j) ==
  /\ Listens /\ notebook /\ Free
  /\ Len(rows) < MaxPodcasts
  /\ rows' = Append(rows, [status |-> "pending", path |-> FALSE])
  /\ Schedules(j, Len(rows) + 1)
  /\ UNCHANGED <<notebook, audio, again, crowded, lost>>

\* delete_podcast: the latest; a file its row does not know of stays.
Delete ==
  /\ Listens
  /\ \E p \in DOMAIN rows :
       /\ IsLatest(p)
       /\ audio' = IF rows[p].path THEN [audio EXCEPT ![p] = "none"] ELSE audio
       /\ \/ rows' = [rows EXCEPT ![p].status = "deleted"]
          \/ "db" \in Faults /\ UNCHANGED rows
  /\ UNCHANGED <<notebook, job, again, crowded, lost>>

\* delete_notebook takes the rows along; files stay, and pipelines go on.
DeleteNotebook ==
  /\ Listens /\ notebook
  /\ notebook' = FALSE
  /\ rows' = [p \in DOMAIN rows |-> [rows[p] EXCEPT !.status = "deleted"]]
  /\ UNCHANGED <<audio, job, again, crowded, lost>>

-----------------------------------------------------------------------------
(* process_podcast.                                                        *)

Ends(j) == job' = [job EXCEPT ![j] = NoJob]

Goto(j, step) == job' = [job EXCEPT ![j].at = step]

\* podcast_db.update_podcast: no row, no effect.
SetStatus(j, st) ==
  rows' = IF Lives(job[j].pod) THEN [rows EXCEPT ![job[j].pod].status = st] ELSE rows

\* _set_status gives up after three attempts and the pipeline goes on.
Progresses(j, st) == SetStatus(j, st) \/ ("db" \in Faults /\ UNCHANGED rows)

\* The except clause, whose own update may fail.
Raise(j) ==
  /\ \/ SetStatus(j, "error") /\ UNCHANGED lost
     \/ "db" \in Faults /\ lost' = TRUE /\ UNCHANGED rows
  /\ Ends(j)
  /\ UNCHANGED <<notebook, audio, again, crowded>>

Starts(j) ==
  /\ job[j].at = "queued" /\ Lives(job[j].pod)
  /\ Progresses(j, "preparing")
  /\ Goto(j, "prepare")
  /\ UNCHANGED <<notebook, audio, again, crowded, lost>>

Skips(j) ==
  /\ job[j].at = "queued" /\ ~ Lives(job[j].pod)
  /\ Ends(j)
  /\ UNCHANGED <<notebook, rows, audio, again, crowded, lost>>

\* get_podcast raises, and it stands before the try.
StartFails(j) ==
  /\ "db" \in Faults
  /\ job[j].at = "queued"
  /\ Ends(j)
  /\ lost' = TRUE
  /\ UNCHANGED <<notebook, rows, audio, again, crowded>>

\* Chunks have been found, the LLM's transcript parsed and the first turn begun.
Prepared(j) ==
  /\ job[j].at = "prepare"
  /\ Progresses(j, "voicing")
  /\ Goto(j, "voice")
  /\ UNCHANGED <<notebook, audio, again, crowded, lost>>

\* Another turn is begun.  A transcript is finite: this step is in Next but not in
\* JobStep, so it does not keep the last turn from ending.
VoicesOn(j) ==
  /\ job[j].at = "voice"
  /\ Progresses(j, "voicing")
  /\ UNCHANGED <<notebook, audio, job, again, crowded, lost>>

\* Mutant of Voiced: the row says ready before the file is written.
VoicedReady(j) ==
  /\ job[j].at = "voice"
  /\ rows' = IF Lives(job[j].pod)
               THEN [rows EXCEPT ![job[j].pod] = [status |-> "ready", path |-> TRUE]]
               ELSE rows
  /\ Goto(j, "open")
  /\ UNCHANGED <<notebook, audio, again, crowded, lost>>

\* The audio of the last turn has arrived.
Voiced(j) ==
  /\ job[j].at = "voice"
  /\ Progresses(j, "assembling")
  /\ Goto(j, "open")
  /\ UNCHANGED <<notebook, audio, again, crowded, lost>>

\* Mutant of Fails: nothing is written when there is nothing to say.
FailsSilently(j) ==
  /\ "pipeline" \in Faults
  /\ job[j].at \in {"prepare", "voice"}
  /\ Ends(j)
  /\ UNCHANGED <<notebook, rows, audio, again, crowded, lost>>

\* No chunks, no transcript, no turns, or the LLM, the voice service or writing the
\* file raises.
Fails(j) ==
  /\ "pipeline" \in Faults
  /\ job[j].at \in {"prepare", "voice", "open", "write"}
  /\ Raise(j)

\* _assemble_audio opens the file, which truncates it.
Opens(j) ==
  /\ job[j].at = "open"
  /\ audio' = [audio EXCEPT ![job[j].pod] =
                 IF \E i \in Jobs : job[i] = [pod |-> job[j].pod, at |-> "write"]
                   THEN "mixed" ELSE "partial"]
  /\ Goto(j, "write")
  /\ UNCHANGED <<notebook, rows, again, crowded, lost>>

Written(j) ==
  /\ job[j].at = "write"
  /\ audio' = [audio EXCEPT ![job[j].pod] = IF @ = "partial" THEN "whole" ELSE @]
  /\ Goto(j, "finish")
  /\ UNCHANGED <<notebook, rows, again, crowded, lost>>

Finishes(j) ==
  /\ job[j].at = "finish"
  /\ rows' = IF Lives(job[j].pod)
               THEN [rows EXCEPT ![job[j].pod] = [status |-> "ready", path |-> TRUE]]
               ELSE rows
  /\ Ends(j)
  /\ UNCHANGED <<notebook, audio, again, crowded, lost>>

FinishFails(j) ==
  /\ "db" \in Faults
  /\ job[j].at = "finish"
  /\ Raise(j)

JobStep(j) ==
  \/ Starts(j) \/ Skips(j) \/ StartFails(j) \/ Prepared(j)
  \/ Voiced(j) \/ Fails(j) \/ Opens(j) \/ Written(j) \/ Finishes(j) \/ FinishFails(j)

\* The process dies and is started again; nothing resumes a pipeline.
Crash ==
  /\ "crash" \in Faults
  /\ job' = [j \in Jobs |-> NoJob]
  /\ again' = 0
  /\ lost' = TRUE
  /\ UNCHANGED <<notebook, rows, audio, crowded>>

Next ==
  \/ \E j \in Jobs : PostAgain(j) \/ PostNew(j)
  \/ Finds \/ Delete \/ DeleteNotebook
  \/ \E j \in Jobs : JobStep(j) \/ VoicesOn(j)
  \/ Crash

Spec == Init /\ [][Next]_vars

\* Threads run; calls to the LLM, the voice service and the database time out.
FairSpec == Spec /\ \A j \in Jobs : WF_vars(JobStep(j))

-----------------------------------------------------------------------------
(* Properties.                                                             *)

\* Every variable stays in its range.
TypeOK ==
  /\ notebook \in BOOLEAN
  /\ rows \in Seq(Row) /\ Len(rows) <= MaxPodcasts
  /\ audio \in [1..MaxPodcasts -> Audio]
  /\ job \in [Jobs -> [pod : 1..Len(rows), at : Steps] \cup {NoJob}]
  /\ again \in 0..Len(rows)
  /\ crowded \subseteq 1..Len(rows)
  /\ lost \in BOOLEAN

\* get_podcast_audio never serves half a file of a podcast that was not asked for again
\* while a pipeline was at work on it, whatever is deleted, generated again later or cut
\* short.
ServedIsWhole ==
  \A p \in DOMAIN rows \ crowded :
    IsLatest(p) /\ rows[p].status = "ready" => audio[p] \in {"none", "whole"}

\* A finished podcast is not taken back by later requests, unless it was asked for again
\* while a pipeline was at work on it: that request's own pipeline may come to it when
\* it is ready.
ReadyKept ==
  [][\A p \in DOMAIN rows \ crowded' :
       rows[p].status = "ready" => rows'[p].status \in {"ready", "deleted"}]_vars

Unsettled(p) ==
  p \in DOMAIN rows /\ rows[p].status \in InProgress \cup {"voicing"}

\* A client that polls gets to see an end of every podcast, even if several
\* pipelines work on it, unless the process dies or the database refuses the
\* final word.
PodcastsEnd == \A p \in 1..MaxPodcasts : Unsettled(p) ~> lost \/ ~ Unsettled(p)
=============================================================================
