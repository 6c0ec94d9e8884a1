--------------------------- MODULE PodcastsProofs ---------------------------
(* What is served is whole, and what is ready stays so, for every number of      *)
(* podcasts and pipelines.                                                       *)
EXTENDS Podcasts, SequenceTheorems, TLAPS

JobRow(n) == [pod : 1..n, at : Steps] \cup {NoJob}

\* A podcast that was never asked for again while a pipeline was at work has one or
\* none; none any more when its row has a path, which it gets with ready; none yet when
\* a request has found it in progress; and the file is what its pipeline makes of it.
OnePipeline(p) ==
  p \notin crowded =>
    /\ \A i, j \in Jobs : job[i].pod = p /\ job[j].pod = p => i = j
    /\ rows[p].path = TRUE => /\ rows[p].status \in {"ready", "deleted"}
                              /\ \A j \in Jobs : job[j].pod # p
    /\ again = p => /\ rows[p].status \in InProgress
                    /\ \A j \in Jobs : job[j].pod # p
    /\ rows[p].status = "ready" => rows[p].path = TRUE /\ audio[p] \in {"none", "whole"}
    /\ \A j \in Jobs : job[j].pod = p =>
         /\ job[j].at = "write" => audio[p] = "partial"
         /\ job[j].at = "finish" => audio[p] = "whole"

IInv == TypeOK /\ \A p \in 1..Len(rows) : OnePipeline(p)

-----------------------------------------------------------------------------

LEMMA InitIInv == Init => IInv
<1> SUFFICES ASSUME Init PROVE IInv
  OBVIOUS
<1>1. rows \in Seq(Row) /\ Len(rows) = 0 /\ 1..Len(rows) = {}
  BY DEF Init
<1>2. /\ audio \in [1..MaxPodcasts -> Audio]
      /\ job \in [Jobs -> JobRow(Len(rows))]
      /\ crowded \subseteq 1..Len(rows) /\ lost \in BOOLEAN /\ notebook \in BOOLEAN
  BY DEF Init, Audio, JobRow
<1>3. again \in 0..Len(rows)
  BY <1>1 DEF Init
<1> QED BY <1>1, <1>2, <1>3, ConstantsAssumption DEF IInv, TypeOK, JobRow

\* A row is changed, and the others are not.
LEMMA RowChanged ==
  ASSUME TypeOK, NEW p \in 1..Len(rows), NEW r \in Row, rows' = [rows EXCEPT ![p] = r]
  PROVE  /\ rows' \in Seq(Row) /\ Len(rows') = Len(rows) /\ rows'[p] = r
         /\ \A q \in 1..Len(rows) \ {p} : rows'[q] = rows[q]
BY DEF TypeOK

-----------------------------------------------------------------------------
(* Requests.                                                               *)

\* A pipeline is scheduled for p among n rows.
LEMMA Scheduled ==
  ASSUME TypeOK, NEW j \in Jobs, NEW n \in Nat, Len(rows) <= n, NEW p \in 1..n,
         Schedules(j, p)
  PROVE  /\ job' \in [Jobs -> JobRow(n)]
         /\ \A i \in Jobs \ {j} : job'[i] = job[i]
         /\ job[j].pod = 0 /\ job'[j] = [pod |-> p, at |-> "queued"]
<1>1. 1..Len(rows) \subseteq 1..n
  BY DEF TypeOK
<1>2. [pod |-> p, at |-> "queued"] \in JobRow(n)
  BY DEF JobRow, Steps
<1>3. \A i \in Jobs : job[i] \in JobRow(n)
  BY <1>1 DEF TypeOK, JobRow
<1>4. job[j] = NoJob /\ job' = [job EXCEPT ![j] = [pod |-> p, at |-> "queued"]]
      /\ job \in [Jobs -> JobRow(n)]
  BY <1>3 DEF Schedules, TypeOK
<1> QED BY <1>2, <1>4 DEF NoJob

\* A podcast that another one is scheduled beside keeps what is known of it.
LEMMA ScheduledKeeps ==
  ASSUME TypeOK, NEW j \in Jobs, NEW n \in Nat, Len(rows) <= n, NEW p \in 1..n,
         Schedules(j, p), NEW q \in 1..Len(rows), OnePipeline(q),
         rows'[q] = rows[q], audio' = audio, crowded' = crowded, again' \in {0, again}, q # p
  PROVE  OnePipeline(q)'
<1>1. /\ \A i \in Jobs \ {j} : job'[i] = job[i]
      /\ job[j].pod = 0 /\ job'[j] = [pod |-> p, at |-> "queued"]
  BY Scheduled
<1>2. q # 0
  BY DEF TypeOK
<1> QED BY <1>1, <1>2 DEF OnePipeline

LEMMA FindsKeeps ==
  ASSUME IInv, Finds
  PROVE  IInv'
<1> DEFINE n == Len(rows)
<1>1. n \in Nat /\ DOMAIN rows = 1..n /\ TypeOK
  BY DEF IInv, TypeOK
<1>2. PICK p \in 1..n :
        /\ rows[p].status \in InProgress /\ again' = p
        /\ crowded' = IF \E i \in Jobs : job[i].pod = p THEN crowded \cup {p} ELSE crowded
  BY <1>1 DEF Finds
<1>3. UNCHANGED <<notebook, rows, audio, job, lost>>
  BY DEF Finds
<1>4. TypeOK'
  BY <1>1, <1>2, <1>3 DEF TypeOK
<1>5. ASSUME NEW q \in 1..n PROVE OnePipeline(q)'
  <2>1. OnePipeline(q) /\ crowded \subseteq crowded'
    BY <1>2 DEF IInv
  <2>2. q = p /\ q \notin crowded' => \A i \in Jobs : job[i].pod # p
    BY <1>2
  <2> QED BY <1>2, <1>3, <2>1, <2>2 DEF OnePipeline
<1> QED BY <1>3, <1>4, <1>5 DEF IInv

LEMMA PostAgainKeeps ==
  ASSUME IInv, NEW j \in Jobs, PostAgain(j)
  PROVE  IInv'
<1> DEFINE n == Len(rows)
<1>1. n \in Nat /\ DOMAIN rows = 1..n /\ TypeOK /\ n <= n
  BY DEF IInv, TypeOK
<1>2. Schedules(j, again) /\ again \in 1..n /\ again' = 0
  BY <1>1 DEF PostAgain, Listens, TypeOK
<1>3. UNCHANGED <<notebook, rows, audio, crowded, lost>>
  BY DEF PostAgain
<1>4. /\ job' \in [Jobs -> JobRow(n)]
      /\ \A i \in Jobs \ {j} : job'[i] = job[i]
      /\ job[j].pod = 0 /\ job'[j] = [pod |-> again, at |-> "queued"]
  BY <1>1, <1>2, Scheduled
<1>5. TypeOK'
  BY <1>1, <1>2, <1>3, <1>4 DEF TypeOK, JobRow
<1>6. ASSUME NEW q \in 1..n PROVE OnePipeline(q)'
  <2>1. OnePipeline(q)
    BY DEF IInv
  <2>2. CASE q # again
    BY <1>1, <1>2, <1>3, <2>1, <2>2, ScheduledKeeps
  <2>3. CASE q = again
    <3>1. rows[q].status \in InProgress => rows[q].status \notin {"ready", "deleted"}
      BY DEF InProgress
    <3> QED BY <1>1, <1>2, <1>3, <1>4, <2>1, <2>3, <3>1 DEF OnePipeline
  <2> QED BY <2>2, <2>3
<1> QED BY <1>3, <1>5, <1>6 DEF IInv

LEMMA PostNewKeeps ==
  ASSUME IInv, NEW j \in Jobs, PostNew(j)
  PROVE  IInv'
<1> DEFINE n == Len(rows)
           r == [status |-> "pending", path |-> FALSE]
<1>1. n \in Nat /\ TypeOK /\ n < MaxPodcasts /\ MaxPodcasts \in Nat
  BY ConstantsAssumption DEF IInv, TypeOK, PostNew
<1>2. r \in Row /\ r.status = "pending" /\ r.path # TRUE
  BY DEF Row, Statuses
<1>3. /\ rows' \in Seq(Row) /\ Len(rows') = n + 1 /\ rows'[n + 1] = r
      /\ \A q \in 1..n : rows'[q] = rows[q]
  <2> HIDE DEF r
  <2>1. rows' = Append(rows, r)
    BY DEF PostNew, r
  <2> QED BY <1>1, <1>2, <2>1 DEF TypeOK
<1> HIDE DEF r
<1>4. Schedules(j, n + 1) /\ UNCHANGED <<notebook, audio, again, crowded, lost>> /\ again = 0
  BY DEF PostNew, Listens
<1>5. /\ job' \in [Jobs -> JobRow(n + 1)] /\ crowded \subseteq 1..(n + 1)
      /\ \A i \in Jobs \ {j} : job'[i] = job[i]
      /\ job'[j] = [pod |-> n + 1, at |-> "queued"]
      /\ \A i \in Jobs : job[i].pod # n + 1
  <2>1. n + 1 \in Nat /\ Len(rows) <= n + 1 /\ n + 1 \in 1..(n + 1)
    BY <1>1
  <2>2. \A i \in Jobs : job[i].pod # n + 1
    BY <1>1 DEF TypeOK, NoJob
  <2> QED BY <1>1, <1>4, <2>1, <2>2, Scheduled DEF TypeOK
<1>6. TypeOK'
  BY <1>1, <1>3, <1>4, <1>5 DEF TypeOK, JobRow
<1>7. \A q \in 1..n : OnePipeline(q)'
  <2>1. n + 1 \in Nat /\ Len(rows) <= n + 1 /\ n + 1 \in 1..(n + 1)
    BY <1>1
  <2>2. \A q \in 1..n : q # n + 1
    BY <1>1
  <2> QED BY <1>1, <1>3, <1>4, <2>1, <2>2, ScheduledKeeps DEF IInv
<1>8. \A q \in {n + 1} : OnePipeline(q)'
  <2>0. again' # n + 1
    BY <1>1, <1>4
  <2> SUFFICES ASSUME NEW q, q = n + 1, q \notin crowded'
               PROVE  /\ \A i, k \in Jobs : job'[i].pod = q /\ job'[k].pod = q => i = k
                      /\ rows'[q].path # TRUE /\ rows'[q].status # "ready"
                      /\ \A i \in Jobs : job'[i].pod = q => job'[i].at = "queued"
    BY <2>0 DEF OnePipeline
  <2>1. \A i \in Jobs \ {j} : job'[i].pod # q
    BY <1>5
  <2>2. job'[j].at = "queued"
    BY <1>5
  <2>3. rows'[q].path # TRUE /\ rows'[q].status # "ready"
    BY <1>2, <1>3
  <2> QED BY <2>1, <2>2, <2>3
<1>9. 1..Len(rows') = 1..n \cup {n + 1}
  BY <1>1, <1>3
<1> QED BY <1>6, <1>7, <1>8, <1>9 DEF IInv

LEMMA DeleteKeeps ==
  ASSUME IInv, Delete
  PROVE  IInv'
<1> DEFINE n == Len(rows)
<1>1. n \in Nat /\ DOMAIN rows = 1..n /\ TypeOK /\ n <= MaxPodcasts /\ MaxPodcasts \in Nat
  BY ConstantsAssumption DEF IInv, TypeOK
<1>2. PICK p \in 1..n :
        /\ audio' = IF rows[p].path THEN [audio EXCEPT ![p] = "none"] ELSE audio
        /\ rows' = [rows EXCEPT ![p].status = "deleted"] \/ rows' = rows
  BY <1>1 DEF Delete
<1>3. UNCHANGED <<notebook, job, again, crowded, lost>> /\ again = 0
  BY DEF Delete, Listens
<1> DEFINE r == [rows[p] EXCEPT !.status = "deleted"]
<1>4. rows[p] \in Row
  BY <1>1 DEF TypeOK
<1>5. r \in Row /\ r.status = "deleted" /\ r.path = rows[p].path
  BY <1>4 DEF Row, Statuses
<1>6. rows' = [rows EXCEPT ![p] = r] \/ rows' = rows
  BY <1>2
<1> HIDE DEF r
<1>7. /\ rows' \in Seq(Row) /\ Len(rows') = n
      /\ \A q \in 1..n \ {p} : rows'[q] = rows[q]
      /\ rows'[p] = r \/ rows'[p] = rows[p]
  BY <1>1, <1>5, <1>6, RowChanged DEF TypeOK
<1>8. /\ audio' \in [1..MaxPodcasts -> Audio]
      /\ \A q \in 1..n \ {p} : audio'[q] = audio[q]
      /\ audio'[p] = "none" \/ audio'[p] = audio[p]
      /\ rows[p].path # TRUE => audio'[p] = audio[p]
  <2>1. p \in 1..MaxPodcasts /\ \A q \in 1..n : q \in 1..MaxPodcasts
    BY <1>1
  <2>2. CASE rows[p].path = TRUE
    BY <1>1, <1>2, <2>1, <2>2 DEF TypeOK, Audio
  <2>3. CASE rows[p].path # TRUE
    <3>1. rows[p].path = FALSE
      BY <1>4, <2>3 DEF Row
    <3> QED BY <1>1, <1>2, <3>1 DEF TypeOK
  <2> QED BY <2>2, <2>3
<1>9. TypeOK'
  BY <1>1, <1>3, <1>7, <1>8 DEF TypeOK
<1>10. ASSUME NEW q \in 1..n PROVE OnePipeline(q)'
  <2>1. OnePipeline(q) /\ again # q
    BY <1>1, <1>3 DEF IInv
  <2>2. CASE q # p
    BY <1>3, <1>7, <1>8, <2>1, <2>2 DEF OnePipeline
  <2>3. CASE q = p
    BY <1>3, <1>5, <1>7, <1>8, <2>1, <2>3 DEF OnePipeline
  <2> QED BY <2>2, <2>3
<1> QED BY <1>7, <1>9, <1>10 DEF IInv

LEMMA DeleteNotebookKeeps ==
  ASSUME IInv, DeleteNotebook
  PROVE  IInv'
<1> DEFINE n == Len(rows)
<1>1. n \in Nat /\ DOMAIN rows = 1..n /\ TypeOK
  BY DEF IInv, TypeOK
<1>2. /\ rows' = [p \in 1..n |-> [rows[p] EXCEPT !.status = "deleted"]]
      /\ notebook' \in BOOLEAN /\ UNCHANGED <<audio, job, again, crowded, lost>> /\ again = 0
  BY <1>1 DEF DeleteNotebook, Listens
<1>3. \A p \in 1..n : /\ rows'[p] \in Row /\ rows'[p].status = "deleted"
                      /\ rows'[p].path = rows[p].path
  <2> TAKE p \in 1..n
  <2>1. rows[p] \in Row
    BY <1>1 DEF TypeOK
  <2> QED BY <1>2, <2>1 DEF Row, Statuses
<1>4. rows' \in Seq(Row) /\ Len(rows') = n
  BY <1>1, <1>2, <1>3
<1>5. TypeOK'
  BY <1>1, <1>2, <1>4 DEF TypeOK
<1>6. ASSUME NEW p \in 1..n PROVE OnePipeline(p)'
  <2>1. OnePipeline(p) /\ again # p
    BY <1>1, <1>2 DEF IInv
  <2> QED BY <1>2, <1>3, <2>1 DEF OnePipeline
<1> QED BY <1>4, <1>5, <1>6 DEF IInv

-----------------------------------------------------------------------------
(* Pipelines.                                                              *)

\* A step of a pipeline: it ends or goes on with the same podcast, and touches
\* that podcast's row and file only.
Frame(j) ==
  /\ job[j] # NoJob
  /\ \/ job' = [job EXCEPT ![j] = NoJob]
     \/ \E step \in Steps : job' = [job EXCEPT ![j].at = step]
     \/ job' = job
  /\ rows' = rows \/ \E r \in Row : rows' = [rows EXCEPT ![job[j].pod] = r]
  /\ audio' = audio \/ \E a \in Audio : audio' = [audio EXCEPT ![job[j].pod] = a]
  /\ again' = again /\ crowded' = crowded /\ notebook' = notebook /\ lost' \in BOOLEAN

LEMMA FrameKeeps ==
  ASSUME IInv, NEW j \in Jobs, Frame(j)
  PROVE  /\ job[j].pod \in 1..Len(rows) /\ TypeOK' /\ Len(rows') = Len(rows)
         /\ job'[j] = NoJob \/ job'[j].pod = job[j].pod
         /\ \A i \in Jobs \ {j} : job'[i] = job[i]
         /\ \A q \in 1..Len(rows) \ {job[j].pod} : OnePipeline(q)'
<1> DEFINE n == Len(rows)
           p == job[j].pod
<1>1. n \in Nat /\ TypeOK /\ n <= MaxPodcasts /\ MaxPodcasts \in Nat
  BY ConstantsAssumption DEF IInv, TypeOK
<1>2. job[j] \in [pod : 1..n, at : Steps]
  BY <1>1 DEF TypeOK, Frame
<1>3. p \in 1..n /\ p \in 1..MaxPodcasts
  BY <1>1, <1>2
<1>4. /\ job' \in [Jobs -> JobRow(n)]
      /\ job'[j] = NoJob \/ job'[j].pod = p
      /\ \A i \in Jobs \ {j} : job'[i] = job[i]
  <2>1. CASE job' = [job EXCEPT ![j] = NoJob]
    BY <1>1, <2>1 DEF TypeOK, JobRow
  <2>2. ASSUME NEW step \in Steps, job' = [job EXCEPT ![j].at = step]
        PROVE  /\ job' \in [Jobs -> JobRow(n)]
               /\ job'[j].pod = p
               /\ \A i \in Jobs \ {j} : job'[i] = job[i]
    BY <1>1, <1>2, <2>2 DEF TypeOK, JobRow
  <2>3. CASE job' = job
    BY <1>1, <2>3 DEF TypeOK, JobRow
  <2> QED BY <2>1, <2>2, <2>3 DEF Frame
<1>5. /\ rows' \in Seq(Row) /\ Len(rows') = n
      /\ \A q \in 1..n \ {p} : rows'[q] = rows[q]
  BY <1>1, <1>3, RowChanged DEF Frame, TypeOK
<1>6. /\ audio' \in [1..MaxPodcasts -> Audio]
      /\ \A q \in 1..n \ {p} : audio'[q] = audio[q]
  BY <1>1, <1>3 DEF Frame, TypeOK
<1>7. TypeOK'
  BY <1>1, <1>4, <1>5, <1>6 DEF Frame, TypeOK, JobRow
<1>8. ASSUME NEW q \in 1..n \ {p} PROVE OnePipeline(q)'
  <2>1. OnePipeline(q) /\ q # 0
    BY <1>1 DEF IInv
  <2>2. \A i \in Jobs : job'[i].pod = q => i # j /\ job'[i] = job[i]
    BY <1>4, <2>1 DEF NoJob
  <2>3. rows'[q] = rows[q] /\ audio'[q] = audio[q] /\ crowded' = crowded /\ again' = again
    BY <1>5, <1>6 DEF Frame
  <2>4. \A i \in Jobs : job[i].pod = q => i # j /\ job'[i] = job[i]
    BY <1>4
  <2> QED BY <2>1, <2>2, <2>3, <2>4 DEF OnePipeline
<1> QED BY <1>3, <1>4, <1>5, <1>7, <1>8

\* The podcast of the pipeline: it is not ready before, and either not after or
\* the pipeline has written the file and ends.
LEMMA OwnKeeps ==
  ASSUME IInv, NEW j \in Jobs, Frame(j), NEW p, p = job[j].pod,
         p \notin crowded =>
           \/ /\ rows'[p].path # TRUE /\ rows'[p].status # "ready"
              /\ job'[j].at = "write" => audio'[p] = "partial"
              /\ job'[j].at = "finish" => audio'[p] = "whole"
           \/ /\ job'[j] = NoJob /\ rows'[p].path = TRUE
              /\ rows'[p].status = "ready" /\ audio'[p] = "whole"
  PROVE  IInv'
<1>1. /\ p \in 1..Len(rows) /\ TypeOK' /\ Len(rows') = Len(rows)
      /\ job'[j] = NoJob \/ job'[j].pod = p
      /\ \A i \in Jobs \ {j} : job'[i] = job[i]
      /\ \A q \in 1..Len(rows) \ {p} : OnePipeline(q)'
  BY FrameKeeps
<1>2. p # 0
  BY <1>1 DEF IInv, TypeOK
<1>3. p \notin crowded => \A i \in Jobs : job'[i].pod = p => i = j
  BY <1>1 DEF IInv, OnePipeline
<1>4. job'[j] = NoJob => job'[j].pod # p
  BY <1>2 DEF NoJob
<1>6. p \notin crowded => again' # p
  BY <1>1 DEF IInv, OnePipeline, Frame
<1>5. \A q \in {p} : OnePipeline(q)'
  <2> SUFFICES ASSUME NEW q, q = p, q \notin crowded
               PROVE  OnePipeline(q)!2'
    BY DEF OnePipeline, Frame
  <2> QED BY <1>3, <1>4, <1>6
<1> QED BY <1>1, <1>5 DEF IInv

\* Before its step the pipeline's podcast, if it never had two, is not ready.
LEMMA OwnBefore ==
  ASSUME IInv, NEW j \in Jobs, job[j] # NoJob
  PROVE  /\ job[j].pod \in 1..Len(rows) /\ rows[job[j].pod] \in Row
         /\ job[j].pod \notin crowded =>
              /\ rows[job[j].pod].path # TRUE /\ rows[job[j].pod].status # "ready"
              /\ \A i \in Jobs : job[i].pod = job[j].pod => i = j
<1> DEFINE p == job[j].pod
<1>1. job[j] \in [pod : 1..Len(rows), at : Steps]
  BY DEF IInv, TypeOK
<1>2. p \in 1..Len(rows) /\ rows[p] \in Row
  BY <1>1 DEF IInv, TypeOK
<1>3. OnePipeline(p)
  BY <1>2 DEF IInv
<1> QED BY <1>2, <1>3 DEF OnePipeline

\* update_podcast with a status changes this row only, and its path not.
LEMMA StatusSet ==
  ASSUME IInv, NEW j \in Jobs, job[j] # NoJob, NEW st \in Statuses,
         SetStatus(j, st) \/ UNCHANGED rows
  PROVE  /\ rows' = rows \/ \E r \in Row : rows' = [rows EXCEPT ![job[j].pod] = r]
         /\ rows'[job[j].pod].path = rows[job[j].pod].path
         /\ rows'[job[j].pod].status \in {st, rows[job[j].pod].status}
<1> DEFINE p == job[j].pod
           r == [rows[p] EXCEPT !.status = st]
<1>1. p \in 1..Len(rows) /\ rows[p] \in Row
  BY OwnBefore
<1>2. r \in Row /\ r.path = rows[p].path /\ r.status = st
  BY <1>1 DEF Row
<1>3. rows' = rows \/ rows' = [rows EXCEPT ![p] = r]
  BY DEF SetStatus
<1> HIDE DEF r
<1>4. rows' = [rows EXCEPT ![p] = r] => rows'[p] = r
  BY <1>1, <1>2, RowChanged DEF IInv
<1> QED BY <1>2, <1>3, <1>4

\* A step that sets a status other than ready and goes on, or ends.
LEMMA GoesOnKeeps ==
  ASSUME IInv, NEW j \in Jobs, job[j] # NoJob, NEW st \in Statuses \ {"ready"},
         SetStatus(j, st) \/ UNCHANGED rows,
         UNCHANGED <<notebook, audio, again, crowded>>, lost' \in BOOLEAN,
         NEW step \in Steps \ {"write", "finish"}, Goto(j, step) \/ Ends(j)
  PROVE  IInv'
<1> DEFINE p == job[j].pod
<1>1. /\ rows' = rows \/ \E r \in Row : rows' = [rows EXCEPT ![p] = r]
      /\ rows'[p].path = rows[p].path
      /\ rows'[p].status \in {st, rows[p].status}
  BY StatusSet
<1>2. p \notin crowded => rows'[p].path # TRUE /\ rows'[p].status # "ready"
  BY <1>1, OwnBefore
<1>3. Frame(j)
  BY <1>1 DEF Frame, Goto, Ends
<1>4. job'[j].at \in {step, "none"}
  BY DEF Goto, Ends, NoJob, IInv, TypeOK
<1> QED BY <1>2, <1>3, <1>4, OwnKeeps DEF Steps

\* The except clause.
LEMMA RaiseKeeps ==
  ASSUME IInv, NEW j \in Jobs, job[j] # NoJob, Raise(j)
  PROVE  IInv'
<1>1. "error" \in Statuses \ {"ready"} /\ "queued" \in Steps \ {"write", "finish"}
  BY DEF Statuses, Steps
<1>2. /\ SetStatus(j, "error") \/ UNCHANGED rows
      /\ UNCHANGED <<notebook, audio, again, crowded>> /\ Ends(j)
      /\ lost' \in BOOLEAN
  BY DEF Raise, IInv, TypeOK
<1> QED BY <1>1, <1>2, GoesOnKeeps

LEMMA PreparesKeep ==
  ASSUME IInv, NEW j \in Jobs, job[j] # NoJob,
         Starts(j) \/ Skips(j) \/ StartFails(j) \/ Prepared(j) \/ Voiced(j)
  PROVE  IInv'
<1>0. lost \in BOOLEAN
  BY DEF IInv, TypeOK
<1>1. /\ \A st \in {"preparing", "voicing", "assembling"} : st \in Statuses \ {"ready"}
      /\ \A step \in {"prepare", "voice", "open"} : step \in Steps \ {"write", "finish"}
  BY DEF Statuses, Steps
<1>2. CASE Starts(j)
  <2>1. /\ SetStatus(j, "preparing") \/ UNCHANGED rows
        /\ UNCHANGED <<notebook, audio, again, crowded>> /\ lost' \in BOOLEAN /\ Goto(j, "prepare")
    BY <1>0, <1>2 DEF Starts, Progresses
  <2> QED BY <1>1, <2>1, GoesOnKeeps
<1>3. CASE Skips(j) \/ StartFails(j)
  <2>1. /\ UNCHANGED <<notebook, rows, audio, again, crowded>> /\ lost' \in BOOLEAN /\ Ends(j)
    BY <1>0, <1>3 DEF Skips, StartFails
  <2> QED BY <1>1, <2>1, GoesOnKeeps
<1>4. CASE Prepared(j)
  <2>1. /\ SetStatus(j, "voicing") \/ UNCHANGED rows
        /\ UNCHANGED <<notebook, audio, again, crowded>> /\ lost' \in BOOLEAN /\ Goto(j, "voice")
    BY <1>0, <1>4 DEF Prepared, Progresses
  <2> QED BY <1>1, <2>1, GoesOnKeeps
<1>5. CASE Voiced(j)
  <2>1. /\ SetStatus(j, "assembling") \/ UNCHANGED rows
        /\ UNCHANGED <<notebook, audio, again, crowded>> /\ lost' \in BOOLEAN /\ Goto(j, "open")
    BY <1>0, <1>5 DEF Voiced, Progresses
  <2> QED BY <1>1, <2>1, GoesOnKeeps
<1> QED BY <1>2, <1>3, <1>4, <1>5

LEMMA VoicesOnKeeps ==
  ASSUME IInv, NEW j \in Jobs, VoicesOn(j)
  PROVE  IInv'
<1> DEFINE p == job[j].pod
<1>1. job[j] # NoJob /\ job[j].at = "voice" /\ lost \in BOOLEAN /\ "voicing" \in Statuses
  BY DEF VoicesOn, NoJob, IInv, TypeOK, Statuses
<1>2. /\ SetStatus(j, "voicing") \/ UNCHANGED rows
      /\ UNCHANGED <<notebook, audio, job, again, crowded, lost>>
  BY DEF VoicesOn, Progresses
<1>3. /\ rows' = rows \/ \E r \in Row : rows' = [rows EXCEPT ![p] = r]
      /\ rows'[p].path = rows[p].path
      /\ rows'[p].status \in {"voicing", rows[p].status}
  BY <1>1, <1>2, StatusSet
<1>4. Frame(j)
  BY <1>1, <1>2, <1>3 DEF Frame
<1>5. p \notin crowded => rows'[p].path # TRUE /\ rows'[p].status # "ready"
  BY <1>1, <1>3, OwnBefore
<1> QED BY <1>1, <1>2, <1>4, <1>5, OwnKeeps

\* A pipeline that is the only one of its podcast finds no other in its file.
LEMMA OpensKeeps ==
  ASSUME IInv, NEW j \in Jobs, Opens(j)
  PROVE  IInv'
<1> DEFINE p == job[j].pod
           a == IF \E i \in Jobs : job[i] = [pod |-> p, at |-> "write"]
                  THEN "mixed" ELSE "partial"
<1>1. job[j] # NoJob /\ job[j].at = "open" /\ TypeOK
  BY DEF Opens, NoJob, IInv
<1>2. /\ p \in 1..Len(rows)
      /\ p \notin crowded =>
           /\ rows[p].path # TRUE /\ rows[p].status # "ready"
           /\ \A i \in Jobs : job[i].pod = p => i = j
  BY <1>1, OwnBefore
<1>3. /\ UNCHANGED <<notebook, rows, again, crowded, lost>>
      /\ audio' = [audio EXCEPT ![p] = a]
      /\ job' = [job EXCEPT ![j].at = "write"]
  BY DEF Opens, Goto
<1>4. a \in Audio
  BY DEF Audio
<1>5. p \notin crowded => a = "partial"
  <2> SUFFICES ASSUME p \notin crowded, NEW i \in Jobs, job[i] = [pod |-> p, at |-> "write"]
               PROVE  FALSE
    OBVIOUS
  <2>1. i = j
    BY <1>2
  <2> QED BY <1>1, <2>1
<1> HIDE DEF a
<1>6. Frame(j)
  BY <1>1, <1>3, <1>4 DEF Frame, Steps, TypeOK
<1>7. p \in 1..MaxPodcasts
  BY <1>1, <1>2, ConstantsAssumption DEF TypeOK
<1>8. audio'[p] = a /\ job'[j].at = "write"
  BY <1>1, <1>3, <1>7 DEF TypeOK
<1> QED BY <1>2, <1>3, <1>5, <1>6, <1>8, OwnKeeps

LEMMA WrittenKeeps ==
  ASSUME IInv, NEW j \in Jobs, Written(j)
  PROVE  IInv'
<1> DEFINE p == job[j].pod
           a == IF audio[p] = "partial" THEN "whole" ELSE audio[p]
<1>1. job[j] # NoJob /\ job[j].at = "write" /\ TypeOK
  BY DEF Written, NoJob, IInv
<1>2. /\ p \in 1..Len(rows)
      /\ p \notin crowded => rows[p].path # TRUE /\ rows[p].status # "ready"
  BY <1>1, OwnBefore
<1>3. p \in 1..MaxPodcasts
  BY <1>1, <1>2, ConstantsAssumption DEF TypeOK
<1>4. /\ UNCHANGED <<notebook, rows, again, crowded, lost>>
      /\ audio' = [audio EXCEPT ![p] = a]
      /\ job' = [job EXCEPT ![j].at = "finish"]
  BY DEF Written, Goto
<1>5. a \in Audio
  BY <1>1, <1>3 DEF Audio, TypeOK
<1>6. p \notin crowded => a = "whole"
  <2>1. OnePipeline(p)
    BY <1>2 DEF IInv
  <2> QED BY <1>1, <2>1 DEF OnePipeline
<1> HIDE DEF a
<1>7. Frame(j)
  BY <1>1, <1>4, <1>5 DEF Frame, Steps, TypeOK
<1>8. audio'[p] = a /\ job'[j].at = "finish"
  BY <1>1, <1>3, <1>4 DEF TypeOK
<1> QED BY <1>2, <1>4, <1>6, <1>7, <1>8, OwnKeeps

LEMMA FinishesKeeps ==
  ASSUME IInv, NEW j \in Jobs, Finishes(j)
  PROVE  IInv'
<1> DEFINE p == job[j].pod
           r == [status |-> "ready", path |-> TRUE]
<1>1. job[j] # NoJob /\ job[j].at = "finish" /\ TypeOK
  BY DEF Finishes, NoJob, IInv
<1>2. /\ p \in 1..Len(rows)
      /\ p \notin crowded => rows[p].path # TRUE /\ rows[p].status # "ready"
  BY <1>1, OwnBefore
<1>3. p \notin crowded => audio[p] = "whole"
  <2>1. OnePipeline(p)
    BY <1>2 DEF IInv
  <2> QED BY <1>1, <2>1 DEF OnePipeline
<1>4. /\ rows' = rows \/ rows' = [rows EXCEPT ![p] = r]
      /\ UNCHANGED <<notebook, audio, again, crowded, lost>>
      /\ job' = [job EXCEPT ![j] = NoJob]
  BY DEF Finishes, Ends
<1>5. r \in Row /\ r.status = "ready" /\ r.path = TRUE
  BY DEF Row, Statuses
<1> HIDE DEF r
<1>6. Frame(j)
  BY <1>1, <1>4, <1>5 DEF Frame, TypeOK
<1>7. job'[j] = NoJob /\ NoJob.at = "none"
  BY <1>1, <1>4 DEF TypeOK, NoJob
<1>8. CASE rows' = rows
  BY <1>2, <1>6, <1>7, <1>8, OwnKeeps
<1>9. CASE rows' = [rows EXCEPT ![p] = r]
  <2>1. rows'[p] = r
    BY <1>1, <1>2, <1>5, <1>9, RowChanged
  <2> QED BY <1>3, <1>4, <1>5, <1>6, <1>7, <2>1, OwnKeeps
<1> QED BY <1>4, <1>8, <1>9

LEMMA CrashKeeps ==
  ASSUME IInv, Crash
  PROVE  IInv'
<1>1. /\ TypeOK /\ UNCHANGED <<notebook, rows, audio, crowded>>
      /\ again' = 0 /\ \A j \in Jobs : job'[j] = NoJob
      /\ job' \in [Jobs -> JobRow(Len(rows))] /\ lost' \in BOOLEAN
  BY DEF IInv, Crash, JobRow
<1>2. TypeOK'
  BY <1>1 DEF TypeOK, JobRow
<1>3. ASSUME NEW p \in 1..Len(rows) PROVE OnePipeline(p)'
  <2>1. OnePipeline(p) /\ p # 0
    BY <1>1 DEF IInv, TypeOK
  <2>2. \A j \in Jobs : job'[j].pod # p
    BY <1>1, <2>1 DEF NoJob
  <2> QED BY <1>1, <2>1, <2>2 DEF OnePipeline
<1> QED BY <1>1, <1>2, <1>3 DEF IInv

-----------------------------------------------------------------------------

LEMMA StepIInv == IInv /\ [Next]_vars => IInv'
<1> SUFFICES ASSUME IInv, [Next]_vars PROVE IInv'
  OBVIOUS
<1>1. ASSUME NEW j \in Jobs, PostAgain(j) \/ PostNew(j) PROVE IInv'
  BY <1>1, PostAgainKeeps, PostNewKeeps
<1>2. ASSUME NEW j \in Jobs, JobStep(j) PROVE IInv'
  <2>1. job[j] # NoJob
    BY <1>2 DEF JobStep, Starts, Skips, StartFails, Prepared, Voiced, Fails, Opens,
                Written, Finishes, FinishFails, NoJob
  <2>2. CASE Fails(j) \/ FinishFails(j)
    BY <2>1, <2>2, RaiseKeeps DEF Fails, FinishFails
  <2> QED BY <1>2, <2>1, <2>2, PreparesKeep, OpensKeeps, WrittenKeeps, FinishesKeeps
          DEF JobStep
<1>3. CASE UNCHANGED vars
  BY <1>3 DEF vars, IInv, TypeOK, OnePipeline
<1> QED BY <1>1, <1>2, <1>3, FindsKeeps, DeleteKeeps, DeleteNotebookKeeps, VoicesOnKeeps, CrashKeeps DEF Next

\* Every variable stays in its range, for any number of podcasts and pipelines.
THEOREM PodcastsTyped == Spec => []TypeOK
<1>1. IInv => TypeOK
  BY DEF IInv
<1> QED BY <1>1, InitIInv, StepIInv, PTL DEF Spec

\* get_podcast_audio never serves half a file of a podcast that was never asked for again
\* while a pipeline was at work on it.
THEOREM ServedWhole == Spec => []ServedIsWhole
<1>1. IInv => ServedIsWhole
  BY DEF IInv, TypeOK, OnePipeline, ServedIsWhole
<1> QED BY <1>1, InitIInv, StepIInv, PTL DEF Spec

\* What is ready has no pipeline, so no step but a deletion changes its row.
LEMMA ReadyIsLeft ==
  ASSUME IInv, [Next]_vars, NEW p \in DOMAIN rows \ crowded', rows[p].status = "ready"
  PROVE  rows'[p].status \in {"ready", "deleted"}
<1>1. p \in 1..Len(rows) /\ DOMAIN rows = 1..Len(rows) /\ TypeOK
  BY DEF IInv, TypeOK
<1>2. ASSUME NEW j \in Jobs, PostAgain(j) \/ PostNew(j) PROVE rows'[p] = rows[p]
  <2>1. CASE PostAgain(j)
    BY <2>1 DEF PostAgain
  <2>2. CASE PostNew(j)
    <3>1. rows' = Append(rows, [status |-> "pending", path |-> FALSE])
      BY <2>2 DEF PostNew
    <3> QED BY <1>1, <3>1 DEF TypeOK
  <2> QED BY <1>2, <2>1, <2>2
<1>3. CASE Delete
  <2>1. PICK q \in DOMAIN rows : rows' = [rows EXCEPT ![q].status = "deleted"] \/ rows' = rows
    BY <1>3 DEF Delete
  <2>2. rows[p] \in Row
    BY <1>1 DEF TypeOK
  <2>3. rows'[p] = [rows[p] EXCEPT !.status = "deleted"] \/ rows'[p] = rows[p]
    BY <1>1, <2>1 DEF TypeOK
  <2> QED BY <2>2, <2>3 DEF Row
<1>4. ASSUME NEW j \in Jobs, JobStep(j) \/ VoicesOn(j) PROVE rows'[p] = rows[p]
  <2>1. crowded' = crowded
    BY <1>4 DEF JobStep, Starts, Skips, StartFails, Prepared, Voiced, VoicesOn, Fails, Raise,
                Opens, Written, Finishes, FinishFails
  <2>2. job[j].pod # p
    BY <1>1, <2>1 DEF IInv, OnePipeline
  <2>3. rows' = rows \/ \E r : rows' = [rows EXCEPT ![job[j].pod] = r]
    BY <1>4 DEF JobStep, Starts, Skips, StartFails, Prepared, Voiced, VoicesOn, Fails, Raise,
                Opens, Written, Finishes, FinishFails, Progresses, SetStatus
  <2> QED BY <1>1, <2>2, <2>3 DEF TypeOK
<1>5. CASE DeleteNotebook
  <2>1. rows[p] \in Row
    BY <1>1 DEF TypeOK
  <2> QED BY <1>1, <1>5, <2>1 DEF DeleteNotebook, Row
<1>6. CASE Finds \/ Crash \/ UNCHANGED vars
  BY <1>6 DEF Finds, Crash, vars
<1> QED BY <1>2, <1>3, <1>4, <1>5, <1>6 DEF Next

\* A finished podcast is not taken back by later requests, if none of them came while a
\* pipeline was at work on it.
THEOREM ReadyStays == Spec => ReadyKept
<1>1. IInv /\ [Next]_vars =>
        [\A p \in DOMAIN rows \ crowded' :
           rows[p].status = "ready" => rows'[p].status \in {"ready", "deleted"}]_vars
  BY ReadyIsLeft
<1> QED BY <1>1, InitIInv, StepIInv, PTL DEF Spec, ReadyKept
=============================================================================
