-------------------------- MODULE WorktreesProofs --------------------------
(* Proofs about Worktrees, for any number of sessions, request handlers and  *)
(* commits: what a worktree holds, what was reported of it and where its     *)
(* history begins.                                                           *)
EXTENDS Worktrees, WellFoundedInduction, TLAPS

Ops == {"none", "tool", "stray", "checkpoint", "commit", "restore", "revert", "cancel", "merge"}
Places == {"none", "write", "add", "commit", "branch", "reset", "add again", "recommit",
           "list", "checkout", "remove", "merge", "abort"}
Jobs == [op : Ops, sess : Sessions \cup {Default}, at : Places, ref : Targets \cup Names,
         sha : Nat]

TypesOK ==
  /\ made \in Commits
  /\ commit \in [Commits -> Commit]
  /\ tip \in [Branches -> 0..made]
  /\ \A t \in Targets : tip[t] # 0
  /\ clone \in [on : Targets, conflict : BOOLEAN]
  /\ wt \in [Sessions -> [there : BOOLEAN, on : Branches,
                          staged : SUBSET Edits, dirty : SUBSET Edits]]
  /\ base \in [Sessions -> 0..made]
  /\ edits \in [Sessions -> 0..MaxEdits]
  /\ counter \in [Sessions -> Nat]
  /\ job \in [Actors -> Jobs]
  /\ reported \in [Sessions -> SUBSET Edits]

\* Git's history: it is transitive, holds the first parent, and a commit
\* contains what its ancestors contain, since no command makes a commit that
\* takes something out.
HistoryOK ==
  \A c \in 1..made :
    /\ c \in commit[c].anc /\ commit[c].anc \subseteq 1..made
    /\ commit[c].parent # 0 => commit[c].parent \in commit[c].anc
    /\ \A d \in commit[c].anc : /\ commit[d].anc \subseteq commit[c].anc
                                /\ Has(d) \subseteq Has(c)

\* The edits of the target branches, and those that a session's worktree may hold.
Merged == UNION {Has(tip[t]) : t \in Targets}
Allowed(s) == {e \in Edits : e[1] = s} \cup Merged

\* A history that began at the commit a worktree started from: whatever is not
\* older than that commit descends from it.
Rooted(s, c) ==
  Checkpoints(base[s]) = {} =>
    /\ base[s] \in commit[c].anc
    /\ \A d \in commit[c].anc \ commit[base[s]].anc :
         commit[d].parent # 0 /\ base[s] \in commit[commit[d].parent].anc

\* A commit that the branch of a session's worktree may be moved to.
MayPoint(s, c) == c \in 1..made /\ Has(c) \subseteq Allowed(s) /\ Rooted(s, c)

\* A worktree has a branch of its own.
BranchesOK ==
  \A s \in Sessions : wt[s].there =>
    /\ wt[s].on \in {s} \cup Names
    /\ \A t \in Sessions \ {s} : wt[t].there => wt[t].on # wt[s].on

WorktreeOK(s) ==
  IF ~ wt[s].there THEN reported[s] = {} ELSE
    /\ base[s] # 0
    /\ MayPoint(s, Head(s))
    /\ wt[s].staged \subseteq Allowed(s) /\ wt[s].dirty \subseteq Allowed(s)
    /\ reported[s] \subseteq Has(Head(s)) \cup wt[s].staged

\* What an actor's thread will use of what it has read.
JobOK(a) ==
  /\ job[a].op = "none" => job[a].at = "none"
  /\ job[a].op # "none" => job[a].sess \in Sessions /\ base[job[a].sess] # 0
  /\ a \in Sessions => job[a].op \in {"none", "tool", "stray", "checkpoint"}
  /\ a \in Sessions /\ job[a].op # "none" => job[a].sess = a
  /\ job[a].at = "write" => a \in Sessions /\ edits[a] < MaxEdits
  /\ At(a, "commit", "branch") => job[a].ref \in Names
  /\ At(a, "cancel", "branch") => ~ wt[job[a].sess].there
  /\ At(a, "merge", "checkout") => job[a].ref \in Targets
  /\ At(a, "commit", "reset") \/ At(a, "restore", "reset") =>
       MayPoint(job[a].sess, job[a].sha)

IInv ==
  /\ TypesOK
  /\ HistoryOK
  /\ BranchesOK
  /\ \A s \in Sessions : WorktreeOK(s)
  /\ \A a \in Actors : JobOK(a)

-----------------------------------------------------------------------------
(* What no step may do.                                                    *)

CommitsKept == made' \in Commits /\ made <= made' /\ \A c \in 1..made : commit'[c] = commit[c]
MergedKept == Merged \subseteq Merged'
BasesKept == \A s \in Sessions : base[s] # 0 =>
               base'[s] = base[s] /\ (wt'[s].there => wt[s].there)

Kept == CommitsKept /\ MergedKept /\ BasesKept

LEMMA MayPointKept ==
  ASSUME TypesOK, HistoryOK, Kept, NEW s \in Sessions, base[s] # 0, NEW c, MayPoint(s, c)
  PROVE  MayPoint(s, c)'
<1>1. c \in 1..made /\ base[s] \in 1..made /\ base'[s] = base[s] /\ 1..made \subseteq 1..made'
  BY DEF MayPoint, TypesOK, Kept, BasesKept, CommitsKept, Commits
<1>2. commit'[c] = commit[c] /\ commit'[base[s]] = commit[base[s]]
  BY <1>1 DEF Kept, CommitsKept
<1>3. Has(c)' \subseteq Allowed(s)'
  BY <1>2 DEF MayPoint, Has, Allowed, Kept, MergedKept
<1>4. \A d \in commit[c].anc : commit'[d] = commit[d] /\ d \in 1..made
  BY <1>1 DEF HistoryOK, Kept, CommitsKept
<1>5. \A d \in commit[c].anc : commit[d].parent # 0 =>
        commit'[commit[d].parent] = commit[commit[d].parent]
  BY <1>4 DEF HistoryOK, Kept, CommitsKept
<1>6. Checkpoints(base[s])' = Checkpoints(base[s])
  <2>1. \A d \in commit[base[s]].anc : commit'[d] = commit[d]
    BY <1>1 DEF HistoryOK, Kept, CommitsKept
  <2> QED BY <1>1, <1>2, <2>1 DEF Checkpoints
<1>7. Rooted(s, c)'
  BY <1>1, <1>2, <1>4, <1>5, <1>6 DEF MayPoint, Rooted
<1> QED BY <1>1, <1>3, <1>7 DEF MayPoint

LEMMA JobKept ==
  ASSUME IInv, Kept, NEW a \in Actors, job'[a] = job[a],
         a \in Sessions => edits'[a] = edits[a]
  PROVE  JobOK(a)'
<1>1. JobOK(a) /\ TypesOK /\ HistoryOK
  BY DEF IInv
<1>2. ASSUME job[a].op # "none"
      PROVE  job[a].sess \in Sessions /\ base'[job[a].sess] # 0
  BY <1>1, <1>2 DEF JobOK, Kept, BasesKept
<1>3. At(a, "cancel", "branch")' => ~ wt'[job'[a].sess].there
  BY <1>1 DEF JobOK, At, Kept, BasesKept
<1>4. At(a, "commit", "reset")' \/ At(a, "restore", "reset")' =>
        MayPoint(job[a].sess, job[a].sha)'
  BY <1>1, MayPointKept DEF JobOK, At
<1> QED BY <1>1, <1>2, <1>3, <1>4 DEF JobOK, At

\* The step changes nothing of a worktree and of the branch it is on.
LEMMA WorktreeKept ==
  ASSUME IInv, Kept, NEW s \in Sessions, wt'[s] = wt[s], reported'[s] = reported[s],
         wt[s].there => tip'[wt[s].on] = tip[wt[s].on]
  PROVE  WorktreeOK(s)'
<1> SUFFICES ASSUME wt[s].there
             PROVE  WorktreeOK(s)'
  BY DEF IInv, WorktreeOK
<1>1. WorktreeOK(s) /\ TypesOK /\ HistoryOK /\ base[s] # 0
  BY DEF IInv, WorktreeOK
<1>2. base'[s] # 0 /\ Head(s)' = Head(s)
  BY <1>1 DEF Kept, BasesKept, Head
<1>3. MayPoint(s, Head(s)) /\ Head(s) \in 1..made
  BY <1>1 DEF WorktreeOK, MayPoint
<1>4. MayPoint(s, Head(s))'
  <2> DEFINE h == Head(s)
  <2>1. \A c : MayPoint(s, c) => MayPoint(s, c)'
    BY <1>1, MayPointKept
  <2> QED BY <1>2, <1>3, <2>1 DEF MayPoint, Rooted, Has, Allowed
<1>5. Allowed(s) \subseteq Allowed(s)'
  BY DEF Allowed, Kept, MergedKept
<1>6. Has(Head(s))' = Has(Head(s))
  BY <1>2, <1>3 DEF Has, Kept, CommitsKept
<1> QED BY <1>1, <1>2, <1>4, <1>5, <1>6 DEF WorktreeOK

LEMMA NothingMade ==
  ASSUME TypesOK, HistoryOK, UNCHANGED <<made, commit>>
  PROVE  CommitsKept /\ HistoryOK'
BY DEF TypesOK, HistoryOK, CommitsKept, Has, Commits

LEMMA MergedStays ==
  ASSUME TypesOK, CommitsKept, \A t \in Targets : tip'[t] = tip[t]
  PROVE  MergedKept
<1>1. ASSUME NEW t \in Targets
      PROVE  Has(tip[t])' = Has(tip[t])
  <2>1. tip[t] \in 1..made
    BY DEF TypesOK, Branches, Commits
  <2> QED BY <2>1 DEF Has, CommitsKept
<1> QED BY <1>1 DEF MergedKept, Merged

\* A step that moves one thread and changes neither worktrees nor branches; the
\* thread may have written where there is no worktree.
LEMMA ThreadEdits ==
  ASSUME IInv, NEW a \in Actors,
         UNCHANGED <<made, commit, tip, wt, base, reported>>,
         edits' \in [Sessions -> 0..MaxEdits],
         \A t \in Sessions \ {a} : edits'[t] = edits[t],
         clone' \in [on : Targets, conflict : BOOLEAN],
         counter' \in [Sessions -> Nat],
         NEW r \in Jobs, job' = [job EXCEPT ![a] = r],
         Kept => JobOK(a)'
  PROVE  IInv'
<1>1. TypesOK' /\ \A b \in Actors \ {a} : job'[b] = job[b]
  BY DEF IInv, TypesOK
<1>2. HistoryOK' /\ Kept
  <2>1. CommitsKept /\ HistoryOK'
    BY NothingMade DEF IInv
  <2>2. MergedKept
    BY <2>1, MergedStays DEF IInv
  <2>3. BasesKept
    BY DEF BasesKept
  <2> QED BY <2>1, <2>2, <2>3 DEF Kept
<1>3. BranchesOK'
  BY DEF IInv, BranchesOK
<1>4. \A s \in Sessions : WorktreeOK(s)'
  BY <1>2, WorktreeKept
<1>5. \A b \in Actors : JobOK(b)'
  BY <1>1, <1>2, JobKept
<1> QED BY <1>1, <1>2, <1>3, <1>4, <1>5 DEF IInv

LEMMA ThreadMoves ==
  ASSUME IInv, NEW a \in Actors,
         UNCHANGED <<made, commit, tip, wt, base, edits, reported>>,
         clone' \in [on : Targets, conflict : BOOLEAN],
         counter' \in [Sessions -> Nat],
         NEW r \in Jobs, job' = [job EXCEPT ![a] = r],
         Kept => JobOK(a)'
  PROVE  IInv'
<1>1. edits' \in [Sessions -> 0..MaxEdits] /\ \A t \in Sessions \ {a} : edits'[t] = edits[t]
  BY DEF IInv, TypesOK
<1> QED BY <1>1, ThreadEdits

\* A step of one thread in one worktree, which stays on its branch; the branch
\* may get a new commit or move to another one.
InWorktree(a, s) ==
  /\ wt[s].there /\ wt'[s].there /\ wt'[s].on = wt[s].on
  /\ \A t \in Sessions \ {s} : wt'[t] = wt[t] /\ reported'[t] = reported[t] /\ edits'[t] = edits[t]
  /\ \A b \in Branches \ {wt[s].on} : tip'[b] = tip[b]
  /\ \A b \in Actors \ {a} : job'[b] = job[b] /\ (b \in Sessions => edits'[b] = edits[b])
  /\ UNCHANGED base

LEMMA InWorktreeFrame ==
  ASSUME IInv, NEW a \in Actors, NEW s \in Sessions, InWorktree(a, s), CommitsKept
  PROVE  Kept /\ BranchesOK'
<1>1. wt[s].on \notin Targets
  BY WorktreesAssumption DEF IInv, BranchesOK, InWorktree
<1>2. MergedKept
  BY <1>1, MergedStays DEF IInv, InWorktree, Branches
<1>3. BasesKept
  BY DEF BasesKept, InWorktree
<1>4. BranchesOK'
  BY DEF IInv, BranchesOK, InWorktree
<1> QED BY <1>2, <1>3, <1>4 DEF Kept

LEMMA InWorktreeIInv ==
  ASSUME IInv, NEW a \in Actors, NEW s \in Sessions, InWorktree(a, s),
         TypesOK', CommitsKept, HistoryOK',
         Kept => WorktreeOK(s)', Kept => JobOK(a)'
  PROVE  IInv'
<1>1. Kept /\ BranchesOK'
  BY InWorktreeFrame
<1>2. ASSUME NEW t \in Sessions \ {s}
      PROVE  WorktreeOK(t)'
  <2>1. wt[t].there => wt[t].on # wt[s].on /\ wt[t].on \in Branches
    BY DEF IInv, BranchesOK, InWorktree, TypesOK
  <2> QED BY <1>1, <2>1, WorktreeKept DEF InWorktree
<1>3. ASSUME NEW b \in Actors \ {a}
      PROVE  JobOK(b)'
  BY <1>1, JobKept DEF InWorktree
<1> QED BY <1>1, <1>2, <1>3 DEF IInv

\* A new commit on top of others keeps the laws of the history.
LEMMA NewCommitLaws ==
  ASSUME TypesOK, HistoryOK, NEW b \in Branches, NEW ps \in SUBSET (1..made),
         NEW parent \in ps, NEW has \in SUBSET Edits,
         NEW kind \in {"checkpoint", "commit", "merge"}, NEW step \in Nat,
         \A p \in ps : Has(p) \subseteq has,
         NewCommit(b, parent, ps, has, kind, step)
  PROVE  /\ CommitsKept /\ HistoryOK'
         /\ made' = made + 1 /\ made' \in Commits /\ made' \notin 1..made
         /\ commit' \in [Commits -> Commit] /\ tip' \in [Branches -> 0..made']
         /\ tip' = [tip EXCEPT ![b] = made']
         /\ \A d : d \in commit'[made'].anc <=> d = made' \/ \E p \in ps : d \in commit[p].anc
         /\ commit'[made'].parent = parent /\ commit'[made'].has = has
         /\ commit'[made'].kind = kind
<1> DEFINE new == [anc |-> {made + 1} \cup UNION {commit[p].anc : p \in ps},
                   parent |-> parent, has |-> has, kind |-> kind, step |-> step]
<1>1. made' = made + 1 /\ made' \in Commits /\ made' \notin 1..made
      /\ made \in Nat /\ MaxCommits \in Nat
  BY WorktreesAssumption DEF NewCommit, TypesOK, Commits
<1>2. commit' = [commit EXCEPT ![made'] = new] /\ tip' = [tip EXCEPT ![b] = made']
  BY <1>1 DEF NewCommit
<1>3. UNION {commit[p].anc : p \in ps} \subseteq 1..made
  BY DEF HistoryOK
<1>4. new \in Commit
  <2>1. new.anc \in SUBSET Commits
    BY <1>1, <1>3 DEF Commits
  <2>2. parent \in 0..MaxCommits
    BY <1>1 DEF Commits, TypesOK
  <2> QED BY <2>1, <2>2 DEF Commit
<1>5. commit' \in [Commits -> Commit] /\ tip' \in [Branches -> 0..made']
  BY <1>1, <1>2, <1>4 DEF TypesOK
<1>6. commit'[made'] = new /\ \A c \in 1..made : commit'[c] = commit[c]
  <2>1. made' \in DOMAIN commit
    BY <1>1 DEF TypesOK
  <2>2. \A c \in 1..made : c \in DOMAIN commit /\ c # made'
    BY <1>1 DEF TypesOK, Commits
  <2> HIDE DEF new
  <2> QED BY <1>2, <2>1, <2>2
<1>7. CommitsKept
  BY <1>1, <1>6 DEF CommitsKept
<1>8. HistoryOK'
  <2> SUFFICES ASSUME NEW c \in 1..made'
      PROVE  (/\ c \in commit[c].anc /\ commit[c].anc \subseteq 1..made
              /\ commit[c].parent # 0 => commit[c].parent \in commit[c].anc
              /\ \A d \in commit[c].anc : /\ commit[d].anc \subseteq commit[c].anc
                                          /\ Has(d) \subseteq Has(c))'
    BY DEF HistoryOK
  <2>1. CASE c \in 1..made
    BY <1>1, <1>6, <2>1 DEF HistoryOK, Has
  <2>2. CASE c = made'
    <3>1. commit'[c].anc = {made'} \cup UNION {commit[p].anc : p \in ps}
          /\ commit'[c].parent = parent /\ commit'[c].has = has
      BY <1>1, <1>6, <2>2
    <3>2. parent \in commit'[c].anc
      BY <3>1 DEF HistoryOK
    <3>3. ASSUME NEW p \in ps, NEW d \in commit[p].anc
          PROVE  commit'[d].anc \subseteq commit'[c].anc /\ commit'[d].has \subseteq has
      BY <1>6, <3>1, <3>3 DEF HistoryOK, Has
    <3>4. commit'[c].anc \subseteq 1..made'
      BY <1>1, <1>3, <3>1
    <3>5. \A d \in commit'[c].anc : commit'[d].anc \subseteq commit'[c].anc
                                   /\ commit'[d].has \subseteq commit'[c].has
      BY <2>2, <3>1, <3>3
    <3> QED BY <2>2, <3>1, <3>2, <3>4, <3>5 DEF Has
  <2> QED BY <1>1, <2>1, <2>2
<1>9. \A d : d \in commit'[made'].anc <=> d = made' \/ \E p \in ps : d \in commit[p].anc
  BY <1>1, <1>6
<1> QED BY <1>1, <1>2, <1>5, <1>6, <1>7, <1>8, <1>9

-----------------------------------------------------------------------------
(* Steps that only move a thread.                                          *)

LEMMA MinIsIn ==
  ASSUME NEW S \in SUBSET Nat, S # {}
  PROVE  Min(S) \in S
<1> DEFINE R == {p \in Nat \X Nat : p[1] < p[2]}
<1>1. R = OpToRel(<, Nat)
  BY DEF OpToRel
<1>2. IsWellFoundedOn(R, Nat)
  BY <1>1, NatLessThanWellFounded
<1>3. PICK x \in S : \A y \in S : ~ (<<y, x>> \in R)
  <2> HIDE DEF R
  <2> QED BY <1>2, WFMin
<1>4. ASSUME NEW y \in S PROVE x <= y
  <2>1. <<y, x>> \in Nat \X Nat /\ <<y, x>>[1] = y /\ <<y, x>>[2] = x
    OBVIOUS
  <2>2. ~ (y < x)
    BY <1>3, <2>1
  <2> QED BY <2>2
<1> QED BY <1>4 DEF Min

\* What squash and restore find in the history of a worktree's branch is the
\* session's own.
LEMMA CheckpointMayPoint ==
  ASSUME IInv, NEW s \in Sessions, wt[s].there, NEW c \in Checkpoints(Head(s))
  PROVE  /\ MayPoint(s, c)
         /\ commit[c].parent # 0 => MayPoint(s, commit[c].parent)
<1>1. MayPoint(s, Head(s)) /\ base[s] \in 1..made /\ HistoryOK
  BY DEF IInv, WorktreeOK, TypesOK, Commits
<1>2. c \in commit[Head(s)].anc /\ commit[c].kind = "checkpoint" /\ Head(s) \in 1..made
  BY <1>1 DEF Checkpoints, MayPoint
<1>3. c \in 1..made /\ Has(c) \subseteq Allowed(s) /\ commit[c].anc \subseteq commit[Head(s)].anc
  BY <1>1, <1>2 DEF HistoryOK, MayPoint
<1>4. ASSUME Checkpoints(base[s]) = {}
      PROVE  c \notin commit[base[s]].anc
  BY <1>2, <1>4 DEF Checkpoints
<1>5. Rooted(s, c)
  <2> SUFFICES ASSUME Checkpoints(base[s]) = {}
      PROVE  /\ base[s] \in commit[c].anc
             /\ \A d \in commit[c].anc \ commit[base[s]].anc :
                  commit[d].parent # 0 /\ base[s] \in commit[commit[d].parent].anc
    BY DEF Rooted
  <2>1. commit[c].parent # 0 /\ base[s] \in commit[commit[c].parent].anc
    BY <1>1, <1>2, <1>4 DEF MayPoint, Rooted
  <2>2. base[s] \in commit[c].anc
    BY <1>1, <1>3, <2>1 DEF HistoryOK
  <2> QED BY <1>1, <1>3, <2>2 DEF MayPoint, Rooted
<1>6. ASSUME commit[c].parent # 0
      PROVE  MayPoint(s, commit[c].parent)
  <2> DEFINE p == commit[c].parent
  <2>1. p \in commit[c].anc /\ p \in 1..made
    BY <1>1, <1>3, <1>6 DEF HistoryOK
  <2>2. Has(p) \subseteq Allowed(s) /\ commit[p].anc \subseteq commit[Head(s)].anc
    BY <1>1, <1>3, <2>1 DEF HistoryOK
  <2>3. Rooted(s, p)
    BY <1>1, <1>2, <1>4, <2>2 DEF MayPoint, Rooted
  <2> QED BY <2>1, <2>2, <2>3 DEF MayPoint
<1> QED BY <1>3, <1>5, <1>6 DEF MayPoint

LEMMA IdleOK ==
  ASSUME NEW a \in Actors, job'[a] = Idle
  PROVE  JobOK(a)'
<1>1. /\ job'[a].op = "none" /\ job'[a].at = "none"
  BY DEF Idle
<1> QED BY <1>1 DEF JobOK, At

\* Shapes of the new entry of a thread.
LEMMA ThreadTypes ==
  ASSUME TypesOK, NEW a \in Actors, NEW at \in Places
  PROVE  /\ job[a] \in Jobs /\ Idle \in Jobs
         /\ [job[a] EXCEPT !.at = at] \in Jobs
         /\ [job[a] EXCEPT !.at = at, !.ref = Default, !.sha = 0] \in Jobs
<1>1. job[a] \in Jobs /\ Default \in Targets \cup Names
  BY WorktreesAssumption DEF TypesOK
<1>2. Idle \in Jobs
  BY <1>1 DEF Jobs, Idle, Ops, Places
<1> QED BY <1>1, <1>2 DEF Jobs

LEMMA ReturnIInv ==
  ASSUME IInv, NEW a \in Actors, Return(a),
         UNCHANGED <<made, commit, tip, wt, base, edits, counter, reported>>,
         clone' \in [on : Targets, conflict : BOOLEAN]
  PROVE  IInv'
<1>1. Idle \in Jobs
  BY ThreadTypes DEF IInv, Places
<1>2. job'[a] = Idle
  BY DEF Return, IInv, TypesOK
<1>3. counter' \in [Sessions -> Nat]
  BY DEF IInv, TypesOK
<1> QED BY <1>1, <1>2, <1>3, IdleOK, ThreadMoves DEF Return

\* The invariant says nothing of the places outside the worktrees.
LEMMA NothingMoves ==
  ASSUME IInv,
         UNCHANGED <<made, commit, tip, clone, wt, base, edits, counter, job, reported>>
  PROVE  IInv'
BY DEF IInv, TypesOK, HistoryOK, BranchesOK, WorktreeOK, JobOK, At, MayPoint, Has, Head,
       Allowed, Merged, Rooted, Checkpoints

LEMMA ReturnsIInv ==
  ASSUME IInv,
         \/ \E a \in Actors : Gone(a) \/ ActsOutside(a)
         \/ \E s \in Sessions : CommitSkipped(s)
         \/ \E h \in Handlers : CommitRefused(h) \/ SquashRefused(h) \/ MergeAborts(h)
  PROVE  IInv'
<1>1. clone \in [on : Targets, conflict : BOOLEAN]
  BY DEF IInv, TypesOK
<1>2. ASSUME NEW a \in Actors, Gone(a) PROVE IInv'
  BY <1>1, <1>2, ReturnIInv DEF Gone, UnchangedGit, UnchangedRows, UnchangedNotes
<1>6. ASSUME NEW a \in Actors, ActsOutside(a) PROVE IInv'
  <2>1. CASE Return(a)
    BY <1>1, <1>6, <2>1, ReturnIInv DEF ActsOutside, UnchangedGit, UnchangedRows
  <2>2. CASE UNCHANGED job
    BY <1>6, <2>2, NothingMoves DEF ActsOutside, UnchangedGit, UnchangedRows
  <2> QED BY <1>6, <2>1, <2>2 DEF ActsOutside
<1>3. ASSUME NEW s \in Sessions, CommitSkipped(s) PROVE IInv'
  BY <1>1, <1>3, ReturnIInv DEF CommitSkipped, UnchangedGit, UnchangedRows, UnchangedNotes, Actors
<1>4. ASSUME NEW h \in Handlers, CommitRefused(h) \/ SquashRefused(h) PROVE IInv'
  BY <1>1, <1>4, ReturnIInv
  DEF CommitRefused, SquashRefused, UnchangedGit, UnchangedRows, UnchangedNotes, Actors
<1>5. ASSUME NEW h \in Handlers, MergeAborts(h) PROVE IInv'
  <2>1. clone' \in [on : Targets, conflict : BOOLEAN]
    BY <1>1, <1>5 DEF MergeAborts
  <2> QED BY <1>5, <2>1, ReturnIInv DEF MergeAborts, UnchangedRows, UnchangedNotes, Actors
<1> QED BY <1>2, <1>3, <1>4, <1>5, <1>6

LEMMA AgentMovesIInv ==
  ASSUME IInv, NEW s \in Sessions, LoopRestarts(s) \/ ToolStarts(s)
  PROVE  IInv'
<1>1. /\ s \in Actors /\ s \notin Handlers
      /\ JobOK(s) /\ WorktreeOK(s) /\ TypesOK
      /\ job[s] \in Jobs /\ clone \in [on : Targets, conflict : BOOLEAN]
  BY WorktreesAssumption DEF Actors, IInv, TypesOK
<1>2. CASE LoopRestarts(s)
  <2> DEFINE r == [job[s] EXCEPT !.op = IF @ = "tool" THEN "stray" ELSE @]
  <2>1. r \in Jobs
    BY <1>1 DEF Jobs, Ops
  <2>2. job' = [job EXCEPT ![s] = r]
    BY <1>2 DEF LoopRestarts
  <2>3. counter' \in [Sessions -> Nat]
    BY <1>1, <1>2 DEF LoopRestarts, TypesOK
  <2>4. job'[s] = r
    BY <1>1, <2>2 DEF TypesOK
  <2>5. /\ r.at = job[s].at /\ r.sess = job[s].sess
        /\ r.op = IF job[s].op = "tool" THEN "stray" ELSE job[s].op
    BY <1>1 DEF Jobs
  <2>6. JobOK(s)'
    BY <1>1, <1>2, <2>4, <2>5 DEF JobOK, At, LoopRestarts
  <2> QED BY <1>1, <1>2, <2>1, <2>2, <2>3, <2>6, ThreadMoves
          DEF LoopRestarts, UnchangedGit, UnchangedNotes
<1>3. CASE ToolStarts(s)
  <2> DEFINE r == [Idle EXCEPT !.op = "tool", !.sess = s, !.at = "write"]
  <2>1. edits[s] < MaxEdits /\ job' = [job EXCEPT ![s] = r]
    BY <1>3 DEF ToolStarts
  <2>2. r \in Jobs /\ r.op = "tool" /\ r.sess = s /\ r.at = "write"
    BY WorktreesAssumption DEF Idle, Jobs, Ops, Places
  <2>3. job'[s] = r
    BY <1>1, <2>1 DEF TypesOK
  <2>4. JobOK(s)'
    BY <1>1, <1>3, <2>1, <2>2, <2>3 DEF JobOK, At, ToolStarts, UnchangedRows
  <2>5. counter' \in [Sessions -> Nat]
    BY <1>1, <1>3 DEF ToolStarts, UnchangedRows, TypesOK
  <2> QED BY <1>1, <1>3, <2>1, <2>2, <2>4, <2>5, ThreadMoves
          DEF ToolStarts, UnchangedGit, UnchangedRows, UnchangedNotes
<1> QED BY <1>2, <1>3

LEMMA AsksIInv ==
  ASSUME IInv, NEW h \in Handlers, NEW s \in Sessions,
         AsksCommit(h, s) \/ AsksOther(h, s) \/ AsksMerge(h, s)
  PROVE  IInv'
<1>1. /\ h \in Actors /\ h \notin Sessions
      /\ WorktreeOK(s) /\ TypesOK /\ clone \in [on : Targets, conflict : BOOLEAN]
  BY WorktreesAssumption DEF Actors, IInv, TypesOK
<1>2. /\ UNCHANGED <<made, commit, tip, clone, wt, base, edits, counter, reported>>
      /\ counter' \in [Sessions -> Nat]
  BY <1>1 DEF AsksCommit, AsksOther, AsksMerge, UnchangedGit, UnchangedRows, UnchangedNotes, TypesOK
<1>3. PICK op \in Ops \ {"none"}, at \in Places, ref \in Targets \cup Names :
        /\ Request(h, s, op, at, ref)
        /\ at \in {"branch", "add", "list", "checkout", "remove"}
        /\ op = "commit" => at \in {"branch", "add"}
        /\ op = "commit" /\ at = "branch" => ref \in Names
        /\ op = "cancel" => at = "remove"
        /\ op = "merge" => ref \in Targets
  BY WorktreesAssumption DEF AsksCommit, AsksOther, AsksMerge, Ops, Places
<1> DEFINE r == [op |-> op, sess |-> s, at |-> at, ref |-> ref, sha |-> 0]
<1>4. r \in Jobs /\ job' = [job EXCEPT ![h] = r]
  BY <1>3 DEF Request, Jobs
<1>5. job'[h] = r /\ base[s] # 0
  BY <1>1, <1>3, <1>4 DEF TypesOK, Request, WorktreeOK
<1>6. JobOK(h)'
  BY <1>1, <1>2, <1>3, <1>5 DEF JobOK, At
<1> QED BY <1>1, <1>2, <1>4, <1>6, ThreadMoves

LEMMA LooksIInv ==
  ASSUME IInv, NEW h \in Handlers, SquashLooks(h) \/ RestoreLists(h)
  PROVE  IInv'
<1>1. /\ h \in Actors /\ h \notin Sessions /\ JobOK(h)
      /\ TypesOK /\ job[h] \in Jobs /\ clone \in [on : Targets, conflict : BOOLEAN]
  BY WorktreesAssumption DEF Actors, IInv, TypesOK
<1>2. PICK s \in Sessions : s = job[h].sess /\ wt[s].there /\ base[s] # 0
  BY <1>1 DEF SquashLooks, RestoreLists, At, JobOK
<1>3. /\ UNCHANGED <<made, commit, tip, clone, wt, base, edits, counter, reported>>
      /\ counter' \in [Sessions -> Nat]
  BY <1>1 DEF SquashLooks, RestoreLists, UnchangedGit, UnchangedRows, UnchangedNotes, TypesOK
<1>4. ASSUME NEW c \in Nat, MayPoint(s, c),
             job' = [job EXCEPT ![h].at = "reset", ![h].sha = c],
             job[h].op \in {"commit", "restore"}
      PROVE  IInv'
  <2> DEFINE r == [job[h] EXCEPT !.at = "reset", !.sha = c]
  <2>1. r \in Jobs /\ r.op = job[h].op /\ r.sess = s /\ r.at = "reset" /\ r.sha = c
    BY <1>1, <1>2 DEF Jobs, Places
  <2>2. job' = [job EXCEPT ![h] = r] /\ job'[h] = r
    BY <1>1, <1>4 DEF TypesOK
  <2>3. ASSUME Kept PROVE JobOK(h)'
    <3>1. MayPoint(s, c)'
      BY <1>2, <1>4, <2>3, MayPointKept DEF IInv
    <3>2. job'[h].sess = s /\ job'[h].sha = c /\ job'[h].at = "reset"
      BY <2>1, <2>2
    <3> QED BY <1>1, <1>2, <1>3, <1>4, <2>1, <2>2, <3>1, <3>2 DEF JobOK, At
  <2> QED BY <1>1, <1>3, <2>1, <2>2, <2>3, ThreadMoves
<1>5. CASE SquashLooks(h)
  <2>1. CASE Return(h)
    BY <1>1, <1>3, <2>1, ReturnIInv
  <2>2. CASE /\ Checkpoints(Head(s)) # {} /\ SquashBase(Head(s)) # 0
             /\ job' = [job EXCEPT ![h].at = "reset", ![h].sha = SquashBase(Head(s))]
    <3>1. Head(s) \in 1..made
      BY <1>2 DEF IInv, WorktreeOK, MayPoint
    <3>2. Checkpoints(Head(s)) \subseteq Nat
      BY <3>1 DEF Checkpoints, IInv, HistoryOK
    <3>3. Min(Checkpoints(Head(s))) \in Checkpoints(Head(s))
      BY <2>2, <3>2, MinIsIn
    <3>4. MayPoint(s, SquashBase(Head(s)))
      BY <1>2, <2>2, <3>3, CheckpointMayPoint DEF SquashBase
    <3>5. SquashBase(Head(s)) \in Nat
      BY <3>4 DEF MayPoint
    <3>6. PICK c \in Nat : c = SquashBase(Head(s))
      BY <3>5
    <3>7. job[h].op \in {"commit", "restore"}
      BY <1>5 DEF SquashLooks, At
    <3> QED BY <1>4, <2>2, <3>4, <3>6, <3>7
  <2> QED BY <1>2, <1>5, <2>1, <2>2 DEF SquashLooks
<1>6. CASE RestoreLists(h)
  <2>1. CASE Return(h)
    BY <1>1, <1>3, <2>1, ReturnIInv
  <2>2. ASSUME NEW c \in Checkpoints(Head(s)),
               job' = [job EXCEPT ![h].at = "reset", ![h].sha = c]
        PROVE  IInv'
    <3>1. MayPoint(s, c)
      BY <1>2, CheckpointMayPoint
    <3>2. c \in Nat
      BY <3>1 DEF MayPoint
    <3>3. job[h].op \in {"commit", "restore"}
      BY <1>6 DEF RestoreLists, At
    <3> QED BY <1>4, <2>2, <3>1, <3>2, <3>3
  <2> QED BY <1>2, <1>6, <2>1, <2>2 DEF RestoreLists
<1> QED BY <1>5, <1>6

LEMMA MergeMovesIInv ==
  ASSUME IInv, NEW h \in Handlers, MergeChecksOut(h) \/ MergeFails(h)
  PROVE  IInv'
<1>1. /\ h \in Actors /\ h \notin Sessions /\ JobOK(h)
      /\ TypesOK /\ job[h] \in Jobs /\ clone \in [on : Targets, conflict : BOOLEAN]
  BY WorktreesAssumption DEF Actors, IInv, TypesOK
<1>2. /\ UNCHANGED <<made, commit, tip, wt, base, edits, counter, reported>>
      /\ counter' \in [Sessions -> Nat]
  BY <1>1 DEF MergeChecksOut, MergeFails, UnchangedRows, UnchangedNotes, TypesOK
<1>3. CASE MergeChecksOut(h)
  <2>1. CASE Return(h) /\ UNCHANGED clone
    BY <1>1, <1>2, <2>1, ReturnIInv
  <2>2. CASE clone' = [clone EXCEPT !.on = job[h].ref] /\ Goto(h, "merge")
    <3>1. clone' \in [on : Targets, conflict : BOOLEAN]
      BY <1>1, <1>3, <2>2 DEF MergeChecksOut, JobOK
    <3> DEFINE r == [job[h] EXCEPT !.at = "merge"]
    <3>2. r \in Jobs /\ r.op = job[h].op /\ r.sess = job[h].sess /\ r.at = "merge"
      BY <1>1, WorktreesAssumption DEF Jobs, Places
    <3>3. job' = [job EXCEPT ![h] = r] /\ job'[h] = r
      BY <1>1, <2>2 DEF Goto, TypesOK
    <3>4. JobOK(h)'
      BY <1>1, <1>2, <1>3, <3>2, <3>3 DEF JobOK, At, MergeChecksOut
    <3> QED BY <1>1, <1>2, <3>1, <3>2, <3>3, <3>4, ThreadMoves
  <2> QED BY <1>3, <2>1, <2>2 DEF MergeChecksOut
<1>4. CASE MergeFails(h)
  <2>1. clone' \in [on : Targets, conflict : BOOLEAN]
    BY <1>1, <1>4 DEF MergeFails
  <2> DEFINE r == [job[h] EXCEPT !.at = "abort", !.ref = Default, !.sha = 0]
  <2>2. r \in Jobs /\ r.op = job[h].op /\ r.sess = job[h].sess /\ r.at = "abort"
    BY <1>1, WorktreesAssumption DEF Jobs, Places
  <2>3. job' = [job EXCEPT ![h] = r] /\ job'[h] = r
    BY <1>1, <1>4 DEF MergeFails, Done, TypesOK
  <2>4. JobOK(h)'
    BY <1>1, <1>2, <1>4, <2>2, <2>3 DEF JobOK, At, MergeFails
  <2> QED BY <1>1, <1>2, <2>1, <2>2, <2>3, <2>4, ThreadMoves
<1> QED BY <1>3, <1>4

-----------------------------------------------------------------------------
(* Steps in one worktree.                                                  *)

Worktree == [there : BOOLEAN, on : Branches, staged : SUBSET Edits, dirty : SUBSET Edits]

LEMMA AllowedEdits ==
  ASSUME TypesOK, NEW s \in Sessions
  PROVE  Allowed(s) \subseteq Edits
<1>1. ASSUME NEW t \in Targets PROVE Has(tip[t]) \subseteq Edits
  <2>1. tip[t] \in Commits
    BY WorktreesAssumption DEF TypesOK, Branches, Commits
  <2> QED BY <2>1 DEF Has, TypesOK, Commit
<1> QED BY <1>1 DEF Allowed, Merged

\* No commit is made; the branch moves to c, possibly where it is already.
LEMMA WorktreeMoves ==
  ASSUME IInv, NEW a \in Actors, NEW s \in Sessions, wt[s].there,
         UNCHANGED <<made, commit, clone, base>>,
         NEW c, MayPoint(s, c), tip' = [tip EXCEPT ![wt[s].on] = c],
         NEW w \in Worktree, wt' = [wt EXCEPT ![s] = w], w.there, w.on = wt[s].on,
         w.staged \subseteq Allowed(s), w.dirty \subseteq Allowed(s),
         NEW q \in SUBSET Edits, reported' = [reported EXCEPT ![s] = q],
         q \subseteq Has(c) \cup w.staged,
         edits' \in [Sessions -> 0..MaxEdits],
         \A t \in Sessions : edits'[t] = edits[t] \/ (t = s /\ t = a),
         \A t \in Sessions : a = t => s = t,
         counter' \in [Sessions -> Nat],
         NEW r \in Jobs, job' = [job EXCEPT ![a] = r],
         Kept => JobOK(a)'
  PROVE  IInv'
<1>1. TypesOK /\ HistoryOK /\ BranchesOK /\ WorktreeOK(s) /\ CommitsKept /\ HistoryOK'
  BY NothingMade DEF IInv
<1>2. /\ c \in 1..made /\ c \in 0..made /\ c # 0
      /\ wt[s].on \in Branches /\ wt[s].on \notin Targets
      /\ wt \in [Sessions -> Worktree]
  BY <1>1, WorktreesAssumption DEF MayPoint, TypesOK, Commits, BranchesOK, Worktree
<1>3. /\ wt' \in [Sessions -> Worktree] /\ wt'[s] = w /\ tip' \in [Branches -> 0..made]
      /\ tip'[wt[s].on] = c /\ reported'[s] = q
      /\ \A t \in Targets : tip'[t] # 0
      /\ job' \in [Actors -> Jobs] /\ reported' \in [Sessions -> SUBSET Edits]
  BY <1>1, <1>2 DEF TypesOK, Branches
<1>4. TypesOK'
  BY <1>1, <1>3 DEF TypesOK, Worktree, Branches
<1>5. InWorktree(a, s)
  BY <1>1, <1>2, <1>3 DEF InWorktree, TypesOK
<1>6. ASSUME Kept PROVE WorktreeOK(s)'
  <2>1. base[s] # 0 /\ base'[s] = base[s] /\ Head(s)' = c
    BY <1>1, <1>3 DEF WorktreeOK, Head
  <2>2. MayPoint(s, c)'
    BY <1>1, <1>6, <2>1, MayPointKept
  <2>3. MayPoint(s, Head(s))'
    BY <2>1, <2>2 DEF MayPoint, Rooted, Has, Allowed
  <2>4. Allowed(s) \subseteq Allowed(s)' /\ Has(Head(s))' = Has(c)
    BY <1>6, <2>1 DEF Allowed, Kept, MergedKept, Has
  <2> QED BY <1>3, <2>1, <2>3, <2>4 DEF WorktreeOK
<1> QED BY <1>1, <1>4, <1>5, <1>6, InWorktreeIInv

LEMMA ResetsIInv ==
  ASSUME IInv, NEW h \in Handlers, SquashResets(h) \/ RestoreResets(h)
  PROVE  IInv'
<1>1. /\ h \in Actors /\ h \notin Sessions /\ JobOK(h) /\ TypesOK /\ job[h] \in Jobs
  BY WorktreesAssumption DEF Actors, IInv, TypesOK
<1>2. PICK s \in Sessions : s = job[h].sess /\ wt[s].there /\ WorktreeOK(s)
  BY <1>1 DEF SquashResets, RestoreResets, At, JobOK, IInv
<1>3. PICK c : c = job[h].sha /\ MayPoint(s, c)
  BY <1>1, <1>2 DEF SquashResets, RestoreResets, JobOK
<1>4. /\ UNCHANGED <<made, commit, clone, base, edits, counter>>
      /\ tip' = [tip EXCEPT ![wt[s].on] = c]
      /\ edits' \in [Sessions -> 0..MaxEdits] /\ counter' \in [Sessions -> Nat]
      /\ wt[s] \in Worktree /\ Has(c) \subseteq Allowed(s)
  BY <1>1, <1>2, <1>3 DEF SquashResets, RestoreResets, UnchangedRows, TypesOK, Worktree, MayPoint
<1>5. CASE SquashResets(h)
  <2> DEFINE w == [wt[s] EXCEPT !.staged = (@ \cup Has(Head(s))) \ Has(c)]
             q == reported[s]
             r == [job[h] EXCEPT !.at = "add again", !.ref = Default, !.sha = 0]
  <2>1. w.there /\ w.on = wt[s].on /\ w.dirty = wt[s].dirty
        /\ w.staged = (wt[s].staged \cup Has(Head(s))) \ Has(c)
    BY <1>2, <1>4 DEF Worktree
  <2>2. Has(Head(s)) \subseteq Allowed(s)
    BY <1>2 DEF WorktreeOK, MayPoint
  <2>3. w.staged \subseteq Allowed(s) /\ w.dirty \subseteq Allowed(s)
        /\ q \subseteq Has(c) \cup w.staged
    BY <1>2, <2>1, <2>2 DEF WorktreeOK
  <2>4. w \in Worktree
    <3>1. w.staged \subseteq Edits
      BY <1>1, <2>3, AllowedEdits
    <3> QED BY <1>4, <3>1 DEF Worktree
  <2>5. wt' = [wt EXCEPT ![s] = w]
    BY <1>1, <1>2, <1>3, <1>5 DEF SquashResets, TypesOK
  <2>6. r \in Jobs /\ r.op = job[h].op /\ r.sess = s /\ r.at = "add again"
    BY <1>1, <1>2, WorktreesAssumption DEF Jobs, Places
  <2>7. job' = [job EXCEPT ![h] = r] /\ job'[h] = r
    BY <1>1, <1>5 DEF SquashResets, Done, TypesOK
  <2>8. JobOK(h)'
    BY <1>1, <1>2, <1>4, <1>5, <2>6, <2>7 DEF JobOK, At, SquashResets
  <2>9. reported' = [reported EXCEPT ![s] = q] /\ q \in SUBSET Edits
    BY <1>1, <1>5 DEF SquashResets, UnchangedNotes, TypesOK
  <2> HIDE DEF w, q, r
  <2>10. w.there /\ w.on = wt[s].on
    BY <2>1
  <2>11. r \in Jobs /\ job' = [job EXCEPT ![h] = r]
    BY <2>6, <2>7
  <2> QED BY <1>1, <1>2, <1>3, <1>4, <2>3, <2>4, <2>5, <2>8, <2>9, <2>10, <2>11,
             WorktreeMoves, ZenonT(60)
<1>6. CASE RestoreResets(h)
  <2> DEFINE w == [wt[s] EXCEPT !.staged = {}, !.dirty = {}]
             q == reported[s] \cap Has(c)
  <2>1. w.there /\ w.on = wt[s].on /\ w.dirty = {} /\ w.staged = {} /\ w \in Worktree
    BY <1>2, <1>4 DEF Worktree
  <2>2. wt' = [wt EXCEPT ![s] = w]
    BY <1>1, <1>2, <1>6 DEF RestoreResets, TypesOK
  <2>3. Idle \in Jobs /\ job' = [job EXCEPT ![h] = Idle] /\ job'[h] = Idle
    BY <1>1, <1>6, ThreadTypes DEF RestoreResets, Return, TypesOK, Places
  <2>4. JobOK(h)'
    BY <1>1, <2>3, IdleOK
  <2>5. reported' = [reported EXCEPT ![s] = q] /\ q \in SUBSET Edits
    BY <1>1, <1>2, <1>3, <1>6 DEF RestoreResets, TypesOK
  <2>6. q \subseteq Has(c) \cup w.staged
    OBVIOUS
  <2> HIDE DEF w, q
  <2> QED BY <1>1, <1>2, <1>3, <1>4, <2>1, <2>2, <2>3, <2>4, <2>5, <2>6, WorktreeMoves
<1> QED BY <1>5, <1>6


\* Only index and files of the worktree change.
LEMMA FilesMove ==
  ASSUME IInv, NEW a \in Actors, NEW s \in Sessions, wt[s].there,
         UNCHANGED <<made, commit, tip, clone, base, reported>>,
         NEW st \in SUBSET Edits, NEW di \in SUBSET Edits,
         wt' = [wt EXCEPT ![s].staged = st, ![s].dirty = di],
         wt[s].staged \subseteq st, st \subseteq Allowed(s), di \subseteq Allowed(s),
         edits' \in [Sessions -> 0..MaxEdits],
         \A t \in Sessions : edits'[t] = edits[t] \/ (t = s /\ t = a),
         \A t \in Sessions : a = t => s = t,
         counter' \in [Sessions -> Nat],
         NEW r \in Jobs, job' = [job EXCEPT ![a] = r],
         Kept => JobOK(a)'
  PROVE  IInv'
<1>1. TypesOK /\ WorktreeOK(s) /\ wt[s] \in Worktree
  BY DEF IInv, TypesOK, Worktree
<1>2. PICK c : c = Head(s) /\ MayPoint(s, c)
  BY <1>1 DEF WorktreeOK
<1> DEFINE w == [wt[s] EXCEPT !.staged = st, !.dirty = di]
           q == reported[s]
<1>3. w \in Worktree /\ w.there /\ w.on = wt[s].on /\ w.staged = st /\ w.dirty = di
  BY <1>1 DEF Worktree
<1>4. wt' = [wt EXCEPT ![s] = w]
  BY <1>1 DEF TypesOK
<1>5. tip' = [tip EXCEPT ![wt[s].on] = c]
  BY <1>1, <1>2 DEF TypesOK, Head
<1>6. reported' = [reported EXCEPT ![s] = q] /\ q \in SUBSET Edits
  BY <1>1 DEF TypesOK
<1>7. q \subseteq Has(c) \cup w.staged
  BY <1>1, <1>2, <1>3 DEF WorktreeOK
<1> HIDE DEF w, q
<1> QED BY <1>2, <1>3, <1>4, <1>5, <1>6, <1>7, WorktreeMoves

LEMMA ToolWritesIInv ==
  ASSUME IInv, NEW s \in Sessions, ToolWrites(s)
  PROVE  IInv'
<1>1. /\ s \in Actors /\ s \notin Handlers /\ TypesOK /\ JobOK(s) /\ WorktreeOK(s)
      /\ job[s] \in Jobs /\ job[s].at = "write"
      /\ job[s].op # "none" /\ job[s].sess = s
  BY WorktreesAssumption DEF Actors, IInv, TypesOK, ToolWrites, JobOK
<1>2. /\ edits[s] < MaxEdits /\ edits' = [edits EXCEPT ![s] = @ + 1]
      /\ edits' \in [Sessions -> 0..MaxEdits]
      /\ UNCHANGED <<made, commit, tip, clone, base, reported>>
  BY <1>1, WorktreesAssumption DEF JobOK, ToolWrites, TypesOK
<1>3. PICK r \in Jobs : /\ job' = [job EXCEPT ![s] = r] /\ JobOK(s)'
                       /\ counter' \in [Sessions -> Nat]
  <2>1. CASE job[s].op = "tool"
    <3> DEFINE q == [job[s] EXCEPT !.op = "checkpoint", !.at = "add", !.sha = counter[s] + 1]
    <3>1. counter' \in [Sessions -> Nat] /\ counter[s] + 1 \in Nat
      <4>1. counter' = [counter EXCEPT ![s] = @ + 1]
        BY <2>1 DEF ToolWrites
      <4> QED BY <1>1, <4>1 DEF TypesOK
    <3>2. q \in Jobs /\ q.op = "checkpoint" /\ q.at = "add" /\ q.sess = s
      BY <1>1, <3>1 DEF Jobs, Ops, Places
    <3>3. job' = [job EXCEPT ![s] = q] /\ job'[s] = q
      BY <1>1, <2>1 DEF ToolWrites, TypesOK
    <3>4. JobOK(s)'
      BY <1>1, <1>2, <3>2, <3>3 DEF JobOK, At
    <3> HIDE DEF q
    <3> QED BY <3>1, <3>2, <3>3, <3>4
  <2>2. CASE job[s].op # "tool"
    <3>1. Idle \in Jobs
      BY <1>1, ThreadTypes DEF Places
    <3>2. /\ counter' \in [Sessions -> Nat] /\ job' = [job EXCEPT ![s] = Idle]
          /\ job'[s] = Idle
      BY <1>1, <2>2, <3>1 DEF ToolWrites, TypesOK, Return
    <3> QED BY <1>1, <3>1, <3>2, IdleOK
  <2> QED BY <2>1, <2>2
<1>4. CASE wt[s].there
  <2> DEFINE st == wt[s].staged
             di == wt[s].dirty \cup {<<s, edits[s] + 1>>}
  <2>1. wt[s] \in Worktree /\ edits[s] + 1 \in 1..MaxEdits
    BY <1>1, <1>2, WorktreesAssumption DEF TypesOK, Worktree
  <2>2. <<s, edits[s] + 1>> \in Edits /\ <<s, edits[s] + 1>>[1] = s
    BY <2>1 DEF Edits
  <2>3. /\ st \in SUBSET Edits /\ di \in SUBSET Edits /\ wt[s].staged \subseteq st
        /\ st \subseteq Allowed(s) /\ di \subseteq Allowed(s)
    BY <1>1, <1>4, <2>1, <2>2 DEF WorktreeOK, Worktree, Allowed
  <2>4. wt' = [wt EXCEPT ![s].staged = st, ![s].dirty = di]
    <3> DEFINE w == [wt[s] EXCEPT !.dirty = di]
    <3>1. w = [wt[s] EXCEPT !.staged = st, !.dirty = di]
      BY <2>1 DEF Worktree
    <3> QED BY <1>1, <1>4, <3>1 DEF ToolWrites, TypesOK
  <2>5. \A t \in Sessions : edits'[t] = edits[t] \/ (t = s /\ t = s)
    BY <1>1, <1>2 DEF TypesOK
  <2>6. /\ s \in Actors /\ wt[s].there /\ edits' \in [Sessions -> 0..MaxEdits]
        /\ UNCHANGED <<made, commit, tip, clone, base, reported>>
    BY <1>1, <1>2, <1>4
  <2>7. r \in Jobs /\ job' = [job EXCEPT ![s] = r] /\ JobOK(s)' /\ counter' \in [Sessions -> Nat]
    BY <1>3
  <2> HIDE DEF st, di
  <2> QED BY <2>3, <2>4, <2>5, <2>6, <2>7, FilesMove
<1>5. CASE ~ wt[s].there
  <2>1. UNCHANGED wt /\ clone \in [on : Targets, conflict : BOOLEAN]
    BY <1>1, <1>5 DEF ToolWrites, TypesOK
  <2>2. \A t \in Sessions \ {s} : edits'[t] = edits[t]
    BY <1>1, <1>2 DEF TypesOK
  <2> QED BY <1>1, <1>2, <1>3, <2>1, <2>2, ThreadEdits
<1> QED BY <1>4, <1>5

LEMMA AddsIInv ==
  ASSUME IInv, NEW a \in Actors,
         Adds(a) \/ (a \in Handlers /\ SquashAdds(a))
  PROVE  IInv'
<1>1. TypesOK /\ JobOK(a) /\ job[a] \in Jobs
  BY DEF IInv, TypesOK
<1>2. PICK at \in {"commit", "recommit"} : Goto(a, at)
  BY DEF Adds, SquashAdds
<1>3. PICK s \in Sessions : /\ s = job[a].sess /\ wt[s].there /\ Add(s) /\ job[a].op # "none"
                            /\ \A t \in Sessions : a = t => s = t
  BY <1>1, WorktreesAssumption DEF Adds, SquashAdds, At, JobOK
<1>4. /\ UNCHANGED <<made, commit, tip, clone, base, edits, counter, reported>>
      /\ edits' \in [Sessions -> 0..MaxEdits] /\ counter' \in [Sessions -> Nat]
      /\ WorktreeOK(s) /\ wt[s] \in Worktree
  BY <1>1, <1>3 DEF Adds, SquashAdds, UnchangedRows, UnchangedNotes, TypesOK, IInv, Worktree
<1> DEFINE st == wt[s].staged \cup wt[s].dirty
           di == {}
           r == [job[a] EXCEPT !.at = at]
<1>5. /\ st \in SUBSET Edits /\ di \in SUBSET Edits /\ wt[s].staged \subseteq st
      /\ st \subseteq Allowed(s) /\ di \subseteq Allowed(s)
  BY <1>3, <1>4 DEF WorktreeOK, Worktree
<1>6. wt' = [wt EXCEPT ![s].staged = st, ![s].dirty = di]
  BY <1>3 DEF Add
<1>7. r \in Jobs /\ r.op = job[a].op /\ r.sess = s /\ r.at = at
  BY <1>1, <1>2, <1>3 DEF Jobs, Places
<1>8. job' = [job EXCEPT ![a] = r] /\ job'[a] = r
  BY <1>1, <1>2 DEF Goto, TypesOK
<1>9. JobOK(a)'
  BY <1>1, <1>2, <1>3, <1>4, <1>7, <1>8 DEF JobOK, At
<1>10. r \in Jobs /\ job' = [job EXCEPT ![a] = r]
  BY <1>7, <1>8
<1> HIDE DEF st, di, r
<1> QED BY <1>3, <1>4, <1>5, <1>6, <1>9, <1>10, FilesMove

LEMMA RevertsIInv ==
  ASSUME IInv, NEW h \in Handlers, Reverts(h)
  PROVE  IInv'
<1>1. /\ h \in Actors /\ h \notin Sessions /\ TypesOK /\ JobOK(h)
  BY WorktreesAssumption DEF Actors, IInv, TypesOK
<1>2. PICK s \in Sessions : s = job[h].sess /\ wt[s].there
  BY <1>1 DEF Reverts, At, JobOK
<1>3. /\ UNCHANGED <<made, commit, tip, clone, base, edits, counter, reported>>
      /\ edits' \in [Sessions -> 0..MaxEdits] /\ counter' \in [Sessions -> Nat]
      /\ WorktreeOK(s) /\ wt[s] \in Worktree
  BY <1>1, <1>2 DEF Reverts, UnchangedRows, UnchangedNotes, TypesOK, IInv, Worktree
<1> DEFINE st == wt[s].staged
           di == {}
<1>4. /\ st \in SUBSET Edits /\ di \in SUBSET Edits
      /\ st \subseteq Allowed(s) /\ di \subseteq Allowed(s)
  BY <1>2, <1>3 DEF WorktreeOK, Worktree
<1>5. wt' = [wt EXCEPT ![s].staged = st, ![s].dirty = di]
  <2>1. [wt[s] EXCEPT !.dirty = {}] = [wt[s] EXCEPT !.staged = st, !.dirty = di]
    BY <1>3 DEF Worktree
  <2> QED BY <1>1, <1>2, <2>1 DEF Reverts, TypesOK
<1>6. Idle \in Jobs /\ job' = [job EXCEPT ![h] = Idle] /\ JobOK(h)'
  BY <1>1, ThreadTypes, IdleOK DEF Reverts, Return, TypesOK, Places
<1>7. wt[s].staged \subseteq st
  OBVIOUS
<1> HIDE DEF st, di
<1> QED BY <1>1, <1>2, <1>3, <1>4, <1>5, <1>6, <1>7, FilesMove


\* The index becomes a commit of the branch.
LEMMA CommitIInv ==
  ASSUME IInv, NEW a \in Actors, NEW s \in Sessions, wt[s].there,
         \A t \in Sessions : a = t => s = t,
         NEW kind \in {"checkpoint", "commit"}, NEW step \in Nat,
         CommitIndex(s, kind, step), Return(a), UNCHANGED <<clone, base, edits, counter>>,
         NEW q \in SUBSET Edits, reported' = [reported EXCEPT ![s] = q],
         q \subseteq Has(Head(s)) \cup wt[s].staged
  PROVE  IInv'
<1>1. /\ TypesOK /\ HistoryOK /\ WorktreeOK(s) /\ wt[s] \in Worktree
      /\ wt[s].on \in Branches /\ wt[s].on \notin Targets
  BY WorktreesAssumption DEF IInv, TypesOK, Worktree, BranchesOK
<1>2. PICK h \in 1..made : h = Head(s) /\ MayPoint(s, h)
  BY <1>1 DEF WorktreeOK, MayPoint
<1> DEFINE has == Has(h) \cup wt[s].staged
           w == [wt[s] EXCEPT !.staged = {}]
<1>3. has \in SUBSET Edits /\ Has(h) \subseteq has /\ has \subseteq Allowed(s) /\ q \subseteq has
  <2>1. has \subseteq Allowed(s)
    BY <1>1, <1>2 DEF MayPoint, WorktreeOK
  <2> QED BY <1>1, <1>2, <2>1, AllowedEdits
<1>4. NewCommit(wt[s].on, h, {h}, has, kind, step)
  BY <1>2 DEF CommitIndex
<1>5. /\ CommitsKept /\ HistoryOK'
      /\ made' = made + 1 /\ made' \in Commits /\ made' \notin 1..made
      /\ commit' \in [Commits -> Commit] /\ tip' \in [Branches -> 0..made']
      /\ tip' = [tip EXCEPT ![wt[s].on] = made']
      /\ \A d : d \in commit'[made'].anc <=> d = made' \/ d \in commit[h].anc
      /\ commit'[made'].parent = h /\ commit'[made'].has = has
  <2> DEFINE ps == {h}
  <2>1. ps \in SUBSET (1..made) /\ h \in ps /\ \A p \in ps : Has(p) \subseteq has
    BY <1>3
  <2>2. NewCommit(wt[s].on, h, ps, has, kind, step)
    BY <1>4
  <2>3. kind \in {"checkpoint", "commit", "merge"}
    OBVIOUS
  <2>4. PICK b \in Branches : b = wt[s].on /\ NewCommit(b, h, ps, has, kind, step)
    BY <1>1, <2>2
  <2> HIDE DEF has, ps
  <2>5. /\ CommitsKept /\ HistoryOK'
        /\ made' = made + 1 /\ made' \in Commits /\ made' \notin 1..made
        /\ commit' \in [Commits -> Commit] /\ tip' \in [Branches -> 0..made']
        /\ tip' = [tip EXCEPT ![b] = made']
        /\ \A d : d \in commit'[made'].anc <=> d = made' \/ \E p \in ps : d \in commit[p].anc
        /\ commit'[made'].parent = h /\ commit'[made'].has = has
    BY <1>1, <1>3, <2>1, <2>3, <2>4, NewCommitLaws DEF NewCommit
  <2> QED BY <2>4, <2>5 DEF ps
<1>6. w \in Worktree /\ w.there /\ w.on = wt[s].on /\ w.staged = {} /\ w.dirty = wt[s].dirty
  BY <1>1 DEF Worktree
<1>7. /\ wt' = [wt EXCEPT ![s] = w] /\ wt'[s] = w /\ wt' \in [Sessions -> Worktree]
      /\ reported'[s] = q /\ reported' \in [Sessions -> SUBSET Edits]
      /\ job' \in [Actors -> Jobs] /\ job'[a] = Idle
  <2>1. wt' = [wt EXCEPT ![s].staged = {}] /\ Idle \in Jobs
    BY <1>1, ThreadTypes DEF CommitIndex, Places
  <2> QED BY <1>1, <1>6, <2>1 DEF TypesOK, Worktree, Return
<1>8. TypesOK'
  <2>1. made' \in Nat /\ made \in Nat /\ 0..made \subseteq 0..made'
    BY <1>1, <1>5 DEF TypesOK, Commits
  <2>2. base' \in [Sessions -> 0..made']
    BY <1>1, <2>1 DEF TypesOK
  <2>3. \A t \in Targets : tip'[t] # 0
    BY <1>1, <1>5 DEF TypesOK, Branches
  <2> QED BY <1>1, <1>5, <1>7, <2>2, <2>3 DEF TypesOK, Worktree
<1>9. InWorktree(a, s)
  BY <1>1, <1>5, <1>6, <1>7 DEF InWorktree, TypesOK, CommitIndex, Return
<1>10. ASSUME Kept PROVE WorktreeOK(s)'
  <2>1. base[s] # 0 /\ base'[s] = base[s]
    BY <1>1 DEF WorktreeOK
  <2>2. MayPoint(s, h)' /\ commit'[h] = commit[h]
    BY <1>1, <1>2, <1>5, <2>1, <1>10, MayPointKept DEF CommitsKept
  <2>3. PICK n : n = made' /\ Head(s)' = n
    BY <1>1, <1>5, <1>6, <1>7 DEF Head, TypesOK
  <2>4. Allowed(s) \subseteq Allowed(s)'
    BY <1>10 DEF Allowed, Kept, MergedKept
  <2>5. commit'[n].anc = {n} \cup commit'[h].anc /\ commit'[n].parent = h /\ h # 0
    BY <1>2, <1>5, <2>2, <2>3
  <2>6. Rooted(s, n)'
    BY <2>1, <2>2, <2>5 DEF MayPoint, Rooted
  <2>7. n \in 1..made' /\ Has(n)' = has
    BY <1>1, <1>5, <2>3 DEF Has, Commits, TypesOK
  <2>8. MayPoint(s, n)'
    BY <1>3, <2>4, <2>6, <2>7 DEF MayPoint
  <2>9. MayPoint(s, Head(s))' /\ Has(Head(s))' = has
    BY <2>3, <2>7, <2>8 DEF MayPoint, Rooted, Has, Allowed
  <2>10. wt[s].dirty \subseteq Allowed(s)'
    BY <1>1, <2>4 DEF WorktreeOK
  <2> QED BY <1>3, <1>6, <1>7, <2>1, <2>9, <2>10 DEF WorktreeOK
<1>11. JobOK(a)'
  BY <1>7, IdleOK
<1> QED BY <1>5, <1>8, <1>9, <1>10, <1>11, InWorktreeIInv

LEMMA CommitsIInv ==
  ASSUME IInv,
         \/ \E s \in Sessions : CheckpointCommits(s)
         \/ \E h \in Handlers : UserCommits(h) \/ SquashCommits(h)
  PROVE  IInv'
<1>1. ASSUME NEW s \in Sessions, CheckpointCommits(s)
      PROVE  IInv'
  <2>1. /\ s \in Actors /\ TypesOK /\ WorktreeOK(s) /\ wt[s].there
        /\ UNCHANGED <<clone, base, edits, counter>> /\ Return(s)
    BY <1>1 DEF Actors, IInv, CheckpointCommits, UnchangedRows
  <2>2. PICK step \in Nat : CommitIndex(s, "checkpoint", step)
    BY <1>1, <2>1 DEF CheckpointCommits, TypesOK, Jobs
  <2> DEFINE q == reported[s]
  <2>3. reported' = [reported EXCEPT ![s] = q] /\ q \in SUBSET Edits
        /\ q \subseteq Has(Head(s)) \cup wt[s].staged
    BY <1>1, <2>1 DEF CheckpointCommits, UnchangedNotes, TypesOK, WorktreeOK
  <2> HIDE DEF q
  <2> QED BY <2>1, <2>2, <2>3, CommitIInv
<1>2. ASSUME NEW h \in Handlers, UserCommits(h) \/ SquashCommits(h)
      PROVE  IInv'
  <2>1. /\ h \in Actors /\ h \notin Sessions /\ TypesOK /\ JobOK(h)
        /\ UNCHANGED <<clone, base, edits, counter>> /\ Return(h)
    BY <1>2, WorktreesAssumption DEF Actors, IInv, UserCommits, SquashCommits, UnchangedRows
  <2>2. PICK s \in Sessions : s = job[h].sess /\ wt[s].there
    BY <1>2, <2>1 DEF UserCommits, SquashCommits, At, JobOK
  <2>3. CommitIndex(s, "commit", 0) /\ Reports(s) /\ WorktreeOK(s)
    BY <1>2, <2>2 DEF UserCommits, SquashCommits, IInv
  <2> DEFINE q == Has(Head(s)) \cup wt[s].staged
  <2>4. reported' = [reported EXCEPT ![s] = q] /\ q \in SUBSET Edits
        /\ q \subseteq Has(Head(s)) \cup wt[s].staged
    <3>1. q \subseteq Allowed(s)
      BY <2>2, <2>3 DEF WorktreeOK, MayPoint
    <3> QED BY <2>1, <2>3, <3>1, AllowedEdits DEF Reports
  <2> HIDE DEF q
  <2> QED BY <2>1, <2>2, <2>3, <2>4, CommitIInv
<1> QED BY <1>1, <1>2


-----------------------------------------------------------------------------
(* Steps on branches and whole worktrees: what becomes of one and the others. *)

LEMMA BranchStepIInv ==
  ASSUME IInv, NEW a \in Actors, NEW s \in Sessions,
         TypesOK', HistoryOK', Kept, BranchesOK', edits' = edits,
         \A t \in Sessions \ {s} : /\ wt'[t] = wt[t] /\ reported'[t] = reported[t]
                                   /\ wt[t].there => tip'[wt[t].on] = tip[wt[t].on],
         WorktreeOK(s)',
         \A b \in Actors \ {a} : job'[b] = job[b],
         job'[a] = job[a] \/ JobOK(a)'
  PROVE  IInv'
<1>1. \A t \in Sessions : WorktreeOK(t)'
  BY WorktreeKept
<1>2. \A b \in Actors : JobOK(b)'
  BY JobKept
<1> QED BY <1>1, <1>2 DEF IInv

LEMMA CreateIInv ==
  ASSUME IInv, NEW s \in Sessions, Create(s)
  PROVE  IInv'
<1>1. /\ s \in Actors /\ s \in Branches /\ s \notin Targets /\ s \notin Names
      /\ TypesOK /\ HistoryOK /\ BranchesOK /\ WorktreeOK(s)
  BY WorktreesAssumption DEF Actors, Branches, IInv
<1>2. PICK head \in 1..made : head = tip[clone.on]
  BY <1>1 DEF TypesOK, Branches
<1>3. ~ wt[s].there /\ reported[s] = {} /\ base[s] = 0
  BY <1>1 DEF WorktreeOK, Create
<1>4. /\ UNCHANGED <<made, commit, clone, edits, counter, job, reported>>
      /\ tip' = [tip EXCEPT ![s] = head] /\ base' = [base EXCEPT ![s] = head]
      /\ wt' = [wt EXCEPT ![s] = [NoWorktree EXCEPT !.there = TRUE, !.on = s]]
  BY <1>2 DEF Create, UnchangedNotes
<1> DEFINE w == [NoWorktree EXCEPT !.there = TRUE, !.on = s]
<1>5. w \in Worktree /\ w.there /\ w.on = s /\ w.staged = {} /\ w.dirty = {}
  BY <1>1 DEF Worktree, NoWorktree
<1>6. /\ wt' \in [Sessions -> Worktree] /\ wt'[s] = w
      /\ tip' \in [Branches -> 0..made] /\ base' \in [Sessions -> 0..made]
      /\ tip'[s] = head /\ base'[s] = head /\ \A t \in Targets : tip'[t] = tip[t]
  <2> HIDE DEF w
  <2> QED BY <1>1, <1>2, <1>4, <1>5 DEF TypesOK, Branches, Worktree, w
<1>7. TypesOK'
  BY <1>1, <1>4, <1>6 DEF TypesOK, Worktree
<1>8. CommitsKept /\ HistoryOK' /\ MergedKept
  BY <1>1, <1>4, <1>6, NothingMade, MergedStays
<1>9. Kept
  BY <1>1, <1>3, <1>4, <1>8 DEF Kept, BasesKept, TypesOK
<1>10. BranchesOK'
  BY <1>1, <1>4, <1>5, <1>6, WorktreesAssumption DEF BranchesOK, TypesOK
<1>11. WorktreeOK(s)'
  <2>1. Head(s)' = head /\ base'[s] = head /\ head # 0 /\ reported'[s] = {}
    BY <1>2, <1>3, <1>4, <1>5, <1>6 DEF Head
  <2>2. Has(head) \subseteq Merged
    BY <1>1, <1>2 DEF Merged, TypesOK
  <2>3. Has(head)' = Has(head) /\ Merged \subseteq Merged'
    BY <1>4, <1>8 DEF Has, MergedKept
  <2>4. Has(Head(s))' \subseteq Allowed(s)'
    BY <2>1, <2>2, <2>3 DEF Has, Allowed
  <2>5. head \in commit'[head].anc
    BY <1>1, <1>2, <1>4 DEF HistoryOK
  <2>6. MayPoint(s, Head(s))'
    BY <1>2, <1>4, <2>1, <2>4, <2>5 DEF MayPoint, Rooted
  <2> QED BY <1>5, <1>6, <2>1, <2>6 DEF WorktreeOK
<1>12. \A t \in Sessions \ {s} :
         /\ wt'[t] = wt[t] /\ reported'[t] = reported[t]
         /\ wt[t].there => tip'[wt[t].on] = tip[wt[t].on]
  BY <1>1, <1>4, WorktreesAssumption DEF BranchesOK, TypesOK
<1>13. \A b \in Actors : job'[b] = job[b]
  BY <1>4
<1> QED BY <1>1, <1>4, <1>7, <1>8, <1>9, <1>10, <1>11, <1>12, <1>13, BranchStepIInv

LEMMA NewBranchIInv ==
  ASSUME IInv, NEW h \in Handlers, NewBranch(h)
  PROVE  IInv'
<1>1. /\ h \in Actors /\ h \notin Sessions /\ JobOK(h) /\ job[h] \in Jobs
      /\ TypesOK /\ HistoryOK /\ BranchesOK
  BY WorktreesAssumption DEF Actors, IInv, TypesOK
<1>2. PICK s \in Sessions, n \in Names :
        s = job[h].sess /\ n = job[h].ref /\ wt[s].there /\ WorktreeOK(s)
  BY <1>1 DEF NewBranch, At, JobOK, IInv
<1>3. PICK c : c = Head(s) /\ MayPoint(s, c) /\ c \in 1..made /\ base[s] # 0
  BY <1>2 DEF WorktreeOK, MayPoint
<1>4. /\ UNCHANGED <<made, commit, clone, base, edits, counter, reported>>
      /\ clone \in [on : Targets, conflict : BOOLEAN]
      /\ n \in Branches /\ n \notin Targets /\ n \notin Sessions
  BY <1>1, <1>2, WorktreesAssumption
  DEF NewBranch, UnchangedRows, UnchangedNotes, TypesOK, Branches
<1>5. CASE Return(h) /\ UNCHANGED <<tip, wt>>
  BY <1>1, <1>4, <1>5, ReturnIInv
<1>6. CASE /\ tip[n] = 0 /\ tip' = [tip EXCEPT ![n] = Head(s)]
           /\ wt' = [wt EXCEPT ![s].on = n] /\ Done(h, "add")
  <2> DEFINE w == [wt[s] EXCEPT !.on = n]
             r == [job[h] EXCEPT !.at = "add", !.ref = Default, !.sha = 0]
  <2>1. /\ wt[s] \in Worktree /\ w \in Worktree /\ w.there /\ w.on = n
        /\ w.staged = wt[s].staged /\ w.dirty = wt[s].dirty
    BY <1>1, <1>2, <1>4 DEF TypesOK, Worktree
  <2>2. /\ wt' = [wt EXCEPT ![s] = w] /\ wt'[s] = w /\ wt' \in [Sessions -> Worktree]
        /\ tip' = [tip EXCEPT ![n] = c] /\ tip'[n] = c
        /\ tip' \in [Branches -> 0..made] /\ \A t \in Targets : tip'[t] = tip[t]
    BY <1>1, <1>3, <1>4, <1>6, <2>1 DEF TypesOK, Worktree, Branches
  <2>3. r \in Jobs /\ r.op = job[h].op /\ r.sess = s /\ r.at = "add"
    BY <1>1, <1>2, WorktreesAssumption DEF Jobs, Places
  <2>4. job' = [job EXCEPT ![h] = r] /\ job'[h] = r /\ job' \in [Actors -> Jobs]
    BY <1>1, <1>6, <2>3 DEF Done, TypesOK
  <2>5. TypesOK'
    BY <1>1, <1>4, <2>2, <2>4 DEF TypesOK, Worktree
  <2>6. CommitsKept /\ HistoryOK' /\ MergedKept
    BY <1>1, <1>4, <2>2, NothingMade, MergedStays
  <2>7. Kept
    BY <1>1, <1>2, <1>4, <2>2, <2>6 DEF Kept, BasesKept, TypesOK
  <2>8. \A t \in Sessions \ {s} :
          /\ wt'[t] = wt[t] /\ reported'[t] = reported[t]
          /\ wt[t].there => wt[t].on # n /\ tip'[wt[t].on] = tip[wt[t].on]
    BY <1>1, <1>4, <1>6, <2>2 DEF TypesOK, IInv, WorktreeOK, MayPoint, Head
  <2>9. BranchesOK'
    BY <1>1, <2>1, <2>2, <2>8 DEF BranchesOK
  <2>10. WorktreeOK(s)'
    <3>1. Head(s)' = c
      BY <2>1, <2>2 DEF Head
    <3>2. MayPoint(s, c)'
      BY <1>1, <1>3, <2>7, MayPointKept
    <3>3. MayPoint(s, Head(s))' /\ Has(Head(s))' = Has(Head(s))
      BY <1>3, <1>4, <3>1, <3>2 DEF MayPoint, Rooted, Has, Allowed
    <3>4. Allowed(s) \subseteq Allowed(s)'
      BY <2>6 DEF Allowed, MergedKept
    <3> QED BY <1>2, <1>3, <1>4, <2>1, <2>2, <3>3, <3>4 DEF WorktreeOK
  <2>11. JobOK(h)'
    BY <1>1, <1>2, <1>4, <2>3, <2>4 DEF JobOK, At, NewBranch
  <2>12. \A b \in Actors \ {h} : job'[b] = job[b]
    BY <1>1, <2>4 DEF TypesOK
  <2> HIDE DEF w, r
  <2> QED BY <1>1, <1>4, <2>5, <2>6, <2>7, <2>8, <2>9, <2>10, <2>11, <2>12, BranchStepIInv
<1> QED BY <1>2, <1>5, <1>6 DEF NewBranch


LEMMA CancelIInv ==
  ASSUME IInv, NEW h \in Handlers, Removes(h) \/ DeletesBranch(h)
  PROVE  IInv'
<1>1. /\ h \in Actors /\ h \notin Sessions /\ JobOK(h) /\ job[h] \in Jobs
      /\ TypesOK /\ HistoryOK /\ BranchesOK
  BY WorktreesAssumption DEF Actors, IInv, TypesOK
<1>2. PICK s \in Sessions : s = job[h].sess /\ s \in Branches /\ s \notin Targets
  BY <1>1, WorktreesAssumption DEF Removes, DeletesBranch, At, JobOK, Branches
<1>3. UNCHANGED <<made, commit, clone, base, edits, counter>>
  BY DEF Removes, DeletesBranch, UnchangedRows
<1>4. \A t \in Sessions \ {s} : wt[t].there => wt[t].on # s
  BY <1>1, <1>2, WorktreesAssumption DEF BranchesOK
<1>5. CASE Removes(h)
  <2> DEFINE r == [job[h] EXCEPT !.at = "branch"]
  <2>1. NoWorktree \in Worktree /\ ~ NoWorktree.there
    BY WorktreesAssumption DEF NoWorktree, Worktree, Branches
  <2>2. /\ wt' \in [Sessions -> Worktree] /\ ~ wt'[s].there
        /\ \A t \in Sessions \ {s} : wt'[t] = wt[t] /\ reported'[t] = reported[t]
        /\ reported' \in [Sessions -> SUBSET Edits] /\ reported'[s] = {}
        /\ tip' = tip
    BY <1>1, <1>2, <1>5, <2>1 DEF Removes, TypesOK, Worktree
  <2>3. r \in Jobs /\ r.op = job[h].op /\ r.sess = s /\ r.at = "branch"
    BY <1>1, <1>2 DEF Jobs, Places
  <2>4. job' = [job EXCEPT ![h] = r] /\ job'[h] = r /\ job' \in [Actors -> Jobs]
    BY <1>1, <1>5, <2>3 DEF Removes, Goto, TypesOK
  <2>5. TypesOK'
    BY <1>1, <1>3, <2>2, <2>4 DEF TypesOK, Worktree
  <2>6. CommitsKept /\ HistoryOK' /\ MergedKept
    BY <1>1, <1>3, <2>2, NothingMade, MergedStays
  <2>7. Kept
    BY <1>1, <1>3, <2>2, <2>6 DEF Kept, BasesKept
  <2>8. BranchesOK'
    BY <1>1, <2>2 DEF BranchesOK
  <2>9. WorktreeOK(s)'
    BY <2>2 DEF WorktreeOK
  <2>10. JobOK(h)'
    BY <1>1, <1>2, <1>3, <1>5, <2>2, <2>3, <2>4 DEF JobOK, At, Removes
  <2>11. \A b \in Actors \ {h} : job'[b] = job[b]
    BY <1>1, <2>4 DEF TypesOK
  <2>12. \A t \in Sessions \ {s} : /\ wt'[t] = wt[t] /\ reported'[t] = reported[t]
                                   /\ wt[t].there => tip'[wt[t].on] = tip[wt[t].on]
    BY <2>2
  <2> HIDE DEF r
  <2> QED BY <1>1, <1>3, <2>5, <2>6, <2>7, <2>8, <2>9, <2>10, <2>11, <2>12, BranchStepIInv
<1>6. CASE DeletesBranch(h)
  <2>1. /\ tip' = [tip EXCEPT ![s] = 0] /\ tip' \in [Branches -> 0..made]
        /\ \A t \in Targets : tip'[t] = tip[t]
        /\ UNCHANGED <<wt, reported>> /\ ~ wt[s].there
    <3>1. 0 \in 0..made
      BY <1>1 DEF TypesOK, Commits
    <3> QED BY <1>1, <1>2, <1>6, <3>1
            DEF DeletesBranch, UnchangedNotes, TypesOK, JobOK, Branches
  <2>2. job' = [job EXCEPT ![h] = Idle] /\ job'[h] = Idle /\ job' \in [Actors -> Jobs]
    <3>1. Idle \in Jobs
      BY <1>1, ThreadTypes DEF Places
    <3> QED BY <1>1, <1>6, <3>1 DEF DeletesBranch, Return, TypesOK
  <2>3. TypesOK'
    BY <1>1, <1>3, <2>1, <2>2 DEF TypesOK
  <2>4. CommitsKept /\ HistoryOK' /\ MergedKept
    BY <1>1, <1>3, <2>1, NothingMade, MergedStays
  <2>5. Kept
    BY <1>3, <2>1, <2>4 DEF Kept, BasesKept
  <2>6. BranchesOK'
    BY <1>1, <2>1 DEF BranchesOK
  <2>7. WorktreeOK(s)'
    BY <2>1 DEF WorktreeOK, IInv
  <2>8. \A t \in Sessions \ {s} : /\ wt'[t] = wt[t] /\ reported'[t] = reported[t]
                                  /\ wt[t].there => tip'[wt[t].on] = tip[wt[t].on]
    BY <1>1, <1>4, <2>1 DEF TypesOK
  <2>9. \A b \in Actors \ {h} : job'[b] = job[b]
    BY <1>1, <2>2 DEF TypesOK
  <2> QED BY <1>1, <1>3, <2>2, <2>3, <2>4, <2>5, <2>6, <2>7, <2>8, <2>9, IdleOK, BranchStepIInv
<1> QED BY <1>5, <1>6

LEMMA MergeSucceedsIInv ==
  ASSUME IInv, NEW h \in Handlers, MergeSucceeds(h)
  PROVE  IInv'
<1>1. /\ h \in Actors /\ h \notin Sessions /\ JobOK(h)
      /\ TypesOK /\ HistoryOK /\ BranchesOK /\ clone \in [on : Targets, conflict : BOOLEAN]
  BY WorktreesAssumption DEF Actors, IInv, TypesOK
<1>2. PICK s \in Sessions : s = job[h].sess /\ s \in Branches
  BY <1>1 DEF MergeSucceeds, At, JobOK, Branches
<1>3. PICK b \in Targets : b = clone.on /\ b \in Branches /\ b \notin Sessions /\ b \notin Names
  BY <1>1, WorktreesAssumption DEF Branches
<1>4. PICK ours \in 1..made, theirs \in 1..made : ours = tip[b] /\ theirs = tip[s]
  BY <1>1, <1>2, <1>3 DEF MergeSucceeds, TypesOK
<1>5. /\ UNCHANGED <<clone, wt, base, edits, counter, reported>> /\ Return(h)
  BY DEF MergeSucceeds, UnchangedRows, UnchangedNotes
<1>6. CASE UNCHANGED <<made, commit, tip>>
  BY <1>1, <1>5, <1>6, ReturnIInv
<1>7. ASSUME CommitsKept, HistoryOK', commit' \in [Commits -> Commit],
             NEW c \in 1..made', tip' = [tip EXCEPT ![b] = c], Has(ours) \subseteq Has(c)'
      PROVE  IInv'
  <2>1. /\ \A t \in Branches \ {b} : tip'[t] = tip[t]
        /\ tip'[b] = c /\ 0..made \subseteq 0..made'
    <3>1. made \in Nat /\ made' \in Nat /\ made <= made'
      BY <1>1, <1>7 DEF CommitsKept, TypesOK, Commits
    <3> QED BY <1>1, <1>3, <1>7, <3>1 DEF TypesOK
  <2>2. job' \in [Actors -> Jobs] /\ job'[h] = Idle /\ \A a \in Actors \ {h} : job'[a] = job[a]
    <3>1. Idle \in Jobs
      BY <1>1, ThreadTypes DEF Places
    <3> QED BY <1>1, <1>5, <3>1 DEF Return, TypesOK
  <2>3. TypesOK'
    <3>1. tip' \in [Branches -> 0..made'] /\ \A t \in Targets : tip'[t] # 0
      <4>1. c \in 0..made' /\ c # 0
        BY <1>7 DEF CommitsKept, Commits
      <4> QED BY <1>1, <1>3, <1>7, <2>1, <4>1 DEF TypesOK, Branches
    <3>2. base' \in [Sessions -> 0..made'] /\ made' \in Commits
      BY <1>1, <1>5, <1>7, <2>1 DEF TypesOK, CommitsKept
    <3> QED BY <1>1, <1>5, <1>7, <2>2, <3>1, <3>2 DEF TypesOK
  <2>4. MergedKept
    <3>1. ASSUME NEW t \in Targets, t # b PROVE Has(tip[t])' = Has(tip[t])
      <4>1. tip'[t] = tip[t] /\ tip[t] \in 1..made
        BY <1>1, <2>1, <3>1 DEF TypesOK, Branches
      <4> QED BY <1>7, <4>1 DEF Has, CommitsKept
    <3>2. Has(tip[b]) \subseteq Has(tip[b])'
      BY <1>4, <1>7, <2>1 DEF Has
    <3> QED BY <3>1, <3>2 DEF MergedKept, Merged
  <2>5. Kept /\ BranchesOK'
    BY <1>1, <1>5, <1>7, <2>4 DEF Kept, BasesKept, BranchesOK
  <2>6. \A t \in Sessions : /\ wt'[t] = wt[t] /\ reported'[t] = reported[t]
                            /\ wt[t].there => tip'[wt[t].on] = tip[wt[t].on]
    BY <1>1, <1>3, <1>5, <2>1 DEF BranchesOK, TypesOK
  <2>7. WorktreeOK(s)'
    BY <2>5, <2>6, WorktreeKept
  <2> QED BY <1>1, <1>5, <1>7, <2>2, <2>3, <2>5, <2>6, <2>7, IdleOK, BranchStepIInv
<1>8. CASE /\ ours \in commit[theirs].anc /\ tip' = [tip EXCEPT ![b] = theirs]
           /\ UNCHANGED <<made, commit>>
  <2>1. CommitsKept /\ HistoryOK' /\ commit' \in [Commits -> Commit] /\ theirs \in 1..made'
    BY <1>1, <1>8, NothingMade DEF TypesOK
  <2>2. Has(ours) \subseteq Has(theirs)'
    BY <1>1, <1>8 DEF HistoryOK, Has
  <2> QED BY <1>7, <1>8, <2>1, <2>2
<1>9. CASE NewCommit(b, ours, {ours, theirs}, Has(ours) \cup Has(theirs), "merge", 0)
  <2> DEFINE ps == {ours, theirs}
             has == Has(ours) \cup Has(theirs)
  <2>1. has \in SUBSET Edits
    <3>1. ours \in Commits /\ theirs \in Commits
      BY <1>1, WorktreesAssumption DEF TypesOK, Commits
    <3> QED BY <1>1, <3>1 DEF Has, TypesOK, Commit
  <2>2. ps \in SUBSET (1..made) /\ ours \in ps /\ \A p \in ps : Has(p) \subseteq has
    OBVIOUS
  <2>3. PICK kind \in {"checkpoint", "commit", "merge"}, step \in Nat :
          NewCommit(b, ours, ps, has, kind, step)
    BY <1>9
  <2>4. Has(ours) \subseteq has
    OBVIOUS
  <2> HIDE DEF ps, has
  <2>5. /\ CommitsKept /\ HistoryOK' /\ made' \in Commits
        /\ commit' \in [Commits -> Commit] /\ tip' = [tip EXCEPT ![b] = made']
        /\ commit'[made'].has = has
    <3>1. TypesOK /\ HistoryOK /\ b \in Branches
      BY <1>1, <1>3
    <3> QED BY <2>1, <2>2, <2>3, <3>1, NewCommitLaws DEF NewCommit
  <2>6. PICK c \in 1..made' : c = made'
    BY <2>5 DEF Commits
  <2>7. tip' = [tip EXCEPT ![b] = c] /\ Has(ours) \subseteq Has(c)'
    BY <2>4, <2>5, <2>6 DEF Has
  <2> QED BY <1>7, <2>5, <2>6, <2>7
<1> QED BY <1>2, <1>3, <1>4, <1>6, <1>8, <1>9 DEF MergeSucceeds


-----------------------------------------------------------------------------
(* The invariant.                                                          *)

LEMMA InitIInv == Init => IInv
<1> SUFFICES ASSUME Init PROVE IInv
  OBVIOUS
<1>1. /\ 1 \in Commits /\ 1..made = {1} /\ made = 1
      /\ \A t \in Targets : t \in Branches /\ tip[t] = 1
      /\ \A s \in Sessions : ~ wt[s].there /\ reported[s] = {}
      /\ \A a \in Actors : job[a] = Idle
  BY WorktreesAssumption DEF Init, Commits, Branches, NoWorktree
<1>2. Idle \in Jobs /\ NoWorktree \in Worktree
  BY WorktreesAssumption DEF Idle, Jobs, Ops, Places, NoWorktree, Worktree, Branches
<1>3. TypesOK
  <2>1. commit \in [Commits -> Commit]
    <3>1. [anc |-> {1}, parent |-> 0, has |-> {}, kind |-> "base", step |-> 0] \in Commit
      BY <1>1, WorktreesAssumption DEF Commit
    <3> QED BY <3>1 DEF Init
  <2>2. tip \in [Branches -> 0..made] /\ base \in [Sessions -> 0..made]
    BY <1>1 DEF Init
  <2>3. edits \in [Sessions -> 0..MaxEdits] /\ counter \in [Sessions -> Nat]
    BY WorktreesAssumption DEF Init
  <2> QED BY <1>1, <1>2, <2>1, <2>2, <2>3, WorktreesAssumption DEF Init, TypesOK, Worktree
<1>4. HistoryOK
  BY <1>1 DEF Init, HistoryOK, Has
<1>5. BranchesOK /\ \A s \in Sessions : WorktreeOK(s)
  BY <1>1 DEF BranchesOK, WorktreeOK
<1>6. \A a \in Actors : JobOK(a)
  BY <1>1 DEF JobOK, At, Idle
<1> QED BY <1>3, <1>4, <1>5, <1>6 DEF IInv

LEMMA StepIInv == IInv /\ [Next]_vars => IInv'
<1> SUFFICES ASSUME IInv, [Next]_vars PROVE IInv'
  OBVIOUS
<1>1. CASE UNCHANGED vars
  BY <1>1, NothingMoves DEF vars
<1>2. ASSUME NEW s \in Sessions, Agent(s) PROVE IInv'
  BY <1>2, CreateIInv, AgentMovesIInv, ToolWritesIInv, CommitsIInv, ReturnsIInv DEF Agent
<1>3. ASSUME NEW h \in Handlers, Handler(h) PROVE IInv'
  <2>1. h \in Actors
    BY DEF Actors
  <2> QED BY <1>3, <2>1, NewBranchIInv, CommitsIInv, ReturnsIInv, LooksIInv, ResetsIInv, AddsIInv,
             RevertsIInv, CancelIInv, MergeMovesIInv, MergeSucceedsIInv DEF Handler
<1>4. ASSUME NEW h \in Handlers, NEW s \in Sessions,
             AsksCommit(h, s) \/ AsksOther(h, s) \/ AsksMerge(h, s)
      PROVE  IInv'
  BY <1>4, AsksIInv
<1>5. ASSUME NEW a \in Actors, Adds(a) \/ Gone(a) \/ ActsOutside(a) PROVE IInv'
  BY <1>5, AddsIInv, ReturnsIInv
<1> QED BY <1>1, <1>2, <1>3, <1>4, <1>5 DEF Next

LEMMA AlwaysIInv == Spec => []IInv
<1>1. Init => IInv
  BY InitIInv
<1>2. IInv /\ [Next]_vars => IInv'
  BY StepIInv
<1> QED BY <1>1, <1>2, PTL DEF Spec

\* Where a plain directory stands or has stood, a worktree was and will not be.
Elsewhere ==
  /\ plain \subseteq Sessions /\ outer \subseteq Sessions
  /\ \A s \in plain \cup outer : base[s] # 0 /\ ~ wt[s].there

LEMMA StepElsewhere == IInv /\ Elsewhere /\ [Next]_vars => Elsewhere'
<1> SUFFICES ASSUME IInv, Elsewhere, [Next]_vars PROVE Elsewhere'
  OBVIOUS
<1>1. TypesOK /\ \A a \in Actors : JobOK(a)
  BY DEF IInv
<1>2. BasesKept
  <2>1. ASSUME NEW s \in Sessions, Create(s) PROVE BasesKept
    BY <1>1, <2>1 DEF Create, BasesKept, TypesOK
  <2>2. ASSUME NEW s \in Sessions, ToolWrites(s) PROVE BasesKept
    BY <1>1, <2>2 DEF ToolWrites, BasesKept, TypesOK
  <2>3. ASSUME NEW s, Add(s), UNCHANGED base PROVE BasesKept
    BY <1>1, <2>3 DEF Add, BasesKept, TypesOK
  <2>4. ASSUME NEW s, NEW kind, NEW step, CommitIndex(s, kind, step), UNCHANGED base
        PROVE  BasesKept
    BY <1>1, <2>4 DEF CommitIndex, BasesKept, TypesOK
  <2>5. ASSUME NEW h \in Handlers,
               NewBranch(h) \/ SquashResets(h) \/ RestoreResets(h) \/ Reverts(h) \/ Removes(h)
        PROVE  BasesKept
    <3>1. UNCHANGED base
      BY <2>5
      DEF NewBranch, SquashResets, RestoreResets, Reverts, Removes, UnchangedRows
    <3>2. PICK s : /\ wt[s].there \/ wt' = [wt EXCEPT ![s] = NoWorktree]
                   /\ \A t \in Sessions \ {s} : wt'[t] = wt[t]
      BY <1>1, <2>5
      DEF NewBranch, SquashResets, RestoreResets, Reverts, Removes, TypesOK
    <3>3. s \in Sessions /\ wt' = [wt EXCEPT ![s] = NoWorktree] => ~ wt'[s].there
      BY <1>1 DEF TypesOK, NoWorktree
    <3> QED BY <3>1, <3>2, <3>3 DEF BasesKept
  <2>6. CASE UNCHANGED <<wt, base>>
    BY <2>6 DEF BasesKept
  <2> QED BY <2>1, <2>2, <2>3, <2>4, <2>5, <2>6
      DEF Next, Agent, Handler, LoopRestarts, ToolStarts, CheckpointCommits, CommitSkipped,
          UserCommits, CommitRefused, SquashLooks, SquashAdds, SquashCommits, SquashRefused,
          RestoreLists, DeletesBranch, MergeChecksOut, MergeSucceeds, MergeFails, MergeAborts,
          AsksCommit, AsksOther, AsksMerge, Adds, Gone, ActsOutside, UnchangedGit,
          UnchangedRows, vars
<1>3. ASSUME NEW s \in Sessions, base[s] # 0, ~ wt[s].there
      PROVE  base'[s] # 0 /\ ~ wt'[s].there
  BY <1>2, <1>3 DEF BasesKept
<1>4. ASSUME plain' \subseteq plain, outer' \subseteq outer PROVE Elsewhere'
  BY <1>3, <1>4 DEF Elsewhere
<1>5. ASSUME NEW s \in Sessions, ToolWrites(s) PROVE Elsewhere'
  <2>1. CASE wt[s].there
    BY <1>4, <1>5, <2>1 DEF ToolWrites
  <2>2. CASE ~ wt[s].there
    <3>1. plain' = plain \cup {s} /\ outer' = outer
      BY <1>5, <2>2 DEF ToolWrites
    <3>2. base[s] # 0
      BY <1>1, <1>5 DEF ToolWrites, JobOK, Actors
    <3> QED BY <1>3, <2>2, <3>1, <3>2 DEF Elsewhere
  <2> QED BY <2>1, <2>2
<1>6. ASSUME NEW a \in Actors, ActsOutside(a) PROVE Elsewhere'
  <2>1. job[a].sess \in Sessions /\ base[job[a].sess] # 0 /\ ~ wt[job[a].sess].there
    BY <1>1, <1>6 DEF ActsOutside, JobOK
  <2> QED BY <1>3, <1>6, <2>1 DEF ActsOutside, Elsewhere
<1>7. ASSUME NEW h \in Handlers, Removes(h) PROVE Elsewhere'
  BY <1>4, <1>7 DEF Removes
<1>8. CASE UnchangedPlain
  BY <1>4, <1>8 DEF UnchangedPlain
<1> QED BY <1>5, <1>6, <1>7, <1>8
    DEF Next, Agent, Handler, Create, LoopRestarts, ToolStarts, CheckpointCommits, CommitSkipped,
        NewBranch, UserCommits, CommitRefused, SquashLooks, SquashResets, SquashAdds,
        SquashCommits, SquashRefused, RestoreLists, RestoreResets, Reverts, DeletesBranch,
        MergeChecksOut, MergeSucceeds, MergeFails, MergeAborts, AsksCommit, AsksOther, AsksMerge,
        Adds, Gone, UnchangedNotes, UnchangedPlain, vars

LEMMA AlwaysElsewhere == Spec => []Elsewhere
<1>1. Init => Elsewhere
  BY DEF Init, Elsewhere
<1> QED BY <1>1, StepElsewhere, AlwaysIInv, PTL DEF Spec

\* A worktree holds its session's own edits and merged ones: whatever the
\* agents, the squashes, the restores and the merges of all sessions do in the
\* one clone; and a session works outside only when its worktree was deleted.
THEOREM IsolationCorrect == Spec => []Isolation
<1>1. IInv /\ Elsewhere => Isolation
  <2>1. ASSUME IInv, NEW s \in Sessions, wt[s].there, NEW e \in Tree(s)
        PROVE  e[1] = s \/ \E t \in Targets : e \in Has(tip[t])
    <3>1. Tree(s) \subseteq Allowed(s)
      BY <2>1 DEF IInv, WorktreeOK, MayPoint, Tree
    <3> QED BY <2>1, <3>1 DEF Allowed, Merged
  <2> QED BY <2>1 DEF Isolation, Elsewhere
<1> QED BY <1>1, AlwaysIInv, AlwaysElsewhere, PTL

\* What was reported to the user as committed is on the branch, or in the index
\* from where the next commit takes it.
THEOREM ReportedIsSafeCorrect == Spec => []ReportedIsSafe
<1>1. IInv => ReportedIsSafe
  BY DEF IInv, WorktreeOK, ReportedIsSafe
<1> QED BY <1>1, AlwaysIInv, PTL

\* The history of a session's branch goes on from the commit it started at,
\* unless it started at another session's checkpoints.
THEOREM BaseStaysInHistoryCorrect == Spec => []BaseStaysInHistory
<1>1. IInv => BaseStaysInHistory
  <2> SUFFICES ASSUME IInv, NEW s \in Sessions, wt[s].there, Checkpoints(base[s]) = {}
      PROVE  base[s] \in commit[Head(s)].anc
    BY DEF BaseStaysInHistory
  <2>1. Rooted(s, Head(s))
    BY DEF IInv, WorktreeOK, MayPoint
  <2> QED BY <2>1 DEF Rooted
<1> QED BY <1>1, AlwaysIInv, PTL


-----------------------------------------------------------------------------
(* What a step does to the work in the worktrees.                          *)

Loses(s) == wt[s].there /\ ~ Discards(s) /\ ~ (Tree(s) \subseteq Tree(s)')

\* A commit is what NewCommit makes of it, and older ones stay what they are.
LEMMA NewCommitGives ==
  ASSUME TypesOK, NEW b \in Branches, NEW new,
         made < MaxCommits, made' = made + 1,
         commit' = [commit EXCEPT ![made + 1] = new], tip' = [tip EXCEPT ![b] = made + 1]
  PROVE  /\ tip' = [tip EXCEPT ![b] = made'] /\ commit'[made'] = new
         /\ \A c \in 1..made : commit'[c] = commit[c]
<1>1. made' \in Commits
  BY WorktreesAssumption DEF TypesOK, Commits
<1>2. \A c \in 1..made : c \in Commits /\ c # made'
  BY WorktreesAssumption DEF TypesOK, Commits
<1> QED BY <1>1, <1>2 DEF TypesOK

LEMMA HeadIsCommit ==
  ASSUME IInv, NEW s \in Sessions, wt[s].there
  PROVE  Head(s) \in 1..made /\ wt[s].on \in Branches /\ wt[s].on \notin Targets
BY WorktreesAssumption DEF IInv, WorktreeOK, MayPoint, BranchesOK, TypesOK

\* Nothing happens to the worktree and its branch.
LEMMA TreeStays ==
  ASSUME IInv, NEW s \in Sessions, wt[s].there,
         \A c \in 1..made : commit'[c] = commit[c],
         wt'[s] = wt[s], tip'[wt[s].on] = tip[wt[s].on]
  PROVE  ~ Loses(s)
<1>1. Head(s)' = Head(s) /\ commit'[Head(s)] = commit[Head(s)]
  BY HeadIsCommit DEF Head
<1> QED BY <1>1 DEF Loses, Tree, Has

LEMMA OldCommits ==
  ASSUME IInv, UNCHANGED commit
  PROVE  \A c \in 1..made : commit'[c] = commit[c]
OBVIOUS

\* Steps that change neither worktrees nor the branches they are on.
LEMMA OthersLoseNothing ==
  ASSUME IInv, wt' = wt, commit' = commit,
         \A s \in Sessions : wt[s].there => tip'[wt[s].on] = tip[wt[s].on]
  PROVE  \A s \in Sessions : ~ Loses(s)
BY TreeStays, OldCommits DEF Loses

\* Of a step in one worktree only that worktree is to be looked at.
LEMMA WorktreeLoses ==
  ASSUME IInv, NEW s \in Sessions, wt[s].there, NEW w, wt' = [wt EXCEPT ![s] = w],
         \A b \in Branches \ {wt[s].on} : tip'[b] = tip[b],
         \A c \in 1..made : commit'[c] = commit[c],
         ~ Loses(s)
  PROVE  \A t \in Sessions : ~ Loses(t)
<1> SUFFICES ASSUME NEW t \in Sessions \ {s}, wt[t].there PROVE ~ Loses(t)
  BY DEF Loses
<1>1. wt'[t] = wt[t] /\ wt[t].on \in Branches \ {wt[s].on}
  BY DEF IInv, TypesOK, BranchesOK
<1> QED BY <1>1, TreeStays

LEMMA FilesLoseNothing ==
  ASSUME IInv, \/ \E s \in Sessions : ToolWrites(s) /\ wt[s].there
               \/ \E a \in Actors : Adds(a)
               \/ \E h \in Handlers : SquashAdds(h)
  PROVE  \A s \in Sessions : ~ Loses(s)
<1>1. TypesOK
  BY DEF IInv
<1>2. UNCHANGED <<commit, tip>>
  BY DEF ToolWrites, Adds, SquashAdds
<1>3. PICK s, st, di :
        /\ s \in Sessions
        /\ wt[s].there /\ wt' = [wt EXCEPT ![s] = [wt[s] EXCEPT !.staged = st, !.dirty = di]]
        /\ wt[s].staged \cup wt[s].dirty \subseteq st \cup di
  <2>1. ASSUME NEW s \in Sessions, ToolWrites(s), wt[s].there
        PROVE  wt[s].there /\ wt' = [wt EXCEPT ![s] = [wt[s] EXCEPT !.staged = wt[s].staged,
                                                 !.dirty = @ \cup {<<s, edits[s] + 1>>}]]
    BY <1>1, <2>1 DEF ToolWrites, TypesOK
  <2>2. ASSUME NEW a \in Actors, Adds(a) \/ (a \in Handlers /\ SquashAdds(a))
        PROVE  job[a].sess \in Sessions /\ wt[job[a].sess].there /\ Add(job[a].sess)
    BY <2>2 DEF Adds, SquashAdds, At, IInv, JobOK
  <2>3. ASSUME NEW s \in Sessions, Add(s)
        PROVE  wt' = [wt EXCEPT ![s] = [wt[s] EXCEPT !.staged = @ \cup wt[s].dirty, !.dirty = {}]]
    BY <1>1, <2>3 DEF Add, TypesOK
  <2>4. CASE \E s \in Sessions : ToolWrites(s) /\ wt[s].there
    <3>1. PICK s \in Sessions : ToolWrites(s) /\ wt[s].there
      BY <2>4
    <3>2. PICK st, di : st = wt[s].staged /\ di = wt[s].dirty \cup {<<s, edits[s] + 1>>}
      OBVIOUS
    <3>3. /\ wt[s].there /\ wt' = [wt EXCEPT ![s] = [wt[s] EXCEPT !.staged = st, !.dirty = di]]
          /\ wt[s].staged \cup wt[s].dirty \subseteq st \cup di
      BY <2>1, <3>1, <3>2
    <3> QED BY <3>3
  <2>5. CASE \E a \in Actors : Adds(a) \/ (a \in Handlers /\ SquashAdds(a))
    <3>1. PICK s \in Sessions : wt[s].there /\ Add(s)
      BY <2>2, <2>5
    <3>2. PICK st, di : st = wt[s].staged \cup wt[s].dirty /\ di = {}
      OBVIOUS
    <3>3. /\ wt[s].there /\ wt' = [wt EXCEPT ![s] = [wt[s] EXCEPT !.staged = st, !.dirty = di]]
          /\ wt[s].staged \cup wt[s].dirty \subseteq st \cup di
      BY <2>3, <3>1, <3>2
    <3> QED BY <3>3
  <2> QED BY <2>4, <2>5 DEF Actors
<1>4. ~ Loses(s)
  <2>1. wt'[s].on = wt[s].on /\ wt'[s].staged = st /\ wt'[s].dirty = di
    BY <1>1, <1>3 DEF TypesOK
  <2> QED BY <1>2, <1>3, <2>1 DEF Loses, Tree, Has, Head
<1> QED BY <1>2, <1>3, <1>4, WorktreeLoses, OldCommits

LEMMA CommitsLoseNothing ==
  ASSUME IInv, NEW s \in Sessions, wt[s].there, NEW kind, NEW step, CommitIndex(s, kind, step)
  PROVE  \A t \in Sessions : ~ Loses(t)
<1>1. TypesOK /\ Head(s) \in 1..made /\ wt[s].on \in Branches
  BY HeadIsCommit DEF IInv
<1> DEFINE has == Has(Head(s)) \cup wt[s].staged
           w == [wt[s] EXCEPT !.staged = {}]
<1>2. PICK b, new :
        /\ b \in Branches /\ b = wt[s].on /\ new.has = has /\ made < MaxCommits /\ made' = made + 1
        /\ commit' = [commit EXCEPT ![made + 1] = new] /\ tip' = [tip EXCEPT ![b] = made + 1]
  BY <1>1 DEF CommitIndex, NewCommit
<1>3. /\ tip' = [tip EXCEPT ![b] = made'] /\ commit'[made'].has = has
      /\ \A c \in 1..made : commit'[c] = commit[c]
  <2> HIDE DEF has
  <2> QED BY <1>1, <1>2, NewCommitGives
<1>4. wt' = [wt EXCEPT ![s] = w] /\ wt'[s] = w
  BY <1>1 DEF CommitIndex, TypesOK
<1>5. w.on = wt[s].on /\ w.staged = {} /\ w.dirty = wt[s].dirty
  BY <1>1 DEF TypesOK
<1>6. ~ Loses(s)
  <2>1. Head(s)' = made'
    BY <1>1, <1>2, <1>3, <1>4, <1>5 DEF Head, TypesOK
  <2>2. Tree(s)' = has \cup wt[s].dirty
    BY <1>3, <1>4, <1>5, <2>1 DEF Tree, Has
  <2> QED BY <2>2 DEF Loses, Tree
<1>7. \A c \in Branches \ {wt[s].on} : tip'[c] = tip[c]
  BY <1>1, <1>2, <1>3 DEF TypesOK
<1> HIDE DEF w
<1> QED BY <1>3, <1>4, <1>6, <1>7, WorktreeLoses


LEMMA BranchesLoseNothing ==
  ASSUME IInv, \/ \E s \in Sessions : Create(s)
               \/ \E h \in Handlers : \/ NewBranch(h) \/ SquashResets(h) \/ DeletesBranch(h)
                                      \/ MergeSucceeds(h)
  PROVE  \A s \in Sessions : ~ Loses(s)
<1>1. TypesOK
  BY DEF IInv
<1>2. ASSUME NEW s \in Sessions, Create(s)
      PROVE  \A t \in Sessions : ~ Loses(t)
  <2>1. ~ wt[s].there /\ s \in Branches
    BY <1>2 DEF IInv, WorktreeOK, Create, Branches
  <2>2. ASSUME NEW t \in Sessions \ {s}, wt[t].there PROVE ~ Loses(t)
    <3>1. wt[t].on # s /\ wt[t].on \in Branches
      BY <2>2, WorktreesAssumption DEF IInv, BranchesOK, TypesOK
    <3>2. wt'[t] = wt[t] /\ tip'[wt[t].on] = tip[wt[t].on] /\ commit' = commit
      BY <1>1, <1>2, <2>2, <3>1 DEF Create, TypesOK
    <3> QED BY <2>2, <3>2, TreeStays, OldCommits
  <2> QED BY <2>1, <2>2 DEF Loses
<1>3. ASSUME NEW h \in Handlers, NewBranch(h)
      PROVE  \A t \in Sessions : ~ Loses(t)
  <2>1. PICK s \in Sessions, n \in Names : s = job[h].sess /\ n = job[h].ref /\ wt[s].there
    BY <1>3 DEF NewBranch, At, IInv, JobOK, Actors
  <2>2. commit' = commit
    BY <1>3 DEF NewBranch
  <2>3. CASE UNCHANGED <<tip, wt>>
    BY <2>2, <2>3, OthersLoseNothing
  <2>4. CASE /\ tip[n] = 0 /\ tip' = [tip EXCEPT ![n] = Head(s)]
             /\ wt' = [wt EXCEPT ![s].on = n]
    <3>1. n \in Branches
      BY DEF Branches
    <3>2. wt'[s].on = n /\ wt'[s].staged = wt[s].staged /\ wt'[s].dirty = wt[s].dirty
      BY <1>1, <2>4, <3>1 DEF TypesOK
    <3>3. Head(s)' = Head(s)
      BY <1>1, <2>4, <3>1, <3>2 DEF Head, TypesOK
    <3>4. ~ Loses(s)
      BY <2>2, <3>2, <3>3 DEF Loses, Tree, Has
    <3>5. ASSUME NEW t \in Sessions \ {s}, wt[t].there PROVE ~ Loses(t)
      <4>1. Head(t) # 0 /\ wt[t].on \in Branches
        BY <3>5, HeadIsCommit
      <4>2. wt[t].on # n
        BY <2>4, <4>1 DEF Head
      <4>3. wt'[t] = wt[t] /\ tip'[wt[t].on] = tip[wt[t].on]
        BY <1>1, <2>4, <4>1, <4>2 DEF TypesOK
      <4> QED BY <2>2, <3>5, <4>3, TreeStays, OldCommits
    <3> QED BY <3>4, <3>5 DEF Loses
  <2> QED BY <1>3, <2>1, <2>3, <2>4 DEF NewBranch
<1>4. ASSUME NEW h \in Handlers, SquashResets(h)
      PROVE  \A t \in Sessions : ~ Loses(t)
  <2>1. PICK s \in Sessions : s = job[h].sess /\ wt[s].there
    BY <1>4 DEF SquashResets, At, IInv, JobOK, Actors
  <2> DEFINE c == job[h].sha
             w == [wt[s] EXCEPT !.staged = (@ \cup Has(Head(s))) \ Has(c)]
  <2>2. /\ commit' = commit /\ tip' = [tip EXCEPT ![wt[s].on] = c]
        /\ wt' = [wt EXCEPT ![s] = w] /\ wt'[s] = w
    BY <1>1, <1>4, <2>1 DEF SquashResets, TypesOK
  <2>3. /\ w.on = wt[s].on /\ w.staged = (wt[s].staged \cup Has(Head(s))) \ Has(c)
        /\ w.dirty = wt[s].dirty
    BY <1>1 DEF TypesOK
  <2>4. ~ Loses(s)
    <3>1. tip'[wt[s].on] = c
      BY <1>1, <2>1, <2>2, HeadIsCommit DEF TypesOK
    <3>2. Tree(s)' = Has(c) \cup w.staged \cup w.dirty
      BY <2>2, <2>3, <3>1 DEF Tree, Has, Head
    <3> QED BY <2>3, <3>2 DEF Loses, Tree
  <2>5. \A b \in Branches \ {wt[s].on} : tip'[b] = tip[b]
    BY <1>1, <2>2 DEF TypesOK
  <2> HIDE DEF w
  <2> QED BY <2>1, <2>2, <2>4, <2>5, WorktreeLoses, OldCommits
<1>5. ASSUME NEW h \in Handlers, DeletesBranch(h)
      PROVE  \A t \in Sessions : ~ Loses(t)
  <2>1. PICK s \in Sessions : s = job[h].sess /\ ~ wt[s].there
    BY <1>5 DEF DeletesBranch, At, IInv, JobOK, Actors
  <2>2. wt' = wt /\ commit' = commit /\ tip' = [tip EXCEPT ![s] = 0]
    BY <1>5, <2>1 DEF DeletesBranch
  <2>3. \A t \in Sessions : wt[t].there => wt[t].on # s
    BY <2>1, WorktreesAssumption DEF IInv, BranchesOK
  <2> QED BY <1>1, <2>2, <2>3, OthersLoseNothing DEF TypesOK
<1>6. ASSUME NEW h \in Handlers, MergeSucceeds(h)
      PROVE  \A t \in Sessions : ~ Loses(t)
  <2>1. PICK b \in Targets : b = clone.on /\ b \in Branches /\ wt' = wt
    BY <1>1, <1>6 DEF MergeSucceeds, TypesOK, Branches
  <2>2. \A t \in Sessions : wt[t].there => wt[t].on # b /\ wt[t].on \in Branches
    BY HeadIsCommit
  <2>3. ASSUME \A c \in 1..made : commit'[c] = commit[c], NEW c, tip' = [tip EXCEPT ![b] = c]
        PROVE  \A t \in Sessions : ~ Loses(t)
    <3>1. \A t \in Sessions : wt[t].there => tip'[wt[t].on] = tip[wt[t].on]
      BY <1>1, <2>2, <2>3 DEF TypesOK
    <3> QED BY <2>1, <2>3, <3>1, TreeStays DEF Loses
  <2>4. CASE UNCHANGED <<made, commit, tip>>
    BY <2>1, <2>4, OthersLoseNothing
  <2>5. CASE UNCHANGED <<made, commit>> /\ tip' = [tip EXCEPT ![b] = tip[job[h].sess]]
    BY <2>3, <2>5
  <2>6. CASE \E new : /\ made < MaxCommits /\ made' = made + 1
                      /\ commit' = [commit EXCEPT ![made + 1] = new]
                      /\ tip' = [tip EXCEPT ![b] = made + 1]
    <3>1. tip' = [tip EXCEPT ![b] = made'] /\ \A c \in 1..made : commit'[c] = commit[c]
      BY <1>1, <2>1, <2>6, NewCommitGives
    <3>2. PICK c : c = made'
      OBVIOUS
    <3> QED BY <2>3, <3>1, <3>2
  <2> QED BY <1>6, <2>1, <2>4, <2>5, <2>6 DEF MergeSucceeds, NewCommit
<1> QED BY <1>2, <1>3, <1>4, <1>5, <1>6

\* What these take away is what their user asked them to.
LEMMA DiscardsLoseNothingElse ==
  ASSUME IInv, NEW h \in Handlers, RestoreResets(h) \/ Reverts(h) \/ Removes(h)
  PROVE  \A s \in Sessions : ~ Loses(s)
<1>1. TypesOK /\ h \in Actors
  BY DEF IInv, Actors
<1>2. PICK s \in Sessions : s = job[h].sess
  BY <1>1 DEF RestoreResets, Reverts, Removes, At, IInv, JobOK
<1>3. Discards(s)
  <2>1. job'[h] # job[h]
    <3>1. CASE RestoreResets(h) \/ Reverts(h)
      BY <1>1, <3>1 DEF RestoreResets, Reverts, At, Return, Idle, TypesOK
    <3>2. CASE Removes(h)
      <4>1. job'[h].at = "branch" /\ job[h].at = "remove"
        BY <1>1, <3>2 DEF Removes, Goto, At, TypesOK, Jobs
      <4> QED BY <4>1
    <3> QED BY <3>1, <3>2
  <2> QED BY <1>2, <2>1 DEF Discards, RestoreResets, Reverts, Removes, At
<1>4. ASSUME NEW t \in Sessions \ {s}, wt[t].there PROVE ~ Loses(t)
  <2>1. wt'[t] = wt[t] /\ commit' = commit
    BY <1>1, <1>2 DEF RestoreResets, Reverts, Removes, TypesOK
  <2>2. tip'[wt[t].on] = tip[wt[t].on]
    <3>1. CASE RestoreResets(h)
      <4>1. wt[t].on # wt[s].on /\ wt[t].on \in Branches
        BY <1>2, <1>4, <3>1 DEF RestoreResets, IInv, BranchesOK, TypesOK
      <4> QED BY <1>1, <1>2, <3>1, <4>1 DEF RestoreResets, TypesOK
    <3>2. CASE Reverts(h) \/ Removes(h)
      BY <3>2 DEF Reverts, Removes
    <3> QED BY <3>1, <3>2
  <2> QED BY <1>4, <2>1, <2>2, TreeStays, OldCommits
<1> QED BY <1>3, <1>4 DEF Loses

\* No commit, checkpoint, squash or merge, and no failure of one, takes an edit out
\* of a worktree; only a restore, a revert or a delete of that worktree does.
THEOREM NoStepLosesWorkCorrect == Spec => NoStepLosesWork
<1>1. ASSUME IInv, Next PROVE \A s \in Sessions : ~ Loses(s)
  <2>1. ASSUME NEW s \in Sessions, Agent(s) PROVE \A t \in Sessions : ~ Loses(t)
    <3>1. CASE LoopRestarts(s) \/ ToolStarts(s) \/ CommitSkipped(s)
      BY <1>1, <3>1, OthersLoseNothing DEF LoopRestarts, ToolStarts, CommitSkipped, UnchangedGit
    <3>2. CASE CheckpointCommits(s)
      BY <1>1, <3>2, CommitsLoseNothing DEF CheckpointCommits
    <3>3. CASE ToolWrites(s) /\ ~ wt[s].there
      BY <1>1, <3>3, OthersLoseNothing DEF ToolWrites
    <3> QED BY <1>1, <2>1, <3>1, <3>2, <3>3, FilesLoseNothing, BranchesLoseNothing DEF Agent
  <2>2. ASSUME NEW h \in Handlers, Handler(h) PROVE \A t \in Sessions : ~ Loses(t)
    <3>1. CASE \/ CommitRefused(h) \/ SquashLooks(h) \/ SquashRefused(h) \/ RestoreLists(h)
               \/ MergeChecksOut(h) \/ MergeFails(h) \/ MergeAborts(h)
      BY <1>1, <3>1, OthersLoseNothing
      DEF CommitRefused, SquashLooks, SquashRefused, RestoreLists, MergeChecksOut, MergeFails,
          MergeAborts, UnchangedGit
    <3>2. CASE UserCommits(h) \/ SquashCommits(h)
      <4>1. PICK s \in Sessions : wt[s].there /\ CommitIndex(s, "commit", 0)
        BY <1>1, <3>2 DEF UserCommits, SquashCommits, At, IInv, JobOK, Actors
      <4> QED BY <1>1, <4>1, CommitsLoseNothing
    <3> QED BY <1>1, <2>2, <3>1, <3>2, FilesLoseNothing, BranchesLoseNothing,
               DiscardsLoseNothingElse DEF Handler
  <2>3. ASSUME NEW h \in Handlers, NEW s \in Sessions,
               AsksCommit(h, s) \/ AsksOther(h, s) \/ AsksMerge(h, s)
        PROVE  \A t \in Sessions : ~ Loses(t)
    BY <1>1, <2>3, OthersLoseNothing DEF AsksCommit, AsksOther, AsksMerge, UnchangedGit
  <2>4. ASSUME NEW a \in Actors, Adds(a) \/ Gone(a) \/ ActsOutside(a)
        PROVE  \A t \in Sessions : ~ Loses(t)
    <3>1. CASE Gone(a) \/ ActsOutside(a)
      BY <1>1, <3>1, OthersLoseNothing DEF Gone, ActsOutside, UnchangedGit
    <3> QED BY <1>1, <2>4, <3>1, FilesLoseNothing
  <2> QED BY <1>1, <2>1, <2>2, <2>3, <2>4 DEF Next
<1>2. ASSUME IInv, [Next]_vars
      PROVE  [\A s \in Sessions :
                wt[s].there /\ ~ Discards(s) => Tree(s) \subseteq Tree(s)']_vars
  BY <1>1, <1>2 DEF Loses, vars
<1> QED BY <1>2, AlwaysIInv, PTL DEF Spec, NoStepLosesWork

\* Checkpoints are counted no further than the edits they are taken after.
THEOREM TypeCorrect == Spec => []TypeOK
<1> DEFINE Counted == \A s \in Sessions : counter[s] \in 0..edits[s]
<1>1. Init => Counted
  BY DEF Init
<1>2. ASSUME IInv, Counted, [Next]_vars PROVE Counted'
  <2>1. ASSUME NEW s \in Sessions, LoopRestarts(s) PROVE Counted'
    BY <1>2, <2>1 DEF LoopRestarts, IInv, TypesOK
  <2>2. ASSUME NEW s \in Sessions, ToolWrites(s) PROVE Counted'
    <3>1. edits' = [edits EXCEPT ![s] = @ + 1] /\ edits[s] \in Nat /\ counter[s] \in 0..edits[s]
      BY <1>2, <2>2 DEF ToolWrites, IInv, TypesOK
    <3>2. counter' = [counter EXCEPT ![s] = @ + 1] \/ counter' = counter
      BY <2>2 DEF ToolWrites
    <3> QED BY <1>2, <3>1, <3>2 DEF IInv, TypesOK
  <2>3. CASE UNCHANGED <<edits, counter>>
    BY <1>2, <2>3
  <2> QED BY <1>2, <2>1, <2>2, <2>3
      DEF Next, Agent, Handler, Create, ToolStarts, CheckpointCommits, CommitSkipped,
          NewBranch, UserCommits, CommitRefused, SquashLooks, SquashResets, SquashAdds,
          SquashCommits, SquashRefused, RestoreLists, RestoreResets, Reverts, Removes,
          DeletesBranch, MergeChecksOut, MergeSucceeds, MergeFails, MergeAborts, AsksCommit,
          AsksOther, AsksMerge, Adds, Gone, ActsOutside, UnchangedRows, vars
<1>3. IInv /\ Elsewhere /\ Counted => TypeOK
  <2> SUFFICES ASSUME IInv, Elsewhere, Counted PROVE TypeOK
    OBVIOUS
  <2>1. counter \in [Sessions -> 0..MaxEdits]
    BY WorktreesAssumption DEF IInv, TypesOK
  <2>2. \A s \in Sessions : wt[s].there => Head(s) # 0 /\ base[s] # 0
    BY HeadIsCommit DEF IInv, WorktreeOK
  <2> QED BY <2>1, <2>2 DEF IInv, TypesOK, Elsewhere, TypeOK
<1> HIDE DEF Counted
<1> QED BY <1>1, <1>2, <1>3, AlwaysIInv, AlwaysElsewhere, PTL DEF Spec
=============================================================================
