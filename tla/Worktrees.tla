----------------------------- MODULE Worktrees -----------------------------
(* The git side of agent sessions: the sessions of a repository share one clone, *)
(* each has a worktree and a branch of its own.  Loops edit and checkpoint,      *)
(* request handlers commit, squash, restore, revert, merge and delete, all as    *)
(* git commands in worker threads with no lock between them.  A commit is its    *)
(* number, in the order of creation; a tree is the set of edits it contains.     *)
EXTENDS Naturals, FiniteSets, FiniteSetsExt

CONSTANTS
  Sessions,    \* agent sessions, also the names of their branches
  Targets,     \* branches of the clone that sessions are merged into
  Default,     \* the branch the clone has checked out at first
  Names,       \* names users give to new branches
  Handlers,    \* requests handled at a time
  MaxCommits,  \* commits ever made
  MaxEdits,    \* edits of a session
  Faults       \* subset of FaultKinds

\* git refuses a commit, a merge conflicts, REPOS_DIR lies inside another repository
\* (as the default "repos" does in a checkout of the program).
FaultKinds == {"commit", "conflict", "enclosed"}

\* A session's branch is agent/<id>/<slug>, which is no name of another branch.
ASSUME WorktreesAssumption ==
  /\ Default \in Targets
  /\ Targets \cap Sessions = {} /\ Targets \cap Names = {} /\ Sessions \cap Names = {}
  /\ Handlers \cap Sessions = {}
  /\ MaxCommits \in Nat \ {0} /\ MaxEdits \in Nat
  /\ Faults \subseteq FaultKinds

VARIABLES
  made,      \* number of commits
  commit,    \* 1..made: what each is
  tip,       \* branch -> commit, 0 if there is no such branch
  clone,     \* the clone: branch checked out, unresolved merge
  wt,        \* the worktree of each session
  plain,     \* sessions with a plain directory where the worktree was removed
  outer,     \* sessions whose git commands ran in the repository around the clones
  base,      \* worktrees.base_commit
  edits,     \* number of edits each session's agent made
  counter,   \* _checkpoint_counter of each session's agent loop
  job,       \* what each actor's thread is doing
  reported   \* edits in the commits that were reported to the user

vars == <<made, commit, tip, clone, wt, plain, outer, base, edits, counter, job,
          reported>>

Branches == Targets \cup Sessions \cup Names
Actors == Handlers \cup Sessions     \* a session's own loop is an actor
Edits == Sessions \X (1..MaxEdits)
Commits == 1..MaxCommits

\* A commit: its history with itself, its first parent, its tree, its message.
Commit == [anc : SUBSET Commits, parent : 0..MaxCommits, has : SUBSET Edits,
           kind : {"base", "checkpoint", "commit", "merge"}, step : Nat]

NoWorktree == [there |-> FALSE, on |-> Default, staged |-> {}, dirty |-> {}]
Idle == [op |-> "none", sess |-> Default, at |-> "none", ref |-> Default, sha |-> 0]

Init ==
  /\ made = 1
  /\ commit = [c \in Commits |-> [anc |-> {1}, parent |-> 0, has |-> {},
                                  kind |-> "base", step |-> 0]]
  /\ tip = [b \in Branches |-> IF b \in Targets THEN 1 ELSE 0]
  /\ clone = [on |-> Default, conflict |-> FALSE]
  /\ wt = [s \in Sessions |-> NoWorktree]
  /\ plain = {} /\ outer = {}
  /\ base = [s \in Sessions |-> 0]
  /\ edits = [s \in Sessions |-> 0]
  /\ counter = [s \in Sessions |-> 0]
  /\ job = [a \in Actors |-> Idle]
  /\ reported = [s \in Sessions |-> {}]

-----------------------------------------------------------------------------
(* Git.                                                                    *)

Head(s) == tip[wt[s].on]
Has(c) == commit[c].has
Tree(s) == Has(Head(s)) \cup wt[s].staged \cup wt[s].dirty

\* A new commit on branch b with parents ps, the first one given, and tree has.
NewCommit(b, parent, ps, has, kind, step) ==
  /\ made < MaxCommits
  /\ made' = made + 1
  /\ commit' = [commit EXCEPT ![made + 1] =
       [anc |-> {made + 1} \cup UNION {commit[p].anc : p \in ps},
        parent |-> parent, has |-> has, kind |-> kind, step |-> step]]
  /\ tip' = [tip EXCEPT ![b] = made + 1]

\* git add -A
Add(s) == wt' = [wt EXCEPT ![s].staged = @ \cup wt[s].dirty, ![s].dirty = {}]

\* git commit: the index becomes a commit of the branch that is checked out.
CommitIndex(s, kind, step) ==
  /\ NewCommit(wt[s].on, Head(s), {Head(s)}, Has(Head(s)) \cup wt[s].staged, kind, step)
  /\ wt' = [wt EXCEPT ![s].staged = {}]

Clean(s) == wt[s].staged = {} /\ wt[s].dirty = {}

\* git commit has nothing staged, or a hook, a lock or a missing identity refuses it.
Refused(s) == wt[s].staged = {} \/ "commit" \in Faults

Checkpoints(c) == {d \in commit[c].anc : commit[d].kind = "checkpoint"}

-----------------------------------------------------------------------------
(* Threads: at names the git command an actor's thread runs next.          *)

At(a, op, at) == job[a].op = op /\ job[a].at = at
Goto(a, at) == job' = [job EXCEPT ![a].at = at]
\* Go to at and forget the name or commit that the last command was given.
Done(a, at) == job' = [job EXCEPT ![a].at = at, ![a].ref = Default, ![a].sha = 0]
Return(a) == job' = [job EXCEPT ![a] = Idle]

\* A request for a session's worktree.  One that finds no directory fails without a
\* trace and is left out.
Request(h, s, op, at, ref) ==
  /\ job[h] = Idle
  /\ base[s] # 0
  /\ wt[s].there \/ s \in plain \/ op = "merge"
  /\ job' = [job EXCEPT ![h] = [op |-> op, sess |-> s, at |-> at, ref |-> ref, sha |-> 0]]

UnchangedGit == UNCHANGED <<made, commit, tip, clone, wt>>
UnchangedRows == UNCHANGED <<base, edits, counter>>
UnchangedPlain == UNCHANGED <<plain, outer>>
UnchangedNotes == UNCHANGED reported /\ UnchangedPlain

\* The worktree is gone: the next command in it raises, for there is no directory
\* or no repository around it; so does the edit of a file that went with it.
Gone(a) ==
  /\ job[a].op \in {"commit", "restore", "revert", "checkpoint", "tool", "stray"}
  /\ ~ wt[job[a].sess].there
  /\ Return(a)
  /\ UnchangedGit /\ UnchangedRows /\ UnchangedNotes

\* The worktree is gone, but a plain directory is in its place: git finds the
\* repository around it.  add -A and commit take that one's pending changes,
\* checkout -b switches its branch, clean empties the directory; what is
\* in that repository is not modelled.  The thread goes on there, or fails.
ActsOutside(a) ==
  /\ job[a].op \in {"commit", "restore", "revert", "checkpoint"}
  /\ ~ wt[job[a].sess].there /\ job[a].sess \in plain
  /\ "enclosed" \in Faults
  /\ outer' = outer \cup {job[a].sess}
  /\ Return(a) \/ UNCHANGED job
  /\ UNCHANGED <<plain, reported>>
  /\ UnchangedGit /\ UnchangedRows

-----------------------------------------------------------------------------
(* The agent.                                                              *)

\* Mutant of Create: the worktree starts from the newest commit of the clone.
CreateAtNewest(s) ==
  /\ base[s] = 0
  /\ tip' = [tip EXCEPT ![s] = made]
  /\ wt' = [wt EXCEPT ![s] = [NoWorktree EXCEPT !.there = TRUE, !.on = s]]
  /\ base' = [base EXCEPT ![s] = made]
  /\ UNCHANGED <<made, commit, clone, edits, counter, job>> /\ UnchangedNotes

\* create_worktree: git worktree add -b, from whatever the clone has checked
\* out; create_agent_session then starts a loop.
Create(s) ==
  LET head == tip[clone.on] IN
  /\ base[s] = 0
  /\ tip' = [tip EXCEPT ![s] = head]
  /\ wt' = [wt EXCEPT ![s] = [NoWorktree EXCEPT !.there = TRUE, !.on = s]]
  /\ base' = [base EXCEPT ![s] = head]
  /\ UNCHANGED <<made, commit, clone, edits, counter, job>> /\ UnchangedNotes

\* The loop ends, and a message starts another: a new CodingAgent, whose
\* checkpoints count from 1 again.  The thread that the old one awaited goes on
\* by itself; a tool's result is then nobody's.  A deleted session answers too.
LoopRestarts(s) ==
  /\ base[s] # 0
  /\ counter' = [counter EXCEPT ![s] = 0]
  /\ job' = [job EXCEPT ![s].op = IF @ = "tool" THEN "stray" ELSE @]
  /\ UnchangedGit /\ UnchangedNotes
  /\ UNCHANGED <<base, edits>>

\* A batch of tool calls begins in a thread, whether or not the worktree still
\* exists.  Shell commands (run_command) are not modelled.
ToolStarts(s) ==
  /\ job[s] = Idle /\ base[s] # 0
  /\ edits[s] < MaxEdits
  /\ job' = [job EXCEPT ![s] = [Idle EXCEPT !.op = "tool", !.sess = s, !.at = "write"]]
  /\ UnchangedGit /\ UnchangedRows /\ UnchangedNotes

\* It edits a file: write_file makes the directories that are missing, that of a
\* removed worktree too.  If the loop still waits for it, a checkpoint follows.
ToolWrites(s) ==
  /\ job[s].at = "write"
  /\ edits' = [edits EXCEPT ![s] = @ + 1]
  /\ IF wt[s].there
     THEN wt' = [wt EXCEPT ![s].dirty = @ \cup {<<s, edits[s] + 1>>}] /\ UNCHANGED plain
     ELSE plain' = plain \cup {s} /\ UNCHANGED wt
  /\ IF job[s].op = "tool"
     THEN /\ counter' = [counter EXCEPT ![s] = @ + 1]
          /\ job' = [job EXCEPT ![s].op = "checkpoint", ![s].at = "add",
                                 ![s].sha = counter[s] + 1]
     ELSE UNCHANGED counter /\ Return(s)
  /\ UNCHANGED <<made, commit, tip, clone, base, outer, reported>>

\* git add -A, of a checkpoint or commit_session_changes.
Adds(a) ==
  LET s == job[a].sess IN
  /\ job[a].at = "add"
  /\ wt[s].there
  /\ Add(s)
  /\ Goto(a, "commit")
  /\ UNCHANGED <<made, commit, tip, clone>> /\ UnchangedRows /\ UnchangedNotes

CheckpointCommits(s) ==
  /\ At(s, "checkpoint", "commit") /\ wt[s].there
  /\ ~ Clean(s) /\ wt[s].staged # {}
  /\ CommitIndex(s, "checkpoint", job[s].sha)
  /\ Return(s)
  /\ UNCHANGED clone /\ UnchangedRows /\ UnchangedNotes

\* Nothing to commit, or git refuses: the loop only logs it.
CommitSkipped(s) ==
  /\ At(s, "checkpoint", "commit") /\ wt[s].there
  /\ Refused(s)
  /\ Return(s)
  /\ UnchangedGit /\ UnchangedRows /\ UnchangedNotes

-----------------------------------------------------------------------------
(* commit_session_changes and _squash_checkpoints_if_any.                  *)

AsksCommit(h, s) ==
  /\ \E n \in Names \cup {Default} :
       Request(h, s, "commit", IF n = Default THEN "add" ELSE "branch", n)
  /\ UnchangedGit /\ UnchangedRows /\ UnchangedNotes

\* git checkout -b; an existing name is refused.
NewBranch(h) ==
  LET s == job[h].sess n == job[h].ref IN
  /\ At(h, "commit", "branch") /\ wt[s].there
  /\ IF tip[n] = 0
     THEN /\ tip' = [tip EXCEPT ![n] = Head(s)]
          /\ wt' = [wt EXCEPT ![s].on = n]
          /\ Done(h, "add")
     ELSE Return(h) /\ UNCHANGED <<tip, wt>>
  /\ UNCHANGED <<made, commit, clone>> /\ UnchangedRows /\ UnchangedNotes

\* The commit's hash goes back to the user.
Reports(s) == reported' = [reported EXCEPT ![s] = Has(Head(s)) \cup wt[s].staged]

UserCommits(h) ==
  LET s == job[h].sess IN
  /\ At(h, "commit", "commit") /\ wt[s].there
  /\ wt[s].staged # {}
  /\ CommitIndex(s, "commit", 0)
  /\ Reports(s)
  /\ Return(h)
  /\ UNCHANGED clone /\ UnchangedRows /\ UnchangedPlain

CommitRefused(h) ==
  LET s == job[h].sess IN
  /\ At(h, "commit", "commit") /\ wt[s].there
  /\ ~ Clean(s) /\ Refused(s)
  /\ Return(h)
  /\ UnchangedGit /\ UnchangedRows /\ UnchangedNotes

\* Mutant of SquashBase: the search does not look at the message.
AnyBase(c) == Min(commit[c].anc)

\* The parent of the oldest checkpoint in the history of c.
SquashBase(c) == commit[Min(Checkpoints(c))].parent

\* Nothing to commit: look for checkpoints, and remember where to go back to.
SquashLooks(h) ==
  LET s == job[h].sess IN
  /\ At(h, "commit", "commit") /\ wt[s].there
  /\ Clean(s)
  /\ IF Checkpoints(Head(s)) = {} \/ SquashBase(Head(s)) = 0
     THEN Return(h)
     ELSE job' = [job EXCEPT ![h].at = "reset", ![h].sha = SquashBase(Head(s))]
  /\ UnchangedGit /\ UnchangedRows /\ UnchangedNotes

\* Mutant of SquashResets: git reset --hard.
SquashResetsHard(h) ==
  LET s == job[h].sess IN
  /\ At(h, "commit", "reset") /\ wt[s].there
  /\ tip' = [tip EXCEPT ![wt[s].on] = job[h].sha]
  /\ wt' = [wt EXCEPT ![s].staged = {}, ![s].dirty = {}]
  /\ Done(h, "add again")
  /\ UNCHANGED <<made, commit, clone>> /\ UnchangedRows /\ UnchangedNotes

\* git reset --soft: the branch goes back, index and files stay.
SquashResets(h) ==
  LET s == job[h].sess IN
  /\ At(h, "commit", "reset") /\ wt[s].there
  /\ tip' = [tip EXCEPT ![wt[s].on] = job[h].sha]
  /\ wt' = [wt EXCEPT ![s].staged = (@ \cup Has(Head(s))) \ Has(job[h].sha)]
  /\ Done(h, "add again")
  /\ UNCHANGED <<made, commit, clone>> /\ UnchangedRows /\ UnchangedNotes

SquashAdds(h) ==
  /\ At(h, "commit", "add again") /\ wt[job[h].sess].there
  /\ Add(job[h].sess)
  /\ Goto(h, "recommit")
  /\ UNCHANGED <<made, commit, tip, clone>> /\ UnchangedRows /\ UnchangedNotes

SquashCommits(h) ==
  LET s == job[h].sess IN
  /\ At(h, "commit", "recommit") /\ wt[s].there
  /\ wt[s].staged # {}
  /\ CommitIndex(s, "commit", 0)
  /\ Reports(s)
  /\ Return(h)
  /\ UNCHANGED clone /\ UnchangedRows /\ UnchangedPlain

\* The branch stays where it was reset to; the answer is "nothing to commit".
SquashRefused(h) ==
  LET s == job[h].sess IN
  /\ At(h, "commit", "recommit") /\ wt[s].there
  /\ Refused(s)
  /\ Return(h)
  /\ UnchangedGit /\ UnchangedRows /\ UnchangedNotes

-----------------------------------------------------------------------------
(* restore_session_checkpoint, revert_session_changes, cancel_session.     *)

AsksOther(h, s) ==
  /\ \/ Request(h, s, "restore", "list", Default)
     \/ Request(h, s, "revert", "checkout", Default)
     \/ Request(h, s, "cancel", "remove", Default)
  /\ UnchangedGit /\ UnchangedRows /\ UnchangedNotes

\* The user names a step; the newest checkpoint of that number is taken.
RestoreLists(h) ==
  LET s == job[h].sess IN
  /\ At(h, "restore", "list") /\ wt[s].there
  /\ \/ \E c \in Checkpoints(Head(s)) :
          /\ \A d \in Checkpoints(Head(s)) :
               commit[d].step = commit[c].step => d <= c
          /\ job' = [job EXCEPT ![h].at = "reset", ![h].sha = c]
     \/ Return(h)                               \* no such step
  /\ UnchangedGit /\ UnchangedRows /\ UnchangedNotes

\* git reset --hard
RestoreResets(h) ==
  LET s == job[h].sess IN
  /\ At(h, "restore", "reset") /\ wt[s].there
  /\ tip' = [tip EXCEPT ![wt[s].on] = job[h].sha]
  /\ wt' = [wt EXCEPT ![s].staged = {}, ![s].dirty = {}]
  /\ reported' = [reported EXCEPT ![s] = @ \cap Has(job[h].sha)]
  /\ Return(h)
  /\ UNCHANGED <<made, commit, clone>> /\ UnchangedRows /\ UnchangedPlain

\* Mutant of Reverts: git reset --hard instead.
RevertsHard(h) ==
  LET s == job[h].sess IN
  /\ At(h, "revert", "checkout") /\ wt[s].there
  /\ wt' = [wt EXCEPT ![s].staged = {}, ![s].dirty = {}]
  /\ Return(h)
  /\ UNCHANGED <<made, commit, tip, clone>> /\ UnchangedRows /\ UnchangedNotes

\* git checkout . takes the files from the index, git clean those not in it.
Reverts(h) ==
  LET s == job[h].sess IN
  /\ At(h, "revert", "checkout") /\ wt[s].there
  /\ wt' = [wt EXCEPT ![s].dirty = {}]
  /\ Return(h)
  /\ UNCHANGED <<made, commit, tip, clone>> /\ UnchangedRows /\ UnchangedNotes

\* git worktree remove --force, or rmtree; the session's loop is not cancelled.
Removes(h) ==
  LET s == job[h].sess IN
  /\ At(h, "cancel", "remove")
  /\ wt' = [wt EXCEPT ![s] = NoWorktree]
  /\ plain' = plain \ {s}
  /\ reported' = [reported EXCEPT ![s] = {}]
  /\ Goto(h, "branch")
  /\ UNCHANGED <<made, commit, tip, clone, outer>> /\ UnchangedRows

\* git branch -D for the branches agent/<id>/*.
DeletesBranch(h) ==
  LET s == job[h].sess IN
  /\ At(h, "cancel", "branch")
  /\ tip' = [tip EXCEPT ![s] = 0]
  /\ Return(h)
  /\ UNCHANGED <<made, commit, clone, wt>> /\ UnchangedRows /\ UnchangedNotes

-----------------------------------------------------------------------------
(* merge_session: the branch stored with the worktree's row, into the clone. *)

AsksMerge(h, s) ==
  /\ \E t \in Targets : Request(h, s, "merge", "checkout", t)
  /\ UnchangedGit /\ UnchangedRows /\ UnchangedNotes

\* git checkout raises while a merge of the clone is unresolved.
MergeChecksOut(h) ==
  /\ At(h, "merge", "checkout")
  /\ IF clone.conflict THEN Return(h) /\ UNCHANGED clone
     ELSE clone' = [clone EXCEPT !.on = job[h].ref] /\ Goto(h, "merge")
  /\ UNCHANGED <<made, commit, tip, wt>> /\ UnchangedRows /\ UnchangedNotes

\* Up to date, a fast forward, or a merge commit.  The row's status "merged" is
\* read by nobody; trigger_reindex is RepoIndexing's.
MergeSucceeds(h) ==
  LET ours == tip[clone.on] theirs == tip[job[h].sess] IN
  /\ At(h, "merge", "merge") /\ ~ clone.conflict /\ theirs # 0
  /\ \/ /\ theirs \in commit[ours].anc
        /\ UNCHANGED <<made, commit, tip>>
     \/ /\ theirs # ours /\ ours \in commit[theirs].anc
        /\ tip' = [tip EXCEPT ![clone.on] = theirs]
        /\ UNCHANGED <<made, commit>>
     \/ /\ theirs \notin commit[ours].anc /\ ours \notin commit[theirs].anc
        /\ NewCommit(clone.on, ours, {ours, theirs}, Has(ours) \cup Has(theirs), "merge", 0)
  /\ Return(h)
  /\ UNCHANGED <<clone, wt>> /\ UnchangedRows /\ UnchangedNotes

\* A conflict, another merge unresolved, or a branch that is gone.
MergeFails(h) ==
  LET ours == tip[clone.on] theirs == tip[job[h].sess] IN
  /\ At(h, "merge", "merge")
  /\ \/ clone.conflict \/ theirs = 0
     \/ /\ "conflict" \in Faults /\ theirs # 0
        /\ theirs \notin commit[ours].anc /\ ours \notin commit[theirs].anc
  /\ clone' = [clone EXCEPT !.conflict = @ \/ theirs # 0]
  /\ Done(h, "abort")
  /\ UNCHANGED <<made, commit, tip, wt>> /\ UnchangedRows /\ UnchangedNotes

\* git merge --abort, whoever's merge it is.
MergeAborts(h) ==
  /\ At(h, "merge", "abort")
  /\ clone' = [clone EXCEPT !.conflict = FALSE]
  /\ Return(h)
  /\ UNCHANGED <<made, commit, tip, wt>> /\ UnchangedRows /\ UnchangedNotes

-----------------------------------------------------------------------------

Agent(s) ==
  \/ Create(s) \/ LoopRestarts(s) \/ ToolStarts(s) \/ ToolWrites(s)
  \/ CheckpointCommits(s) \/ CommitSkipped(s)

Handler(h) ==
  \/ NewBranch(h) \/ UserCommits(h) \/ CommitRefused(h)
  \/ SquashLooks(h) \/ SquashResets(h) \/ SquashAdds(h) \/ SquashCommits(h)
  \/ SquashRefused(h)
  \/ RestoreLists(h) \/ RestoreResets(h) \/ Reverts(h)
  \/ Removes(h) \/ DeletesBranch(h)
  \/ MergeChecksOut(h) \/ MergeSucceeds(h) \/ MergeFails(h) \/ MergeAborts(h)

Next ==
  \/ \E s \in Sessions : Agent(s)
  \/ \E h \in Handlers : Handler(h)
  \/ \E h \in Handlers, s \in Sessions :
       AsksCommit(h, s) \/ AsksOther(h, s) \/ AsksMerge(h, s)
  \/ \E a \in Actors : Adds(a) \/ Gone(a) \/ ActsOutside(a)

Spec == Init /\ [][Next]_vars

-----------------------------------------------------------------------------
(* Properties.                                                             *)

\* Every variable stays in its range; the branch of a worktree exists.
TypeOK ==
  /\ made \in Commits
  /\ commit \in [Commits -> Commit]
  /\ tip \in [Branches -> 0..made]
  /\ clone \in [on : Targets, conflict : BOOLEAN]
  /\ wt \in [Sessions -> [there : BOOLEAN, on : Branches,
                          staged : SUBSET Edits, dirty : SUBSET Edits]]
  /\ \A s \in Sessions : wt[s].there => Head(s) # 0 /\ base[s] # 0
  /\ plain \subseteq Sessions /\ outer \subseteq Sessions
  /\ base \in [Sessions -> 0..made]
  /\ edits \in [Sessions -> 0..MaxEdits]
  /\ counter \in [Sessions -> 0..MaxEdits]
  /\ reported \in [Sessions -> SUBSET Edits]

Discards(s) == \E h \in Handlers :
  /\ job[h].sess = s /\ job[h].op \in {"restore", "revert", "cancel"}
  /\ job'[h] # job[h]

\* Whatever commits, checkpoints, squashes and merges do to one worktree at a time,
\* and wherever they fail: an edit that is in it stays in it, until a
\* restore, a revert or a delete takes it out.
NoStepLosesWork ==
  [][\A s \in Sessions :
       wt[s].there /\ ~ Discards(s) => Tree(s) \subseteq Tree(s)']_vars

\* create_worktree: "Create an isolated Git worktree for an agent session."  The
\* work of another session gets into a worktree only through a target branch, and
\* only a session whose worktree was deleted, but whose loop or a request goes on,
\* has its files and git commands elsewhere: in the repository around the clones.
Isolation ==
  /\ \A s \in Sessions : wt[s].there =>
       \A e \in Tree(s) : e[1] = s \/ \E t \in Targets : e \in Has(tip[t])
  /\ \A s \in plain \cup outer : base[s] # 0 /\ ~ wt[s].there

\* What was reported to the user as committed is on the branch or, during a squash
\* and after one that failed, in the index, from where the next commit takes
\* it.  A revert does not reach it, a restore may take it back.
ReportedIsSafe ==
  \A s \in Sessions : wt[s].there =>
    reported[s] \subseteq Has(Head(s)) \cup wt[s].staged

\* The commit that a worktree started from stays in the history of its branch,
\* and so what the branch merges is the session's own work.  A start from
\* merged checkpoints of another session is the exception: the searches of squash
\* and restore then go back beyond it.
BaseStaysInHistory ==
  \A s \in Sessions :
    wt[s].there /\ Checkpoints(base[s]) = {} => base[s] \in commit[Head(s)].anc
=============================================================================
