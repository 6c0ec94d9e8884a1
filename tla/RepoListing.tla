---------------------------- MODULE RepoListing ----------------------------
(* The list of a user's repositories: clients poll it, list_all and its        *)
(* asynchronous twin keep it for a few seconds, and writers of the table drop  *)
(* it.  The writes of the table are numbered in the order they are committed,  *)
(* and a list is the number of writes that it shows.  Entries of other users   *)
(* have other keys, and a write drops them all: one user's entry is enough.    *)
(* The definitions have names of their own so that one module can extend this  *)
(* model and Connections, the other one of the db package.                     *)
EXTENDS Naturals, Sequences

CONSTANTS
  Clients,    \* requests for the list, one at a time each
  Writers,    \* tasks that write the table
  MaxWrites,  \* writes
  None,       \* no entry
  ListFaults  \* "select" fails, the answer to a commit is lost ("ack")

ASSUME RepoListingAssumption ==
  MaxWrites \in Nat /\ None \notin Nat /\ ListFaults \subseteq {"select", "ack"}

VARIABLES
  log,      \* the writes committed: "insert", "pending", "busted", "unanswered"
  cache,    \* the user's entry of _list_cache
  raced,    \* the entry was read before a bust and stored after it
  busting,  \* the write whose invalidate_list_cache a writer is about to call
  place,    \* where a client's request stands
  snap,     \* the list it has read
  late,     \* a bust came after it read
  seen      \* the list each client got last

listVars == <<log, cache, raced, busting, place, snap, late, seen>>

ListInit ==
  /\ log = <<>>
  /\ cache = None
  /\ raced = FALSE
  /\ busting = [w \in Writers |-> 0]
  /\ place = [c \in Clients |-> "idle"]
  /\ snap = [c \in Clients |-> 0]
  /\ late = [c \in Clients |-> FALSE]
  /\ seen = [c \in Clients |-> 0]

-----------------------------------------------------------------------------
(* list_all.                                                               *)

\* Mutant of Hit: what was served from the cache is stored again, to keep it alive.
HitStores(c) ==
  /\ place[c] = "idle" /\ cache # None
  /\ place' = [place EXCEPT ![c] = "store"]
  /\ snap' = [snap EXCEPT ![c] = cache]
  /\ late' = [late EXCEPT ![c] = raced]
  /\ UNCHANGED <<log, cache, raced, busting, seen>>

Hit(c) ==
  /\ place[c] = "idle" /\ cache # None
  /\ seen' = [seen EXCEPT ![c] = cache]
  /\ UNCHANGED <<log, cache, raced, busting, place, snap, late>>

Miss(c) ==
  /\ place[c] = "idle" /\ cache = None
  /\ place' = [place EXCEPT ![c] = "select"]
  /\ UNCHANGED <<log, cache, raced, busting, snap, late, seen>>

Select(c) ==
  /\ place[c] = "select"
  /\ snap' = [snap EXCEPT ![c] = Len(log)]
  /\ late' = [late EXCEPT ![c] = FALSE]
  /\ place' = [place EXCEPT ![c] = "store"]
  /\ UNCHANGED <<log, cache, raced, busting, seen>>

\* The statement fails, and the request with it.
SelectFails(c) ==
  /\ "select" \in ListFaults
  /\ place[c] = "select"
  /\ place' = [place EXCEPT ![c] = "idle"]
  /\ UNCHANGED <<log, cache, raced, busting, snap, late, seen>>

\* The entry is replaced whatever was there, and its time begins anew.
Store(c) ==
  /\ place[c] = "store"
  /\ cache' = snap[c]
  /\ raced' = late[c]
  /\ seen' = [seen EXCEPT ![c] = snap[c]]
  /\ place' = [place EXCEPT ![c] = "idle"]
  /\ UNCHANGED <<log, busting, snap, late>>

\* The entry's three seconds are over, or it made room for another.
Expire ==
  /\ cache # None
  /\ cache' = None /\ raced' = FALSE
  /\ UNCHANGED <<log, busting, place, snap, late, seen>>

-----------------------------------------------------------------------------
(* Writes.                                                                 *)

\* insert, which drops no entry.
Inserts ==
  /\ Len(log) < MaxWrites
  /\ log' = Append(log, "insert")
  /\ UNCHANGED <<cache, raced, busting, place, snap, late, seen>>

\* update_status and the other updates, delete: the transaction ...
Updates(w) ==
  /\ busting[w] = 0 /\ Len(log) < MaxWrites
  /\ log' = Append(log, "pending")
  /\ busting' = [busting EXCEPT ![w] = Len(log) + 1]
  /\ UNCHANGED <<cache, raced, place, snap, late, seen>>

\* ... which raises when its answer is lost, and nothing is dropped ...
UpdatesUnanswered(w) ==
  /\ "ack" \in ListFaults
  /\ busting[w] = 0 /\ Len(log) < MaxWrites
  /\ log' = Append(log, "unanswered")
  /\ UNCHANGED <<cache, raced, busting, place, snap, late, seen>>

\* Mutant of Bust: the entry of no user is popped.
BustsNothing(w) ==
  /\ busting[w] # 0
  /\ log' = [log EXCEPT ![busting[w]] = "busted"]
  /\ busting' = [busting EXCEPT ![w] = 0]
  /\ late' = [c \in Clients |-> late[c] \/ place[c] = "store"]
  /\ UNCHANGED <<cache, raced, place, snap, seen>>

\* ... then invalidate_list_cache().
Bust(w) ==
  /\ busting[w] # 0
  /\ log' = [log EXCEPT ![busting[w]] = "busted"]
  /\ busting' = [busting EXCEPT ![w] = 0]
  /\ late' = [c \in Clients |-> late[c] \/ place[c] = "store"]
  /\ cache' = None /\ raced' = FALSE
  /\ UNCHANGED <<place, snap, seen>>

-----------------------------------------------------------------------------

ListNext ==
  \/ \E c \in Clients : Hit(c) \/ Miss(c) \/ Select(c) \/ SelectFails(c) \/ Store(c)
  \/ \E w \in Writers : Updates(w) \/ UpdatesUnanswered(w) \/ Bust(w)
  \/ Inserts \/ Expire

ListSpec == ListInit /\ [][ListNext]_listVars

\* The page polls, a list is not refused for ever, and an entry does not outlive its
\* three seconds.  Writes are not fair.
FairListSpec ==
  /\ ListSpec
  /\ WF_listVars(Expire)
  /\ \A c \in Clients :
       WF_listVars(Hit(c) \/ Miss(c) \/ Store(c)) /\ SF_listVars(Select(c))
  /\ \A w \in Writers : WF_listVars(Bust(w))

-----------------------------------------------------------------------------
(* Properties.                                                             *)

ListTypeOK ==
  /\ log \in Seq({"insert", "pending", "busted", "unanswered"})
  /\ Len(log) <= MaxWrites
  /\ cache \in {None} \cup 0..Len(log)
  /\ raced \in BOOLEAN
  /\ busting \in [Writers -> 0..Len(log)]
  /\ place \in [Clients -> {"idle", "select", "store"}]
  /\ snap \in [Clients -> 0..Len(log)]
  /\ late \in [Clients -> BOOLEAN]
  /\ seen \in [Clients -> 0..Len(log)]

\* "Writes call invalidate_list_cache to bust stale entries": once a write has done
\* so, the entry shows it, unless the request that stored the entry had read
\* the table before the bust.
BustedWritesShow ==
  cache # None /\ ~raced =>
    \A i \in 1..Len(log) : log[i] = "busted" => i <= cache

\* Once nothing is written any more, every client comes to see all that was written,
\* the insertions and the unanswered writes too, and never an older list again.
ListsCatchUp == <>[](\A c \in Clients : seen[c] = Len(log))
=============================================================================
