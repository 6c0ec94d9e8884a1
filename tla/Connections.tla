---------------------------- MODULE Connections ----------------------------
(* The psycopg2 pool of connection.py: threads that call a function of a db     *)
(* service, each with get_connection inside and some with retry_on_disconnect  *)
(* around it.  A semaphore has as many permits as the pool may have            *)
(* connections.  The server may drop a connection, and the client learns of it *)
(* only when it uses the connection next.                                      *)
EXTENDS Naturals, FiniteSets

CONSTANTS
  Callers,     \* threads
  Retrying,    \* those that call functions wrapped in retry_on_disconnect
  MinConn,     \* DB_POOL_MIN_CONN: connections that the pool keeps idle
  MaxConn,     \* DB_POOL_MAX_CONN
  MaxRetries,  \* MAX_DB_RETRIES
  MaxDrops,    \* connections that the server drops
  Faults       \* subset of FaultKinds

\* The server refuses a connection, a statement fails, the server commits and the
\* connection breaks before the answer.
FaultKinds == {"refuse", "statement", "ack"}

ASSUME ConnectionsAssumption ==
  /\ IsFiniteSet(Callers) /\ Retrying \subseteq Callers
  /\ MinConn \in Nat /\ MaxConn \in Nat \ {0}
  /\ MaxRetries \in Nat /\ MaxDrops \in Nat
  /\ Faults \subseteq FaultKinds

VARIABLES
  permits,   \* _conn_semaphore
  used,      \* connections that the pool counts as handed out
  idle,      \* connections in the pool, by what they are at the server
  drops,     \* connections dropped so far
  at,        \* where each thread stands in get_connection
  conn,      \* the connection a thread holds
  attempt,   \* attempts that have failed
  outcome,   \* what the attempt, and in the end the call, comes to
  applied,   \* times the call's transaction was committed
  hit        \* the server dropped or refused it, lost it an answer

poolVars == <<permits, used, idle, drops>>
callVars == <<at, conn, attempt, outcome, applied, hit>>
vars == <<poolVars, callVars>>

\* "take" is getconn, "register" is register_vector, "work" the body of the
\* function and the commit, "discard" is putconn(close=True).
Holding == {"take", "register", "retake", "reregister", "work",
            "discard", "putback", "release"}
Places == {"idle", "acquire"} \cup Holding

Init ==
  /\ permits = MaxConn
  /\ used = 0
  /\ idle = [live |-> MinConn, dead |-> 0]
  /\ drops = 0
  /\ at = [t \in Callers |-> "idle"]
  /\ conn = [t \in Callers |-> "none"]
  /\ attempt = [t \in Callers |-> 0]
  /\ outcome = [t \in Callers |-> "none"]
  /\ applied = [t \in Callers |-> 0]
  /\ hit = [t \in Callers |-> {}]

-----------------------------------------------------------------------------
(* psycopg2's ThreadedConnectionPool.                                      *)

\* getconn: an idle connection, or a new one.
Handed(kind) ==
  \/ /\ idle[kind] > 0
     /\ idle' = [idle EXCEPT ![kind] = @ - 1]
  \/ /\ kind = "live"
     /\ idle.live + idle.dead = 0 /\ used < MaxConn
     /\ UNCHANGED idle

\* putconn: the pool keeps it if it holds fewer than MinConn.  A failed rollback
\* has told the client that the connection is dead, and the pool closes it.
Returned(t) ==
  LET kept == [idle EXCEPT ![conn[t]] = @ + 1] IN
  IF idle.live + idle.dead < MinConn
  THEN idle' = kept \/ (conn[t] = "dead" /\ outcome[t] = "error" /\ idle' = idle)
  ELSE idle' = idle

-----------------------------------------------------------------------------
(* get_connection.                                                         *)

\* A thread calls a function of a db service.
Call(t) ==
  /\ at[t] = "idle"
  /\ at' = [at EXCEPT ![t] = "acquire"]
  /\ UNCHANGED <<poolVars, conn, attempt, outcome, applied, hit>>

Acquire(t) ==
  /\ at[t] = "acquire" /\ permits > 0
  /\ permits' = permits - 1
  /\ at' = [at EXCEPT ![t] = "take"]
  /\ UNCHANGED <<used, idle, drops, conn, attempt, outcome, applied, hit>>

\* The first getconn, and the one that replaces a stale connection.  A third
\* outcome, PoolError, would need used = MaxConn here: NeverExhausted.
Take(t) ==
  /\ at[t] \in {"take", "retake"}
  /\ \E kind \in {"live", "dead"} :
       Handed(kind) /\ conn' = [conn EXCEPT ![t] = kind]
  /\ used' = used + 1
  /\ at' = [at EXCEPT ![t] = IF @ = "take" THEN "register" ELSE "reregister"]
  /\ UNCHANGED <<permits, drops, attempt, outcome, applied, hit>>

\* The server refuses a new connection: OperationalError.  There is nothing to
\* put back: the stale connection is no longer the pool's.
TakeRefused(t) ==
  /\ "refuse" \in Faults
  /\ at[t] \in {"take", "retake"}
  /\ idle.live + idle.dead = 0 /\ used < MaxConn
  /\ at' = [at EXCEPT ![t] = "release"]
  /\ outcome' = [outcome EXCEPT ![t] = "lost"]
  /\ hit' = [hit EXCEPT ![t] = @ \cup {"struck"}]
  /\ UNCHANGED <<poolVars, conn, attempt, applied>>

\* register_vector, the first statement: the connection works.
Registers(t) ==
  /\ at[t] \in {"register", "reregister"} /\ conn[t] = "live"
  /\ at' = [at EXCEPT ![t] = "work"]
  /\ UNCHANGED <<poolVars, conn, attempt, outcome, applied, hit>>

\* Mutant of RegisterFails: the stale connection is not replaced.
RegisterGivesUp(t) ==
  /\ at[t] \in {"register", "reregister"} /\ conn[t] = "dead"
  /\ at' = [at EXCEPT ![t] = "discard"]
  /\ outcome' = [outcome EXCEPT ![t] = "lost"]
  /\ UNCHANGED <<poolVars, conn, attempt, applied, hit>>

\* Mutant of RegisterFails: the stale connection is not given back.
RegisterKeeps(t) ==
  /\ at[t] = "register" /\ conn[t] = "dead"
  /\ conn' = [conn EXCEPT ![t] = "none"]
  /\ at' = [at EXCEPT ![t] = "retake"]
  /\ UNCHANGED <<poolVars, attempt, outcome, applied, hit>>

\* It is stale.  The first one is given back closed and replaced; if the second
\* is stale too, the OperationalError gets out.
RegisterFails(t) ==
  /\ conn[t] = "dead"
  /\ \/ /\ at[t] = "register"
        /\ used' = used - 1
        /\ conn' = [conn EXCEPT ![t] = "none"]
        /\ at' = [at EXCEPT ![t] = "retake"]
        /\ UNCHANGED outcome
     \/ /\ at[t] = "reregister"
        /\ at' = [at EXCEPT ![t] = "discard"]
        /\ outcome' = [outcome EXCEPT ![t] = "lost"]
        /\ UNCHANGED <<used, conn>>
  /\ UNCHANGED <<permits, idle, drops, attempt, applied, hit>>

\* Mutant of QueryFails: what was executed before the error is committed.
QueryFailsCommitting(t) ==
  /\ "statement" \in Faults
  /\ at[t] = "work" /\ conn[t] = "live"
  /\ at' = [at EXCEPT ![t] = "putback"]
  /\ outcome' = [outcome EXCEPT ![t] = "error"]
  /\ applied' = [applied EXCEPT ![t] = @ + 1]
  /\ UNCHANGED <<poolVars, conn, attempt, hit>>

\* Any exception of the body but OperationalError: rolled back and raised.
QueryFails(t) ==
  /\ "statement" \in Faults
  /\ at[t] = "work" /\ conn[t] = "live"
  /\ at' = [at EXCEPT ![t] = "putback"]
  /\ outcome' = [outcome EXCEPT ![t] = "error"]
  /\ UNCHANGED <<poolVars, conn, attempt, applied, hit>>

Commits(t) ==
  /\ at[t] = "work" /\ conn[t] = "live"
  /\ at' = [at EXCEPT ![t] = "putback"]
  /\ applied' = [applied EXCEPT ![t] = @ + 1]
  /\ outcome' = [outcome EXCEPT ![t] = "ok"]
  /\ UNCHANGED <<poolVars, conn, attempt, hit>>

\* The connection broke: OperationalError in the body or at the commit.
Breaks(t) ==
  /\ at[t] = "work" /\ conn[t] = "dead"
  /\ at' = [at EXCEPT ![t] = "discard"]
  /\ outcome' = [outcome EXCEPT ![t] = "lost"]
  /\ UNCHANGED <<poolVars, conn, attempt, applied, hit>>

\* It broke after the server had committed.
LosesAck(t) ==
  /\ "ack" \in Faults
  /\ at[t] = "work" /\ conn[t] = "live"
  /\ at' = [at EXCEPT ![t] = "discard"]
  /\ conn' = [conn EXCEPT ![t] = "dead"]
  /\ applied' = [applied EXCEPT ![t] = @ + 1]
  /\ outcome' = [outcome EXCEPT ![t] = "lost"]
  /\ hit' = [hit EXCEPT ![t] = @ \cup {"ack"}]
  /\ UNCHANGED <<poolVars, attempt>>

\* putconn(close=True)
Discard(t) ==
  /\ at[t] = "discard"
  /\ used' = used - 1
  /\ conn' = [conn EXCEPT ![t] = "none"]
  /\ at' = [at EXCEPT ![t] = "release"]
  /\ UNCHANGED <<permits, idle, drops, attempt, outcome, applied, hit>>

PutBack(t) ==
  /\ at[t] = "putback"
  /\ Returned(t)
  /\ used' = used - 1
  /\ conn' = [conn EXCEPT ![t] = "none"]
  /\ at' = [at EXCEPT ![t] = "release"]
  /\ UNCHANGED <<permits, drops, attempt, outcome, applied, hit>>

Tries(t) == IF t \in Retrying THEN MaxRetries + 1 ELSE 1

Retries(t) == outcome[t] = "lost" /\ t \in Retrying /\ attempt[t] < MaxRetries

\* After an OperationalError the wrapper of retry_on_disconnect sleeps and calls
\* again until its attempts are used up; otherwise the call is over, and its record
\* with it.
Ends(t) ==
  IF Retries(t)
  THEN /\ attempt' = [attempt EXCEPT ![t] = @ + 1]
       /\ at' = [at EXCEPT ![t] = "acquire"]
       /\ UNCHANGED <<outcome, applied, hit>>
  ELSE /\ attempt' = [attempt EXCEPT ![t] = 0]
       /\ at' = [at EXCEPT ![t] = "idle"]
       /\ outcome' = [outcome EXCEPT ![t] = "none"]
       /\ applied' = [applied EXCEPT ![t] = 0]
       /\ hit' = [hit EXCEPT ![t] = {}]

\* Mutant of Release: only a call that succeeds gives its permit back.
ReleaseOnSuccess(t) ==
  /\ at[t] = "release"
  /\ permits' = IF outcome[t] = "ok" THEN permits + 1 ELSE permits
  /\ Ends(t)
  /\ UNCHANGED <<used, idle, drops, conn>>

\* The semaphore is released, after the connection is back in the pool.
Release(t) ==
  /\ at[t] = "release"
  /\ permits' = permits + 1
  /\ Ends(t)
  /\ UNCHANGED <<used, idle, drops, conn>>

-----------------------------------------------------------------------------
(* The server.                                                             *)

DropsIdle ==
  /\ drops < MaxDrops /\ idle.live > 0
  /\ drops' = drops + 1
  /\ idle' = [idle EXCEPT !.live = @ - 1, !.dead = @ + 1]
  /\ UNCHANGED <<permits, used, callVars>>

DropsUsed(t) ==
  /\ drops < MaxDrops /\ conn[t] = "live"
  /\ drops' = drops + 1
  /\ conn' = [conn EXCEPT ![t] = "dead"]
  /\ hit' = [hit EXCEPT ![t] = @ \cup {"struck"}]
  /\ UNCHANGED <<permits, used, idle, at, attempt, outcome, applied>>

-----------------------------------------------------------------------------

Step(t) ==
  \/ Take(t) \/ TakeRefused(t)
  \/ Registers(t) \/ RegisterFails(t)
  \/ QueryFails(t) \/ Commits(t) \/ Breaks(t) \/ LosesAck(t)
  \/ Discard(t) \/ PutBack(t) \/ Release(t)

Next ==
  \/ \E t \in Callers :
       Call(t) \/ Acquire(t) \/ Step(t) \/ DropsUsed(t)
  \/ DropsIdle

Spec == Init /\ [][Next]_vars

\* Threads run, and a thread that waits for the semaphore is woken in its turn
\* (threading.Condition notifies the one that has waited longest).  Calls and
\* the server's faults are not fair.
FairSpec == Spec /\ \A t \in Callers : WF_vars(Step(t)) /\ SF_vars(Acquire(t))

-----------------------------------------------------------------------------
(* Properties.                                                             *)

\* Every variable stays in its range: the semaphore never has more permits than it
\* began with and the pool never keeps more idle connections than it should.
TypeOK ==
  /\ permits \in 0..MaxConn
  /\ used \in 0..MaxConn
  /\ idle \in [live : 0..MinConn, dead : 0..MinConn]
  /\ idle.live + idle.dead <= MinConn
  /\ drops \in 0..MaxDrops
  /\ at \in [Callers -> Places]
  /\ conn \in [Callers -> {"none", "live", "dead"}]
  /\ attempt \in [Callers -> 0..MaxRetries]
  /\ outcome \in [Callers -> {"none", "ok", "error", "lost"}]
  /\ applied \in [Callers -> 0..(MaxRetries + 1)]
  /\ hit \in [Callers -> SUBSET {"struck", "ack"}]

\* get_connection: "callers block when every connection is checked out, instead of
\* raising PoolError".  Whoever has a permit and no connection finds one to
\* take.  At the replacement a PoolError would cost the permit too: the cleanup
\* puts back a connection that is no longer the pool's.
NeverExhausted ==
  \A t \in Callers : at[t] \in {"take", "retake"} => used < MaxConn

Returns(t) == at[t] = "release" /\ at'[t] = "idle"

\* A call that ends with OperationalError was itself struck by the server, or has met
\* two stale connections in each of its attempts: one is replaced, and a
\* retry begins anew.
IdleDropsAbsorbed ==
  [][\A t \in Callers :
       Returns(t) /\ outcome[t] = "lost" /\ hit[t] = {} =>
         drops >= 2 * (IF t \in Retrying THEN MaxRetries + 1 ELSE 1)]_vars

\* A call that returns has been committed once, and one that raises not at all,
\* through every retry and every replaced connection, unless the answer to one of
\* its commits was lost: then the wrapper calls again what was done.
OnceUnlessUnanswered ==
  [][\A t \in Callers :
       Returns(t) /\ "ack" \notin hit[t] =>
         applied[t] = IF outcome[t] = "ok" THEN 1 ELSE 0]_vars

\* Every call comes to an end, whatever the server does.
CallsEnd == \A t \in Callers : at[t] = "acquire" ~> at[t] = "idle"
=============================================================================
