--------------------------- MODULE DatabaseProofs ---------------------------
(* Proofs about the two models of the db package.  The pool is never exhausted *)
(* and a call's transaction is committed once, for every number of threads,    *)
(* connections, retries and drops; a bust of the list cache hides no write,    *)
(* for every number of clients, writers and writes.                            *)
EXTENDS Connections, RepoListing, FiniteSetTheorems, SequenceTheorems, TLAPS

Holders == {t \in Callers : at[t] \in Holding}
Carriers == {t \in Callers : conn[t] # "none"}

\* A thread carries a connection at these places, and at no other.
Carrying == {"register", "reregister", "work", "discard", "putback"}

Shape ==
  /\ permits \in Nat
  /\ used \in Nat
  /\ idle \in [live : Nat, dead : Nat]
  /\ idle.live + idle.dead <= MinConn
  /\ drops \in 0..MaxDrops
  /\ at \in [Callers -> Places]
  /\ conn \in [Callers -> {"none", "live", "dead"}]
  /\ attempt \in [Callers -> 0..MaxRetries]
  /\ outcome \in [Callers -> {"none", "ok", "error", "lost"}]
  /\ applied \in [Callers -> Nat]
  /\ hit \in [Callers -> SUBSET {"struck", "ack"}]

CarriedWhere == \A t \in Callers : conn[t] # "none" <=> at[t] \in Carrying

\* A permit is with the semaphore or with a thread, and the pool counts the
\* connections that threads carry.
Counted ==
  /\ permits + Cardinality(Holders) = MaxConn
  /\ used = Cardinality(Carriers)

\* An attempt commits at most once, and not before its body is done.
CommitsBounded ==
  \A t \in Callers :
    applied[t] <= attempt[t] + (IF at[t] \in {"discard", "putback", "release"}
                                THEN 1 ELSE 0)

\* What a thread has committed is what its outcome says.
OutcomeTold ==
  \A t \in Callers :
    /\ outcome[t] = "ok" => at[t] \in {"putback", "release"}
    /\ "ack" \notin hit[t] => applied[t] = IF outcome[t] = "ok" THEN 1 ELSE 0

IInv == Shape /\ CarriedWhere /\ Counted /\ CommitsBounded /\ OutcomeTold

-----------------------------------------------------------------------------

LEMMA CallersFinite == IsFiniteSet(Callers)
BY ConnectionsAssumption

\* The set of the threads at some places, after one of them has moved.
LEMMA SetSteps ==
  ASSUME NEW S, NEW T, IsFiniteSet(S), NEW t
  PROVE  /\ T = S \cup {t} /\ t \notin S => Cardinality(T) = Cardinality(S) + 1
         /\ T = S \ {t} /\ t \in S => Cardinality(T) = Cardinality(S) - 1
         /\ Cardinality(S) \in Nat
BY FS_AddElement, FS_RemoveElement, FS_CardinalityType

LEMMA SetsFinite == IsFiniteSet(Holders) /\ IsFiniteSet(Carriers)
BY CallersFinite, FS_Subset DEF Holders, Carriers

LEMMA InitIInv == Init => IInv
<1> SUFFICES ASSUME Init PROVE IInv
  OBVIOUS
<1> USE ConnectionsAssumption DEF Init
<1>1. Holders = {} /\ Carriers = {}
  BY DEF Holders, Carriers, Holding
<1>2. Counted
  BY <1>1, FS_EmptySet DEF Counted
<1>3. Shape
  BY DEF Shape, Places, Holding
<1>4. CarriedWhere /\ CommitsBounded /\ OutcomeTold
  BY DEF CarriedWhere, CommitsBounded, OutcomeTold, Carrying
<1> QED BY <1>2, <1>3, <1>4 DEF IInv

-----------------------------------------------------------------------------
(* What each step does to the two sets.                                    *)

\* A thread takes a permit, gives it back, or keeps what it has; likewise a
\* connection.
PermitMoves(t) ==
  \/ permits' = permits - 1 /\ permits > 0 /\ Holders' = Holders \cup {t} /\ t \notin Holders
  \/ permits' = permits + 1 /\ Holders' = Holders \ {t} /\ t \in Holders
  \/ permits' = permits /\ Holders' = Holders

ConnectionMoves(t) ==
  \/ used' = used + 1 /\ Carriers' = Carriers \cup {t} /\ t \notin Carriers
  \/ used' = used - 1 /\ Carriers' = Carriers \ {t} /\ t \in Carriers
  \/ used' = used /\ Carriers' = Carriers

LEMMA MovesKeepCount ==
  ASSUME Shape, Counted, NEW t \in Callers, PermitMoves(t), ConnectionMoves(t)
  PROVE  Counted' /\ permits' \in Nat /\ used' \in Nat
<1> DEFINE H == Cardinality(Holders)  C == Cardinality(Carriers)
<1>1. H \in Nat /\ C \in Nat
  BY SetsFinite, FS_CardinalityType
<1>2. permits' + Cardinality(Holders') = permits + H /\ permits' \in Nat
  <2>1. CASE permits' = permits - 1 /\ permits > 0
             /\ Holders' = Holders \cup {t} /\ t \notin Holders
    <3>1. Cardinality(Holders') = H + 1
      BY <2>1, SetSteps, SetsFinite
    <3> QED BY <1>1, <2>1, <3>1 DEF Shape
  <2>2. CASE permits' = permits + 1 /\ Holders' = Holders \ {t} /\ t \in Holders
    <3>1. Cardinality(Holders') = H - 1
      BY <2>2, SetSteps, SetsFinite
    <3> QED BY <1>1, <2>2, <3>1 DEF Shape
  <2>3. CASE permits' = permits /\ Holders' = Holders
    BY <2>3 DEF Shape
  <2> QED BY <2>1, <2>2, <2>3 DEF PermitMoves
<1>3. used' = Cardinality(Carriers')
  <2>1. CASE used' = used + 1 /\ Carriers' = Carriers \cup {t} /\ t \notin Carriers
    <3>1. Cardinality(Carriers') = C + 1
      BY <2>1, SetSteps, SetsFinite
    <3> QED BY <2>1, <3>1 DEF Counted
  <2>2. CASE used' = used - 1 /\ Carriers' = Carriers \ {t} /\ t \in Carriers
    <3>1. Cardinality(Carriers') = C - 1
      BY <2>2, SetSteps, SetsFinite
    <3> QED BY <2>2, <3>1 DEF Counted
  <2>3. CASE used' = used /\ Carriers' = Carriers
    BY <2>3 DEF Counted
  <2> QED BY <2>1, <2>2, <2>3 DEF ConnectionMoves
<1>4. used' \in Nat
  <2>1. Carriers' \subseteq Callers
    BY DEF Carriers
  <2>2. Cardinality(Carriers') \in Nat
    BY <2>1, CallersFinite, FS_Subset, FS_CardinalityType
  <2> QED BY <1>3, <2>2
<1> QED BY <1>2, <1>3, <1>4 DEF Counted

-----------------------------------------------------------------------------
(* Every step of a thread keeps the invariant.                             *)

LEMMA CallKeeps ==
  ASSUME IInv, NEW t \in Callers, Call(t)
  PROVE  IInv'
<1> USE DEF Call, poolVars
<1>1. PermitMoves(t)
  BY DEF IInv, Shape, PermitMoves, Holders, Holding, Places
<1>2. ConnectionMoves(t)
  BY DEF IInv, Shape, CarriedWhere, Carrying, ConnectionMoves, Carriers
<1>3. Counted' /\ permits' \in Nat /\ used' \in Nat
  BY <1>1, <1>2, MovesKeepCount DEF IInv
<1>4. Shape'
  BY <1>3, ConnectionsAssumption DEF IInv, Shape, CarriedWhere, Carrying, Places, Holding
<1>5. CarriedWhere'
  BY DEF IInv, Shape, CarriedWhere, Carrying
<1>6. CommitsBounded'
  BY DEF IInv, Shape, CommitsBounded
<1>7. OutcomeTold'
  BY DEF IInv, Shape, OutcomeTold
<1> QED BY <1>3, <1>4, <1>5, <1>6, <1>7 DEF IInv

LEMMA AcquireKeeps ==
  ASSUME IInv, NEW t \in Callers, Acquire(t)
  PROVE  IInv'
<1> USE DEF Acquire, poolVars
<1>1. PermitMoves(t)
  BY DEF IInv, Shape, PermitMoves, Holders, Holding, Places
<1>2. ConnectionMoves(t)
  BY DEF IInv, Shape, CarriedWhere, Carrying, ConnectionMoves, Carriers
<1>3. Counted' /\ permits' \in Nat /\ used' \in Nat
  BY <1>1, <1>2, MovesKeepCount DEF IInv
<1>4. Shape'
  BY <1>3, ConnectionsAssumption DEF IInv, Shape, CarriedWhere, Carrying, Places, Holding
<1>5. CarriedWhere'
  BY DEF IInv, Shape, CarriedWhere, Carrying
<1>6. CommitsBounded'
  BY DEF IInv, Shape, CommitsBounded
<1>7. OutcomeTold'
  BY DEF IInv, Shape, OutcomeTold
<1> QED BY <1>3, <1>4, <1>5, <1>6, <1>7 DEF IInv

LEMMA TakeKeeps ==
  ASSUME IInv, NEW t \in Callers, Take(t)
  PROVE  IInv'
<1> USE DEF Take, Handed, poolVars
<1>1. PermitMoves(t)
  BY DEF IInv, Shape, PermitMoves, Holders, Holding, Places
<1>2. ConnectionMoves(t)
  BY DEF IInv, Shape, CarriedWhere, Carrying, ConnectionMoves, Carriers
<1>3. Counted' /\ permits' \in Nat /\ used' \in Nat
  BY <1>1, <1>2, MovesKeepCount DEF IInv
<1>4. Shape'
  BY <1>3, ConnectionsAssumption DEF IInv, Shape, CarriedWhere, Carrying, Places, Holding
<1>5. CarriedWhere'
  BY DEF IInv, Shape, CarriedWhere, Carrying
<1>6. CommitsBounded'
  BY DEF IInv, Shape, CommitsBounded
<1>7. OutcomeTold'
  BY DEF IInv, Shape, OutcomeTold
<1> QED BY <1>3, <1>4, <1>5, <1>6, <1>7 DEF IInv

LEMMA TakeRefusedKeeps ==
  ASSUME IInv, NEW t \in Callers, TakeRefused(t)
  PROVE  IInv'
<1> USE DEF TakeRefused, poolVars
<1>1. PermitMoves(t)
  BY DEF IInv, Shape, PermitMoves, Holders, Holding, Places
<1>2. ConnectionMoves(t)
  BY DEF IInv, Shape, CarriedWhere, Carrying, ConnectionMoves, Carriers
<1>3. Counted' /\ permits' \in Nat /\ used' \in Nat
  BY <1>1, <1>2, MovesKeepCount DEF IInv
<1>4. Shape'
  BY <1>3, ConnectionsAssumption DEF IInv, Shape, CarriedWhere, Carrying, Places, Holding
<1>5. CarriedWhere'
  BY DEF IInv, Shape, CarriedWhere, Carrying
<1>6. CommitsBounded'
  BY DEF IInv, Shape, CommitsBounded
<1>7. OutcomeTold'
  BY DEF IInv, Shape, OutcomeTold
<1> QED BY <1>3, <1>4, <1>5, <1>6, <1>7 DEF IInv

LEMMA RegistersKeeps ==
  ASSUME IInv, NEW t \in Callers, Registers(t)
  PROVE  IInv'
<1> USE DEF Registers, poolVars
<1>1. PermitMoves(t)
  BY DEF IInv, Shape, PermitMoves, Holders, Holding, Places
<1>2. ConnectionMoves(t)
  BY DEF IInv, Shape, CarriedWhere, Carrying, ConnectionMoves, Carriers
<1>3. Counted' /\ permits' \in Nat /\ used' \in Nat
  BY <1>1, <1>2, MovesKeepCount DEF IInv
<1>4. Shape'
  BY <1>3, ConnectionsAssumption DEF IInv, Shape, CarriedWhere, Carrying, Places, Holding
<1>5. CarriedWhere'
  BY DEF IInv, Shape, CarriedWhere, Carrying
<1>6. CommitsBounded'
  BY DEF IInv, Shape, CommitsBounded
<1>7. OutcomeTold'
  BY DEF IInv, Shape, OutcomeTold
<1> QED BY <1>3, <1>4, <1>5, <1>6, <1>7 DEF IInv

LEMMA RegisterFailsKeeps ==
  ASSUME IInv, NEW t \in Callers, RegisterFails(t)
  PROVE  IInv'
<1> USE DEF RegisterFails, poolVars
<1>1. PermitMoves(t)
  BY DEF IInv, Shape, PermitMoves, Holders, Holding, Places
<1>2. ConnectionMoves(t)
  BY DEF IInv, Shape, CarriedWhere, Carrying, ConnectionMoves, Carriers
<1>3. Counted' /\ permits' \in Nat /\ used' \in Nat
  BY <1>1, <1>2, MovesKeepCount DEF IInv
<1>4. Shape'
  BY <1>3, ConnectionsAssumption DEF IInv, Shape, CarriedWhere, Carrying, Places, Holding
<1>5. CarriedWhere'
  BY DEF IInv, Shape, CarriedWhere, Carrying
<1>6. CommitsBounded'
  BY DEF IInv, Shape, CommitsBounded
<1>7. OutcomeTold'
  BY DEF IInv, Shape, OutcomeTold
<1> QED BY <1>3, <1>4, <1>5, <1>6, <1>7 DEF IInv

LEMMA QueryFailsKeeps ==
  ASSUME IInv, NEW t \in Callers, QueryFails(t)
  PROVE  IInv'
<1> USE DEF QueryFails, poolVars
<1>1. PermitMoves(t)
  BY DEF IInv, Shape, PermitMoves, Holders, Holding, Places
<1>2. ConnectionMoves(t)
  BY DEF IInv, Shape, CarriedWhere, Carrying, ConnectionMoves, Carriers
<1>3. Counted' /\ permits' \in Nat /\ used' \in Nat
  BY <1>1, <1>2, MovesKeepCount DEF IInv
<1>4. Shape'
  BY <1>3, ConnectionsAssumption DEF IInv, Shape, CarriedWhere, Carrying, Places, Holding
<1>5. CarriedWhere'
  BY DEF IInv, Shape, CarriedWhere, Carrying
<1>6. CommitsBounded'
  BY DEF IInv, Shape, CommitsBounded
<1>7. OutcomeTold'
  BY DEF IInv, Shape, OutcomeTold
<1> QED BY <1>3, <1>4, <1>5, <1>6, <1>7 DEF IInv

LEMMA CommitsKeeps ==
  ASSUME IInv, NEW t \in Callers, Commits(t)
  PROVE  IInv'
<1> USE DEF Commits, poolVars
<1>1. PermitMoves(t)
  BY DEF IInv, Shape, PermitMoves, Holders, Holding, Places
<1>2. ConnectionMoves(t)
  BY DEF IInv, Shape, CarriedWhere, Carrying, ConnectionMoves, Carriers
<1>3. Counted' /\ permits' \in Nat /\ used' \in Nat
  BY <1>1, <1>2, MovesKeepCount DEF IInv
<1>4. Shape'
  BY <1>3, ConnectionsAssumption DEF IInv, Shape, CarriedWhere, Carrying, Places, Holding
<1>5. CarriedWhere'
  BY DEF IInv, Shape, CarriedWhere, Carrying
<1>6. CommitsBounded'
  BY DEF IInv, Shape, CommitsBounded
<1>7. OutcomeTold'
  BY DEF IInv, Shape, OutcomeTold
<1> QED BY <1>3, <1>4, <1>5, <1>6, <1>7 DEF IInv

LEMMA BreaksKeeps ==
  ASSUME IInv, NEW t \in Callers, Breaks(t)
  PROVE  IInv'
<1> USE DEF Breaks, poolVars
<1>1. PermitMoves(t)
  BY DEF IInv, Shape, PermitMoves, Holders, Holding, Places
<1>2. ConnectionMoves(t)
  BY DEF IInv, Shape, CarriedWhere, Carrying, ConnectionMoves, Carriers
<1>3. Counted' /\ permits' \in Nat /\ used' \in Nat
  BY <1>1, <1>2, MovesKeepCount DEF IInv
<1>4. Shape'
  BY <1>3, ConnectionsAssumption DEF IInv, Shape, CarriedWhere, Carrying, Places, Holding
<1>5. CarriedWhere'
  BY DEF IInv, Shape, CarriedWhere, Carrying
<1>6. CommitsBounded'
  BY DEF IInv, Shape, CommitsBounded
<1>7. OutcomeTold'
  BY DEF IInv, Shape, OutcomeTold
<1> QED BY <1>3, <1>4, <1>5, <1>6, <1>7 DEF IInv

LEMMA LosesAckKeeps ==
  ASSUME IInv, NEW t \in Callers, LosesAck(t)
  PROVE  IInv'
<1> USE DEF LosesAck, poolVars
<1>1. PermitMoves(t)
  BY DEF IInv, Shape, PermitMoves, Holders, Holding, Places
<1>2. ConnectionMoves(t)
  BY DEF IInv, Shape, CarriedWhere, Carrying, ConnectionMoves, Carriers
<1>3. Counted' /\ permits' \in Nat /\ used' \in Nat
  BY <1>1, <1>2, MovesKeepCount DEF IInv
<1>4. Shape'
  BY <1>3, ConnectionsAssumption DEF IInv, Shape, CarriedWhere, Carrying, Places, Holding
<1>5. CarriedWhere'
  BY DEF IInv, Shape, CarriedWhere, Carrying
<1>6. CommitsBounded'
  BY DEF IInv, Shape, CommitsBounded
<1>7. OutcomeTold'
  BY DEF IInv, Shape, OutcomeTold
<1> QED BY <1>3, <1>4, <1>5, <1>6, <1>7 DEF IInv

LEMMA DiscardKeeps ==
  ASSUME IInv, NEW t \in Callers, Discard(t)
  PROVE  IInv'
<1> USE DEF Discard, poolVars
<1>1. PermitMoves(t)
  BY DEF IInv, Shape, PermitMoves, Holders, Holding, Places
<1>2. ConnectionMoves(t)
  BY DEF IInv, Shape, CarriedWhere, Carrying, ConnectionMoves, Carriers
<1>3. Counted' /\ permits' \in Nat /\ used' \in Nat
  BY <1>1, <1>2, MovesKeepCount DEF IInv
<1>4. Shape'
  BY <1>3, ConnectionsAssumption DEF IInv, Shape, CarriedWhere, Carrying, Places, Holding
<1>5. CarriedWhere'
  BY DEF IInv, Shape, CarriedWhere, Carrying
<1>6. CommitsBounded'
  BY DEF IInv, Shape, CommitsBounded
<1>7. OutcomeTold'
  BY DEF IInv, Shape, OutcomeTold
<1> QED BY <1>3, <1>4, <1>5, <1>6, <1>7 DEF IInv

LEMMA PutBackKeeps ==
  ASSUME IInv, NEW t \in Callers, PutBack(t)
  PROVE  IInv'
<1> USE DEF PutBack, Returned, poolVars
<1>1. PermitMoves(t)
  BY DEF IInv, Shape, PermitMoves, Holders, Holding, Places
<1>2. ConnectionMoves(t)
  BY DEF IInv, Shape, CarriedWhere, Carrying, ConnectionMoves, Carriers
<1>3. Counted' /\ permits' \in Nat /\ used' \in Nat
  BY <1>1, <1>2, MovesKeepCount DEF IInv
<1>4. Shape'
  BY <1>3, ConnectionsAssumption DEF IInv, Shape, CarriedWhere, Carrying, Places, Holding
<1>5. CarriedWhere'
  BY DEF IInv, Shape, CarriedWhere, Carrying
<1>6. CommitsBounded'
  BY DEF IInv, Shape, CommitsBounded
<1>7. OutcomeTold'
  BY DEF IInv, Shape, OutcomeTold
<1> QED BY <1>3, <1>4, <1>5, <1>6, <1>7 DEF IInv

LEMMA ReleaseKeeps ==
  ASSUME IInv, NEW t \in Callers, Release(t)
  PROVE  IInv'
<1> USE DEF Release, Ends, Retries, poolVars
<1>1. PermitMoves(t)
  BY DEF IInv, Shape, PermitMoves, Holders, Holding, Places
<1>2. ConnectionMoves(t)
  BY DEF IInv, Shape, CarriedWhere, Carrying, ConnectionMoves, Carriers
<1>3. Counted' /\ permits' \in Nat /\ used' \in Nat
  BY <1>1, <1>2, MovesKeepCount DEF IInv
<1>4. Shape'
  BY <1>3, ConnectionsAssumption DEF IInv, Shape, CarriedWhere, Carrying, Places, Holding
<1>5. CarriedWhere'
  BY DEF IInv, Shape, CarriedWhere, Carrying
<1>6. CommitsBounded'
  BY DEF IInv, Shape, CommitsBounded
<1>7. OutcomeTold'
  BY DEF IInv, Shape, OutcomeTold
<1> QED BY <1>3, <1>4, <1>5, <1>6, <1>7 DEF IInv

LEMMA DropsUsedKeeps ==
  ASSUME IInv, NEW t \in Callers, DropsUsed(t)
  PROVE  IInv'
<1> USE DEF DropsUsed, poolVars
<1>1. PermitMoves(t)
  BY DEF IInv, Shape, PermitMoves, Holders, Holding, Places
<1>2. ConnectionMoves(t)
  BY DEF IInv, Shape, CarriedWhere, Carrying, ConnectionMoves, Carriers
<1>3. Counted' /\ permits' \in Nat /\ used' \in Nat
  BY <1>1, <1>2, MovesKeepCount DEF IInv
<1>4. Shape'
  BY <1>3, ConnectionsAssumption DEF IInv, Shape, CarriedWhere, Carrying, Places, Holding
<1>5. CarriedWhere'
  BY DEF IInv, Shape, CarriedWhere, Carrying
<1>6. CommitsBounded'
  BY DEF IInv, Shape, CommitsBounded
<1>7. OutcomeTold'
  BY DEF IInv, Shape, OutcomeTold
<1> QED BY <1>3, <1>4, <1>5, <1>6, <1>7 DEF IInv

LEMMA DropsIdleKeeps ==
  ASSUME IInv, DropsIdle
  PROVE  IInv'
<1> USE DEF DropsIdle, callVars
<1>1. Holders' = Holders /\ Carriers' = Carriers
  BY DEF Holders, Carriers
<1>2. Counted'
  BY <1>1 DEF IInv, Counted
<1>3. Shape'
  <2>1. idle.live \in Nat \ {0} /\ idle.dead \in Nat /\ drops + 1 \in 0..MaxDrops
    BY ConnectionsAssumption DEF IInv, Shape
  <2>2. idle' \in [live : Nat, dead : Nat] /\ idle'.live + idle'.dead <= MinConn
    <3>1. idle' = [live |-> idle.live - 1, dead |-> idle.dead + 1]
      BY DEF IInv, Shape
    <3>2. idle.live + idle.dead <= MinConn
      BY DEF IInv, Shape
    <3> QED BY <2>1, <3>1, <3>2, ConnectionsAssumption
  <2> QED BY <2>1, <2>2 DEF IInv, Shape
<1>4. CarriedWhere' /\ CommitsBounded' /\ OutcomeTold'
  BY DEF IInv, CarriedWhere, CommitsBounded, OutcomeTold
<1> QED BY <1>2, <1>3, <1>4 DEF IInv

LEMMA StutterKeeps ==
  ASSUME IInv, UNCHANGED vars
  PROVE  IInv'
<1> USE DEF vars, poolVars, callVars
<1>1. Holders' = Holders /\ Carriers' = Carriers
  BY DEF Holders, Carriers
<1> QED
  BY <1>1 DEF IInv, Counted, Shape, CarriedWhere, CommitsBounded, OutcomeTold

LEMMA NextKeeps == IInv /\ [Next]_vars => IInv'
<1> SUFFICES ASSUME IInv, [Next]_vars PROVE IInv'
  OBVIOUS
<1>1. CASE DropsIdle
  BY <1>1, DropsIdleKeeps
<1>2. CASE UNCHANGED vars
  BY <1>2, StutterKeeps
<1>3. ASSUME NEW t \in Callers, Call(t) \/ Acquire(t) \/ Step(t) \/ DropsUsed(t)
      PROVE  IInv'
  <2>1. CASE Call(t) \/ Acquire(t) \/ DropsUsed(t)
    BY <2>1, CallKeeps, AcquireKeeps, DropsUsedKeeps
  <2>2. CASE Take(t) \/ TakeRefused(t) \/ Registers(t) \/ RegisterFails(t)
    BY <2>2, TakeKeeps, TakeRefusedKeeps, RegistersKeeps, RegisterFailsKeeps
  <2>3. CASE QueryFails(t) \/ Commits(t) \/ Breaks(t) \/ LosesAck(t)
    BY <2>3, QueryFailsKeeps, CommitsKeeps, BreaksKeeps, LosesAckKeeps
  <2>4. CASE Discard(t) \/ PutBack(t) \/ Release(t)
    BY <2>4, DiscardKeeps, PutBackKeeps, ReleaseKeeps
  <2> QED BY <1>3, <2>1, <2>2, <2>3, <2>4 DEF Step
<1> QED BY <1>1, <1>2, <1>3 DEF Next

LEMMA InvariantHolds == Spec => []IInv
<1>1. Init => IInv
  BY InitIInv
<1>2. IInv /\ [Next]_vars => IInv'
  BY NextKeeps
<1> QED BY <1>1, <1>2, PTL DEF Spec

-----------------------------------------------------------------------------

\* Who carries a connection has a permit, so fewer are handed out than permits are
\* taken when somebody with a permit has none yet.
LEMMA CarriersHold ==
  ASSUME IInv
  PROVE  /\ Carriers \subseteq Holders
         /\ Cardinality(Carriers) <= Cardinality(Holders)
         /\ Cardinality(Carriers) \in Nat /\ Cardinality(Holders) \in Nat
<1>1. Carriers \subseteq Holders
  BY DEF IInv, Shape, CarriedWhere, Carriers, Holders, Carrying, Holding
<1> QED BY <1>1, SetsFinite, FS_Subset, FS_CardinalityType

LEMMA InvariantGivesTypeOK == IInv => TypeOK
<1> SUFFICES ASSUME IInv PROVE TypeOK
  OBVIOUS
<1> USE ConnectionsAssumption
<1>1. permits \in 0..MaxConn /\ used \in 0..MaxConn
  BY CarriersHold DEF IInv, Counted, Shape
<1>2. idle \in [live : 0..MinConn, dead : 0..MinConn]
  BY DEF IInv, Shape
<1>3. applied \in [Callers -> 0..(MaxRetries + 1)]
  <2>1. ASSUME NEW t \in Callers PROVE applied[t] \in 0..(MaxRetries + 1)
    <3>1. attempt[t] \in 0..MaxRetries /\ applied[t] \in Nat
      BY DEF IInv, Shape
    <3>2. applied[t] <= attempt[t] + 1
      BY <3>1 DEF IInv, CommitsBounded
    <3> QED BY <3>1, <3>2
  <2> QED BY <2>1 DEF IInv, Shape
<1> QED BY <1>1, <1>2, <1>3 DEF IInv, Shape, TypeOK

LEMMA InvariantGivesNeverExhausted == IInv => NeverExhausted
<1> SUFFICES ASSUME IInv, NEW t \in Callers, at[t] \in {"take", "retake"}
             PROVE  used < MaxConn
  BY DEF NeverExhausted
<1>1. t \in Holders /\ t \notin Carriers
  BY DEF IInv, CarriedWhere, Holders, Carriers, Holding, Carrying
<1>2. Carriers \subseteq Holders \ {t}
  BY <1>1, CarriersHold
<1>3. /\ Cardinality(Holders \ {t}) = Cardinality(Holders) - 1
      /\ IsFiniteSet(Holders \ {t})
  BY <1>1, SetsFinite, FS_RemoveElement
<1>4. Cardinality(Carriers) <= Cardinality(Holders \ {t})
  BY <1>2, <1>3, FS_Subset
<1> QED
  BY <1>3, <1>4, CarriersHold, ConnectionsAssumption DEF IInv, Shape, Counted

\* Every variable stays in its range: the semaphore and the pool's counts never
\* exceed what get_pool began with.
THEOREM ConnectionsTyped == Spec => []TypeOK
<1>1. IInv => TypeOK
  BY InvariantGivesTypeOK
<1> QED BY <1>1, InvariantHolds, PTL

\* get_connection blocks and never meets an exhausted pool, at the replacement of a
\* stale connection included.
THEOREM PoolNeverExhausted == Spec => []NeverExhausted
<1>1. IInv => NeverExhausted
  BY InvariantGivesNeverExhausted
<1> QED BY <1>1, InvariantHolds, PTL

\* A call that returns was committed once and one that raises not at all, unless
\* the answer to a commit was lost.
THEOREM CommittedOnce == Spec => OnceUnlessUnanswered
<1>1. IInv /\ [Next]_vars =>
        [\A t \in Callers :
           Returns(t) /\ "ack" \notin hit[t] =>
             applied[t] = IF outcome[t] = "ok" THEN 1 ELSE 0]_vars
  BY DEF IInv, OutcomeTold
<1> QED BY <1>1, InvariantHolds, PTL DEF Spec, OnceUnlessUnanswered

-----------------------------------------------------------------------------
(* Dropped connections.  Each drop is met once: by the thread that was using the  *)
(* connection, or by one that takes it from the pool.                            *)

StaleHeld == {t \in Callers : conn[t] = "dead" /\ at[t] # "discard"}
Stale == idle.dead + Cardinality(StaleHeld)

\* Stale connections that the call has met and got rid of, or is about to.
Met(t) ==
  2 * attempt[t] + (IF at[t] \in {"retake", "reregister"} THEN 1
                    ELSE IF at[t] = "discard" \/ (at[t] = "release" /\ outcome[t] = "lost")
                    THEN 2 ELSE 0)

DropsMet ==
  /\ Stale <= drops
  /\ \A t \in Callers :
       /\ hit[t] = {} => Stale + Met(t) <= drops
       /\ at[t] = "work" /\ conn[t] = "dead" => hit[t] # {}
       /\ at[t] = "putback" => outcome[t] # "lost"

StaleTyped ==
  /\ IsFiniteSet(StaleHeld) /\ Cardinality(StaleHeld) \in Nat
  /\ Stale \in Nat /\ drops \in Nat
  /\ \A t \in Callers : Met(t) \in Nat

LEMMA StaleCounts == Shape => StaleTyped
<1> SUFFICES ASSUME Shape PROVE StaleTyped
  OBVIOUS
<1>1. IsFiniteSet(StaleHeld)
  BY CallersFinite, FS_Subset DEF StaleHeld
<1>2. Cardinality(StaleHeld) \in Nat
  BY <1>1, FS_CardinalityType
<1>3. Stale \in Nat /\ drops \in Nat
  BY <1>2, ConnectionsAssumption DEF Stale, Shape
<1>4. ASSUME NEW t \in Callers  PROVE Met(t) \in Nat
  <2>1. attempt[t] \in Nat
    BY ConnectionsAssumption DEF Shape
  <2> QED BY <2>1 DEF Met
<1> QED BY <1>1, <1>2, <1>3, <1>4 DEF StaleTyped

\* A step of t moves at most one connection between the pool, the thread and the
\* server, so it is enough to look at the balance of that thread.
LEMMA BalanceKeeps ==
  ASSUME Shape, Shape', DropsMet, NEW t \in Callers,
         \A u \in Callers \ {t} :
           /\ at'[u] = at[u] /\ conn'[u] = conn[u] /\ attempt'[u] = attempt[u]
           /\ outcome'[u] = outcome[u] /\ hit'[u] = hit[u],
         NEW d \in {0, 1}, drops' = drops + d,
         Stale' <= Stale + d,
         hit'[t] = {} => \/ hit[t] = {} /\ Stale' + Met(t)' <= Stale + Met(t) + d
                         \/ Met(t)' = 0,
         at'[t] = "work" /\ conn'[t] = "dead" => hit'[t] # {},
         at'[t] = "putback" => outcome'[t] # "lost"
  PROVE  DropsMet'
<1>1. Stale \in Nat /\ drops \in Nat /\ \A u \in Callers : Met(u) \in Nat
  BY StaleCounts DEF StaleTyped
<1>2. Stale' \in Nat /\ drops' \in Nat /\ \A u \in Callers : Met(u)' \in Nat
  <2>1. StaleTyped'
    BY StaleCounts, PTL
  <2> QED BY <2>1 DEF StaleTyped
<1>3. Stale' <= drops'
  BY <1>1, <1>2 DEF DropsMet
<1>4. ASSUME NEW u \in Callers, hit'[u] = {}  PROVE Stale' + Met(u)' <= drops'
  <2>1. CASE u # t
    <3>1. Met(u)' = Met(u) /\ hit[u] = {}
      BY <1>4, <2>1 DEF Met
    <3>2. Stale + Met(u) <= drops
      BY <3>1 DEF DropsMet
    <3> QED BY <1>1, <1>2, <3>1, <3>2
  <2>2. CASE u = t /\ Met(t)' = 0
    BY <1>1, <1>2, <1>3, <2>2
  <2>3. CASE u = t /\ hit[t] = {} /\ Stale' + Met(t)' <= Stale + Met(t) + d
    <3>1. Stale + Met(t) <= drops
      BY <2>3 DEF DropsMet
    <3> QED BY <1>1, <1>2, <2>3, <3>1
  <2> QED BY <1>4, <2>1, <2>2, <2>3
<1>5. ASSUME NEW u \in Callers
      PROVE  /\ at'[u] = "work" /\ conn'[u] = "dead" => hit'[u] # {}
             /\ at'[u] = "putback" => outcome'[u] # "lost"
  BY DEF DropsMet
<1> QED BY <1>3, <1>4, <1>5 DEF DropsMet

\* How the held stale connections change.
LEMMA StaleHeldMoves ==
  ASSUME Shape, NEW t \in Callers,
         \A u \in Callers \ {t} : at'[u] = at[u] /\ conn'[u] = conn[u]
  PROVE  LET was == conn[t] = "dead" /\ at[t] # "discard"
             is  == conn'[t] = "dead" /\ at'[t] # "discard"
         IN  Cardinality(StaleHeld') = Cardinality(StaleHeld)
                                        + (IF is /\ ~ was THEN 1
                                           ELSE IF was /\ ~ is THEN 0 - 1 ELSE 0)
<1> DEFINE was == conn[t] = "dead" /\ at[t] # "discard"
           is  == conn'[t] = "dead" /\ at'[t] # "discard"
<1>1. IsFiniteSet(StaleHeld) /\ Cardinality(StaleHeld) \in Nat
  BY StaleCounts DEF StaleTyped
<1>2. CASE is /\ ~ was
  <2>1. StaleHeld' = StaleHeld \cup {t} /\ t \notin StaleHeld
    BY <1>2 DEF StaleHeld
  <2>2. Cardinality(StaleHeld') = Cardinality(StaleHeld) + 1
    BY <1>1, <2>1, SetSteps
  <2> QED BY <1>2, <2>2
<1>3. CASE was /\ ~ is
  <2>1. StaleHeld' = StaleHeld \ {t} /\ t \in StaleHeld
    BY <1>3 DEF StaleHeld
  <2>2. Cardinality(StaleHeld') = Cardinality(StaleHeld) - 1
    BY <1>1, <2>1, SetSteps
  <2> QED BY <1>1, <1>3, <2>2
<1>4. CASE is <=> was
  <2>1. StaleHeld' = StaleHeld
    BY <1>4 DEF StaleHeld
  <2> QED BY <1>1, <1>4, <2>1
<1> QED BY <1>2, <1>3, <1>4

\* Steps that leave the pool's idle connections as they are.
LEMMA CallsKeepDropsMet ==
  ASSUME Shape, Shape', DropsMet, CarriedWhere, NEW t \in Callers,
         \/ Call(t) \/ Acquire(t) \/ TakeRefused(t) \/ Registers(t) \/ RegisterFails(t)
         \/ QueryFails(t) \/ Commits(t) \/ Breaks(t) \/ LosesAck(t) \/ Discard(t)
         \/ Release(t)
  PROVE  DropsMet'
<1> USE DEF Shape, Places, Holding
<1>1. /\ \A u \in Callers \ {t} :
           /\ at'[u] = at[u] /\ conn'[u] = conn[u] /\ attempt'[u] = attempt[u]
           /\ outcome'[u] = outcome[u] /\ hit'[u] = hit[u]
      /\ drops' = drops + 0 /\ idle' = idle
  BY DEF Call, Acquire, TakeRefused, Registers, RegisterFails, QueryFails, Commits, Breaks,
         LosesAck, Discard, Release, Ends, poolVars
<1>2. /\ Cardinality(StaleHeld) \in Nat /\ idle.dead \in Nat /\ Met(t) \in Nat
      /\ attempt[t] \in Nat
  BY StaleCounts, ConnectionsAssumption DEF StaleTyped
<1> DEFINE was == conn[t] = "dead" /\ at[t] # "discard"
           is  == conn'[t] = "dead" /\ at'[t] # "discard"
<1>3. Cardinality(StaleHeld') = Cardinality(StaleHeld)
         + (IF is /\ ~ was THEN 1 ELSE IF was /\ ~ is THEN 0 - 1 ELSE 0)
  BY <1>1, StaleHeldMoves
<1>4. CASE RegisterFails(t)
  <2>1. was /\ ~ is /\ Met(t)' = Met(t) + 1
    BY <1>2, <1>4 DEF RegisterFails, Met
  <2>2. Stale' = Stale - 1 /\ Stale \in Int
    BY <1>1, <1>2, <1>3, <2>1 DEF Stale
  <2>3. /\ hit'[t] = hit[t] /\ at'[t] \notin {"work", "putback"}
    BY <1>4 DEF RegisterFails
  <2> HIDE DEF was, is
  <2>4. Stale' <= Stale + 0 /\ Stale' + Met(t)' <= Stale + Met(t) + 0
    BY <1>2, <2>1, <2>2
  <2> QED BY <1>1, <2>3, <2>4, BalanceKeeps
<1>5. CASE Breaks(t)
  <2>1. was /\ ~ is
    BY <1>5 DEF Breaks
  <2>2. Stale' = Stale - 1 /\ Stale \in Int
    BY <1>1, <1>2, <1>3, <2>1 DEF Stale
  <2>3. hit'[t] # {} /\ at'[t] \notin {"work", "putback"}
    BY <1>5 DEF Breaks, DropsMet
  <2> HIDE DEF was, is
  <2>4. Stale' <= Stale + 0
    BY <2>2
  <2> QED BY <1>1, <2>3, <2>4, BalanceKeeps
<1>6. CASE LosesAck(t) \/ TakeRefused(t)
  <2>1. ~ was /\ ~ is
    BY <1>6 DEF LosesAck, TakeRefused, CarriedWhere, Carrying
  <2>2. Stale' = Stale /\ Stale \in Int
    BY <1>1, <1>2, <1>3, <2>1 DEF Stale
  <2>3. hit'[t] # {} /\ at'[t] \notin {"work", "putback"}
    <3>1. at'[t] \notin {"work", "putback"}
      BY <1>6 DEF LosesAck, TakeRefused
    <3>2. PICK x : hit' = [hit EXCEPT ![t] = @ \cup {x}]
      BY <1>6 DEF LosesAck, TakeRefused
    <3>3. x \in hit'[t]
      BY <3>2
    <3> QED BY <3>1, <3>3
  <2> HIDE DEF was, is
  <2>4. Stale' <= Stale + 0
    BY <2>2
  <2> QED BY <1>1, <2>3, <2>4, BalanceKeeps
<1>7. CASE \/ Call(t) \/ Acquire(t) \/ Registers(t) \/ QueryFails(t) \/ Commits(t)
           \/ Discard(t) \/ Release(t)
  <2>1. is <=> was
    BY <1>7 DEF Call, Acquire, Registers, QueryFails, Commits, Discard, Release, Ends,
                CarriedWhere, Carrying
  <2>2. Stale' = Stale /\ Stale \in Int
    BY <1>1, <1>2, <1>3, <2>1 DEF Stale
  <2>3. \/ hit'[t] = hit[t] /\ Met(t)' <= Met(t)
        \/ Met(t)' = 0
    <3>1. CASE Release(t)
      BY <1>2, <3>1 DEF Release, Ends, Retries, Met
    <3>2. CASE Discard(t)
      BY <1>2, <3>2 DEF Discard, Met
    <3>3. CASE Call(t) \/ Acquire(t) \/ Registers(t) \/ QueryFails(t) \/ Commits(t)
      BY <1>2, <3>3 DEF Call, Acquire, Registers, QueryFails, Commits, Met
    <3> QED BY <1>7, <3>1, <3>2, <3>3
  <2>4. /\ at'[t] = "work" => conn'[t] = "live"
        /\ at'[t] = "putback" => outcome'[t] # "lost"
    BY <1>7 DEF Call, Acquire, Registers, QueryFails, Commits, Discard, Release, Ends
  <2>5. Met(t)' \in Int
    <3>1. StaleTyped'
      BY StaleCounts, PTL
    <3> QED BY <3>1 DEF StaleTyped
  <2> HIDE DEF was, is
  <2>6. Stale' <= Stale + 0
    BY <2>2
  <2>7. hit'[t] = {} => \/ hit[t] = {} /\ Stale' + Met(t)' <= Stale + Met(t) + 0
                        \/ Met(t)' = 0
    BY <1>2, <2>2, <2>3, <2>5
  <2> QED BY <1>1, <2>4, <2>6, <2>7, BalanceKeeps
<1> QED BY <1>4, <1>5, <1>6, <1>7

\* A stale connection goes from the pool to a thread.
LEMMA TakeKeepsDropsMet ==
  ASSUME Shape, Shape', DropsMet, CarriedWhere, NEW t \in Callers, Take(t)
  PROVE  DropsMet'
<1> USE DEF Shape, Places, Holding
<1>1. /\ \A u \in Callers \ {t} :
           /\ at'[u] = at[u] /\ conn'[u] = conn[u] /\ attempt'[u] = attempt[u]
           /\ outcome'[u] = outcome[u] /\ hit'[u] = hit[u]
      /\ drops' = drops + 0 /\ hit' = hit
  BY DEF Take
<1>2. /\ Cardinality(StaleHeld) \in Nat /\ idle.dead \in Nat /\ idle.live \in Nat
      /\ Met(t) \in Nat
  BY StaleCounts DEF StaleTyped
<1>3. conn[t] = "none" /\ at'[t] \in {"register", "reregister"}
  BY DEF Take, CarriedWhere, Carrying
<1>4. PICK kind \in {"live", "dead"} : Handed(kind) /\ conn' = [conn EXCEPT ![t] = kind]
  BY DEF Take
<1>5. conn'[t] = kind
  BY <1>4
<1>6. Cardinality(StaleHeld') = Cardinality(StaleHeld) + (IF kind = "dead" THEN 1 ELSE 0)
  BY <1>1, <1>2, <1>3, <1>5, StaleHeldMoves
<1>7. idle'.dead = idle.dead - (IF kind = "dead" THEN 1 ELSE 0)
  BY <1>2, <1>4 DEF Handed
<1>8. Stale' = Stale /\ Stale \in Int
  BY <1>2, <1>6, <1>7 DEF Stale
<1>9. Met(t)' = Met(t)
  BY DEF Take, Met
<1> QED BY <1>1, <1>2, <1>3, <1>8, <1>9, BalanceKeeps

\* A connection goes back to the pool, perhaps stale.
LEMMA PutBackKeepsDropsMet ==
  ASSUME Shape, Shape', DropsMet, CarriedWhere, NEW t \in Callers, PutBack(t)
  PROVE  DropsMet'
<1> USE DEF Shape, Places, Holding
<1>1. /\ \A u \in Callers \ {t} :
           /\ at'[u] = at[u] /\ conn'[u] = conn[u] /\ attempt'[u] = attempt[u]
           /\ outcome'[u] = outcome[u] /\ hit'[u] = hit[u]
      /\ drops' = drops + 0 /\ hit' = hit
  BY DEF PutBack
<1>2. /\ Cardinality(StaleHeld) \in Nat /\ idle.dead \in Nat /\ Met(t) \in Nat
  BY StaleCounts DEF StaleTyped
<1>3. /\ at[t] = "putback" /\ conn[t] \in {"live", "dead"} /\ conn'[t] = "none"
      /\ at'[t] = "release" /\ outcome'[t] = outcome[t] /\ outcome[t] # "lost"
  BY DEF PutBack, CarriedWhere, Carrying, DropsMet
<1>4. Cardinality(StaleHeld') = Cardinality(StaleHeld)
                                  - (IF conn[t] = "dead" THEN 1 ELSE 0)
  BY <1>1, <1>2, <1>3, StaleHeldMoves
<1>5. idle'.dead \in {idle.dead, idle.dead + (IF conn[t] = "dead" THEN 1 ELSE 0)}
  <2>1. idle' = idle \/ idle' = [idle EXCEPT ![conn[t]] = @ + 1]
    BY DEF PutBack, Returned
  <2> QED BY <1>2, <1>3, <2>1
<1>6. Stale' <= Stale /\ Stale \in Int /\ Stale' \in Int
  BY <1>2, <1>4, <1>5 DEF Stale
<1>7. Met(t)' = Met(t)
  BY <1>3 DEF PutBack, Met
<1> QED BY <1>1, <1>2, <1>3, <1>6, <1>7, BalanceKeeps

\* The server's part.
LEMMA DropsUsedKeepsDropsMet ==
  ASSUME Shape, Shape', DropsMet, CarriedWhere, NEW t \in Callers, DropsUsed(t)
  PROVE  DropsMet'
<1> USE DEF Shape, Places, Holding
<1>1. /\ \A u \in Callers \ {t} :
           /\ at'[u] = at[u] /\ conn'[u] = conn[u] /\ attempt'[u] = attempt[u]
           /\ outcome'[u] = outcome[u] /\ hit'[u] = hit[u]
      /\ drops' = drops + 1 /\ at' = at /\ outcome' = outcome /\ idle' = idle
  BY DEF DropsUsed
<1>2. Cardinality(StaleHeld) \in Nat /\ idle.dead \in Nat
  BY StaleCounts DEF StaleTyped
<1>3. hit'[t] # {}
  <2>1. "struck" \in hit'[t]
    BY DEF DropsUsed
  <2> QED BY <2>1
<1>4. Stale' <= Stale + 1
  <2>1. Cardinality(StaleHeld') \in {Cardinality(StaleHeld), Cardinality(StaleHeld) + 1}
    <3>1. conn[t] = "live"
      BY DEF DropsUsed
    <3> QED BY <1>1, <1>2, <3>1, StaleHeldMoves
  <2> QED BY <1>1, <1>2, <2>1 DEF Stale
<1>5. at'[t] = "putback" => outcome'[t] # "lost"
  BY <1>1 DEF DropsMet
<1> QED BY <1>1, <1>3, <1>4, <1>5, BalanceKeeps

LEMMA OthersKeepDropsMet ==
  ASSUME Shape, Shape', DropsMet, DropsIdle \/ UNCHANGED vars
  PROVE  DropsMet'
<1> USE DEF vars, callVars, poolVars
<1>1. UNCHANGED <<at, conn, attempt, outcome, hit>>
  BY DEF DropsIdle
<1>2. StaleHeld' = StaleHeld /\ \A t \in Callers : Met(t)' = Met(t)
  BY <1>1 DEF StaleHeld, Met
<1>3. PICK d \in {0, 1} : drops' = drops + d /\ idle'.dead = idle.dead + d
  <2>1. CASE DropsIdle
    <3>1. drops' = drops + 1 /\ idle'.dead = idle.dead + 1
      BY <2>1 DEF DropsIdle, Shape
    <3> QED BY <3>1
  <2>2. CASE UNCHANGED vars
    <3>1. drops' = drops + 0 /\ idle'.dead = idle.dead + 0
      BY <2>2, ConnectionsAssumption DEF Shape
    <3> QED BY <3>1
  <2> QED BY <2>1, <2>2
<1>4. Cardinality(StaleHeld) \in Nat /\ idle.dead \in Nat /\ Stale \in Nat /\ drops \in Nat
      /\ \A t \in Callers : Met(t) \in Nat
  BY StaleCounts DEF StaleTyped, Shape
<1>5. Stale' = Stale + d
  BY <1>2, <1>3, <1>4 DEF Stale
<1> QED BY <1>1, <1>2, <1>3, <1>4, <1>5 DEF DropsMet

LEMMA NextKeepsDropsMet == IInv /\ DropsMet /\ [Next]_vars => DropsMet'
<1> SUFFICES ASSUME IInv, DropsMet, [Next]_vars  PROVE DropsMet'
  OBVIOUS
<1>1. IInv'
  BY NextKeeps
<1>2. Shape /\ Shape' /\ CarriedWhere
  BY <1>1 DEF IInv
<1>3. ASSUME NEW t \in Callers, Call(t) \/ Acquire(t) \/ Step(t) \/ DropsUsed(t)
      PROVE  DropsMet'
  BY <1>2, <1>3, CallsKeepDropsMet, TakeKeepsDropsMet, PutBackKeepsDropsMet,
     DropsUsedKeepsDropsMet DEF Step
<1> QED BY <1>2, <1>3, OthersKeepDropsMet DEF Next

\* get_connection replaces one stale connection, and a retry begins anew: a call that the
\* server has not struck itself raises OperationalError only after two drops for
\* each of its attempts.
THEOREM DropsAbsorbed == Spec => IdleDropsAbsorbed
<1>1. Init => DropsMet
  <2> SUFFICES ASSUME Init  PROVE DropsMet
    OBVIOUS
  <2>1. StaleHeld = {}
    BY DEF Init, StaleHeld
  <2>2. Stale = 0
    BY <2>1, FS_EmptySet DEF Init, Stale
  <2>3. \A t \in Callers : Met(t) = 0
    BY DEF Init, Met
  <2> QED BY <2>2, <2>3 DEF Init, DropsMet
<1>2. Spec => []DropsMet
  BY <1>1, NextKeepsDropsMet, InvariantHolds, PTL DEF Spec
<1>3. IInv /\ DropsMet /\ [Next]_vars =>
        [\A t \in Callers :
           Returns(t) /\ outcome[t] = "lost" /\ hit[t] = {} =>
             drops >= 2 * (IF t \in Retrying THEN MaxRetries + 1 ELSE 1)]_vars
  <2> SUFFICES ASSUME IInv, DropsMet, Next, NEW t \in Callers, at[t] = "release",
                      at'[t] = "idle", outcome[t] = "lost", hit[t] = {}
      PROVE  drops >= 2 * (IF t \in Retrying THEN MaxRetries + 1 ELSE 1)
    BY DEF Returns
  <2>1. Shape /\ Stale \in Nat /\ drops \in Nat /\ attempt[t] \in 0..MaxRetries
        /\ MaxRetries \in Nat
    BY StaleCounts, ConnectionsAssumption DEF IInv, StaleTyped, Shape
  <2>2. Release(t)
    <3>1. ASSUME NEW u \in Callers, u # t, Call(u) \/ Acquire(u) \/ Step(u) \/ DropsUsed(u)
          PROVE  at'[t] = at[t]
      BY <2>1, <3>1 DEF Shape, Call, Acquire, Step, Take, TakeRefused, Registers,
         RegisterFails, QueryFails, Commits, Breaks, LosesAck, Discard, PutBack, Release,
         Ends, DropsUsed
    <3>2. ~ DropsIdle
      BY DEF DropsIdle, callVars
    <3>3. Call(t) \/ Acquire(t) \/ Step(t) \/ DropsUsed(t)
      BY <3>1, <3>2 DEF Next
    <3> QED BY <3>3 DEF Call, Acquire, Step, Take, TakeRefused, Registers,
         RegisterFails, QueryFails, Commits, Breaks, LosesAck, Discard, PutBack, DropsUsed
  <2>3. t \in Retrying => attempt[t] = MaxRetries
    BY <2>1, <2>2 DEF Release, Ends, Retries, Shape
  <2>4. Stale + (2 * attempt[t] + 2) <= drops
    BY DEF DropsMet, Met
  <2> QED BY <2>1, <2>3, <2>4
<1> QED BY <1>2, <1>3, InvariantHolds, PTL DEF Spec, IdleDropsAbsorbed

-----------------------------------------------------------------------------
(* The list cache.                                                         *)

\* What a request has read, unless a bust came after it, shows every write whose
\* bust is done: the bust came before, and the commit before the bust.
ReadsShow ==
  \A c \in Clients :
    place[c] = "store" /\ ~late[c] =>
      \A i \in 1..Len(log) : log[i] = "busted" => i <= snap[c]

ListIInv == ListTypeOK /\ ReadsShow /\ BustedWritesShow

WriteKinds == {"insert", "pending", "busted", "unanswered"}

\* A write is appended to the log, and it is not busted yet.
LEMMA AppendKeeps ==
  ASSUME ListTypeOK, Len(log) < MaxWrites,
         NEW kind \in WriteKinds \ {"busted"}, log' = Append(log, kind)
  PROVE  /\ log' \in Seq(WriteKinds) /\ Len(log') = Len(log) + 1 /\ Len(log') <= MaxWrites
         /\ Len(log) \in Nat
         /\ \A i \in 1..Len(log') : log'[i] = "busted" =>
              i \in 1..Len(log) /\ log[i] = "busted"
BY RepoListingAssumption DEF ListTypeOK, WriteKinds

LEMMA InitListIInv ==
  ASSUME ListInit
  PROVE  ListIInv
<1>1. log \in Seq(WriteKinds) /\ Len(log) = 0
  BY DEF ListInit
<1>2. ListTypeOK
  <2>1. 0 \in 0..Len(log) /\ Len(log) <= MaxWrites
    BY <1>1, RepoListingAssumption
  <2>2. /\ cache \in {None} \cup 0..Len(log) /\ raced \in BOOLEAN
        /\ place \in [Clients -> {"idle", "select", "store"}]
        /\ late \in [Clients -> BOOLEAN]
    BY DEF ListInit
  <2>3. /\ busting \in [Writers -> 0..Len(log)]
        /\ snap \in [Clients -> 0..Len(log)]
        /\ seen \in [Clients -> 0..Len(log)]
    BY <2>1 DEF ListInit
  <2> QED BY <1>1, <2>1, <2>2, <2>3 DEF ListTypeOK, WriteKinds
<1>3. ReadsShow /\ BustedWritesShow
  BY DEF ListInit, ReadsShow, BustedWritesShow
<1> QED BY <1>2, <1>3 DEF ListIInv

\* A step of a request leaves the log alone.
LEMMA RequestKeeps ==
  ASSUME ListIInv, NEW c \in Clients,
         Hit(c) \/ Miss(c) \/ Select(c) \/ SelectFails(c) \/ Store(c)
  PROVE  ListIInv'
<1> USE RepoListingAssumption
<1>1. log' = log
  BY DEF Hit, Miss, Select, SelectFails, Store
<1>2. Len(log) \in Nat
  BY DEF ListIInv, ListTypeOK
<1>3. CASE Hit(c)
  BY <1>1, <1>2, <1>3
  DEF ListIInv, ListTypeOK, ReadsShow, BustedWritesShow, Hit
<1>4. CASE Miss(c)
  BY <1>1, <1>2, <1>4
  DEF ListIInv, ListTypeOK, ReadsShow, BustedWritesShow, Miss
<1>5. CASE Select(c)
  BY <1>1, <1>2, <1>5
  DEF ListIInv, ListTypeOK, ReadsShow, BustedWritesShow, Select
<1>6. CASE SelectFails(c)
  BY <1>1, <1>2, <1>6
  DEF ListIInv, ListTypeOK, ReadsShow, BustedWritesShow, SelectFails
<1>7. CASE Store(c)
  <2>1. ListTypeOK'
    BY <1>1, <1>2, <1>7 DEF ListIInv, ListTypeOK, Store
  <2>2. ReadsShow'
    BY <1>1, <1>7 DEF ListIInv, ListTypeOK, ReadsShow, Store
  <2>3. BustedWritesShow'
    BY <1>1, <1>2, <1>7
    DEF ListIInv, ListTypeOK, ReadsShow, BustedWritesShow, Store
  <2> QED BY <2>1, <2>2, <2>3 DEF ListIInv
<1> QED BY <1>3, <1>4, <1>5, <1>6, <1>7

LEMMA ExpireKeeps ==
  ASSUME ListIInv, Expire
  PROVE  ListIInv'
BY DEF ListIInv, ListTypeOK, ReadsShow, BustedWritesShow, Expire

LEMMA WriteKeeps ==
  ASSUME ListIInv, NEW kind \in WriteKinds \ {"busted"},
         Len(log) < MaxWrites,
         log' = Append(log, kind),
         busting' \in [Writers -> 0..(Len(log) + 1)],
         UNCHANGED <<cache, raced, place, snap, late, seen>>
  PROVE  ListIInv'
<1>1. /\ log' \in Seq(WriteKinds) /\ Len(log') = Len(log) + 1 /\ Len(log') <= MaxWrites
      /\ Len(log) \in Nat
      /\ \A i \in 1..Len(log') : log'[i] = "busted" =>
           i \in 1..Len(log) /\ log[i] = "busted"
  BY AppendKeeps DEF ListIInv
<1>2. ListTypeOK'
  BY <1>1 DEF ListIInv, ListTypeOK, WriteKinds
<1>3. ReadsShow' /\ BustedWritesShow'
  BY <1>1 DEF ListIInv, ReadsShow, BustedWritesShow
<1> QED BY <1>2, <1>3 DEF ListIInv

LEMMA WritesKeep ==
  ASSUME ListIInv,
         Inserts \/ \E w \in Writers : Updates(w) \/ UpdatesUnanswered(w)
  PROVE  ListIInv'
<1>0. Len(log) \in Nat /\ busting \in [Writers -> 0..Len(log)]
  BY DEF ListIInv, ListTypeOK
<1>1. CASE Inserts
  BY <1>0, <1>1, WriteKeeps DEF Inserts, WriteKinds
<1>2. CASE \E w \in Writers : Updates(w)
  BY <1>0, <1>2, WriteKeeps DEF Updates, WriteKinds
<1>3. CASE \E w \in Writers : UpdatesUnanswered(w)
  BY <1>0, <1>3, WriteKeeps DEF UpdatesUnanswered, WriteKinds
<1> QED BY <1>1, <1>2, <1>3

\* The write may be newer than what requests have read: they are late from now on.
LEMMA BustKeeps ==
  ASSUME ListIInv, NEW w \in Writers, Bust(w)
  PROVE  ListIInv'
<1>1. log \in Seq(WriteKinds) /\ Len(log) \in Nat /\ busting[w] \in 1..Len(log)
  BY DEF ListIInv, ListTypeOK, Bust, WriteKinds
<1>2. log' \in Seq(WriteKinds) /\ Len(log') = Len(log)
  BY <1>1, ExceptSeq DEF Bust, WriteKinds
<1>3. ListTypeOK'
  <2>1. busting' \in [Writers -> 0..Len(log')]
    BY <1>1, <1>2 DEF ListIInv, ListTypeOK, Bust
  <2>2. /\ cache' \in {None} \cup 0..Len(log') /\ raced' \in BOOLEAN
        /\ late' \in [Clients -> BOOLEAN]
    BY DEF ListIInv, ListTypeOK, Bust
  <2>3. /\ place' \in [Clients -> {"idle", "select", "store"}]
        /\ snap' \in [Clients -> 0..Len(log')]
        /\ seen' \in [Clients -> 0..Len(log')]
        /\ Len(log') <= MaxWrites
    BY <1>2 DEF ListIInv, ListTypeOK, Bust
  <2> QED BY <1>2, <2>1, <2>2, <2>3 DEF ListTypeOK, WriteKinds
<1>4. ReadsShow'
  BY DEF ListIInv, ListTypeOK, ReadsShow, Bust
<1>5. BustedWritesShow'
  BY DEF Bust, BustedWritesShow
<1> QED BY <1>3, <1>4, <1>5 DEF ListIInv

LEMMA ListNextKeeps ==
  ASSUME ListIInv, [ListNext]_listVars
  PROVE  ListIInv'
<1>1. CASE UNCHANGED listVars
  BY <1>1 DEF ListIInv, ListTypeOK, ReadsShow, BustedWritesShow, listVars
<1>2. CASE ListNext
  BY <1>2, RequestKeeps, ExpireKeeps, WritesKeep, BustKeeps DEF ListNext
<1> QED BY <1>1, <1>2

\* Once a write has called invalidate_list_cache, the entry shows it, unless the
\* request that stored the entry had read the table before the bust.
THEOREM BustsHideNothing == ListSpec => []BustedWritesShow
<1>1. ListInit => ListIInv
  BY InitListIInv
<1>2. ListIInv /\ [ListNext]_listVars => ListIInv'
  BY ListNextKeeps
<1>3. ListIInv => BustedWritesShow
  BY DEF ListIInv
<1> QED BY <1>1, <1>2, <1>3, PTL DEF ListSpec

\* Every variable stays in its range: no list shows a write that is not committed.
THEOREM ListingTyped == ListSpec => []ListTypeOK
<1>1. ListInit => ListIInv
  BY InitListIInv
<1>2. ListIInv /\ [ListNext]_listVars => ListIInv'
  BY ListNextKeeps
<1>3. ListIInv => ListTypeOK
  BY DEF ListIInv
<1> QED BY <1>1, <1>2, <1>3, PTL DEF ListSpec
=============================================================================
