------------------------ MODULE SessionStreamProofs ------------------------
(* Proofs about SessionStream, for any number of pages, loops and queues and  *)
(* any capacity: which ends of loops can reach a stream.                      *)
EXTENDS SessionStream, SequenceTheorems, FiniteSetTheorems, TLAPS

PageRecord == [shows : Statuses, due : BOOLEAN,
               src : {"none", "opening", "open", "closed"},
               reads : 0..MaxQueues, past : SUBSET Loops, ghost : 0..MaxQueues]

\* The end of a loop takes its queue out of the dictionary.
CurrentHasNoEnd ==
  current # 0 => \A i \in 1..Len(buf[current]) : buf[current][i].type \notin Ends

\* What was over when a page opened its stream still is.
PastIsOver == \A p \in Pages : \A l \in page[p].past : l \in 1..loops /\ loop[l] = "over"

IInv == TypeOK /\ CurrentHasNoEnd /\ PastIsOver /\ NoStaleEnd /\ DiscardedQueuesEnd

-----------------------------------------------------------------------------
(* The queues.                                                             *)

LEMMA EventMade ==
  ASSUME TypeOK, NEW l \in Loops \cup {0}, NEW t \in Closing \cup {"progress"}
  PROVE  [type |-> t, loop |-> l] \in Events
BY DEF Events

LEMMA EmitGives ==
  ASSUME TypeOK, NEW l \in Loops \cup {0}, NEW t \in Closing \cup {"progress"}
  PROVE  /\ Emitted(l, t) \in [Queues -> Seq(Events)]
         /\ \A q \in Queues : Len(Emitted(l, t)[q]) <= Capacity
         /\ Dropped \in SUBSET Queues /\ lossy \subseteq Dropped
         /\ \A q \in Queues : q # current => Emitted(l, t)[q] = buf[q]
         /\ current # 0 =>
              \/ Emitted(l, t)[current] = Append(buf[current], [type |-> t, loop |-> l])
              \/ current \in Dropped /\ Emitted(l, t)[current] = buf[current]
<1> USE StreamAssumption
<1>1. [type |-> t, loop |-> l] \in Events
  BY EventMade
<1>2. CASE current # 0 /\ Len(buf[current]) < Capacity
  <2> DEFINE b == Append(buf[current], [type |-> t, loop |-> l])
  <2>1. current \in Queues /\ buf[current] \in Seq(Events)
    BY <1>2 DEF TypeOK, Queues
  <2>2. b \in Seq(Events) /\ Len(b) = Len(buf[current]) + 1 /\ Len(buf[current]) \in Nat
    BY <1>1, <2>1
  <2>3. Emitted(l, t) = [buf EXCEPT ![current] = b]
    BY <1>2 DEF Emitted
  <2>4. Dropped = lossy
    BY <1>2, <2>2 DEF Dropped
  <2> HIDE DEF b
  <2>5. /\ Emitted(l, t) \in [Queues -> Seq(Events)] /\ Emitted(l, t)[current] = b
        /\ \A q \in Queues : q # current => Emitted(l, t)[q] = buf[q]
    BY <2>1, <2>2, <2>3 DEF TypeOK
  <2>6. \A q \in Queues : Len(Emitted(l, t)[q]) <= Capacity
    <3>1. Len(b) <= Capacity
      BY <1>2, <2>2
    <3> QED BY <2>5, <3>1 DEF TypeOK
  <2> QED BY <2>4, <2>5, <2>6 DEF TypeOK, b
<1>3. CASE ~ (current # 0 /\ Len(buf[current]) < Capacity)
  <2>1. Emitted(l, t) = buf /\ \A q \in Queues : Len(buf[q]) \in Nat
    BY <1>3 DEF Emitted, TypeOK
  <2>2. current # 0 => current \in Dropped /\ current \in Queues
    BY <1>3, <2>1 DEF Dropped, TypeOK, Queues
  <2>3. Dropped \in SUBSET Queues /\ lossy \subseteq Dropped
    BY DEF Dropped, TypeOK, Queues
  <2> QED BY <2>1, <2>2, <2>3 DEF TypeOK
<1> QED BY <1>2, <1>3

LEMMA Appended ==
  ASSUME NEW b \in Seq(Events), NEW e \in Events
  PROVE  /\ Len(Append(b, e)) = Len(b) + 1 /\ Len(b) \in Nat
         /\ Append(b, e)[Len(b) + 1] = e
         /\ \A i \in 1..Len(b) : Append(b, e)[i] = b[i]
OBVIOUS

LEMMA Taken ==
  ASSUME NEW b \in Seq(Events), b # <<>>
  PROVE  /\ Tail(b) \in Seq(Events) /\ Len(Tail(b)) = Len(b) - 1 /\ Len(b) \in Nat \ {0}
         /\ Head(b) = b[1] /\ Head(b) \in Events
         /\ \A i \in 1..Len(Tail(b)) : Tail(b)[i] = b[i + 1]
OBVIOUS

\* Pages that are open stay as they were, or close.
PagesOnlyClose ==
  \A p \in Pages :
    /\ page'[p].past \subseteq page[p].past
    /\ page'[p].src = "open" =>
         page[p].src = "open" /\ page'[p].reads = page[p].reads /\ page'[p].past = page[p].past

\* A loop that is over does not come back.
OverStays == \A l \in 1..loops : l \in 1..loops' /\ (loop[l] = "over" => loop'[l] = "over")

LEMMA PastStays ==
  ASSUME IInv, OverStays, PagesOnlyClose
  PROVE  PastIsOver'
BY DEF IInv, PastIsOver, OverStays, PagesOnlyClose

-----------------------------------------------------------------------------
(* The loops and the requests.                                             *)

RunTypes ==
  /\ status \in Statuses
  /\ loops \in 0..MaxLoops /\ sent \in 0..MaxSent
  /\ loop \in [Loops -> LoopPcs]
  /\ task \in 0..MaxLoops /\ stops \subseteq Loops

SessionStep ==
  \/ \E l \in Loops : LoopStep(l) \/ StopReturns(l)
  \/ StopLoop \/ StopRow \/ Delete
  \/ \E p \in Pages : Message(p)

LEMMA RunMoves ==
  ASSUME TypeOK, SessionStep
  PROVE  RunTypes' /\ OverStays
<1> USE StreamAssumption DEF TypeOK, RunTypes, OverStays, Statuses, Streamed, LoopPcs, Loops
<1>1. ASSUME NEW l \in Loops, LoopStep(l)  PROVE RunTypes' /\ OverStays
  <2> USE DEF MoveTo, Over
  <2>1. CASE Start(l)  BY <2>1 DEF Start
  <2>2. CASE StartFails(l)  BY <2>2 DEF StartFails
  <2>3. CASE PrequeryReturns(l)  BY <2>3 DEF PrequeryReturns
  <2>4. CASE Progress(l)  BY <2>4 DEF Progress
  <2>5. CASE Completes(l)  BY <2>5 DEF Completes
  <2>6. CASE Fails(l)  BY <2>6 DEF Fails
  <2>7. CASE Asks(l)  BY <2>7 DEF Asks
  <2>8. CASE LoopFails(l)  BY <2>8 DEF LoopFails
  <2>9. CASE RefreshReturns(l)  BY <2>9 DEF RefreshReturns
  <2>10. CASE Cancelled(l)  BY <2>10 DEF Cancelled
  <2> QED  BY <1>1, <2>1, <2>2, <2>3, <2>4, <2>5, <2>6, <2>7, <2>8, <2>9, <2>10 DEF LoopStep
<1>2. ASSUME NEW l \in Loops, StopReturns(l)  PROVE RunTypes' /\ OverStays
  BY <1>2 DEF StopReturns
<1>3. CASE StopLoop
  BY <1>3 DEF StopLoop, LiveLoops
<1>4. CASE StopRow \/ Delete
  <2>1. status' = "cancelled" /\ task' \in {task, 0} /\ UNCHANGED <<loops, loop, stops, sent>>
    BY <1>4 DEF StopRow, Delete, run
  <2> QED  BY <2>1
<1>5. ASSUME NEW p \in Pages, Message(p)  PROVE RunTypes' /\ OverStays
  BY <1>5 DEF Message
<1> QED  BY <1>1, <1>2, <1>3, <1>4, <1>5 DEF SessionStep

-----------------------------------------------------------------------------
(* Steps that leave the bus alone.                                         *)

LEMMA BusStays ==
  ASSUME IInv, UNCHANGED bus, TypeOK', OverStays, PagesOnlyClose
  PROVE  IInv'
<1>1. PastIsOver'
  BY PastStays
<1>2. CurrentHasNoEnd'
  BY DEF IInv, CurrentHasNoEnd, bus
<1>3. NoStaleEnd'
  BY DEF IInv, NoStaleEnd, bus, PagesOnlyClose
<1>4. DiscardedQueuesEnd'
  BY DEF IInv, DiscardedQueuesEnd, HoldsClosing, bus, PagesOnlyClose
<1> QED BY <1>1, <1>2, <1>3, <1>4 DEF IInv

LEMMA NoPageIsPage ==
  NoPage \in PageRecord /\ NoPage.src = "none" /\ NoPage.past = {} /\ NoPage.reads = 0
BY StreamAssumption DEF NoPage, PageRecord, Statuses, Streamed

LEMMA GhostSet ==
  ASSUME NEW r \in PageRecord, NEW g \in 0..MaxQueues
  PROVE  /\ [r EXCEPT !.ghost = g] \in PageRecord
         /\ [r EXCEPT !.ghost = g].src = r.src
         /\ [r EXCEPT !.ghost = g].reads = r.reads
         /\ [r EXCEPT !.ghost = g].past = r.past
BY DEF PageRecord

LEMMA ShutIsPage ==
  ASSUME NEW r \in PageRecord
  PROVE  /\ Shut(r) \in PageRecord /\ Shut(r).src = "closed" /\ Shut(r).reads = 0
         /\ Shut(r).past = {}
<1>1. r.reads \in 0..MaxQueues /\ 0 \in 0..MaxQueues
  BY StreamAssumption DEF PageRecord
<1>2. Shut(r) \in PageRecord
  <2>1. Shut(r) = [[[r EXCEPT !.src = "closed"] EXCEPT !.reads = 0, !.past = {}] EXCEPT !.ghost = r.reads]
    BY DEF Shut, PageRecord
  <2> DEFINE s == [r EXCEPT !.src = "closed"]
             u == [s EXCEPT !.reads = 0, !.past = {}]
  <2>2. s \in PageRecord
    BY DEF PageRecord
  <2> HIDE DEF s
  <2>3. u \in PageRecord
    BY <1>1, <2>2 DEF PageRecord
  <2> HIDE DEF u
  <2>4. [u EXCEPT !.ghost = r.reads] \in PageRecord
    BY <1>1, <2>3, GhostSet
  <2> QED BY <2>1, <2>4 DEF u, s
<1>3. Shut(r).src = "closed" /\ Shut(r).reads = 0 /\ Shut(r).past = {}
  BY DEF Shut, PageRecord
<1> QED BY <1>2, <1>3

\* The new record of a page that closes or does not open.
LEMMA OnePageCloses ==
  ASSUME TypeOK, NEW p \in Pages, NEW r \in PageRecord, page' = [page EXCEPT ![p] = r],
         r.src = "open" <=> r.reads # 0,
         r.past \subseteq page[p].past,
         r.src = "open" => page[p].src = "open" /\ r.reads = page[p].reads
                           /\ r.past = page[p].past
  PROVE  /\ page' \in [Pages -> PageRecord] /\ PagesOnlyClose
         /\ \A o \in Pages : page'[o].src = "open" <=> page'[o].reads # 0
<1>1. page \in [Pages -> PageRecord] /\ page'[p] = r /\ \A o \in Pages \ {p} : page'[o] = page[o]
  BY DEF TypeOK, PageRecord
<1>2. page' \in [Pages -> PageRecord]
  BY <1>1
<1>3. \A o \in Pages : page'[o].src = "open" <=> page'[o].reads # 0
  BY <1>1 DEF TypeOK
<1> QED BY <1>1, <1>2, <1>3 DEF PagesOnlyClose

LEMMA PageMovesIInv ==
  ASSUME IInv, NEW p \in Pages, Fetch(p) \/ GhostEnds(p) \/ Breaks(p) \/ Leaves(p)
  PROVE  IInv'
<1>1. /\ UNCHANGED <<status, run, current, buf, lossy>>
      /\ TypeOK /\ page[p] \in PageRecord
      /\ (page[p].src = "open" <=> page[p].reads # 0)
  BY DEF IInv, TypeOK, PageRecord, Fetch, GhostEnds, Breaks, Leaves, bus
<1>2. PICK r \in PageRecord :
        /\ page' = [page EXCEPT ![p] = r]
        /\ r.src = "open" <=> r.reads # 0
        /\ r.past \subseteq page[p].past
        /\ r.src = "open" => page[p].src = "open" /\ r.reads = page[p].reads
                             /\ r.past = page[p].past
  <2>1. CASE Fetch(p)
    <3>1. CASE status = page[p].shows
      <4> DEFINE r == [page[p] EXCEPT !.due = FALSE]
      <4>1. page' = [page EXCEPT ![p] = r]
        BY <1>1, <2>1, <3>1 DEF Fetch, TypeOK
      <4>2. r \in PageRecord /\ r.src = page[p].src /\ r.reads = page[p].reads
            /\ r.past = page[p].past
        BY <1>1 DEF PageRecord
      <4> QED BY <1>1, <4>1, <4>2
    <3>2. CASE status # page[p].shows
      <4> DEFINE r == [shows |-> status, due |-> FALSE,
                       src |-> IF status \in Streamed THEN "opening" ELSE "none",
                       reads |-> 0, past |-> {},
                       ghost |-> IF page[p].src = "open" THEN page[p].reads ELSE page[p].ghost]
      <4>1. page' = [page EXCEPT ![p] = r]
        BY <2>1, <3>2 DEF Fetch
      <4>2. r \in PageRecord
        BY <1>1, StreamAssumption DEF PageRecord, TypeOK
      <4> QED BY <4>1, <4>2
    <3> QED BY <3>1, <3>2
  <2>2. CASE GhostEnds(p)
    <3> DEFINE r == [page[p] EXCEPT !.ghost = 0]
    <3>1. page' = [page EXCEPT ![p] = r]
      BY <1>1, <2>2 DEF GhostEnds, TypeOK
    <3>2. r \in PageRecord /\ r.src = page[p].src /\ r.reads = page[p].reads
          /\ r.past = page[p].past
      BY <1>1, StreamAssumption DEF PageRecord
    <3> QED BY <1>1, <3>1, <3>2
  <2>3. CASE Breaks(p)
    <3> DEFINE r == Shut(page[p])
    <3>1. page' = [page EXCEPT ![p] = r]
      BY <1>1, <2>3 DEF Breaks, TypeOK, Shut
    <3>2. r \in PageRecord /\ r.src = "closed" /\ r.reads = 0 /\ r.past = {}
      BY <1>1, ShutIsPage
    <3> HIDE DEF r
    <3> QED BY <3>1, <3>2
  <2>4. CASE Leaves(p)
    <3> DEFINE g == IF page[p].src = "open" THEN page[p].reads ELSE page[p].ghost
               r == [NoPage EXCEPT !.ghost = g]
    <3>1. page' = [page EXCEPT ![p] = r]
      BY <2>4 DEF Leaves
    <3>2. g \in 0..MaxQueues
      BY <1>1 DEF PageRecord
    <3> HIDE DEF g
    <3>3. r \in PageRecord /\ r.src = "none" /\ r.reads = 0 /\ r.past = {}
      BY <3>2, NoPageIsPage, GhostSet
    <3> HIDE DEF r
    <3> QED BY <3>1, <3>3
  <2> QED BY <2>1, <2>2, <2>3, <2>4
<1>3. TypeOK' /\ PagesOnlyClose
  BY <1>1, <1>2, OnePageCloses DEF TypeOK, PageRecord, run
<1>4. OverStays
  BY <1>1 DEF OverStays, run
<1> QED BY <1>1, <1>3, <1>4, BusStays DEF bus

LEMMA QuietStepIInv ==
  ASSUME IInv, SessionStep, UNCHANGED <<bus, page>>
  PROVE  IInv'
<1>1. RunTypes' /\ OverStays
  BY RunMoves DEF IInv
<1>2. TypeOK' /\ PagesOnlyClose
  BY <1>1 DEF IInv, TypeOK, RunTypes, PagesOnlyClose, bus
<1> QED BY <1>1, <1>2, BusStays

LEMMA MessageIInv ==
  ASSUME IInv, NEW p \in Pages, Message(p)
  PROVE  IInv'
<1> DEFINE r == [page[p] EXCEPT !.due = TRUE]
<1>1. /\ page[p] \in PageRecord /\ r \in PageRecord /\ r.src = page[p].src
      /\ r.reads = page[p].reads /\ r.past = page[p].past
      /\ (page[p].src = "open" <=> page[p].reads # 0)
  BY DEF IInv, TypeOK, PageRecord
<1>2. page' = [page EXCEPT ![p] = r] /\ UNCHANGED bus
  BY DEF IInv, Message, TypeOK
<1>3. /\ page' \in [Pages -> PageRecord] /\ PagesOnlyClose
      /\ \A o \in Pages : page'[o].src = "open" <=> page'[o].reads # 0
  BY <1>1, <1>2, OnePageCloses DEF IInv
<1>4. RunTypes' /\ OverStays
  BY RunMoves DEF IInv, SessionStep
<1>5. TypeOK'
  BY <1>2, <1>3, <1>4 DEF IInv, TypeOK, RunTypes, PageRecord, bus
<1> QED BY <1>2, <1>3, <1>4, <1>5, BusStays

-----------------------------------------------------------------------------
(* Steps that emit.                                                        *)

\* What is in a queue after an emit was there before, or is the event.
LEMMA EmittedHolds ==
  ASSUME TypeOK, NEW l \in Loops \cup {0}, NEW t \in Closing \cup {"progress"}, buf' = Emitted(l, t),
         NEW q \in Queues, NEW i \in 1..Len(buf'[q])
  PROVE  \/ i \in 1..Len(buf[q]) /\ buf'[q][i] = buf[q][i]
         \/ q = current /\ buf'[q][i] = [type |-> t, loop |-> l]
<1> DEFINE e == [type |-> t, loop |-> l]
<1>1. e \in Events /\ buf[q] \in Seq(Events)
  <2>1. e \in Events
    BY EventMade
  <2> QED BY <2>1 DEF TypeOK
<1>2. buf'[q] = buf[q] \/ (q = current /\ buf'[q] = Append(buf[q], e))
  <2>1. q # 0
    BY StreamAssumption DEF Queues
  <2>2. /\ \A r \in Queues : r # current => Emitted(l, t)[r] = buf[r]
        /\ current # 0 => \/ Emitted(l, t)[current] = Append(buf[current], e)
                         \/ Emitted(l, t)[current] = buf[current]
    BY EmitGives
  <2> HIDE DEF e
  <2> QED BY <2>1, <2>2
<1> HIDE DEF e
<1>3. CASE buf'[q] = buf[q]
  BY <1>3
<1>4. CASE q = current /\ buf'[q] = Append(buf[q], e)
  <2>1. /\ Len(buf'[q]) = Len(buf[q]) + 1 /\ Len(buf[q]) \in Nat
        /\ buf'[q][Len(buf[q]) + 1] = e
        /\ \A k \in 1..Len(buf[q]) : buf'[q][k] = buf[q][k]
    BY <1>1, <1>4, Appended
  <2>2. i \in 1..Len(buf[q]) \/ i = Len(buf[q]) + 1
    BY <2>1
  <2> QED BY <1>4, <2>1, <2>2 DEF e
<1> QED BY <1>2, <1>3, <1>4

LEMMA EmitKeeps ==
  ASSUME IInv, NEW l \in Loops \cup {0}, NEW t \in Closing \cup {"progress"},
         buf' = Emitted(l, t), lossy' = Dropped, UNCHANGED <<page, current>>,
         t \notin Ends
  PROVE  CurrentHasNoEnd' /\ NoStaleEnd' /\ DiscardedQueuesEnd'
<1>1. TypeOK /\ \A p \in Pages : page[p].src = "open" => page[p].reads \in Queues
  BY StreamAssumption DEF IInv, TypeOK, Queues
<1>2. CurrentHasNoEnd'
  <2> SUFFICES ASSUME current # 0, NEW i \in 1..Len(buf'[current])
               PROVE  buf'[current][i].type \notin Ends
    BY DEF CurrentHasNoEnd
  <2>1. current \in Queues
    BY <1>1 DEF TypeOK, Queues
  <2>2. \/ i \in 1..Len(buf[current]) /\ buf'[current][i] = buf[current][i]
        \/ buf'[current][i] = [type |-> t, loop |-> l]
    BY <1>1, <2>1, EmittedHolds
  <2> QED BY <2>2 DEF IInv, CurrentHasNoEnd
<1>3. NoStaleEnd'
  <2> SUFFICES ASSUME NEW p \in Pages, page[p].src = "open",
                      NEW i \in 1..Len(buf'[page[p].reads]),
                      buf'[page[p].reads][i].type \in Ends
               PROVE  buf'[page[p].reads][i].loop \notin page[p].past
    BY DEF NoStaleEnd
  <2> DEFINE q == page[p].reads
  <2>1. \/ i \in 1..Len(buf[q]) /\ buf'[q][i] = buf[q][i]
        \/ buf'[q][i] = [type |-> t, loop |-> l]
    BY <1>1, EmittedHolds
  <2> QED BY <2>1 DEF IInv, NoStaleEnd
<1>4. DiscardedQueuesEnd'
  <2>1. /\ \A q \in Queues : q # current => buf'[q] = buf[q]
        /\ lossy \subseteq lossy'
    BY <1>1, EmitGives
  <2> QED BY <1>1, <2>1 DEF IInv, DiscardedQueuesEnd, HoldsClosing
<1> QED BY <1>2, <1>3, <1>4

\* A queue that is taken out of the dictionary gets an event that closes streams.
LEMMA EmitLastKeeps ==
  ASSUME IInv, NEW l \in Loops \cup {0}, l = 0 \/ loop[l] # "over",
         NEW t \in Closing, EmitLast(l, t), UNCHANGED page
  PROVE  CurrentHasNoEnd' /\ NoStaleEnd' /\ DiscardedQueuesEnd'
<1>1. /\ TypeOK
      /\ \A p \in Pages : l \notin page[p].past
      /\ \A p \in Pages : page[p].src = "open" => page[p].reads \in Queues /\ page[p].reads # 0
  BY StreamAssumption DEF IInv, TypeOK, Queues, PastIsOver, Loops
<1>2. buf' = Emitted(l, t) /\ lossy' = Dropped /\ current' = 0
  BY DEF EmitLast
<1>3. CurrentHasNoEnd'
  BY <1>2 DEF CurrentHasNoEnd
<1>4. NoStaleEnd'
  <2> SUFFICES ASSUME NEW p \in Pages, page[p].src = "open",
                      NEW i \in 1..Len(buf'[page[p].reads]),
                      buf'[page[p].reads][i].type \in Ends
               PROVE  buf'[page[p].reads][i].loop \notin page[p].past
    BY DEF NoStaleEnd
  <2> DEFINE q == page[p].reads
  <2>1. \/ i \in 1..Len(buf[q]) /\ buf'[q][i] = buf[q][i]
        \/ buf'[q][i] = [type |-> t, loop |-> l]
    BY <1>1, <1>2, EmittedHolds
  <2>2. l \notin page[p].past
    BY <1>1
  <2> QED BY <2>1, <2>2 DEF IInv, NoStaleEnd
<1>5. DiscardedQueuesEnd'
  <2> SUFFICES ASSUME NEW p \in Pages, page[p].src = "open", page[p].reads \notin lossy'
               PROVE  HoldsClosing(page[p].reads)'
    BY DEF DiscardedQueuesEnd, HoldsClosing
  <2> DEFINE q == page[p].reads
             e == [type |-> t, loop |-> l]
  <2>1. /\ \A r \in Queues : r # current => buf'[r] = buf[r]
        /\ lossy \subseteq lossy'
        /\ current # 0 => buf'[current] = Append(buf[current], e) \/ current \in lossy'
    BY <1>1, <1>2, EmitGives
  <2>2. q \in Queues /\ q # 0
    BY <1>1
  <2>3. CASE q # current
    BY <2>1, <2>2, <2>3 DEF IInv, DiscardedQueuesEnd, HoldsClosing
  <2>4. CASE q = current
    <3>1. buf'[q] = Append(buf[q], e)
      BY <2>1, <2>2, <2>4
    <3>2. e \in Events /\ buf[q] \in Seq(Events) /\ e.type \in Closing
      <4>1. e \in Events
        BY <1>1, EventMade
      <4> QED BY <1>1, <2>2, <4>1 DEF TypeOK
    <3> HIDE DEF e
    <3>3. /\ Len(buf'[q]) = Len(buf[q]) + 1 /\ Len(buf[q]) \in Nat
          /\ buf'[q][Len(buf[q]) + 1] = e
      BY <3>1, <3>2, Appended
    <3>4. Len(buf[q]) + 1 \in 1..Len(buf'[q])
      BY <3>3
    <3> QED BY <3>2, <3>3, <3>4 DEF HoldsClosing
  <2> QED BY <2>3, <2>4
<1> QED BY <1>3, <1>4, <1>5

\* An emission of a loop that is not over, or of a request.
LEMMA EmitsIInv ==
  ASSUME IInv, SessionStep, UNCHANGED page,
         NEW l \in Loops \cup {0}, l = 0 \/ loop[l] # "over",
         NEW t \in Closing \cup {"progress"},
         \/ EmitLast(l, t) /\ t \in Closing
         \/ Emit(l, t) /\ t \notin Ends
  PROVE  IInv'
<1>1. RunTypes' /\ OverStays
  BY RunMoves DEF IInv
<1>2. /\ buf' = Emitted(l, t) /\ lossy' = Dropped
      /\ CurrentHasNoEnd' /\ NoStaleEnd' /\ DiscardedQueuesEnd'
      /\ current' \in {0, current}
  BY EmitKeeps, EmitLastKeeps DEF Emit, EmitLast
<1>3. /\ buf' \in [Queues -> Seq(Events)] /\ lossy' \subseteq Queues
      /\ \A q \in Queues : Len(buf'[q]) <= Capacity
  BY <1>2, EmitGives DEF IInv
<1>4. current' \in 0..MaxQueues
  BY <1>2, StreamAssumption DEF IInv, TypeOK
<1>5. TypeOK'
  BY <1>1, <1>3, <1>4 DEF IInv, TypeOK, RunTypes
<1>6. PastIsOver'
  BY <1>1, PastStays DEF PagesOnlyClose
<1> QED BY <1>2, <1>5, <1>6 DEF IInv

LEMMA LoopStepIInv ==
  ASSUME IInv, NEW l \in Loops, LoopStep(l), ~ PrequeryReturns(l)
  PROVE  IInv'
<1> USE DEF SessionStep
<1>1. CASE UNCHANGED <<bus, page>>
  BY <1>1, QuietStepIInv
<1>2. CASE Progress(l)
  BY <1>2, EmitsIInv DEF Progress, Ends
<1>3. CASE Completes(l)
  BY <1>3, EmitsIInv DEF Completes, MoveTo, Ends, Closing
<1>4. CASE Fails(l)
  BY <1>4, EmitsIInv DEF Fails, Ends, Closing
<1>5. CASE Asks(l)
  BY <1>5, EmitsIInv DEF Asks, Ends, Closing
<1>6. CASE Cancelled(l)
  <2>1. CASE EmitLast(l, "stopped")
    BY <1>6, <2>1, EmitsIInv DEF Cancelled, Ends, Closing
  <2> QED BY <1>1, <1>6, <2>1 DEF Cancelled
<1> QED BY <1>1, <1>2, <1>3, <1>4, <1>5, <1>6
        DEF LoopStep, Start, StartFails, LoopFails, RefreshReturns

LEMMA RequestIInv ==
  ASSUME IInv, StopLoop \/ StopRow \/ Delete \/ \E l \in Loops : StopReturns(l)
  PROVE  IInv'
<1> USE DEF SessionStep
<1>1. CASE StopRow
  BY <1>1, EmitsIInv DEF StopRow, Ends, Closing
<1>2. CASE StopLoop \/ Delete \/ \E l \in Loops : StopReturns(l)
  BY <1>2, QuietStepIInv DEF StopLoop, Delete, StopReturns
<1> QED BY <1>1, <1>2

-----------------------------------------------------------------------------
(* get_or_create_queue.                                                    *)

LEMMA QueueMade ==
  ASSUME IInv, NEW q \in Queues, GetOrCreate(q)
  PROVE  /\ current' = q /\ buf' \in [Queues -> Seq(Events)] /\ lossy' \subseteq Queues
         /\ \A r \in Queues : Len(buf'[r]) <= Capacity
         /\ CurrentHasNoEnd'
         /\ \/ q = current /\ UNCHANGED bus
            \/ /\ current = 0 /\ Unused(q) /\ buf'[q] = <<>>
               /\ \A r \in Queues \ {q} : buf'[r] = buf[r] /\ (r \in lossy' <=> r \in lossy)
<1>1. TypeOK /\ CurrentHasNoEnd
  BY DEF IInv
<1>2. CASE q = current /\ UNCHANGED bus
  BY <1>1, <1>2 DEF TypeOK, CurrentHasNoEnd, bus
<1>3. CASE /\ current = 0 /\ Unused(q) /\ current' = q
           /\ buf' = [buf EXCEPT ![q] = <<>>] /\ lossy' = lossy \ {q}
  <2>1. <<>> \in Seq(Events) /\ Len(<<>>) = 0 /\ 0 <= Capacity
    BY StreamAssumption
  <2>2. /\ buf' \in [Queues -> Seq(Events)] /\ buf'[q] = <<>>
        /\ \A r \in Queues \ {q} : buf'[r] = buf[r]
    BY <1>1, <1>3, <2>1 DEF TypeOK
  <2>3. \A r \in Queues : Len(buf'[r]) <= Capacity
    BY <1>1, <2>1, <2>2 DEF TypeOK
  <2>4. CurrentHasNoEnd'
    BY <1>3, <2>1, <2>2 DEF CurrentHasNoEnd
  <2> QED BY <1>1, <1>3, <2>2, <2>3, <2>4 DEF TypeOK
<1> QED BY <1>2, <1>3 DEF GetOrCreate

\* What a page that was open finds in its queue is not disturbed.
LEMMA ReadersKeep ==
  ASSUME IInv, NEW q \in Queues, GetOrCreate(q), NEW p \in Pages, page[p].src = "open"
  PROVE  /\ buf'[page[p].reads] = buf[page[p].reads]
         /\ page[p].reads \notin lossy' => page[p].reads \notin lossy
         /\ current # 0 => current' = current
<1>1. page[p].reads \in Queues
  BY StreamAssumption DEF IInv, TypeOK, Queues
<1>2. CASE q = current /\ UNCHANGED bus
  BY <1>2 DEF bus
<1>3. CASE /\ current = 0 /\ Unused(q)
           /\ \A r \in Queues \ {q} : buf'[r] = buf[r] /\ (r \in lossy' <=> r \in lossy)
  BY <1>1, <1>3 DEF Unused
<1> QED BY <1>2, <1>3, QueueMade

LEMMA ReaderIsServed ==
  ASSUME IInv, NEW q \in Queues, GetOrCreate(q), NEW p \in Pages, page[p].src = "open",
         UNCHANGED page[p]
  PROVE  /\ \A i \in 1..Len(buf'[page[p].reads]) :
              buf'[page[p].reads][i].type \in Ends
                => buf'[page[p].reads][i].loop \notin page[p].past
         /\ page[p].reads # current' /\ page[p].reads \notin lossy'
              => HoldsClosing(page[p].reads)'
<1>1. /\ buf'[page[p].reads] = buf[page[p].reads]
      /\ page[p].reads \notin lossy' => page[p].reads \notin lossy
      /\ current # 0 => current' = current
      /\ page[p].reads # 0
  BY ReadersKeep DEF IInv, TypeOK
<1> QED BY <1>1 DEF IInv, NoStaleEnd, DiscardedQueuesEnd, HoldsClosing

LEMMA PrequeryIInv ==
  ASSUME IInv, NEW l \in Loops, PrequeryReturns(l)
  PROVE  IInv'
<1>1. PICK q \in Queues : GetOrCreate(q)
  BY DEF PrequeryReturns
<1>2. UNCHANGED page /\ TypeOK
  BY DEF PrequeryReturns, IInv
<1>3. RunTypes' /\ OverStays
  BY RunMoves DEF IInv, SessionStep, LoopStep
<1>4. TypeOK'
  <2>1. current' \in 0..MaxQueues
    BY <1>1, QueueMade, StreamAssumption DEF Queues
  <2>2. /\ buf' \in [Queues -> Seq(Events)] /\ lossy' \subseteq Queues
        /\ \A r \in Queues : Len(buf'[r]) <= Capacity
    BY <1>1, QueueMade
  <2> QED BY <1>2, <1>3, <2>1, <2>2 DEF TypeOK, RunTypes
<1>5. CurrentHasNoEnd'
  BY <1>1, QueueMade
<1>6. PastIsOver'
  BY <1>2, <1>3, PastStays DEF PagesOnlyClose
<1>7. NoStaleEnd'
  BY <1>1, <1>2, ReaderIsServed DEF NoStaleEnd
<1>8. DiscardedQueuesEnd'
  BY <1>1, <1>2, ReaderIsServed DEF DiscardedQueuesEnd
<1> QED BY <1>4, <1>5, <1>6, <1>7, <1>8 DEF IInv

\* A page whose stream opens reads the current queue, in which no loop has ended.
LEMMA OpensIInv ==
  ASSUME IInv, NEW p \in Pages, Opens(p)
  PROVE  IInv'
<1>1. PICK q \in Queues :
        /\ GetOrCreate(q)
        /\ page' = [page EXCEPT ![p].src = "open", ![p].reads = q,
                              ![p].past = {l \in 1..loops : loop[l] = "over"}]
  BY DEF Opens
<1> DEFINE D == {l \in 1..loops : loop[l] = "over"}
<1>2. UNCHANGED <<status, loop, loops, task, stops, sent>> /\ TypeOK /\ D \in SUBSET Loops
  BY StreamAssumption DEF Opens, IInv, TypeOK, run, Loops
<1>3. /\ page'[p].src = "open" /\ page'[p].reads = q /\ page'[p].past = D
      /\ \A o \in Pages \ {p} : page'[o] = page[o]
  BY <1>1, <1>2 DEF TypeOK
<1>4. page' \in [Pages -> PageRecord]
  <2> DEFINE r == [page[p] EXCEPT !.src = "open", !.reads = q, !.past = D]
  <2>1. page \in [Pages -> PageRecord] /\ page[p] \in PageRecord /\ q \in 0..MaxQueues
    BY <1>2, StreamAssumption DEF TypeOK, PageRecord, Queues
  <2>2. r \in PageRecord
    BY <1>2, <2>1 DEF PageRecord
  <2>3. page' = [page EXCEPT ![p] = r]
    BY <1>1, <2>1
  <2> HIDE DEF r
  <2> QED BY <2>1, <2>2, <2>3
<1>5. TypeOK'
  <2>1. current' \in 0..MaxQueues /\ q # 0
    BY <1>1, QueueMade, StreamAssumption DEF Queues
  <2>2. /\ buf' \in [Queues -> Seq(Events)] /\ lossy' \subseteq Queues
        /\ \A r \in Queues : Len(buf'[r]) <= Capacity
    BY <1>1, QueueMade
  <2>3. \A o \in Pages : page'[o].src = "open" <=> page'[o].reads # 0
    BY <1>2, <1>3, <2>1 DEF TypeOK
  <2> QED BY <1>2, <1>4, <2>1, <2>2, <2>3 DEF TypeOK, PageRecord
<1>6. CurrentHasNoEnd' /\ current' = q /\ q # 0
  BY <1>1, QueueMade, StreamAssumption DEF Queues
<1>7. PastIsOver'
  BY <1>2, <1>3 DEF IInv, PastIsOver
<1>8. NoStaleEnd'
  <2> SUFFICES ASSUME NEW o \in Pages, page'[o].src = "open",
                      NEW i \in 1..Len(buf'[page'[o].reads]),
                      buf'[page'[o].reads][i].type \in Ends
               PROVE  buf'[page'[o].reads][i].loop \notin page'[o].past
    BY DEF NoStaleEnd
  <2>1. CASE o = p
    BY <1>3, <1>6, <2>1 DEF CurrentHasNoEnd
  <2>2. CASE o # p
    BY <1>1, <1>3, <2>2, ReaderIsServed
  <2> QED BY <2>1, <2>2
<1>9. DiscardedQueuesEnd'
  BY <1>1, <1>3, <1>6, ReaderIsServed DEF DiscardedQueuesEnd
<1> QED BY <1>5, <1>6, <1>7, <1>8, <1>9 DEF IInv


-----------------------------------------------------------------------------
(* Steps that take an event.                                               *)

LEMMA QueueTaken ==
  ASSUME TypeOK, NEW q \in Queues, buf[q] # <<>>, buf' = [buf EXCEPT ![q] = Tail(@)]
  PROVE  /\ buf' \in [Queues -> Seq(Events)]
         /\ \A r \in Queues : Len(buf'[r]) <= Capacity
         /\ \A r \in Queues : \A i \in 1..Len(buf'[r]) :
              \E j \in 1..Len(buf[r]) : buf'[r][i] = buf[r][j]
         /\ \A r \in Queues \ {q} : buf'[r] = buf[r]
         /\ Head(buf[q]).type \notin Closing => (HoldsClosing(q) => HoldsClosing(q)')
<1>1. /\ buf[q] \in Seq(Events) /\ Len(buf[q]) <= Capacity
      /\ buf'[q] = Tail(buf[q]) /\ \A r \in Queues \ {q} : buf'[r] = buf[r]
  BY DEF TypeOK
<1>2. /\ Tail(buf[q]) \in Seq(Events) /\ Len(Tail(buf[q])) = Len(buf[q]) - 1
      /\ Len(buf[q]) \in Nat \ {0} /\ Head(buf[q]) = buf[q][1]
      /\ \A i \in 1..Len(Tail(buf[q])) : Tail(buf[q])[i] = buf[q][i + 1]
  BY <1>1, Taken
<1>3. buf' \in [Queues -> Seq(Events)]
  BY <1>2 DEF TypeOK
<1>4. \A r \in Queues : Len(buf'[r]) <= Capacity
  <2>1. Len(buf'[q]) <= Capacity
    BY <1>1, <1>2, StreamAssumption
  <2> QED BY <1>1, <2>1 DEF TypeOK
<1>5. \A r \in Queues : \A i \in 1..Len(buf'[r]) :
        \E j \in 1..Len(buf[r]) : buf'[r][i] = buf[r][j]
  <2> TAKE r \in Queues
  <2> TAKE i \in 1..Len(buf'[r])
  <2>1. CASE r = q
    <3>1. i \in 1..Len(Tail(buf[q]))
      BY <1>1, <2>1
    <3>2. buf'[q][i] = buf[q][i + 1]
      BY <1>1, <1>2, <3>1
    <3>3. i + 1 \in 1..Len(buf[q])
      BY <1>2, <3>1
    <3> QED BY <2>1, <3>2, <3>3
  <2>2. CASE r # q
    BY <1>1, <2>2
  <2> QED BY <2>1, <2>2
<1>6. ASSUME Head(buf[q]).type \notin Closing, HoldsClosing(q) PROVE HoldsClosing(q)'
  <2>1. PICK j \in 1..Len(buf[q]) : buf[q][j].type \in Closing
    BY <1>6 DEF HoldsClosing
  <2>2. j - 1 \in 1..Len(buf'[q])
    BY <1>1, <1>2, <1>6, <2>1
  <2>3. buf'[q][j - 1] = buf[q][(j - 1) + 1]
    BY <1>1, <1>2, <2>2
  <2>4. (j - 1) + 1 = j
    BY <2>1, <1>2
  <2> QED BY <2>1, <2>2, <2>3, <2>4 DEF HoldsClosing
<1> QED BY <1>1, <1>3, <1>4, <1>5, <1>6

LEMMA TwoReadersShare ==
  ASSUME NEW p \in Pages, NEW o \in Pages, p # o, page[p].reads = page[o].reads
  PROVE  Shared(page[p].reads)
<1> DEFINE R == {r \in Pages : page[p].reads = page[r].reads}
<1>1. IsFiniteSet(R) /\ {p, o} \subseteq R
  BY StreamAssumption, FS_Subset
<1>2. IsFiniteSet({p, o}) /\ Cardinality({p, o}) = 2
  <2>1. IsFiniteSet({p}) /\ Cardinality({p}) = 1
    BY FS_Singleton
  <2>2. {p, o} = {p} \cup {o}
    OBVIOUS
  <2>3. /\ IsFiniteSet({p} \cup {o})
        /\ Cardinality({p} \cup {o}) = Cardinality({p}) + 1
    BY <2>1, FS_AddElement
  <2> QED BY <2>1, <2>2, <2>3
<1>3. Cardinality({p, o}) <= Cardinality(R) /\ Cardinality(R) \in Nat
  BY <1>1, FS_Subset, FS_CardinalityType
<1>4. Cardinality(R) > 1
  BY <1>2, <1>3
<1> QED BY <1>4 DEF Shared

\* The reader of the queue that keeps its stream has not taken a closing event; a
\* second reader makes the queue lossy.
LEMMA TakeKeeps ==
  ASSUME IInv, NEW q \in Queues, buf[q] # <<>>, buf' = [buf EXCEPT ![q] = Tail(@)],
         UNCHANGED <<run, current>>, lossy \subseteq lossy', PagesOnlyClose,
         \A p \in Pages : page'[p].src = "open" /\ page[p].reads = q
                            => q \in lossy' \/ Head(buf[q]).type \notin Closing
  PROVE  CurrentHasNoEnd' /\ PastIsOver' /\ NoStaleEnd' /\ DiscardedQueuesEnd'
<1>1. TypeOK /\ \A p \in Pages : page[p].src = "open" => page[p].reads \in Queues
  BY StreamAssumption DEF IInv, TypeOK, Queues
<1>2. /\ \A r \in Queues : \A i \in 1..Len(buf'[r]) :
           \E j \in 1..Len(buf[r]) : buf'[r][i] = buf[r][j]
      /\ \A r \in Queues \ {q} : buf'[r] = buf[r]
      /\ Head(buf[q]).type \notin Closing => (HoldsClosing(q) => HoldsClosing(q)')
  BY <1>1, QueueTaken
<1>3. CurrentHasNoEnd'
  BY <1>1, <1>2, StreamAssumption DEF IInv, TypeOK, CurrentHasNoEnd, Queues
<1>4. PastIsOver'
  <2>1. OverStays
    BY DEF OverStays, run
  <2> QED BY <2>1, PastStays
<1>5. NoStaleEnd'
  <2> SUFFICES ASSUME NEW p \in Pages, page'[p].src = "open",
                      NEW i \in 1..Len(buf'[page'[p].reads]),
                      buf'[page'[p].reads][i].type \in Ends
               PROVE  buf'[page'[p].reads][i].loop \notin page'[p].past
    BY DEF NoStaleEnd
  <2>1. page[p].src = "open" /\ page'[p].reads = page[p].reads /\ page'[p].past = page[p].past
    BY DEF PagesOnlyClose
  <2>2. PICK j \in 1..Len(buf[page[p].reads]) : buf'[page'[p].reads][i] = buf[page[p].reads][j]
    BY <1>1, <1>2, <2>1
  <2> QED BY <2>1, <2>2 DEF IInv, NoStaleEnd
<1>6. DiscardedQueuesEnd'
  <2> SUFFICES ASSUME NEW p \in Pages, page'[p].src = "open", page'[p].reads # current,
                      page'[p].reads \notin lossy'
               PROVE  \E i \in 1..Len(buf'[page'[p].reads]) :
                        buf'[page'[p].reads][i].type \in Closing
    BY DEF DiscardedQueuesEnd, HoldsClosing
  <2>1. PICK r \in Queues : page[p].src = "open" /\ r = page'[p].reads /\ r = page[p].reads
    BY <1>1 DEF PagesOnlyClose
  <2>2. HoldsClosing(r)
    BY <2>1 DEF IInv, DiscardedQueuesEnd
  <2>3. HoldsClosing(r)'
    <3>1. CASE r = q
      BY <1>2, <2>1, <2>2, <3>1
    <3>2. CASE r # q
      BY <1>2, <2>2, <3>2 DEF HoldsClosing
    <3> QED BY <3>1, <3>2
  <2> QED BY <2>1, <2>3 DEF HoldsClosing
<1> QED BY <1>3, <1>4, <1>5, <1>6

LEMMA ReceivesIInv ==
  ASSUME IInv, NEW p \in Pages, Receives(p)
  PROVE  IInv'
<1> DEFINE q == page[p].reads
           head == Head(buf[q]).type
<1>1. /\ UNCHANGED <<status, run, current>> /\ TypeOK /\ q \in Queues
      /\ page[p].src = "open" /\ buf[q] # <<>> /\ buf' = [buf EXCEPT ![q] = Tail(@)]
      /\ lossy' = (IF Shared(q) THEN lossy \cup {q} ELSE lossy)
      /\ page[p] \in PageRecord
  BY StreamAssumption DEF Receives, IInv, TypeOK, Queues, PageRecord
<1>2. PICK r \in PageRecord :
        /\ page' = [page EXCEPT ![p] = r]
        /\ \/ r.src = "open" /\ r.reads = q /\ r.past = page[p].past /\ head \notin Closing
           \/ r.src = "closed" /\ r.reads = 0 /\ r.past = {}
  <2>1. CASE head \in Closing
    <3> DEFINE g == IF head = "stopped" THEN q ELSE 0
               r == [page[p] EXCEPT !.due = TRUE, !.src = "closed", !.reads = 0, !.past = {},
                                    !.ghost = g]
    <3>1. page' = [page EXCEPT ![p] = r]
      BY <1>1, <2>1 DEF Receives
    <3>2. g \in 0..MaxQueues /\ 0 \in 0..MaxQueues
      BY <1>1, StreamAssumption DEF Queues
    <3> HIDE DEF g, head, q
    <3>3. r.src = "closed" /\ r.reads = 0 /\ r.past = {}
      BY <1>1 DEF PageRecord
    <3>4. r \in PageRecord
      <4> DEFINE u == [page[p] EXCEPT !.due = TRUE, !.src = "closed", !.reads = 0, !.past = {}]
      <4>1. u \in PageRecord
        BY <1>1, <3>2 DEF PageRecord
      <4>2. r = [u EXCEPT !.ghost = g]
        BY <1>1 DEF PageRecord
      <4> HIDE DEF u, r
      <4> QED BY <3>2, <4>1, <4>2, GhostSet
    <3> HIDE DEF r
    <3> QED BY <3>1, <3>3, <3>4
  <2>2. CASE head \notin Closing
    <3> DEFINE r == [page[p] EXCEPT !.due = TRUE]
    <3>1. page' = [page EXCEPT ![p] = r]
      BY <1>1, <2>2 DEF Receives
    <3>2. r \in PageRecord /\ r.src = "open" /\ r.reads = q /\ r.past = page[p].past
      BY <1>1 DEF PageRecord
    <3> HIDE DEF r
    <3> QED BY <2>2, <3>1, <3>2
  <2> QED BY <2>1, <2>2
<1> HIDE DEF head
<1>3. /\ page' \in [Pages -> PageRecord] /\ PagesOnlyClose
      /\ \A o \in Pages : page'[o].src = "open" <=> page'[o].reads # 0
  <2>1. (r.src = "open" <=> r.reads # 0)
        /\ (r.src = "open" => page[p].src = "open" /\ r.reads = page[p].reads
                              /\ r.past = page[p].past)
        /\ r.past \subseteq page[p].past
    BY <1>1, <1>2, StreamAssumption DEF Queues
  <2> QED BY <1>1, <1>2, <2>1, OnePageCloses
<1>4. TypeOK'
  <2>1. lossy' \subseteq Queues
    BY <1>1 DEF TypeOK
  <2>2. /\ buf' \in [Queues -> Seq(Events)]
        /\ \A o \in Queues : Len(buf'[o]) <= Capacity
    BY <1>1, QueueTaken
  <2> QED BY <1>1, <1>3, <2>1, <2>2 DEF TypeOK, PageRecord, run
<1>5. ASSUME NEW o \in Pages, page'[o].src = "open", page[o].reads = q
      PROVE  q \in lossy' \/ Head(buf[q]).type \notin Closing
  <2>1. CASE o = p
    <3>1. page'[p] = r
      BY <1>1, <1>2 DEF TypeOK
    <3> QED BY <1>2, <1>5, <2>1, <3>1 DEF head
  <2>2. CASE o # p
    BY <1>1, <1>5, <2>2, TwoReadersShare
  <2> QED BY <2>1, <2>2
<1>6. lossy \subseteq lossy'
  BY <1>1
<1>7. CurrentHasNoEnd' /\ PastIsOver' /\ NoStaleEnd' /\ DiscardedQueuesEnd'
  <2> HIDE DEF q
  <2> QED BY <1>1, <1>3, <1>5, <1>6, TakeKeeps
<1> QED BY <1>4, <1>7 DEF IInv

LEMMA GhostTakesIInv ==
  ASSUME IInv, NEW p \in Pages, GhostTakes(p)
  PROVE  IInv'
<1> DEFINE q == page[p].ghost
           r == [page[p] EXCEPT !.ghost = 0]
<1>1. /\ UNCHANGED <<status, run, current>> /\ TypeOK /\ q \in Queues
      /\ buf[q] # <<>> /\ buf' = [buf EXCEPT ![q] = Tail(@)]
      /\ lossy' = lossy \cup {q} /\ page[p] \in PageRecord
  BY StreamAssumption DEF GhostTakes, IInv, TypeOK, Queues, PageRecord
<1>2. page' = [page EXCEPT ![p] = r]
  BY <1>1 DEF GhostTakes, TypeOK
<1>3. r \in PageRecord /\ r.src = page[p].src /\ r.reads = page[p].reads
      /\ r.past = page[p].past
  BY <1>1, GhostSet, StreamAssumption
<1> HIDE DEF r, q
<1>4. /\ page' \in [Pages -> PageRecord] /\ PagesOnlyClose
      /\ \A o \in Pages : page'[o].src = "open" <=> page'[o].reads # 0
  <2>1. (page[p].src = "open" <=> page[p].reads # 0)
    BY <1>1 DEF TypeOK
  <2> QED BY <1>1, <1>2, <1>3, <2>1, OnePageCloses
<1>5. TypeOK'
  <2>1. lossy' \subseteq Queues
    BY <1>1 DEF TypeOK
  <2>2. /\ buf' \in [Queues -> Seq(Events)]
        /\ \A o \in Queues : Len(buf'[o]) <= Capacity
    BY <1>1, QueueTaken
  <2> QED BY <1>1, <1>4, <2>1, <2>2 DEF TypeOK, PageRecord, run
<1>6. q \in lossy' /\ lossy \subseteq lossy'
  BY <1>1
<1>7. CurrentHasNoEnd' /\ PastIsOver' /\ NoStaleEnd' /\ DiscardedQueuesEnd'
  BY <1>1, <1>4, <1>6, TakeKeeps
<1> QED BY <1>5, <1>7 DEF IInv


-----------------------------------------------------------------------------
(* Every step.                                                             *)

\* After a restart there are no streams and no events.
LEMMA CrashIInv ==
  ASSUME IInv, Crash
  PROVE  IInv'
<1>1. /\ TypeOK /\ UNCHANGED <<status, loops, sent>>
      /\ loop' = [l \in Loops |-> "over"] /\ task' = 0 /\ stops' = {}
      /\ current' = 0 /\ lossy' = {} /\ buf' = [q \in Queues |-> <<>>]
  <2>1. TypeOK
    BY DEF IInv
  <2> QED BY <2>1 DEF Crash
<1>2. \A p \in Pages :
        /\ page'[p] \in PageRecord /\ page'[p].src # "open" /\ page'[p].reads = 0
        /\ page'[p].past = {}
  <2> TAKE p \in Pages
  <2> DEFINE s == IF page[p].src = "open" THEN "closed" ELSE page[p].src
             u == [page[p] EXCEPT !.src = s]
             v == [u EXCEPT !.reads = 0, !.past = {}]
             w == [v EXCEPT !.ghost = 0]
  <2>1. page[p] \in PageRecord /\ s \in {"none", "opening", "closed"} /\ 0 \in 0..MaxQueues
    BY <1>1, StreamAssumption DEF TypeOK, PageRecord
  <2>2. page'[p] = [page[p] EXCEPT !.src = s, !.reads = 0, !.past = {}, !.ghost = 0]
    BY DEF Crash
  <2>3. page'[p] = w
    BY <2>1, <2>2 DEF PageRecord
  <2> HIDE DEF s
  <2>4. u \in PageRecord /\ u.src = s
    BY <2>1 DEF PageRecord
  <2> HIDE DEF u
  <2>5. v \in PageRecord /\ v.src = s /\ v.reads = 0 /\ v.past = {}
    BY <2>1, <2>4 DEF PageRecord
  <2> HIDE DEF v
  <2>6. w \in PageRecord /\ w.src = s /\ w.reads = 0 /\ w.past = {}
    BY <2>1, <2>5, GhostSet
  <2> HIDE DEF w
  <2> QED BY <2>1, <2>3, <2>6
<1>3. page' \in [Pages -> PageRecord]
  <2>1. DOMAIN page' = Pages /\ page' = [p \in Pages |-> page'[p]]
    BY DEF Crash
  <2> QED BY <1>2, <2>1
<1>4. TypeOK'
  <2>1. buf' \in [Queues -> Seq(Events)] /\ \A q \in Queues : Len(buf'[q]) <= Capacity
    BY <1>1, StreamAssumption
  <2>2. /\ current' \in 0..MaxQueues /\ task' \in 0..MaxLoops
        /\ loop' \in [Loops -> LoopPcs]
    BY <1>1, StreamAssumption DEF LoopPcs
  <2> QED BY <1>1, <1>2, <1>3, <2>1, <2>2 DEF TypeOK, PageRecord
<1>5. CurrentHasNoEnd' /\ PastIsOver'
  BY <1>1, <1>2 DEF CurrentHasNoEnd, PastIsOver
<1>6. NoStaleEnd' /\ DiscardedQueuesEnd'
  BY <1>2 DEF NoStaleEnd, DiscardedQueuesEnd
<1> QED BY <1>4, <1>5, <1>6 DEF IInv

LEMMA InitIInv == Init => IInv
<1> SUFFICES ASSUME Init PROVE IInv
  OBVIOUS
<1>1. \A p \in Pages : page[p] = NoPage
  BY DEF Init
<1>2. page \in [Pages -> PageRecord]
  BY NoPageIsPage DEF Init
<1>3. TypeOK
  <2>1. buf \in [Queues -> Seq(Events)] /\ \A q \in Queues : Len(buf[q]) <= Capacity
    BY StreamAssumption DEF Init
  <2>2. status \in Statuses /\ current \in 0..MaxQueues /\ lossy \subseteq Queues
        /\ loops \in 0..MaxLoops /\ sent \in 0..MaxSent
        /\ loop \in [Loops -> LoopPcs] /\ task \in 0..MaxLoops /\ stops \subseteq Loops
    BY StreamAssumption DEF Init, Statuses, LoopPcs
  <2> QED BY <1>1, <1>2, <2>1, <2>2, NoPageIsPage DEF TypeOK, PageRecord, Init
<1>4. CurrentHasNoEnd /\ PastIsOver
  BY <1>1, NoPageIsPage DEF Init, CurrentHasNoEnd, PastIsOver
<1>5. NoStaleEnd /\ DiscardedQueuesEnd
  BY <1>1, NoPageIsPage DEF NoStaleEnd, DiscardedQueuesEnd
<1> QED BY <1>3, <1>4, <1>5 DEF IInv

LEMMA NextIInv == IInv /\ [Next]_vars => IInv'
<1> SUFFICES ASSUME IInv, [Next]_vars PROVE IInv'
  OBVIOUS
<1>1. CASE UNCHANGED vars
  BY <1>1 DEF IInv, TypeOK, CurrentHasNoEnd, PastIsOver, NoStaleEnd,
              DiscardedQueuesEnd, HoldsClosing, vars
<1>2. ASSUME NEW l \in Loops, LoopStep(l)  PROVE IInv'
  BY <1>2, LoopStepIInv, PrequeryIInv
<1>3. CASE StopLoop \/ StopRow \/ Delete \/ Crash \/ \E l \in Loops : StopReturns(l)
  BY <1>3, RequestIInv, CrashIInv
<1>4. ASSUME NEW p \in Pages, PageStep(p) PROVE IInv'
  BY <1>4, PageMovesIInv, OpensIInv, ReceivesIInv DEF PageStep
<1>5. ASSUME NEW p \in Pages,
             Message(p) \/ GhostTakes(p) \/ GhostEnds(p) \/ Breaks(p) \/ Leaves(p)
      PROVE  IInv'
  BY <1>5, MessageIInv, GhostTakesIInv, PageMovesIInv
<1> QED BY <1>1, <1>2, <1>3, <1>4, <1>5 DEF Next

-----------------------------------------------------------------------------
(* The theorems.                                                           *)

\* A stream is not closed by the end of a loop that was over before the stream was
\* opened, for every number of pages, loops and queues.
THEOREM NoStaleEndCorrect == Spec => []NoStaleEnd
<1>1. Init => IInv
  BY InitIInv
<1>2. IInv /\ [Next]_vars => IInv'
  BY NextIInv
<1>3. IInv => NoStaleEnd
  BY DEF IInv
<1> QED BY <1>1, <1>2, <1>3, PTL DEF Spec

\* A handler that waits on a queue remove_queue has discarded finds an event that
\* ends its stream, unless the queue was full, shared or drained by an old handler.
THEOREM DiscardedQueuesEndCorrect == Spec => []DiscardedQueuesEnd
<1>1. Init => IInv
  BY InitIInv
<1>2. IInv /\ [Next]_vars => IInv'
  BY NextIInv
<1>3. IInv => DiscardedQueuesEnd
  BY DEF IInv
<1> QED BY <1>1, <1>2, <1>3, PTL DEF Spec

\* Every variable stays in its range, and no queue holds more than its maxsize.
THEOREM StreamTyped == Spec => []TypeOK
<1>1. Init => IInv
  BY InitIInv
<1>2. IInv /\ [Next]_vars => IInv'
  BY NextIInv
<1>3. IInv => TypeOK
  BY DEF IInv
<1> QED BY <1>1, <1>2, <1>3, PTL DEF Spec
=============================================================================
