------------------------------ MODULE Ranking ------------------------------
(* _per_source_retrieve: the best chunks of every ready source, one list per   *)
(* source, become one list of at most top_k.  Scores are normalised within     *)
(* each source, a source that the question mentions gets most of the slots,    *)
(* what stays free is filled in turns, and the best scores come first.         *)
EXTENDS Integers, Sequences, FiniteSets, SequencesExt, FiniteSetsExt

CONSTANTS
  Sources,   \* the ready sources, two or more, in the order of the rows
  MaxScore,  \* similarities are 0..MaxScore
  Scale,     \* normalised scores are rounded to so many parts, 10^4 in the code
  PerSource, \* max(MIN_PER_SOURCE_K, top_k): rows that a source may have
  MaxTopK,
  None       \* the question mentions no source

ASSUME RankingAssumption ==
  /\ Sources \in Seq(ToSet(Sources)) /\ Len(Sources) > 1
  /\ \A j, k \in 1..Len(Sources) : Sources[j] = Sources[k] => j = k
  /\ None \notin ToSet(Sources)
  /\ MaxScore \in Nat /\ Scale \in Nat \ {0} /\ PerSource \in Nat
  /\ MaxTopK \in Nat \ {0} /\ PerSource >= MaxTopK

VARIABLES
  topK,
  target,  \* the source that the question mentions
  rows     \* by source, the similarities of its rows, the best first

rankVars == <<topK, target, rows>>

RankInit ==
  /\ topK \in 1..MaxTopK
  /\ target \in ToSet(Sources) \cup {None}
  /\ rows = [s \in ToSet(Sources) |-> <<>>]

\* search_multi_source answers with one more row of a source.
Finds(s, score) ==
  /\ Len(rows[s]) < PerSource
  /\ rows[s] # <<>> => score <= Last(rows[s])
  /\ rows' = [rows EXCEPT ![s] = Append(@, score)]
  /\ UNCHANGED <<topK, target>>

RankNext == \E s \in ToSet(Sources), score \in 0..MaxScore : Finds(s, score)

RankSpec == RankInit /\ [][RankNext]_rankVars

-----------------------------------------------------------------------------
(* The merge.                                                              *)

\* The elements of a list that are in S, in their order.
Those(list, S) ==
  FlattenSeq([k \in DOMAIN list |-> IF list[k] \in S THEN <<list[k]>> ELSE <<>>])

\* Sources without a row are left out.
Present == Those(Sources, {s \in ToSet(Sources) : rows[s] # <<>>})

\* Scores of a source are spread over 0..1, here 0..Scale, and rounded to the nearest
\* part; equal ones all become 1.
Normalised(s, i) ==
  LET least == Last(rows[s])
      spread == Head(rows[s]) - least
  IN IF spread > 0
     THEN (2 * Scale * (rows[s][i] - least) + spread) \div (2 * spread)
     ELSE Scale

\* A chunk: the i-th of source s.
Chunk(s, i) == [src |-> s, rank |-> i, score |-> Normalised(s, i)]
Chunks(s, n) == [i \in 1..Min({n, Len(rows[s])}) |-> Chunk(s, i)]

\* Mutant of Slots: the other sources get what is left, if anything is.
SlotsUnpadded(s) ==
  LET present == Present
      n == Len(present)
      boosted == Max({1, (7 * topK) \div 10})
  IN IF target \notin ToSet(present) THEN topK \div n
     ELSE IF s = target THEN boosted
     ELSE (topK - boosted) \div Max({1, n - 1})

\* _compute_slot_allocation, with _SOURCE_BOOST_RATIO = 0.7 and _OTHER_MIN_SLOTS = 1.
Slots(s) ==
  LET present == Present
      n == Len(present)
      boosted == Max({1, (7 * topK) \div 10})
  IN IF target \notin ToSet(present) THEN Max({1, topK \div n})
     ELSE IF s = target THEN boosted
     ELSE Max({1, (topK - boosted) \div Max({1, n - 1})})

\* The allocation lists the mentioned source first.
InOrder ==
  LET present == Present
  IN Those(present, {target}) \o Those(present, ToSet(Sources) \ {target})
Allocated ==
  LET order == InOrder IN
  FlattenSeq([k \in DOMAIN order |-> Chunks(order[k], Slots(order[k]))])

\* The first chunks of all sources, the second ones, and so on.
Turns ==
  LET present == Present IN
  FlattenSeq([d \in 1..PerSource |->
    FlattenSeq([k \in DOMAIN present |->
      IF d <= Len(rows[present[k]]) THEN <<Chunk(present[k], d)>> ELSE <<>>])])

\* Mutant of Filled: a chunk that has a slot of its own is taken again.
FilledAgain ==
  LET own == Allocated  turns == Turns
  IN own \o SubSeq(turns, 1, Min({Len(turns), Max({0, topK - Len(own)})}))

\* Free slots: the next chunk of each source in turn, those taken left out.
Filled ==
  LET own == Allocated
      taken == ToSet(own)
      rest == Those(Turns, ToSet(Turns) \ taken)
  IN own \o SubSeq(rest, 1, Min({Len(rest), Max({0, topK - Len(own)})}))

\* The places of a list that sorting puts before place x: list.sort is stable, equal
\* scores stay in their order.
Before(list, x) ==
  {y \in DOMAIN list : \/ list[y].score > list[x].score
                       \/ list[y].score = list[x].score /\ y < x}

Ranked ==
  LET list == Filled IN
  [k \in 1..Min({topK, Len(list)}) |->
     list[CHOOSE x \in DOMAIN list : Cardinality(Before(list, x)) = k - 1]]

-----------------------------------------------------------------------------
(* Properties.                                                             *)

\* retrieve: "every ready source is represented".  The best chunk of every source with a
\* row is in the list if the sources are not more than top_k, unless all slots
\* together are more than top_k and some source has several chunks that score like its
\* best one: those may then push out another source's.
EverySourceSeen ==
  LET alone(s) == Len(rows[s]) = 1 \/ Normalised(s, 1) > Normalised(s, 2)
      list == Ranked
  IN
  /\ Len(Present) <= topK
  /\ Len(Allocated) <= topK \/ \A s \in ToSet(Present) : alone(s)
  => \A s \in ToSet(Present) : \E k \in DOMAIN list :
       list[k].src = s /\ list[k].rank = 1

\* The list is as long as it can be and repeats no chunk.
FullAndDistinct ==
  LET found == {c \in ToSet(Sources) \X (1..PerSource) : c[2] <= Len(rows[c[1]])}
      list == Ranked
  IN Len(list) = Min({topK, Cardinality(found)}) /\ Cardinality(ToSet(list)) = Len(list)
=============================================================================
