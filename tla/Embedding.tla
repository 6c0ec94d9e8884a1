------------------------------ MODULE Embedding ------------------------------
(* embed_batch, as pipelines and request handlers call it side by side on the    *)
(* shared Embedder: the texts that are not in the cache go to the provider in    *)
(* batches that are answered in any order, and a batch that is refused is halved *)
(* and sent again.  A vector stands for the text it was computed from.           *)
EXTENDS Naturals, Sequences, SequencesExt

CONSTANTS
  Callers,    \* threads in embed_batch at a time
  Texts,
  NoVector,
  BatchSize,  \* _BATCH_SIZE
  MaxTexts    \* bounds the texts of a call

ASSUME EmbeddingAssumption ==
  BatchSize \in Nat \ {0} /\ MaxTexts \in Nat /\ NoVector \notin Texts

VARIABLES
  cache,    \* _mem_cache
  texts,    \* caller -> the texts of its call
  results,  \* caller -> what it has of them: NoVector where the cache had none
  answers   \* caller -> its batches answered so far, in the order of as_completed

embedVars == <<cache, texts, results, answers>>

EmbedInit ==
  /\ cache = [t \in Texts |-> NoVector]
  /\ texts = [c \in Callers |-> <<>>]
  /\ results = [c \in Callers |-> <<>>]
  /\ answers = [c \in Callers |-> <<>>]

\* The places without a vector, as found up to each place.
Gaps(found) ==
  LET gaps[n \in Nat] ==
        IF n = 0 THEN <<>>
        ELSE IF found[n] = NoVector THEN Append(gaps[n - 1], n) ELSE gaps[n - 1]
  IN  gaps

\* to_compute_idx
Missing(c) == Gaps(results[c])[Len(results[c])]

\* The pass over the texts, which may hold one of them twice.
Asks(c) ==
  /\ Missing(c) = <<>>
  /\ \E n \in 1..MaxTexts : \E ts \in [1..n -> Texts] :
       /\ texts' = [texts EXCEPT ![c] = ts]
       /\ results' = [results EXCEPT ![c] = [i \in 1..n |-> cache[ts[i]]]]
  /\ UNCHANGED <<cache, answers>>

Batches(c) == (Len(Missing(c)) + BatchSize - 1) \div BatchSize
Batch(c, b) ==
  SubSeq([k \in 1..Len(Missing(c)) |-> texts[c][Missing(c)[k]]],
         (b - 1) * BatchSize + 1,
         IF b < Batches(c) THEN b * BatchSize ELSE Len(Missing(c)))

\* _call_gemini and _call_nvidia: 500, 502 and 503 halve the batch, here until it
\* is no longer than accepted.
Embedded(batch, accepted) ==
  LET vectors[ts \in Seq(Texts)] ==
        LET mid == Len(ts) \div 2 IN
        IF Len(ts) <= accepted THEN ts
        ELSE vectors[SubSeq(ts, 1, mid)] \o vectors[SubSeq(ts, mid + 1, Len(ts))]
  IN  vectors[batch]

Answers(c, b) ==
  /\ \A i \in 1..Len(answers[c]) : answers[c][i].batch # b
  /\ \E accepted \in 1..BatchSize :
       answers' = [answers EXCEPT ![c] =
         Append(@, [batch |-> b, vectors |-> Embedded(Batch(c, b), accepted)])]
  /\ UNCHANGED <<cache, texts, results>>

\* A batch fails for good: the call raises when the other threads have ended.
Raises(c) ==
  /\ Len(answers[c]) < Batches(c)
  /\ texts' = [texts EXCEPT ![c] = <<>>]
  /\ results' = [results EXCEPT ![c] = <<>>]
  /\ answers' = [answers EXCEPT ![c] = <<>>]
  /\ UNCHANGED cache

\* Mutant of Computed: the answers are stacked as they come.
ComputedAsTheyCome(c) == FlattenSeq([i \in 1..Batches(c) |-> answers[c][i].vectors])

\* The number of the answer to batch b, among the answers in the order they came.
AnswerTo(c, b) == CHOOSE i \in 1..Len(answers[c]) : answers[c][i].batch = b

\* computed_map, in the order of the batches.
Computed(c) ==
  FlattenSeq([b \in 1..Batches(c) |-> answers[c][AnswerTo(c, b)].vectors])

\* The results of the call, what has been computed included.
Stacked(c) ==
  LET at(i) == CHOOSE k \in 1..Len(Missing(c)) : Missing(c)[k] = i
  IN  [i \in 1..Len(texts[c]) |->
         IF results[c][i] = NoVector THEN Computed(c)[at(i)] ELSE results[c][i]]

\* The cache takes what has been computed, for a text that occurs twice the last vector.
Finishes(c) ==
  /\ Missing(c) # <<>>
  /\ \A b \in 1..Batches(c) : \E i \in 1..Len(answers[c]) : answers[c][i].batch = b
  /\ results' = [results EXCEPT ![c] = Stacked(c)]
  /\ cache' = [t \in Texts |->
       LET at == {i \in 1..Len(texts[c]) : results[c][i] = NoVector /\ texts[c][i] = t}
       IN  IF at = {} THEN cache[t] ELSE Stacked(c)[CHOOSE i \in at : \A j \in at : j <= i]]
  /\ answers' = [answers EXCEPT ![c] = <<>>]
  /\ UNCHANGED texts

EmbedNext ==
  \E c \in Callers :
    \/ Asks(c) \/ Raises(c) \/ Finishes(c)
    \/ \E b \in 1..Batches(c) : Answers(c, b)

EmbedSpec == EmbedInit /\ [][EmbedNext]_embedVars

-----------------------------------------------------------------------------
(* Properties.                                                             *)

\* Where a call has a vector it is that of the text at the same place, whatever the
\* cache held, however often a text occurs, in whichever order batches arrive and
\* however they are halved, beside calls that fill the same cache; and the cache
\* keeps no wrong vector for the calls to come.
EmbeddingsAligned ==
  /\ \A c \in Callers : \A i \in 1..Len(texts[c]) :
       results[c][i] \in {NoVector, texts[c][i]}
  /\ \A t \in Texts : cache[t] \in {NoVector, t}
=============================================================================
