---------------------------- MODULE MCAlgorithms ----------------------------
(* Chunking, Ranking, FileEdits and Embedding over all small inputs, one beside  *)
(* the other: a behaviour is an input of one of them, piece by piece, row by row, *)
(* character by character or call by call.                                       *)
EXTENDS Chunking, Ranking, FileEdits, Embedding

CONSTANTS sourceA, sourceB, sourceC, letterN
ThreeSources == <<sourceA, sourceB, sourceC>>
NewLine == <<letterN>>

NotChunking == pieces = <<>> /\ ~ over
NotRanking ==
  topK = 1 /\ target = None /\ \A s \in ToSet(Sources) : rows[s] = <<>>
NotEditing == file = <<>> /\ old = <<>>
NotEmbedding ==
  (\A c \in Callers : texts[c] = <<>>) /\ (\A t \in Texts : cache[t] = NoVector)

Init == ChunkInit /\ RankInit /\ EditInit /\ EmbedInit
Next ==
  \/ /\ NotRanking /\ NotEditing /\ NotEmbedding /\ ChunkNext
     /\ UNCHANGED <<rankVars, editVars, embedVars>>
  \/ /\ NotChunking /\ NotEditing /\ NotEmbedding /\ RankNext
     /\ UNCHANGED <<chunkVars, editVars, embedVars>>
  \/ /\ NotChunking /\ NotRanking /\ NotEmbedding /\ EditNext
     /\ UNCHANGED <<chunkVars, rankVars, embedVars>>
  \/ /\ NotChunking /\ NotRanking /\ NotEditing /\ EmbedNext
     /\ UNCHANGED <<chunkVars, rankVars, editVars>>

Spec == Init /\ [][Next]_<<chunkVars, rankVars, editVars, embedVars>>
=============================================================================
