--------------------------- MODULE DocumentProofs ---------------------------
(* What becomes of a document and of a question about it, for every value of the *)
(* constants.  Answering: no permit of the call limit is lost and the history    *)
(* pairs answers with their questions.  Chunking: no piece of a text is lost or  *)
(* repeated.  Embedding: vectors stand at the places of their texts.  Ranking: a *)
(* query finds as many chunks as it asks for, of every source that has some.     *)
(* FileEdits: an edit replaces what it names.  All but the first depend on what  *)
(* recursive definitions compute: the induction they need is stated once, with   *)
(* the induction hypothesis as a set of numbers.                                 *)
EXTENDS Answering, Chunking, Embedding, Ranking, FileEdits,
        FiniteSetTheorems, SequenceTheorems, WellFoundedInduction, TLAPS

-----------------------------------------------------------------------------
(* Calls of the model and the history of a notebook.                       *)

Holders == {t \in Threads : HoldsPermit(t)}

\* A thread that backs off has an attempt left.
AttemptsLeft ==
  \A t \in Threads : At(t, "backoff") => call[t].attempt < Tries[call[t].kind]

\* The event loop has saved a question and not its answer.
Saving == At(Loop, "save answer")

\* The event loop has a question whose answer is not in the history.
Asking ==
  \/ call[Loop].kind = "answer" /\ call[Loop].at \notin {"idle", "save answer"}
  \/ call[Loop].at \in {"grade", "save question"}

QuestionsAsked == \A i \in 1..Len(history) : history[i].question <= asked

\* The question that is being answered is newer than all in the history.
QuestionIsNew ==
  Asking => asked > 0 /\ \A i \in 1..Len(history) : history[i].question < asked

\* While the answer is missing, its question is the last entry.
QuestionIsLast ==
  Saving =>
    /\ asked > 0 /\ Len(history) > 0
    /\ history[Len(history)] = [who |-> "user", question |-> asked]

HistoryInv == QuestionsAsked /\ QuestionIsNew /\ QuestionIsLast /\ AnswersFollowQuestions

IInv == TypeOK /\ NoPermitLost /\ AttemptsLeft /\ HistoryInv

-----------------------------------------------------------------------------

LEMMA ThreadsFinite == IsFiniteSet(Threads)
BY AnsweringAssumption, FS_AddElement DEF Threads

LEMMA HoldersFinite == IsFiniteSet(Holders) /\ Cardinality(Holders) \in Nat
BY ThreadsFinite, FS_Subset, FS_CardinalityType DEF Holders

LEMMA InitIInv == Init => IInv
<1> SUFFICES ASSUME Init PROVE IInv
  OBVIOUS
<1> USE AnsweringAssumption DEF Init, NoCall, At
<1>1. Holders = {}
  BY DEF Holders, HoldsPermit
<1>2. NoPermitLost
  <2>1. Cardinality(Holders) = 0
    BY <1>1, FS_EmptySet
  <2> QED BY <2>1 DEF NoPermitLost, Holders
<1>3. history \in Seq(Entries) /\ Len(history) = 0
  OBVIOUS
<1>4. NoCall \in Calls /\ 1 \in 1..Tries["answer"]
  BY DEF Calls, Kinds, Places
<1>5. TypeOK
  BY <1>3, <1>4 DEF TypeOK, Threads
<1>6. AttemptsLeft
  BY DEF AttemptsLeft, Threads
<1>7. HistoryInv
  <2>1. ~ Asking /\ ~ Saving
    BY DEF Asking, Saving, Threads
  <2>2. 1..Len(history) = {}
    BY <1>3
  <2> QED
    BY <2>1, <2>2 DEF HistoryInv, QuestionsAsked, QuestionIsNew, QuestionIsLast,
                       AnswersFollowQuestions
<1> QED BY <1>2, <1>5, <1>6, <1>7 DEF IInv

-----------------------------------------------------------------------------
(* The permits.                                                            *)

\* The other threads keep their calls.
OnlyOf(t) == \A u \in Threads \ {t} : call'[u] = call[u]

\* A thread takes a permit, gives it back, or keeps what it has.
PermitMoves(t) ==
  \/ permits > 0 /\ permits' = permits - 1 /\ ~ HoldsPermit(t) /\ HoldsPermit(t)'
  \/ permits' = permits + 1 /\ HoldsPermit(t) /\ ~ HoldsPermit(t)'
  \/ permits' = permits /\ (HoldsPermit(t) <=> HoldsPermit(t)')

LEMMA MovesKeepCount ==
  ASSUME IInv, NEW t \in Threads, OnlyOf(t), PermitMoves(t)
  PROVE  NoPermitLost' /\ permits' \in 0..Limit
<1> DEFINE H == Cardinality(Holders)
<1>1. H \in Nat /\ IsFiniteSet(Holders) /\ permits \in Nat /\ permits + H = Limit
  BY HoldersFinite DEF IInv, TypeOK, NoPermitLost, Holders
<1>2. \A u \in Threads \ {t} : HoldsPermit(u)' <=> HoldsPermit(u)
  BY DEF OnlyOf, HoldsPermit, At
<1>3. Limit \in Nat
  BY AnsweringAssumption
<1>4. CASE permits > 0 /\ permits' = permits - 1 /\ ~ HoldsPermit(t) /\ HoldsPermit(t)'
  <2>1. Holders' = Holders \cup {t} /\ t \notin Holders
    BY <1>2, <1>4 DEF Holders
  <2>2. Cardinality(Holders') = H + 1
    BY <1>1, <2>1, FS_AddElement
  <2> QED BY <1>1, <1>3, <1>4, <2>2 DEF NoPermitLost, Holders
<1>5. CASE permits' = permits + 1 /\ HoldsPermit(t) /\ ~ HoldsPermit(t)'
  <2>1. Holders' = Holders \ {t} /\ t \in Holders
    BY <1>2, <1>5 DEF Holders
  <2>2. Cardinality(Holders') = H - 1
    BY <1>1, <2>1, FS_RemoveElement
  <2>3. Cardinality(Holders') \in Nat
    BY <1>1, <2>1, FS_Subset, FS_CardinalityType
  <2> QED BY <1>1, <1>3, <1>5, <2>2, <2>3 DEF NoPermitLost, Holders
<1>6. CASE permits' = permits /\ (HoldsPermit(t) <=> HoldsPermit(t)')
  <2>1. Holders' = Holders
    BY <1>2, <1>6 DEF Holders
  <2> QED BY <1>1, <1>3, <1>6, <2>1 DEF NoPermitLost, Holders
<1> QED BY <1>4, <1>5, <1>6 DEF PermitMoves

\* A step of one thread's call, which the type of its call survives.
CallMoves(t) ==
  /\ OnlyOf(t) /\ PermitMoves(t)
  /\ call' = [call EXCEPT ![t] = call'[t]]
  /\ call'[t] \in Calls
  /\ call'[t].attempt \in 1..Tries[call'[t].kind]
  /\ call'[t].at = "backoff" => call'[t].attempt < Tries[call'[t].kind]

LEMMA CallMovesKeep ==
  ASSUME IInv, NEW t \in Threads, CallMoves(t),
         asked' \in 0..MaxAsked, history' \in Seq(Entries)
  PROVE  TypeOK' /\ NoPermitLost' /\ AttemptsLeft'
<1>1. NoPermitLost' /\ permits' \in 0..Limit
  BY MovesKeepCount DEF CallMoves
<1>2. call' \in [Threads -> Calls]
  BY DEF CallMoves, IInv, TypeOK
<1>3. \A u \in Threads : call'[u].attempt \in 1..Tries[call'[u].kind]
  BY DEF CallMoves, OnlyOf, IInv, TypeOK
<1>4. AttemptsLeft'
  BY DEF CallMoves, OnlyOf, IInv, AttemptsLeft, At
<1> QED BY <1>1, <1>2, <1>3, <1>4 DEF TypeOK

-----------------------------------------------------------------------------
(* The history.                                                            *)

\* A step that leaves the history alone keeps what is known of it, unless it
\* begins a question or has one to save.
LEMMA HistoryStands ==
  ASSUME HistoryInv, UNCHANGED <<asked, history>>,
         Asking' => Asking, Saving' => Saving
  PROVE  HistoryInv'
BY DEF HistoryInv, QuestionsAsked, QuestionIsNew, QuestionIsLast,
       AnswersFollowQuestions

\* A worker's step is none of the history's business.
LEMMA WorkersLeaveHistory ==
  ASSUME HistoryInv, NEW t \in Workers, OnlyOf(t), UNCHANGED <<asked, history>>
  PROVE  HistoryInv'
<1>1. call'[Loop] = call[Loop]
  BY AnsweringAssumption DEF OnlyOf, Threads
<1> QED BY <1>1, HistoryStands DEF Asking, Saving, At

\* An entry is appended.
LEMMA Appended ==
  ASSUME TypeOK, asked > 0, NEW who \in {"user", "ai"}, history' = Entry(who),
         asked' = asked
  PROVE  /\ history' \in Seq(Entries) /\ Len(history') = Len(history) + 1
         /\ Len(history) \in Nat
         /\ \A i \in 1..Len(history') : i \in 1..Len(history) \/ i = Len(history) + 1
         /\ \A i \in 1..Len(history) : history'[i] = history[i]
         /\ history'[Len(history) + 1] = [who |-> who, question |-> asked]
<1>1. [who |-> who, question |-> asked] \in Entries
  BY AnsweringAssumption DEF TypeOK, Entries
<1> QED BY <1>1 DEF TypeOK, Entry

LEMMA QuestionSaved ==
  ASSUME TypeOK, HistoryInv, Asking, history' = Entry("user"), asked' = asked, ~ Asking'
  PROVE  HistoryInv' /\ history' \in Seq(Entries)
<1>1. asked > 0 /\ \A i \in 1..Len(history) : history[i].question < asked
  BY DEF HistoryInv, QuestionIsNew
<1>2. /\ history' \in Seq(Entries) /\ Len(history') = Len(history) + 1
      /\ Len(history) \in Nat
      /\ \A i \in 1..Len(history') : i \in 1..Len(history) \/ i = Len(history) + 1
      /\ \A i \in 1..Len(history) : history'[i] = history[i]
      /\ history'[Len(history) + 1] = [who |-> "user", question |-> asked]
  BY <1>1, Appended
<1>3. QuestionsAsked'
  BY <1>2, AnsweringAssumption DEF HistoryInv, QuestionsAsked, TypeOK
<1>4. QuestionIsNew' /\ QuestionIsLast'
  BY <1>1, <1>2 DEF QuestionIsNew, QuestionIsLast
<1>5. AnswersFollowQuestions'
  <2> SUFFICES ASSUME NEW i \in 1..Len(history')
               PROVE  /\ history'[i].who = "ai" =>
                           i > 1 /\ history'[i - 1] =
                             [who |-> "user", question |-> history'[i].question]
                      /\ i > 1 /\ history'[i].who = "user" =>
                           history'[i - 1].question < history'[i].question
    BY DEF AnswersFollowQuestions
  <2>1. CASE i \in 1..Len(history)
    <3>1. /\ history'[i] = history[i]
          /\ i > 1 => i - 1 \in 1..Len(history) /\ history'[i - 1] = history[i - 1]
      BY <1>2, <2>1
    <3> QED BY <2>1, <3>1 DEF HistoryInv, AnswersFollowQuestions
  <2>2. CASE i = Len(history) + 1
    <3>1. /\ i > 1 => i - 1 \in 1..Len(history) /\ history'[i - 1] = history[i - 1]
          /\ history'[i].who = "user" /\ history'[i].question = asked
      BY <1>2, <2>2
    <3> QED BY <1>1, <3>1
  <2> QED BY <1>2, <2>1, <2>2
<1> QED BY <1>2, <1>3, <1>4, <1>5 DEF HistoryInv

LEMMA AnswerSaved ==
  ASSUME TypeOK, HistoryInv, Saving, history' = Entry("ai"),
         asked' = asked, ~ Asking', ~ Saving'
  PROVE  HistoryInv' /\ history' \in Seq(Entries)
<1>1. /\ asked > 0 /\ Len(history) > 0
      /\ history[Len(history)] = [who |-> "user", question |-> asked]
  BY DEF HistoryInv, QuestionIsLast
<1>2. /\ history' \in Seq(Entries) /\ Len(history') = Len(history) + 1
      /\ Len(history) \in Nat
      /\ \A i \in 1..Len(history') : i \in 1..Len(history) \/ i = Len(history) + 1
      /\ \A i \in 1..Len(history) : history'[i] = history[i]
      /\ history'[Len(history) + 1] = [who |-> "ai", question |-> asked]
  BY <1>1, Appended
<1>3. QuestionsAsked'
  BY <1>2, AnsweringAssumption DEF HistoryInv, QuestionsAsked, TypeOK
<1>4. QuestionIsNew' /\ QuestionIsLast'
  BY DEF QuestionIsNew, QuestionIsLast
<1>5. AnswersFollowQuestions'
  <2> SUFFICES ASSUME NEW i \in 1..Len(history')
               PROVE  /\ history'[i].who = "ai" =>
                           i > 1 /\ history'[i - 1] =
                             [who |-> "user", question |-> history'[i].question]
                      /\ i > 1 /\ history'[i].who = "user" =>
                           history'[i - 1].question < history'[i].question
    BY DEF AnswersFollowQuestions
  <2>1. CASE i \in 1..Len(history)
    <3>1. /\ history'[i] = history[i]
          /\ i > 1 => i - 1 \in 1..Len(history) /\ history'[i - 1] = history[i - 1]
      BY <1>2, <2>1
    <3> QED BY <2>1, <3>1 DEF HistoryInv, AnswersFollowQuestions
  <2>2. CASE i = Len(history) + 1
    <3>1. /\ i > 1 /\ i - 1 = Len(history) /\ history'[i - 1] = history[Len(history)]
          /\ history'[i] = [who |-> "ai", question |-> asked]
      BY <1>1, <1>2, <2>2
    <3> QED BY <1>1, <3>1
  <2> QED BY <1>2, <2>1, <2>2
<1> QED BY <1>2, <1>3, <1>4, <1>5 DEF HistoryInv

-----------------------------------------------------------------------------
(* Steps.                                                                  *)

\* What a step makes of a thread's call.
Becomes(t, kind, at, provider, attempt) ==
  /\ OnlyOf(t)
  /\ call' = [call EXCEPT ![t] = call'[t]]
  /\ call'[t] \in Calls
  /\ call'[t].kind = kind /\ call'[t].at = at
  /\ call'[t].provider = provider /\ call'[t].attempt = attempt

LEMMA RecordBecomes ==
  ASSUME TypeOK, NEW t \in Threads, NEW c \in Calls, call' = [call EXCEPT ![t] = c]
  PROVE  Becomes(t, c.kind, c.at, c.provider, c.attempt)
BY DEF Becomes, OnlyOf, TypeOK

LEMMA GotoBecomes ==
  ASSUME TypeOK, NEW t \in Threads, NEW place \in Places, Goto(t, place)
  PROVE  Becomes(t, call[t].kind, place, call[t].provider, call[t].attempt)
BY DEF Becomes, OnlyOf, TypeOK, Goto, Calls

LEMMA ReturnsBecomes ==
  ASSUME TypeOK, NEW t \in Threads, Returns(t)
  PROVE  Becomes(t, "answer", "idle", 1, 1)
<1>1. NoCall \in Calls
  BY AnsweringAssumption DEF NoCall, Calls, Kinds, Places
<1>2. /\ NoCall.kind = "answer" /\ NoCall.at = "idle"
      /\ NoCall.provider = 1 /\ NoCall.attempt = 1
  BY DEF NoCall
<1> QED BY <1>1, <1>2 DEF Becomes, OnlyOf, TypeOK, Returns

LEMMA StartsBecomes ==
  ASSUME TypeOK, NEW t \in Threads, NEW kind \in Kinds, Starts(t, kind)
  PROVE  Becomes(t, kind, "acquire", 1, 1)
<1> DEFINE c == [NoCall EXCEPT !.kind = kind, !.at = "acquire"]
<1>1. c \in Calls
  <2>1. NoCall \in Calls
    BY AnsweringAssumption DEF NoCall, Calls, Kinds, Places
  <2> QED BY <2>1 DEF Calls, Places
<1>2. /\ c.kind = kind /\ c.at = "acquire"
      /\ c.provider = 1 /\ c.attempt = 1
  BY DEF NoCall
<1>3. call' = [call EXCEPT ![t] = c]
  BY DEF Starts
<1> HIDE DEF c
<1> QED BY <1>1, <1>2, <1>3 DEF Becomes, OnlyOf, TypeOK

\* What becomes of a call keeps its types and the count of permits.
LEMMA BecomesMoves ==
  ASSUME IInv, NEW t \in Threads,
         NEW kind \in Kinds, NEW at, NEW provider, NEW attempt \in Nat,
         Becomes(t, kind, at, provider, attempt), PermitMoves(t),
         attempt \in 1..Tries[kind], at = "backoff" => attempt < Tries[kind]
  PROVE  CallMoves(t)
BY DEF Becomes, CallMoves

\* A step of a call under way.
CallStep(t) ==
  \/ Acquires(t) \/ Answered(t) \/ TriesAgain(t)
  \/ \E failure \in Failures :
       BacksOff(t, failure) \/ FallsBack(t, failure) \/ GivesUp(t, failure)

LEMMA FallsBackBecomes ==
  ASSUME IInv, NEW t \in Threads, NEW failure, FallsBack(t, failure)
  PROVE  Becomes(t, call[t].kind,
                 IF call[t].kind = "agent" THEN "request" ELSE "acquire",
                 call[t].provider + 1, 1)
<1> DEFINE k == call[t].kind
           p == call[t].provider
           a == IF k = "agent" THEN "request" ELSE "acquire"
           c == [call[t] EXCEPT !.provider = p + 1, !.attempt = 1, !.at = a]
<1>1. call[t] \in Calls /\ p + 1 \in 1..Providers /\ call[t].at = "request"
  BY AnsweringAssumption DEF FallsBack, IInv, TypeOK, Calls, At
<1>2. c \in Calls
  BY <1>1 DEF Calls, Places
<1>3. c.kind = k /\ c.at = a /\ c.provider = p + 1 /\ c.attempt = 1
  BY <1>1 DEF Calls
<1>4. call' = [call EXCEPT ![t] = c]
  BY <1>1 DEF FallsBack, IInv, TypeOK
<1> HIDE DEF c
<1> QED BY <1>2, <1>3, <1>4, RecordBecomes DEF IInv

LEMMA CallStepMoves ==
  ASSUME IInv, NEW t \in Threads, CallStep(t)
  PROVE  CallMoves(t) /\ UNCHANGED <<asked, history>>
<1> DEFINE k == call[t].kind
           p == call[t].provider
           n == call[t].attempt
<1>1. /\ k \in Kinds /\ n \in 1..Tries[k] /\ n \in Nat /\ Tries[k] \in Nat
      /\ permits \in Nat /\ 1 \in 1..Tries[k] /\ 1 \in 1..Tries["answer"]
      /\ "answer" \in Kinds
  BY AnsweringAssumption DEF IInv, TypeOK, Calls, Kinds
<1>2. CASE Acquires(t)
  <2>1. Becomes(t, k, "request", p, n)
    BY <1>2, GotoBecomes DEF Acquires, IInv, Places
  <2>2. PermitMoves(t)
    BY <1>1, <1>2, <2>1 DEF Acquires, PermitMoves, Becomes, HoldsPermit, At
  <2> QED BY <1>1, <1>2, <2>1, <2>2, BecomesMoves DEF Acquires
<1>3. CASE Answered(t)
  <2>1. \/ Becomes(t, k, "grade", p, n)
        \/ Becomes(t, "answer", "idle", 1, 1)
    BY <1>1, <1>3, GotoBecomes, ReturnsBecomes DEF Answered, IInv, Places
  <2>2. PermitMoves(t)
    BY <1>1, <1>3, <2>1 DEF Answered, PermitMoves, Becomes, HoldsPermit, At
  <2> QED BY <1>1, <1>3, <2>1, <2>2, BecomesMoves DEF Answered
<1>4. ASSUME NEW failure \in Failures, BacksOff(t, failure)
      PROVE  CallMoves(t) /\ UNCHANGED <<asked, history>>
  <2>1. Becomes(t, k, "backoff", p, n) /\ n < Tries[k]
    BY <1>4, GotoBecomes DEF BacksOff, Retried, IInv, Places
  <2>2. PermitMoves(t)
    BY <1>1, <1>4, <2>1 DEF BacksOff, PermitMoves, Becomes, HoldsPermit, At
  <2> QED BY <1>1, <1>4, <2>1, <2>2, BecomesMoves DEF BacksOff
<1>5. CASE TriesAgain(t)
  <2> DEFINE a == IF k = "agent" THEN "request" ELSE "acquire"
  <2>1. n < Tries[k] /\ n + 1 \in 1..Tries[k]
    BY <1>1, <1>5 DEF TriesAgain, IInv, AttemptsLeft
  <2>2. Becomes(t, k, a, p, n + 1)
    <3> DEFINE c == [call[t] EXCEPT !.attempt = n + 1, !.at = a]
    <3>1. call[t] \in Calls
      BY DEF IInv, TypeOK
    <3>2. c \in Calls
      <4>1. n + 1 \in Nat /\ a \in Places
        BY <1>1 DEF Places
      <4> QED BY <3>1, <4>1 DEF Calls
    <3>3. c.kind = k /\ c.at = a /\ c.provider = p /\ c.attempt = n + 1
      BY <3>1 DEF Calls
    <3>4. call' = [call EXCEPT ![t] = c]
      BY <1>5, <3>1 DEF TriesAgain, IInv, TypeOK
    <3> HIDE DEF c
    <3> QED BY <3>2, <3>3, <3>4, RecordBecomes DEF IInv
  <2>3. PermitMoves(t)
    BY <1>1, <1>5, <2>2 DEF TriesAgain, PermitMoves, Becomes, HoldsPermit, At, Kinds
  <2> QED BY <1>1, <1>5, <2>1, <2>2, <2>3, BecomesMoves DEF TriesAgain
<1>6. ASSUME NEW failure \in Failures, FallsBack(t, failure)
      PROVE  CallMoves(t) /\ UNCHANGED <<asked, history>>
  <2> DEFINE a == IF k = "agent" THEN "request" ELSE "acquire"
  <2>1. Becomes(t, k, a, p + 1, 1)
    BY <1>6, FallsBackBecomes
  <2>2. PermitMoves(t)
    BY <1>1, <1>6, <2>1 DEF FallsBack, PermitMoves, Becomes, HoldsPermit, At
  <2> QED BY <1>1, <1>6, <2>1, <2>2, BecomesMoves DEF FallsBack
<1>7. ASSUME NEW failure \in Failures, GivesUp(t, failure)
      PROVE  CallMoves(t) /\ UNCHANGED <<asked, history>>
  <2>1. Becomes(t, "answer", "idle", 1, 1)
    BY <1>7, ReturnsBecomes DEF GivesUp, IInv
  <2>2. PermitMoves(t)
    BY <1>1, <1>7, <2>1 DEF GivesUp, PermitMoves, Becomes, HoldsPermit, At
  <2> QED BY <1>1, <1>7, <2>1, <2>2, BecomesMoves DEF GivesUp
<1> QED BY <1>2, <1>3, <1>4, <1>5, <1>6, <1>7 DEF CallStep

LEMMA StartsMoves ==
  ASSUME IInv, NEW t \in Threads, NEW kind \in Kinds, Starts(t, kind)
  PROVE  CallMoves(t)
<1>1. Becomes(t, kind, "acquire", 1, 1)
  BY StartsBecomes DEF IInv
<1>2. PermitMoves(t)
  BY <1>1 DEF Starts, PermitMoves, Becomes, HoldsPermit, At
<1>3. 1 \in 1..Tries[kind]
  BY AnsweringAssumption
<1> QED BY <1>1, <1>2, <1>3, BecomesMoves

LEMMA CallStepOfLoop ==
  ASSUME IInv, CallStep(Loop)
  PROVE  ~ Saving' /\ (Asking' => Asking)
<1>1. Loop \in Threads
  BY DEF Threads
<1> USE DEF Asking, Saving, At, IInv, TypeOK, Goto, Returns
<1>2. CASE Acquires(Loop)
  BY <1>1, <1>2 DEF Acquires
<1>3. CASE Answered(Loop)
  <2>1. CASE IsQuery(Loop)
    <3>1. call'[Loop].at = "grade"
      BY <1>1, <1>3, <2>1, GotoBecomes DEF Answered, Becomes, Places
    <3>2. Asking
      BY <1>3, <2>1 DEF Answered, IsQuery
    <3> QED BY <3>1, <3>2
  <2>2. CASE ~ IsQuery(Loop)
    <3>1. Becomes(Loop, "answer", "idle", 1, 1)
      BY <1>1, <1>3, <2>2, ReturnsBecomes DEF Answered
    <3> QED BY <3>1 DEF Becomes
  <2> QED BY <2>1, <2>2
<1>4. CASE TriesAgain(Loop)
  BY <1>1, <1>4 DEF TriesAgain
<1>5. ASSUME NEW failure \in Failures, BacksOff(Loop, failure)
      PROVE  ~ Saving' /\ (Asking' => Asking)
  BY <1>1, <1>5 DEF BacksOff
<1>6. ASSUME NEW failure \in Failures, FallsBack(Loop, failure)
      PROVE  ~ Saving' /\ (Asking' => Asking)
  <2>1. call'[Loop].kind = call[Loop].kind /\ call'[Loop].at \in {"request", "acquire"}
    BY <1>1, <1>6, FallsBackBecomes DEF Becomes
  <2>2. call[Loop].at = "request"
    BY <1>6 DEF FallsBack
  <2> QED BY <2>1, <2>2
<1>7. ASSUME NEW failure \in Failures, GivesUp(Loop, failure)
      PROVE  ~ Saving' /\ (Asking' => Asking)
  BY <1>1, <1>7 DEF GivesUp, NoCall
<1> QED BY <1>2, <1>3, <1>4, <1>5, <1>6, <1>7 DEF CallStep

\* What notebook_query does when the answer is there.
LEMMA LoopSteps ==
  ASSUME IInv, Graded \/ SavesQuestion \/ SavesAnswer \/ SaveFails
  PROVE  IInv'
<1> USE DEF IInv
<1>1. /\ Loop \in Threads /\ 1 \in 1..Tries["answer"] /\ 1 \in Nat /\ "answer" \in Kinds
      /\ call[Loop].kind \in Kinds /\ call[Loop].attempt \in Nat
      /\ call[Loop].attempt \in 1..Tries[call[Loop].kind]
  BY AnsweringAssumption DEF Threads, TypeOK, Calls, Kinds
<1>2. \A place \in Places \ {"request", "backoff"} :
        /\ call[Loop].at \notin {"request", "backoff"}
        /\ Goto(Loop, place) /\ permits' = permits
        => CallMoves(Loop) /\ call'[Loop].at = place
  <2> SUFFICES ASSUME NEW place \in Places \ {"request", "backoff"},
                      call[Loop].at \notin {"request", "backoff"},
                      Goto(Loop, place), permits' = permits
               PROVE  CallMoves(Loop) /\ call'[Loop].at = place
    OBVIOUS
  <2>1. Becomes(Loop, call[Loop].kind, place, call[Loop].provider, call[Loop].attempt)
    BY <1>1, GotoBecomes
  <2>2. PermitMoves(Loop)
    BY <2>1 DEF PermitMoves, Becomes, HoldsPermit, At
  <2> QED BY <1>1, <2>1, <2>2, BecomesMoves DEF Becomes
<1>3. /\ call[Loop].at \notin {"request", "backoff"}
      /\ Returns(Loop) /\ permits' = permits
      => CallMoves(Loop) /\ call'[Loop].kind = "answer" /\ call'[Loop].at = "idle"
  <2> SUFFICES ASSUME call[Loop].at \notin {"request", "backoff"},
                      Returns(Loop), permits' = permits
               PROVE  CallMoves(Loop) /\ call'[Loop].kind = "answer" /\ call'[Loop].at = "idle"
    OBVIOUS
  <2>1. Becomes(Loop, "answer", "idle", 1, 1)
    BY <1>1, ReturnsBecomes
  <2>2. PermitMoves(Loop)
    BY <2>1 DEF PermitMoves, Becomes, HoldsPermit, At
  <2> QED BY <1>1, <2>1, <2>2, BecomesMoves DEF Becomes
<1>4. CASE Graded
  <2>1. Asking /\ ~ Saving /\ UNCHANGED <<asked, history>>
    BY <1>4 DEF Graded, Asking, Saving, At
  <2>2. CallMoves(Loop) /\ ~ Saving'
    <3>1. CASE Goto(Loop, "save question")
      <4>1. "save question" \in Places \ {"request", "backoff"}
        BY DEF Places
      <4>2. call[Loop].at \notin {"request", "backoff"} /\ permits' = permits
        BY <1>4 DEF Graded, At
      <4> QED BY <1>2, <3>1, <4>1, <4>2 DEF Saving, At
    <3> DEFINE c == [NoCall EXCEPT !.at = "acquire", !.second = TRUE]
    <3>2. CASE call' = [call EXCEPT ![Loop] = c]
      <4>1. c \in Calls
        <5>1. NoCall \in Calls
          BY AnsweringAssumption DEF NoCall, Calls, Kinds, Places
        <5> QED BY <5>1 DEF Calls, Places
      <4>2. c.kind = "answer" /\ c.at = "acquire" /\ c.provider = 1 /\ c.attempt = 1
        BY DEF NoCall
      <4> HIDE DEF c
      <4>3. Becomes(Loop, "answer", "acquire", 1, 1)
        BY <1>1, <3>2, <4>1, <4>2, RecordBecomes
      <4>4. PermitMoves(Loop)
        BY <1>4, <4>3 DEF Graded, PermitMoves, Becomes, HoldsPermit, At
      <4> QED BY <1>1, <4>3, <4>4, BecomesMoves DEF Becomes, Saving, At
    <3> QED BY <1>4, <3>1, <3>2 DEF Graded
  <2>3. HistoryInv'
    BY <2>1, <2>2, HistoryStands
  <2> QED BY <1>1, <2>1, <2>2, <2>3, CallMovesKeep DEF TypeOK
<1>5. CASE SavesQuestion
  <2>1. Asking /\ history' = Entry("user") /\ asked' = asked
    BY <1>5 DEF SavesQuestion, Asking, At
  <2>2. CallMoves(Loop) /\ ~ Asking'
    <3>1. "save answer" \in Places \ {"request", "backoff"}
      BY DEF Places
    <3>2. /\ call[Loop].at \notin {"request", "backoff"} /\ permits' = permits
          /\ Goto(Loop, "save answer")
      BY <1>5 DEF SavesQuestion, At
    <3> QED BY <1>2, <3>1, <3>2 DEF Asking
  <2>3. HistoryInv' /\ history' \in Seq(Entries)
    BY <2>1, <2>2, QuestionSaved
  <2> QED BY <1>1, <2>1, <2>2, <2>3, CallMovesKeep DEF TypeOK
<1>6. CASE SavesAnswer
  <2>1. Saving /\ history' = Entry("ai") /\ asked' = asked
    BY <1>6 DEF SavesAnswer, Saving
  <2>2. CallMoves(Loop) /\ ~ Asking' /\ ~ Saving'
    BY <1>3, <1>6 DEF SavesAnswer, Asking, Saving, At
  <2>3. HistoryInv' /\ history' \in Seq(Entries)
    BY <2>1, <2>2, AnswerSaved
  <2> QED BY <1>1, <2>1, <2>2, <2>3, CallMovesKeep DEF TypeOK
<1>7. CASE SaveFails
  <2>1. CallMoves(Loop) /\ ~ Asking' /\ ~ Saving' /\ asked' = asked
    BY <1>3, <1>7 DEF SaveFails, Asking, Saving, At
  <2>2. \/ Asking /\ history' = Entry("user")
        \/ Saving /\ history' = Entry("ai")
        \/ history' = history
    BY <1>7 DEF SaveFails, Asking, Saving, At
  <2>3. HistoryInv' /\ history' \in Seq(Entries)
    BY <2>1, <2>2, QuestionSaved, AnswerSaved, HistoryStands DEF TypeOK
  <2> QED BY <1>1, <2>1, <2>3, CallMovesKeep DEF TypeOK
<1> QED BY <1>4, <1>5, <1>6, <1>7

\* The whole invariant is kept by every step.
LEMMA StepIInv == IInv /\ [Next]_vars => IInv'
<1> SUFFICES ASSUME IInv, [Next]_vars PROVE IInv'
  OBVIOUS
<1> USE DEF IInv
<1>1. Loop \in Threads /\ asked \in Nat
  BY AnsweringAssumption DEF Threads, TypeOK
<1>2. CASE AsksNotebook
  <2>1. CallMoves(Loop) /\ Becomes(Loop, "answer", "acquire", 1, 1)
    BY <1>1, <1>2, StartsMoves, StartsBecomes DEF AsksNotebook, Kinds
  <2>2. asked' = asked + 1 /\ asked' \in 0..MaxAsked /\ history' = history
    BY <1>1, <1>2, AnsweringAssumption DEF AsksNotebook, Starts, TypeOK
  <2>3. HistoryInv'
    <3>1. ~ Saving'
      BY <2>1 DEF Becomes, Saving, At
    <3>2. \A i \in 1..Len(history) : history[i].question \in Nat
      <4>1. \A i \in 1..Len(history) : history[i] \in Entries
        BY DEF TypeOK
      <4> QED BY <4>1, AnsweringAssumption DEF Entries
    <3> QED BY <1>1, <2>2, <3>1, <3>2
            DEF HistoryInv, QuestionsAsked, QuestionIsNew, QuestionIsLast,
                AnswersFollowQuestions
  <2> QED BY <1>1, <2>1, <2>2, <2>3, CallMovesKeep DEF TypeOK
<1>3. CASE AsksRepository
  <2>1. CallMoves(Loop) /\ Becomes(Loop, "analysis", "acquire", 1, 1)
    BY <1>1, <1>3, StartsMoves, StartsBecomes DEF AsksRepository, Kinds
  <2>2. UNCHANGED <<asked, history>>
    BY <1>3 DEF AsksRepository, Starts
  <2>3. ~ Asking' /\ ~ Saving'
    BY <2>1 DEF Becomes, Asking, Saving, At
  <2>4. HistoryInv'
    BY <2>2, <2>3, HistoryStands
  <2> QED BY <1>1, <2>1, <2>2, <2>4, CallMovesKeep DEF TypeOK
<1>4. ASSUME NEW t \in Workers, WorkerCalls(t)
      PROVE  IInv'
  <2>1. t \in Threads
    BY DEF Threads
  <2>2. CallMoves(t) /\ UNCHANGED <<asked, history>>
    BY <1>4, <2>1, StartsMoves DEF WorkerCalls, Starts
  <2>3. HistoryInv'
    BY <2>2, WorkersLeaveHistory DEF CallMoves
  <2> QED BY <2>1, <2>2, <2>3, CallMovesKeep DEF TypeOK
<1>5. ASSUME NEW t \in Threads, CallStep(t)
      PROVE  IInv'
  <2>1. CallMoves(t) /\ UNCHANGED <<asked, history>>
    BY <1>5, CallStepMoves
  <2>2. HistoryInv'
    <3>1. CASE t \in Workers
      BY <2>1, <3>1, WorkersLeaveHistory DEF CallMoves
    <3>2. CASE t = Loop
      <4>1. ~ Saving' /\ (Asking' => Asking)
        BY <1>5, <3>2, CallStepOfLoop
      <4> QED BY <2>1, <4>1, HistoryStands
    <3> QED BY <3>1, <3>2 DEF Threads
  <2> QED BY <2>1, <2>2, CallMovesKeep DEF TypeOK
<1>6. CASE Graded
  BY <1>1, <1>6, LoopSteps
<1>7. CASE SavesQuestion
  BY <1>1, <1>7, LoopSteps
<1>8. CASE SavesAnswer
  BY <1>1, <1>8, LoopSteps
<1>9. CASE SaveFails
  BY <1>1, <1>9, LoopSteps
<1>10. CASE Clears
  <2>1. HistoryInv'
    <3>1. Len(history') = 0 /\ 1..Len(history') = {}
      BY <1>10 DEF Clears
    <3>2. ~ Asking' /\ ~ Saving'
      BY <1>10 DEF Clears, LoopIsFree, Asking, Saving, At
    <3> QED BY <3>1, <3>2 DEF HistoryInv, QuestionsAsked, QuestionIsNew,
                              QuestionIsLast, AnswersFollowQuestions
  <2> QED BY <1>10, <2>1 DEF Clears, TypeOK, NoPermitLost, AttemptsLeft, HoldsPermit, At
<1>11. CASE UNCHANGED vars
  BY <1>11 DEF vars, TypeOK, NoPermitLost, AttemptsLeft, HoldsPermit, At, HistoryInv,
               QuestionsAsked, QuestionIsNew, QuestionIsLast, AnswersFollowQuestions,
               Asking, Saving
<1> QED BY <1>1, <1>2, <1>3, <1>4, <1>5, <1>6, <1>7, <1>8, <1>9, <1>10, <1>11
        DEF Next, Step, CallStep

-----------------------------------------------------------------------------

\* llm_semaphore, "Acquire before every LLM HTTP request; release in finally": however
\* many threads call, in whichever way, and whatever the providers answer, a permit
\* that is not there is in use.
THEOREM PermitsKept == Spec => []NoPermitLost
<1>1. IInv => NoPermitLost
  BY DEF IInv
<1> QED BY InitIInv, StepIInv, <1>1, PTL DEF Spec

\* The history of notebook_query holds no answer without its question before it,
\* and the questions in their order.
THEOREM HistoryPaired == Spec => []AnswersFollowQuestions
<1>1. IInv => AnswersFollowQuestions
  BY DEF IInv, HistoryInv
<1> QED BY InitIInv, StepIInv, <1>1, PTL DEF Spec

\* Every variable stays in its range.
THEOREM AnsweringTyped == Spec => []TypeOK
<1>1. IInv => TypeOK
  BY DEF IInv
<1> QED BY InitIInv, StepIInv, <1>1, PTL DEF Spec

-----------------------------------------------------------------------------
(* Induction over the naturals, with a set for the induction hypothesis.      *)

LEMMA LeastNatural ==
  ASSUME NEW S, S \subseteq Nat, S # {}
  PROVE  \E m \in S : \A k \in S : m <= k
<1>1. PICK R : IsWellFoundedOn(R, Nat) /\ \A x, y \in Nat : y < x => <<y, x>> \in R
  <2>1. \A x, y \in Nat : y < x => <<y, x>> \in OpToRel(<, Nat)
    BY DEF OpToRel
  <2> QED BY <2>1, NatLessThanWellFounded
<1>2. PICK x \in S : \A y \in S : ~ (<<y, x>> \in R)
  BY <1>1, WFMin
<1>3. \A y \in S : y \in Nat /\ x \in Nat /\ ~ (y < x)
  BY <1>1, <1>2
<1>4. \A y \in S : x <= y
  BY <1>3
<1> QED BY <1>4

LEMMA InductionOnNaturals ==
  ASSUME NEW S, 0 \in S, \A n \in Nat : n \in S => n + 1 \in S
  PROVE  Nat \subseteq S
<1> SUFFICES ASSUME ~ (Nat \subseteq S)  PROVE FALSE
  OBVIOUS
<1>1. PICK m \in Nat \ S : \A k \in Nat \ S : m <= k
  BY LeastNatural
<1>2. m - 1 \in Nat /\ m - 1 \in S
  BY <1>1
<1> QED BY <1>1, <1>2

-----------------------------------------------------------------------------
(* Chunks.                                                                  *)

\* Every variable stays in its range; current_pieces begins within the pieces read.
ChunkTypeOK ==
  /\ pieces \in Seq(Piece)
  /\ from \in 1..(Len(pieces) + 1)
  /\ chunks \in Seq([from : Nat, to : Nat, kept : BOOLEAN])
  /\ over \in BOOLEAN

\* What has been accumulated begins where the last chunk ends or before, and is not
\* empty; the last chunk does not reach to its end.
Accumulated ==
  ~ over =>
    /\ Len(pieces) > 0 => from <= Len(pieces)
    /\ IF Len(chunks) = 0 THEN from = 1
       ELSE /\ from <= chunks[Len(chunks)].to + 1
            /\ chunks[Len(chunks)].to < Len(pieces)
            /\ (MinChunk >= Overlap /\ chunks[Len(chunks)].kept) =>
                 chunks[Len(chunks)].from < from

ChunkInv == ChunkTypeOK /\ Accumulated /\ NoPieceLost /\ NoChunkRepeated

\* The totals of Total are well defined: a recursion from k - 1 to k has a solution.
LEMMA TotalsDefined ==
  ASSUME NEW a \in Nat \ {0}, NEW w
  PROVE  Totals(w, a) = [k \in Nat |-> IF k < a THEN 0 ELSE Totals(w, a)[k - 1] + w[k]]
<1> DEFINE Part(n, g) == g = [k \in 0..n |-> IF k < a THEN 0 ELSE g[k - 1] + w[k]]
           Reached == {n \in Nat : \E g : Part(n, g)}
<1>1. 0 \in Reached
  <2>1. Part(0, [k \in 0..0 |-> 0])
    OBVIOUS
  <2> QED BY <2>1
<1>2. ASSUME NEW n \in Nat, n \in Reached  PROVE n + 1 \in Reached
  <2>1. PICK g : Part(n, g)
    BY <1>2
  <2> DEFINE h == [k \in 0..(n + 1) |->
                     IF k <= n THEN g[k]
                     ELSE IF k < a THEN 0 ELSE g[k - 1] + w[k]]
  <2>2. \A k \in 0..(n + 1) : h[k] = IF k < a THEN 0 ELSE h[k - 1] + w[k]
    <3> SUFFICES ASSUME NEW k \in 0..(n + 1)
        PROVE  h[k] = IF k < a THEN 0 ELSE h[k - 1] + w[k]
      OBVIOUS
    <3>1. CASE k <= n
      <4>1. h[k] = g[k] /\ g[k] = IF k < a THEN 0 ELSE g[k - 1] + w[k]
        BY <2>1, <3>1
      <4>2. ~ (k < a) => h[k - 1] = g[k - 1]
        BY <3>1
      <4> QED BY <4>1, <4>2
    <3>2. CASE k = n + 1
      <4>1. h[k] = IF k < a THEN 0 ELSE g[k - 1] + w[k]
        BY <3>2
      <4>2. h[k - 1] = g[k - 1]
        BY <3>2
      <4> QED BY <4>1, <4>2
    <3> QED BY <3>1, <3>2
  <2>3. Part(n + 1, h)
    BY <2>2
  <2> HIDE DEF h, Part
  <2> QED BY <2>3
<1>3. Nat \subseteq Reached
  <2> HIDE DEF Reached
  <2> QED BY <1>1, <1>2, InductionOnNaturals
<1>4. ASSUME NEW n \in Nat, NEW m \in Nat, n <= m, NEW g, NEW h, Part(n, g), Part(m, h)
      PROVE  g[n] = h[n]
  <2> DEFINE Same == {k \in Nat : k <= n => g[k] = h[k]}
  <2>1. 0 \in Same
    BY <1>4
  <2>2. ASSUME NEW k \in Nat, k \in Same  PROVE k + 1 \in Same
    <3> SUFFICES ASSUME k + 1 <= n  PROVE g[k + 1] = h[k + 1]
      OBVIOUS
    <3>1. g[k] = h[k]
      BY <2>2
    <3>2. g[k + 1] = IF k + 1 < a THEN 0 ELSE g[(k + 1) - 1] + w[k + 1]
      BY <1>4
    <3>3. h[k + 1] = IF k + 1 < a THEN 0 ELSE h[(k + 1) - 1] + w[k + 1]
      BY <1>4
    <3> QED BY <3>1, <3>2, <3>3
  <2>3. Nat \subseteq Same
    <3> HIDE DEF Same
    <3> QED BY <2>1, <2>2, InductionOnNaturals
  <2> QED BY <2>3
<1> DEFINE part(n) == CHOOSE g : Part(n, g)
           f == [k \in Nat |-> part(k)[k]]
<1>5. \A n \in Nat : Part(n, part(n))
  BY <1>3
<1>6. \A k \in Nat : f[k] = IF k < a THEN 0 ELSE f[k - 1] + w[k]
  <2> SUFFICES ASSUME NEW k \in Nat
      PROVE  f[k] = IF k < a THEN 0 ELSE f[k - 1] + w[k]
    OBVIOUS
  <2>1. f[k] = part(k)[k]
    OBVIOUS
  <2>2. part(k)[k] = IF k < a THEN 0 ELSE part(k)[k - 1] + w[k]
    <3>1. Part(k, part(k)) /\ k \in 0..k
      <4>1. k \in 0..k
        OBVIOUS
      <4> HIDE DEF part, Part
      <4> QED BY <1>5, <4>1
    <3> HIDE DEF part
    <3> QED BY <3>1
  <2> HIDE DEF part
  <2>3. CASE k < a
    BY <2>1, <2>2, <2>3
  <2>4. CASE ~ (k < a)
    <3>1. k - 1 \in Nat /\ f[k - 1] = part(k - 1)[k - 1]
      BY <2>4
    <3>2. part(k - 1)[k - 1] = part(k)[k - 1]
      <4>1. Part(k - 1, part(k - 1)) /\ Part(k, part(k)) /\ k - 1 <= k
        BY <1>5, <3>1
      <4> HIDE DEF Part
      <4> QED BY <1>4, <3>1, <4>1
    <3> HIDE DEF f
    <3> QED BY <2>1, <2>2, <2>4, <3>1, <3>2
  <2> QED BY <2>3, <2>4
<1>7. f = [k \in Nat |-> IF k < a THEN 0 ELSE f[k - 1] + w[k]]
  BY <1>6
<1> HIDE DEF f
<1> QED BY <1>7 DEF Totals

LEMMA TotalIsNatural ==
  ASSUME NEW a \in Nat \ {0}, NEW b \in Nat, NEW s, \A k \in 1..b : s[k] \in Nat
  PROVE  Total(s, a, b) \in Nat /\ (b < a => Total(s, a, b) = 0)
<1>1. PICK total : /\ total = [k \in Nat |-> IF k < a THEN 0 ELSE total[k - 1] + s[k]]
                   /\ Total(s, a, b) = total[b]
  <2>1. Total(s, a, b) = Totals(s, a)[b]
    BY DEF Total
  <2> QED BY <2>1, TotalsDefined
<1> DEFINE Natural == {k \in Nat : k <= b => total[k] \in Nat}
<1>2. 0 \in Natural
  BY <1>1
<1>3. ASSUME NEW k \in Nat, k \in Natural  PROVE k + 1 \in Natural
  <2> SUFFICES ASSUME k + 1 <= b  PROVE total[k + 1] \in Nat
    OBVIOUS
  <2>1. total[k] \in Nat
    BY <1>3
  <2>2. s[k + 1] \in Nat
    OBVIOUS
  <2>3. total[k + 1] = IF k + 1 < a THEN 0 ELSE total[(k + 1) - 1] + s[k + 1]
    BY <1>1
  <2> QED BY <2>1, <2>2, <2>3
<1>4. Nat \subseteq Natural
  <2> HIDE DEF Natural
  <2> QED BY <1>2, <1>3, InductionOnNaturals
<1>5. total[b] \in Nat
  BY <1>4
<1>6. b < a => total[b] = 0
  BY <1>1
<1> QED BY <1>1, <1>5, <1>6

\* Spaces included, a run of pieces has a natural number of characters, and the empty run
\* has none.
LEMMA SpacedIsNatural ==
  ASSUME ChunkTypeOK, NEW a \in 1..(Len(pieces) + 1)
  PROVE  Spaced(a, Len(pieces)) \in Nat /\ Spaced(Len(pieces) + 1, Len(pieces)) = 0
<1>1. \A k \in 1..Len(pieces) : Lens[k] \in Nat
  <2>1. \A k \in 1..Len(pieces) : pieces[k] \in Piece /\ k \in DOMAIN pieces
    BY DEF ChunkTypeOK
  <2> QED BY <2>1, ChunkingAssumption DEF Lens, Piece
<1>2. Len(pieces) \in Nat
  BY DEF ChunkTypeOK
<1>3. Total(Lens, a, Len(pieces)) \in Nat
  BY <1>1, <1>2, TotalIsNatural
<1>4. Total(Lens, Len(pieces) + 1, Len(pieces)) = 0
  BY <1>1, <1>2, TotalIsNatural
<1> QED BY <1>2, <1>3, <1>4 DEF Spaced

\* The overlap is found: at worst no piece fits in it.
LEMMA CarriedFound ==
  ASSUME ChunkTypeOK
  PROVE  Carried \in from..(Len(pieces) + 1) /\ Spaced(Carried, Len(pieces)) <= Overlap
<1> DEFINE Fits == {a \in from..(Len(pieces) + 1) : Spaced(a, Len(pieces)) <= Overlap}
<1>1. Len(pieces) \in Nat /\ from \in Nat /\ from <= Len(pieces) + 1 /\ from >= 1
  BY DEF ChunkTypeOK
<1>2. Len(pieces) + 1 \in Fits
  BY <1>1, SpacedIsNatural, ChunkingAssumption
<1>3. PICK m \in Fits : \A k \in Fits : m <= k
  <2>1. Fits \subseteq Nat /\ Fits # {}
    BY <1>1, <1>2
  <2> HIDE DEF Fits
  <2> QED BY <2>1, LeastNatural
<1>4. \A b \in from..(m - 1) : Spaced(b, Len(pieces)) > Overlap
  <2> SUFFICES ASSUME NEW b \in from..(m - 1)
      PROVE  Spaced(b, Len(pieces)) > Overlap
    OBVIOUS
  <2>1. b \notin Fits /\ b \in from..(Len(pieces) + 1)
    BY <1>1, <1>3
  <2>2. Spaced(b, Len(pieces)) \in Nat
    BY <1>1, <2>1, SpacedIsNatural
  <2> QED BY <2>1, <2>2, ChunkingAssumption
<1>5. \E a \in from..(Len(pieces) + 1) :
        /\ Spaced(a, Len(pieces)) <= Overlap
        /\ \A b \in from..(a - 1) : Spaced(b, Len(pieces)) > Overlap
  BY <1>3, <1>4
<1> QED BY <1>5 DEF Carried

\* What a cut adds.
LEMMA CutAdds ==
  ASSUME ChunkTypeOK, from <= Len(pieces)
  PROVE  LET n == Len(chunks) IN
         /\ Cut \in Seq([from : Nat, to : Nat, kept : BOOLEAN]) /\ Len(Cut) = n + 1
         /\ \A i \in 1..n : Cut[i] = chunks[i]
         /\ Cut[n + 1].from = from /\ Cut[n + 1].to = Len(pieces)
         /\ (MinChunk >= Overlap /\ Cut[n + 1].kept) => Spaced(from, Len(pieces)) > Overlap
<1> DEFINE c == [from |-> from, to |-> Len(pieces)]
           new == [from |-> c.from, to |-> c.to, kept |-> HasEnough(c)]
<1>1. Len(pieces) \in Nat /\ from \in 1..(Len(pieces) + 1) /\ Len(chunks) \in Nat
      /\ chunks \in Seq([from : Nat, to : Nat, kept : BOOLEAN])
  BY DEF ChunkTypeOK
<1>2. HasEnough(c) \in BOOLEAN
  BY DEF HasEnough
<1>3. new \in [from : Nat, to : Nat, kept : BOOLEAN]
  BY <1>1, <1>2
<1>4. HasEnough(c) /\ MinChunk >= Overlap => Spaced(from, Len(pieces)) > Overlap
  <2>1. Spaced(from, Len(pieces)) \in Nat
    BY <1>1, SpacedIsNatural
  <2>2. Length(c) = Spaced(from, Len(pieces)) - 1
    BY DEF Length
  <2> QED BY <2>1, <2>2, ChunkingAssumption DEF HasEnough
<1>5. Cut = Append(chunks, new)
  BY DEF Cut
<1>6. new.from = from /\ new.to = Len(pieces) /\ new.kept = HasEnough(c)
  OBVIOUS
<1> HIDE DEF new
<1> QED BY <1>1, <1>3, <1>4, <1>5, <1>6

LEMMA ReadsKeeps ==
  ASSUME ChunkInv, NEW p \in Piece, Reads(p)
  PROVE  ChunkInv'
<1>1. ChunkTypeOK /\ Accumulated /\ NoPieceLost /\ NoChunkRepeated
  BY DEF ChunkInv
<1>2. /\ pieces \in Seq(Piece) /\ Len(pieces) \in Nat /\ Len(chunks) \in Nat
      /\ chunks \in Seq([from : Nat, to : Nat, kept : BOOLEAN])
      /\ from \in 1..(Len(pieces) + 1) /\ ~ over /\ ~ over' /\ over' \in BOOLEAN
  BY <1>1 DEF ChunkTypeOK, Reads
<1>6. \A i \in 1..Len(chunks) : chunks[i].from \in Nat /\ chunks[i].to \in Nat
  <2>1. \A i \in 1..Len(chunks) : chunks[i] \in [from : Nat, to : Nat, kept : BOOLEAN]
    <3>1. chunks \in Seq([from : Nat, to : Nat, kept : BOOLEAN])
      BY <1>2
    <3> QED BY <3>1, ElementOfSeq
  <2> QED BY <2>1
<1>7. /\ Len(chunks) > 0 => chunks[1].from = 1
      /\ \A i \in 1..(Len(chunks) - 1) :
           /\ chunks[i + 1].from <= chunks[i].to + 1
           /\ chunks[i].to < chunks[i + 1].to
           /\ (MinChunk >= Overlap /\ chunks[i].kept) => chunks[i].from < chunks[i + 1].from
  BY <1>1 DEF NoPieceLost, NoChunkRepeated
<1>3. pieces' \in Seq(Piece) /\ Len(pieces') = Len(pieces) + 1 
  BY <1>2 DEF Reads
<1>4. CASE UNCHANGED <<chunks, from>>
  <2>1. ChunkTypeOK'
    BY <1>2, <1>3, <1>4 DEF ChunkTypeOK
  <2>2. from <= Len(pieces')
    BY <1>2, <1>3
  <2>3. Len(chunks) # 0 => chunks[Len(chunks)].to \in Nat
    BY <1>2, <1>6
  <2>4. Accumulated'
    BY <1>1, <1>2, <1>3, <1>4, <2>2, <2>3 DEF Accumulated
  <2>5. NoPieceLost' /\ NoChunkRepeated'
    BY <1>1, <1>2, <1>4 DEF NoPieceLost, NoChunkRepeated
  <2> QED BY <2>1, <2>4, <2>5 DEF ChunkInv
<1>5. CASE from <= Len(pieces) /\ chunks' = Cut /\ from' = Carried
  <2>1. /\ Carried \in from..(Len(pieces) + 1)
        /\ Spaced(Carried, Len(pieces)) <= Overlap
    BY <1>1, CarriedFound
  <2> DEFINE n == Len(chunks)
  <2>2. /\ chunks' \in Seq([from : Nat, to : Nat, kept : BOOLEAN]) /\ Len(chunks') = n + 1
        /\ \A i \in 1..n : chunks'[i] = chunks[i]
        /\ chunks'[n + 1].from = from /\ chunks'[n + 1].to = Len(pieces)
        /\ (MinChunk >= Overlap /\ chunks'[n + 1].kept) =>
              Spaced(from, Len(pieces)) > Overlap
    BY <1>1, <1>5, CutAdds
  <2>3. ChunkTypeOK'
    BY <1>2, <1>3, <1>5, <2>1, <2>2 DEF ChunkTypeOK
  <2>4. (MinChunk >= Overlap /\ chunks'[n + 1].kept) => from < from'
    <3> SUFFICES ASSUME MinChunk >= Overlap, chunks'[n + 1].kept  PROVE from # Carried
      BY <1>2, <1>5, <2>1
    <3>1. Spaced(from, Len(pieces)) \in Nat
      BY <1>1, <1>2, SpacedIsNatural
    <3> QED BY <2>1, <2>2, <3>1, ChunkingAssumption
  <2>5. Accumulated'
    BY <1>2, <1>3, <1>5, <2>1, <2>2, <2>4 DEF Accumulated
  <2>6. n > 0 => /\ chunks[n].to \in Nat /\ from <= chunks[n].to + 1
                 /\ chunks[n].to < Len(pieces)
                 /\ (MinChunk >= Overlap /\ chunks[n].kept) => chunks[n].from < from
    BY <1>1, <1>2, <1>6 DEF Accumulated
  <2>7. n = 0 => from = 1
    BY <1>1, <1>2 DEF Accumulated
  <2>8. chunks'[1].from = 1
    <3>1. CASE n = 0
      BY <2>2, <2>7, <3>1
    <3>2. CASE n > 0
      <4>1. chunks'[1] = chunks[1]
        BY <1>2, <2>2, <3>2
      <4> QED BY <1>7, <3>2, <4>1
    <3> QED BY <1>2, <3>1, <3>2
  <2>9. ASSUME NEW i \in 1..n
        PROVE  /\ chunks'[i + 1].from <= chunks'[i].to + 1
               /\ chunks'[i].to < chunks'[i + 1].to
               /\ (MinChunk >= Overlap /\ chunks'[i].kept) =>
                    chunks'[i].from < chunks'[i + 1].from
    <3>1. CASE i = n
      <4>1. chunks'[i] = chunks[n] /\ i + 1 = n + 1 /\ n > 0
        BY <1>2, <2>2, <3>1
      <4> QED BY <2>2, <2>6, <4>1
    <3>2. CASE i # n
      <4>1. i \in 1..(n - 1) /\ i + 1 \in 1..n
        BY <1>2, <3>2
      <4>2. chunks'[i] = chunks[i] /\ chunks'[i + 1] = chunks[i + 1]
        BY <2>2, <4>1
      <4> QED BY <1>7, <4>1, <4>2
    <3> QED BY <3>1, <3>2
  <2>10. NoPieceLost'
    BY <1>2, <2>2, <2>8, <2>9 DEF NoPieceLost
  <2>11. NoChunkRepeated'
    BY <1>2, <2>2, <2>9 DEF NoChunkRepeated
  <2> QED BY <2>3, <2>5, <2>10, <2>11 DEF ChunkInv
<1> QED BY <1>4, <1>5 DEF Reads

LEMMA EndsKeeps ==
  ASSUME ChunkInv, Ends
  PROVE  ChunkInv'
<1>1. ChunkTypeOK /\ Accumulated /\ NoPieceLost /\ NoChunkRepeated
  BY DEF ChunkInv
<1>2. /\ pieces \in Seq(Piece) /\ Len(pieces) \in Nat /\ Len(chunks) \in Nat
      /\ chunks \in Seq([from : Nat, to : Nat, kept : BOOLEAN])
      /\ from \in 1..(Len(pieces) + 1) /\ ~ over /\ over' = TRUE
      /\ pieces' = pieces /\ from' = from
  BY <1>1 DEF ChunkTypeOK, Ends
<1>3. /\ Len(chunks) > 0 => chunks[1].from = 1
      /\ \A i \in 1..(Len(chunks) - 1) :
           /\ chunks[i + 1].from <= chunks[i].to + 1
           /\ chunks[i].to < chunks[i + 1].to
           /\ (MinChunk >= Overlap /\ chunks[i].kept) => chunks[i].from < chunks[i + 1].from
  BY <1>1 DEF NoPieceLost, NoChunkRepeated
<1>7. \A i \in 1..Len(chunks) : chunks[i].to \in Nat
  <2>1. chunks \in Seq([from : Nat, to : Nat, kept : BOOLEAN])
    BY <1>2
  <2>2. \A i \in 1..Len(chunks) : chunks[i] \in [from : Nat, to : Nat, kept : BOOLEAN]
    BY <2>1, ElementOfSeq
  <2> QED BY <2>2
<1>4. Accumulated'
  BY <1>2 DEF Accumulated
<1>5. CASE from > Len(pieces)
  <2>1. chunks' = chunks
    BY <1>2, <1>5 DEF Ends
  <2>2. Len(pieces) = 0
    BY <1>1, <1>2, <1>5 DEF Accumulated
  <2>3. pieces = <<>>
    <3>1. pieces \in Seq(Piece)
      BY <1>2
    <3> QED BY <2>2, <3>1
  <2>4. ChunkTypeOK'
    BY <1>2, <2>1 DEF ChunkTypeOK
  <2>5. NoPieceLost'
    BY <1>1, <1>2, <2>1, <2>3 DEF NoPieceLost
  <2>6. NoChunkRepeated'
    BY <1>1, <2>1 DEF NoChunkRepeated
  <2> QED BY <1>4, <2>4, <2>5, <2>6 DEF ChunkInv
<1>6. CASE from <= Len(pieces)
  <2> DEFINE n == Len(chunks)
  <2>1. chunks' = Cut
    BY <1>6 DEF Ends
  <2>2. /\ chunks' \in Seq([from : Nat, to : Nat, kept : BOOLEAN]) /\ Len(chunks') = n + 1
        /\ \A i \in 1..n : chunks'[i] = chunks[i]
        /\ chunks'[n + 1].from = from /\ chunks'[n + 1].to = Len(pieces)
    BY <1>1, <1>6, <2>1, CutAdds
  <2>3. ChunkTypeOK'
    BY <1>2, <2>2 DEF ChunkTypeOK
  <2>4. n > 0 => /\ from <= chunks[n].to + 1
                 /\ chunks[n].to < Len(pieces)
                 /\ (MinChunk >= Overlap /\ chunks[n].kept) => chunks[n].from < from
    BY <1>1, <1>2 DEF Accumulated
  <2>5. n = 0 => from = 1
    BY <1>1, <1>2 DEF Accumulated
  <2>6. chunks'[1].from = 1
    <3>1. CASE n = 0
      BY <2>2, <2>5, <3>1
    <3>2. CASE n > 0
      <4>1. chunks'[1] = chunks[1]
        BY <1>2, <2>2, <3>2
      <4> QED BY <1>3, <3>2, <4>1
    <3> QED BY <1>2, <3>1, <3>2
  <2>7. ASSUME NEW i \in 1..n
        PROVE  /\ chunks'[i + 1].from <= chunks'[i].to + 1
               /\ chunks'[i].to < chunks'[i + 1].to
               /\ (MinChunk >= Overlap /\ chunks'[i].kept) =>
                    chunks'[i].from < chunks'[i + 1].from
    <3>1. CASE i = n
      <4>1. chunks'[i] = chunks[n] /\ chunks'[i + 1] = chunks'[n + 1] /\ n > 0
        BY <1>2, <2>2, <3>1
      <4> QED BY <1>2, <1>7, <2>2, <2>4, <4>1
    <3>2. CASE i # n
      <4>1. i \in 1..(n - 1) /\ i + 1 \in 1..n
        BY <1>2, <3>2
      <4>2. chunks'[i] = chunks[i] /\ chunks'[i + 1] = chunks[i + 1]
        BY <2>2, <4>1
      <4> QED BY <1>3, <4>1, <4>2
    <3> QED BY <3>1, <3>2
  <2>8. NoPieceLost'
    BY <1>2, <2>2, <2>6, <2>7 DEF NoPieceLost
  <2>9. NoChunkRepeated'
    BY <1>2, <2>2, <2>7 DEF NoChunkRepeated
  <2> QED BY <1>4, <2>3, <2>8, <2>9 DEF ChunkInv
<1> QED BY <1>2, <1>5, <1>6

LEMMA ChunkInvHolds == ChunkSpec => []ChunkInv
<1>1. ChunkInit => ChunkInv
  <2> SUFFICES ASSUME ChunkInit  PROVE ChunkInv
    OBVIOUS
  <2>1. /\ pieces = <<>> /\ Len(pieces) = 0 /\ from = 1 /\ over = FALSE
        /\ chunks = <<>> /\ Len(chunks) = 0
    BY DEF ChunkInit
  <2>2. pieces \in Seq(Piece)
    BY <2>1
  <2>6. chunks \in Seq([from : Nat, to : Nat, kept : BOOLEAN])
    <3>1. \A T : <<>> \in Seq(T)
      OBVIOUS
    <3> QED BY <2>1, <3>1
  <2>3. ChunkTypeOK
    <3>1. from \in 1..(Len(pieces) + 1)
      <4>1. from = 1 /\ Len(pieces) = 0
        BY <2>1
      <4> QED BY <4>1
    <3>2. over \in BOOLEAN
      BY <2>1
    <3> QED BY <2>2, <2>6, <3>1, <3>2 DEF ChunkTypeOK
  <2>4. Accumulated
    BY <2>1 DEF Accumulated
  <2>5. NoPieceLost /\ NoChunkRepeated
    BY <2>1 DEF NoPieceLost, NoChunkRepeated
  <2> QED BY <2>3, <2>4, <2>5 DEF ChunkInv
<1>2. ChunkInv /\ [ChunkNext]_chunkVars => ChunkInv'
  <2> SUFFICES ASSUME ChunkInv, [ChunkNext]_chunkVars  PROVE ChunkInv'
    OBVIOUS
  <2>1. ASSUME NEW p \in Piece, Reads(p)  PROVE ChunkInv'
    BY <2>1, ReadsKeeps
  <2>2. CASE Ends
    BY <2>2, EndsKeeps
  <2>3. CASE UNCHANGED chunkVars
    BY <2>3 DEF chunkVars, ChunkInv, ChunkTypeOK, Accumulated, NoPieceLost, NoChunkRepeated
  <2> QED BY <2>1, <2>2, <2>3 DEF ChunkNext
<1> QED BY <1>1, <1>2, PTL DEF ChunkSpec

\* chunk_text_with_overlap skips no piece of a section (chunks that the filter rejects
\* count), however long its words are: the chunks follow each other without a gap, and when the loop is over the last one ends with the last piece.
THEOREM NoPieceLostCorrect == ChunkSpec => []NoPieceLost
<1>1. ChunkInv => NoPieceLost
  BY DEF ChunkInv
<1> QED BY <1>1, ChunkInvHolds, PTL

\* chunk_text_with_overlap stores no text that the next chunk has whole, if
\* min_chunk_size is at least the overlap, however long the words are.
THEOREM NoChunkRepeatedCorrect == ChunkSpec => []NoChunkRepeated
<1>1. ChunkInv => NoChunkRepeated
  BY DEF ChunkInv
<1> QED BY <1>1, ChunkInvHolds, PTL

-----------------------------------------------------------------------------
(* Embeddings.                                                              *)

\* The places without a vector are well defined.
LEMMA GapsDefined ==
  ASSUME NEW found
  PROVE  Gaps(found) =
           [n \in Nat |-> IF n = 0 THEN <<>>
                          ELSE IF found[n] = NoVector THEN Append(Gaps(found)[n - 1], n)
                          ELSE Gaps(found)[n - 1]]
<1> DEFINE Longer(n, v) == IF found[n] = NoVector THEN Append(v, n) ELSE v
           Part(n, g) == g = [k \in 0..n |-> IF k = 0 THEN <<>> ELSE Longer(k, g[k - 1])]
           Reached == {n \in Nat : \E g : Part(n, g)}
<1> HIDE DEF Longer
<1>1. 0 \in Reached
  <2>1. Part(0, [k \in 0..0 |-> <<>>])
    OBVIOUS
  <2> QED BY <2>1
<1>2. ASSUME NEW n \in Nat, n \in Reached  PROVE n + 1 \in Reached
  <2>1. PICK g : Part(n, g)
    BY <1>2
  <2> DEFINE h == [k \in 0..(n + 1) |-> IF k <= n THEN g[k] ELSE Longer(k, g[k - 1])]
  <2>2. \A k \in 0..(n + 1) : h[k] = IF k = 0 THEN <<>> ELSE Longer(k, h[k - 1])
    <3> SUFFICES ASSUME NEW k \in 0..(n + 1)
        PROVE  h[k] = IF k = 0 THEN <<>> ELSE Longer(k, h[k - 1])
      OBVIOUS
    <3>1. CASE k <= n
      <4>1. h[k] = g[k] /\ g[k] = IF k = 0 THEN <<>> ELSE Longer(k, g[k - 1])
        BY <2>1, <3>1
      <4>2. k # 0 => h[k - 1] = g[k - 1]
        BY <3>1
      <4> QED BY <4>1, <4>2
    <3>2. CASE k = n + 1
      <4>1. h[k] = Longer(k, g[k - 1]) /\ k # 0
        BY <3>2
      <4>2. h[k - 1] = g[k - 1]
        BY <3>2
      <4> QED BY <4>1, <4>2
    <3> QED BY <3>1, <3>2
  <2>3. Part(n + 1, h)
    BY <2>2
  <2> HIDE DEF h, Part
  <2> QED BY <2>3
<1>3. Nat \subseteq Reached
  <2> HIDE DEF Reached
  <2> QED BY <1>1, <1>2, InductionOnNaturals
<1>4. ASSUME NEW n \in Nat, NEW m \in Nat, n <= m, NEW g, NEW h, Part(n, g), Part(m, h)
      PROVE  g[n] = h[n]
  <2> DEFINE Same == {k \in Nat : k <= n => g[k] = h[k]}
  <2>1. 0 \in Same
    BY <1>4
  <2>2. ASSUME NEW k \in Nat, k \in Same  PROVE k + 1 \in Same
    <3> SUFFICES ASSUME k + 1 <= n  PROVE g[k + 1] = h[k + 1]
      OBVIOUS
    <3>1. g[k] = h[k]
      BY <2>2
    <3>2. g[k + 1] = Longer(k + 1, g[(k + 1) - 1])
      BY <1>4
    <3>3. h[k + 1] = Longer(k + 1, h[(k + 1) - 1])
      BY <1>4
    <3>4. (k + 1) - 1 = k
      OBVIOUS
    <3> QED BY <3>1, <3>2, <3>3, <3>4
  <2>3. Nat \subseteq Same
    <3> HIDE DEF Same
    <3> QED BY <2>1, <2>2, InductionOnNaturals
  <2> QED BY <2>3
<1> DEFINE part(n) == CHOOSE g : Part(n, g)
           f == [k \in Nat |-> part(k)[k]]
<1>5. \A n \in Nat : Part(n, part(n))
  BY <1>3
<1>6. \A k \in Nat : f[k] = IF k = 0 THEN <<>> ELSE Longer(k, f[k - 1])
  <2> SUFFICES ASSUME NEW k \in Nat
      PROVE  f[k] = IF k = 0 THEN <<>> ELSE Longer(k, f[k - 1])
    OBVIOUS
  <2>1. f[k] = part(k)[k]
    OBVIOUS
  <2>2. part(k)[k] = IF k = 0 THEN <<>> ELSE Longer(k, part(k)[k - 1])
    <3> HIDE DEF part
    <3>1. Part(k, part(k))
      <4> HIDE DEF Part
      <4> QED BY <1>5
    <3>2. k \in 0..k
      OBVIOUS
    <3> QED BY <3>1, <3>2
  <2> HIDE DEF part
  <2>3. CASE k = 0
    BY <2>1, <2>2, <2>3
  <2>4. CASE k # 0
    <3>1. k - 1 \in Nat /\ f[k - 1] = part(k - 1)[k - 1]
      BY <2>4
    <3>2. part(k - 1)[k - 1] = part(k)[k - 1]
      <4>1. Part(k - 1, part(k - 1)) /\ Part(k, part(k)) /\ k - 1 <= k
        BY <1>5, <3>1
      <4> HIDE DEF Part
      <4> QED BY <1>4, <3>1, <4>1
    <3> HIDE DEF f
    <3> QED BY <2>1, <2>2, <2>4, <3>1, <3>2
  <2> QED BY <2>3, <2>4
<1>7. f = [k \in Nat |-> IF k = 0 THEN <<>> ELSE Longer(k, f[k - 1])]
  BY <1>6
<1> HIDE DEF f
<1> QED BY <1>7 DEF Gaps, Longer

\* to_compute_idx holds the places of the texts that have no vector, and no others.
LEMMA GapsFound ==
  ASSUME NEW found, NEW n \in Nat
  PROVE  /\ Gaps(found)[n] \in Seq(1..n)
         /\ \A i \in 1..n :
              found[i] = NoVector => \E k \in 1..Len(Gaps(found)[n]) : Gaps(found)[n][k] = i
<1>1. PICK g : g = Gaps(found)
               /\ g = [k \in Nat |-> IF k = 0 THEN <<>>
                                     ELSE IF found[k] = NoVector THEN Append(g[k - 1], k)
                                     ELSE g[k - 1]]
  BY GapsDefined
<1> DEFINE Right == {m \in Nat :
                       /\ g[m] \in Seq(1..m)
                       /\ \A i \in 1..m : found[i] = NoVector =>
                            \E k \in 1..Len(g[m]) : g[m][k] = i}
<1>5. \A k \in Nat : g[k] = IF k = 0 THEN <<>>
                           ELSE IF found[k] = NoVector THEN Append(g[k - 1], k)
                           ELSE g[k - 1]
  BY <1>1
<1>2. 0 \in Right
  <2>1. g[0] = <<>>
    BY <1>5
  <2>2. \A T : <<>> \in Seq(T)
    OBVIOUS
  <2>3. g[0] \in Seq(1..0)
    BY <2>1, <2>2
  <2> QED BY <2>3
<1>3. ASSUME NEW m \in Nat, m \in Right  PROVE m + 1 \in Right
  <2>1. /\ g[m] \in Seq(1..m) /\ Len(g[m]) \in Nat
        /\ \A i \in 1..m : found[i] = NoVector => \E k \in 1..Len(g[m]) : g[m][k] = i
    BY <1>3
  <2>2. g[m] \in Seq(1..(m + 1))
    BY <2>1
  <2>3. g[m + 1] = IF found[m + 1] = NoVector THEN Append(g[m], m + 1) ELSE g[m]
    <3>1. m + 1 \in Nat /\ m + 1 # 0 /\ (m + 1) - 1 = m
      OBVIOUS
    <3> HIDE DEF Right
    <3> QED BY <1>5, <3>1, Zenon
  <2>4. CASE found[m + 1] = NoVector
    <3>1. g[m + 1] = Append(g[m], m + 1)
      BY <2>3, <2>4
    <3>2. /\ g[m + 1] \in Seq(1..(m + 1)) /\ Len(g[m + 1]) = Len(g[m]) + 1
          /\ g[m + 1][Len(g[m]) + 1] = m + 1
          /\ \A k \in 1..Len(g[m]) : g[m + 1][k] = g[m][k]
      BY <2>1, <2>2, <3>1
    <3>3. ASSUME NEW i \in 1..(m + 1), found[i] = NoVector
          PROVE  \E k \in 1..Len(g[m + 1]) : g[m + 1][k] = i
      <4>1. CASE i = m + 1
        <5>1. Len(g[m]) + 1 \in 1..Len(g[m + 1])
          BY <2>1, <3>2
        <5> HIDE DEF Right
        <5> QED BY <3>2, <4>1, <5>1
      <4>2. CASE i # m + 1
        <5>1. PICK k \in 1..Len(g[m]) : g[m][k] = i
          BY <2>1, <3>3, <4>2
        <5> HIDE DEF Right
        <5>2. k \in 1..Len(g[m + 1])
          BY <2>1, <3>2
        <5>3. g[m + 1][k] = i
          BY <3>2, <5>1
        <5> QED BY <5>2, <5>3
      <4> QED BY <4>1, <4>2
    <3>4. m + 1 \in Nat /\ g[m + 1] \in Seq(1..(m + 1))
      BY <3>2
    <3> QED BY <3>3, <3>4
  <2>5. CASE found[m + 1] # NoVector
    <3>1. g[m + 1] = g[m]
      BY <2>3, <2>5
    <3>2. \A i \in 1..(m + 1) : found[i] = NoVector => i \in 1..m
      BY <2>5
    <3>3. g[m + 1] \in Seq(1..(m + 1))
      BY <2>2, <3>1
    <3>4. ASSUME NEW i \in 1..(m + 1), found[i] = NoVector
          PROVE  \E k \in 1..Len(g[m + 1]) : g[m + 1][k] = i
      <4> HIDE DEF Right
      <4> QED BY <2>1, <3>1, <3>2, <3>4
    <3> QED BY <3>3, <3>4
  <2> QED BY <2>4, <2>5
<1>4. Nat \subseteq Right
  <2> HIDE DEF Right
  <2> QED BY <1>2, <1>3, InductionOnNaturals
<1> QED BY <1>1, <1>4

\* However a batch is halved, the vectors stand at the places of their texts.
LEMMA EmbeddedInPlace ==
  ASSUME NEW batch \in Seq(Texts), NEW accepted \in Nat \ {0}
  PROVE  Embedded(batch, accepted) = batch
<1> DEFINE Halves(v, ts) ==
             LET mid == Len(ts) \div 2 IN
             IF Len(ts) <= accepted THEN ts
             ELSE v[SubSeq(ts, 1, mid)] \o v[SubSeq(ts, mid + 1, Len(ts))]
           Solves(v) == v = [ts \in Seq(Texts) |-> Halves(v, ts)]
<1>1. Embedded(batch, accepted) = (CHOOSE v : Solves(v))[batch]
  BY DEF Embedded
<1>2. ASSUME NEW ts \in Seq(Texts), Len(ts) > accepted
      PROVE  LET mid == Len(ts) \div 2
                 left == SubSeq(ts, 1, mid)
                 right == SubSeq(ts, mid + 1, Len(ts))
             IN  /\ left \in Seq(Texts) /\ Len(left) < Len(ts)
                 /\ right \in Seq(Texts) /\ Len(right) < Len(ts)
                 /\ left \o right = ts
  <2> DEFINE mid == Len(ts) \div 2
             left == SubSeq(ts, 1, mid)
             right == SubSeq(ts, mid + 1, Len(ts))
  <2>1. Len(ts) \in Nat /\ mid \in 1..(Len(ts) - 1)
    BY <1>2
  <2> HIDE DEF mid
  <2>2. left \in Seq(Texts) /\ Len(left) = mid
    BY <2>1
  <2>3. right \in Seq(Texts) /\ Len(right) = Len(ts) - mid
    BY <2>1
  <2>4. left \o right = SubSeq(ts, 1, Len(ts))
    <3>1. /\ 1 \in 1..(Len(ts) + 1) /\ mid \in (1 - 1)..Len(ts)
          /\ Len(ts) \in mid..Len(ts)
      BY <2>1
    <3> QED BY <3>1, ConcatAdjacentSubSeq
  <2>5. left \o right = ts
    BY <2>4, SubSeqFull
  <2> HIDE DEF left, right
  <2> QED BY <2>1, <2>2, <2>3, <2>5 DEF mid, left, right
<1>3. Solves([ts \in Seq(Texts) |-> ts])
  <2> DEFINE v == [ts \in Seq(Texts) |-> ts]
  <2>1. \A ts \in Seq(Texts) : Halves(v, ts) = ts
    <3> SUFFICES ASSUME NEW ts \in Seq(Texts)  PROVE Halves(v, ts) = ts
      OBVIOUS
    <3>2. CASE Len(ts) <= accepted
      BY <3>2
    <3>3. CASE ~ (Len(ts) <= accepted)
     <4>1. Len(ts) > accepted
       BY <3>3
     <4>2. /\ v[SubSeq(ts, 1, Len(ts) \div 2)] = SubSeq(ts, 1, Len(ts) \div 2)
          /\ v[SubSeq(ts, Len(ts) \div 2 + 1, Len(ts))] = SubSeq(ts, Len(ts) \div 2 + 1, Len(ts))
       BY <1>2, <4>1
     <4>3. Halves(v, ts) = v[SubSeq(ts, 1, Len(ts) \div 2)]
                            \o v[SubSeq(ts, Len(ts) \div 2 + 1, Len(ts))]
       <5> HIDE DEF v
       <5> QED BY <3>3
     <4> HIDE DEF v, Halves
     <4> QED BY <1>2, <4>1, <4>2, <4>3
    <3> QED BY <3>2, <3>3
  <2> HIDE DEF Halves
  <2> QED BY <2>1
<1>4. PICK v : v = (CHOOSE w : Solves(w)) /\ Solves(v)
  <2> HIDE DEF Solves
  <2> QED BY <1>3
<1>5. \A ts \in Seq(Texts) : v[ts] = Halves(v, ts)
  <2> HIDE DEF Halves
  <2> QED BY <1>4
<1> DEFINE InPlace == {n \in Nat : \A ts \in Seq(Texts) : Len(ts) <= n => v[ts] = ts}
<1>6. 0 \in InPlace
  <2>1. ASSUME NEW ts \in Seq(Texts), Len(ts) <= 0  PROVE Halves(v, ts) = ts
    <3>1. Len(ts) <= accepted
      BY <2>1
    <3> QED BY <3>1
  <2> HIDE DEF Halves
  <2> QED BY <1>5, <2>1
<1>7. ASSUME NEW n \in Nat, n \in InPlace  PROVE n + 1 \in InPlace
  <2> SUFFICES ASSUME NEW ts \in Seq(Texts), Len(ts) <= n + 1  PROVE v[ts] = ts
    OBVIOUS
  <2>1. CASE Len(ts) <= accepted
    BY <1>5, <2>1
  <2>2. CASE Len(ts) > accepted
    <3> DEFINE left == SubSeq(ts, 1, Len(ts) \div 2)
               right == SubSeq(ts, Len(ts) \div 2 + 1, Len(ts))
    <3>1. /\ left \in Seq(Texts) /\ Len(left) < Len(ts)
          /\ right \in Seq(Texts) /\ Len(right) < Len(ts)
          /\ left \o right = ts
      BY <1>2, <2>2
    <3>2. v[ts] = v[left] \o v[right]
      <4>1. Halves(v, ts) = v[left] \o v[right]
        <5>1. ~ (Len(ts) <= accepted)
          BY <2>2
        <5> QED BY <5>1
      <4> HIDE DEF Halves
      <4> QED BY <1>5, <4>1
    <3> HIDE DEF left, right
    <3>3. Len(left) <= n /\ Len(right) <= n
      BY <3>1
    <3>4. v[left] = left /\ v[right] = right
      BY <1>7, <3>1, <3>3
    <3> QED BY <3>1, <3>2, <3>4
  <2> QED BY <2>1, <2>2
<1>8. Nat \subseteq InPlace
  <2> HIDE DEF InPlace
  <2> QED BY <1>6, <1>7, InductionOnNaturals
<1>9. v[batch] = batch
  <2>1. Len(batch) \in InPlace
    BY <1>8
  <2> QED BY <2>1
<1> HIDE DEF Solves
<1> QED BY <1>1, <1>4, <1>9

LEMMA Multiples ==
  ASSUME NEW B \in Nat, NEW m \in Nat, NEW b \in 0..m
  PROVE  b * B \in Nat /\ b * B <= m * B /\ (b + 1) * B = b * B + B
OBVIOUS

\* Batches put together in their order are what was divided into them.
LEMMA BatchesJoin ==
  ASSUME NEW T, NEW s \in Seq(T), NEW B \in Nat \ {0}, NEW n \in Nat \ {0},
         (n - 1) * B < Len(s), Len(s) <= n * B
  PROVE  FlattenSeq([b \in 1..n |->
           SubSeq(s, (b - 1) * B + 1, IF b < n THEN b * B ELSE Len(s))]) = s
<1>16. PICK parts :
         parts = [b \in 1..n |-> SubSeq(s, (b - 1) * B + 1, IF b < n THEN b * B ELSE Len(s))]
  OBVIOUS
<1> DEFINE end(b) == IF b < n THEN b * B ELSE Len(s)
           Joins(v) == v = [i \in 1..n |-> IF i = 1 THEN parts[i] ELSE v[i - 1] \o parts[i]]
<1>1. Len(s) \in Nat /\ Len(parts) = n /\ DOMAIN parts = 1..n
  BY <1>16
<1>2. FlattenSeq(parts) = (CHOOSE v : Joins(v))[n]
  BY <1>1 DEF FlattenSeq
<1>3. \A b \in 1..n : end(b) \in 0..Len(s)
  <2> SUFFICES ASSUME NEW b \in 1..n  PROVE end(b) \in 0..Len(s)
    OBVIOUS
  <2>1. CASE b < n
    <3>1. n - 1 \in Nat /\ b \in 0..(n - 1)
      BY <2>1
    <3>2. b * B \in Nat /\ b * B <= (n - 1) * B
      BY <3>1, Multiples
    <3>3. (n - 1) * B \in Nat
      BY <3>1, Multiples
    <3> QED BY <1>1, <2>1, <3>2, <3>3
  <2>2. CASE ~ (b < n)
    BY <1>1, <2>2
  <2> QED BY <2>1, <2>2
<1>4. \A b \in 2..n : (b - 1) * B = end(b - 1) /\ end(b - 1) <= end(b)
  <2> SUFFICES ASSUME NEW b \in 2..n
      PROVE  (b - 1) * B = end(b - 1) /\ end(b - 1) <= end(b)
    OBVIOUS
  <2>1. end(b - 1) = (b - 1) * B
    OBVIOUS
  <2>2. CASE b < n
    <3>1. (b - 1) * B \in Nat /\ ((b - 1) + 1) * B = (b - 1) * B + B
      <4>1. b - 1 \in Nat /\ b - 1 \in 0..b /\ b \in Nat
        OBVIOUS
      <4> QED BY <4>1, Multiples
    <3>2. b * B = (b - 1) * B + B
      <4>1. (b - 1) + 1 = b
        OBVIOUS
      <4> QED BY <3>1, <4>1
    <3>3. end(b) = b * B
      BY <2>2
    <3> HIDE DEF end
    <3> QED BY <2>1, <3>1, <3>2, <3>3
  <2>3. CASE ~ (b < n)
    <3>1. end(b) = Len(s) /\ b = n
      BY <2>3
    <3>2. end(b - 1) \in 0..Len(s)
      <4> HIDE DEF end
      <4> QED BY <1>3
    <3> HIDE DEF end
    <3> QED BY <1>1, <2>1, <3>1, <3>2
  <2> QED BY <2>2, <2>3
<1>5. parts[1] = SubSeq(s, 1, end(1))
  <2>1. 1 \in 1..n /\ (1 - 1) * B + 1 = 1
    OBVIOUS
  <2> QED BY <1>16, <2>1
<1>6. \A b \in 2..n : parts[b] = SubSeq(s, end(b - 1) + 1, end(b))
  <2> SUFFICES ASSUME NEW b \in 2..n  PROVE parts[b] = SubSeq(s, end(b - 1) + 1, end(b))
    OBVIOUS
  <2>1. parts[b] = SubSeq(s, (b - 1) * B + 1, end(b))
    <3>1. b \in 1..n
      OBVIOUS
    <3> QED BY <1>16, <3>1, Zenon
  <2>2. (b - 1) * B = end(b - 1)
    BY <1>4
  <2> HIDE DEF end
  <2> QED BY <2>1, <2>2
<1> HIDE DEF end
<1>7. \A b \in 2..n : SubSeq(s, 1, end(b - 1)) \o parts[b] = SubSeq(s, 1, end(b))
  <2> SUFFICES ASSUME NEW b \in 2..n
      PROVE  SubSeq(s, 1, end(b - 1)) \o parts[b] = SubSeq(s, 1, end(b))
    OBVIOUS
  <2>1. b \in 1..n /\ b - 1 \in 1..n
    OBVIOUS
  <2>2. end(b - 1) \in 0..Len(s) /\ end(b) \in 0..Len(s) /\ end(b - 1) <= end(b)
    BY <1>3, <1>4, <2>1
  <2>3. /\ 1 \in 1..(Len(s) + 1) /\ end(b - 1) \in (1 - 1)..Len(s)
        /\ end(b) \in end(b - 1)..Len(s)
    BY <1>1, <2>2
  <2> QED BY <1>6, <2>3, ConcatAdjacentSubSeq
<1>8. Joins([i \in 1..n |-> SubSeq(s, 1, end(i))])
  <2> DEFINE w == [i \in 1..n |-> SubSeq(s, 1, end(i))]
  <2>1. \A i \in 1..n : w[i] = IF i = 1 THEN parts[i] ELSE w[i - 1] \o parts[i]
    <3> SUFFICES ASSUME NEW i \in 1..n
        PROVE  w[i] = IF i = 1 THEN parts[i] ELSE w[i - 1] \o parts[i]
      OBVIOUS
    <3>1. CASE i = 1
      BY <1>5, <3>1
    <3>2. CASE i # 1
      <4>3. i \in 2..n /\ i - 1 \in 1..n
        BY <3>2
      <4>1. w[i - 1] = SubSeq(s, 1, end(i - 1)) /\ w[i] = SubSeq(s, 1, end(i))
        BY <4>3, Zenon
      <4> HIDE DEF w
      <4> QED BY <1>7, <3>2, <4>1, <4>3
    <3> QED BY <3>1, <3>2
  <2>2. w = [i \in 1..n |-> IF i = 1 THEN parts[i] ELSE w[i - 1] \o parts[i]]
    BY <2>1
  <2> HIDE DEF w
  <2>3. Joins(w)
    BY <2>2
  <2> HIDE DEF Joins
  <2> QED BY <2>3 DEF w
<1>9. PICK v : v = (CHOOSE w : Joins(w)) /\ Joins(v)
  <2> HIDE DEF Joins
  <2> QED BY <1>8
<1>10. \A i \in 1..n : v[i] = IF i = 1 THEN parts[i] ELSE v[i - 1] \o parts[i]
  BY <1>9
<1> HIDE DEF Joins
<1> DEFINE Upto == {k \in Nat : k \in 1..n => v[k] = SubSeq(s, 1, end(k))}
<1>11. 0 \in Upto
  OBVIOUS
<1>12. ASSUME NEW k \in Nat, k \in Upto  PROVE k + 1 \in Upto
  <2> SUFFICES ASSUME k + 1 \in 1..n  PROVE v[k + 1] = SubSeq(s, 1, end(k + 1))
    OBVIOUS
  <2>1. CASE k = 0
    <3>1. k + 1 = 1 /\ 1 \in 1..n
      BY <2>1
    <3>2. v[1] = parts[1]
      <4> HIDE DEF Upto
      <4> QED BY <1>10, <3>1
    <3> HIDE DEF Upto
    <3> QED BY <1>5, <3>1, <3>2
  <2>2. CASE k # 0
    <3>1. k \in 1..n /\ k + 1 \in 2..n /\ (k + 1) - 1 = k /\ k + 1 # 1
      BY <2>2
    <3>2. v[k] = SubSeq(s, 1, end(k))
      BY <1>12, <3>1
    <3>3. v[k + 1] = v[k] \o parts[k + 1]
      <4> HIDE DEF Upto
      <4> QED BY <1>10, <3>1
    <3>4. SubSeq(s, 1, end(k)) \o parts[k + 1] = SubSeq(s, 1, end(k + 1))
      <4> HIDE DEF Upto
      <4> QED BY <1>7, <3>1
    <3> QED BY <3>2, <3>3, <3>4
  <2> QED BY <2>1, <2>2
<1>13. Nat \subseteq Upto
  <2> HIDE DEF Upto
  <2> QED BY <1>11, <1>12, InductionOnNaturals
<1>14. v[n] = SubSeq(s, 1, end(n))
  BY <1>13
<1>15. end(n) = Len(s)
  BY DEF end
<1> HIDE DEF Upto
<1>17. FlattenSeq(parts) = s
  BY <1>2, <1>9, <1>14, <1>15, SubSeqFull
<1> QED BY <1>16, <1>17

LEMMA LastOne ==
  ASSUME NEW n \in Nat, NEW S, S \subseteq 1..n, S # {}
  PROVE  \E i \in S : \A j \in S : j <= i
<1> DEFINE Turned == {m \in Nat : m <= n /\ n - m \in S}
<1>1. Turned \subseteq Nat /\ Turned # {}
  <2>1. PICK i \in S : i \in 1..n
    OBVIOUS
  <2>2. n - i \in Nat /\ n - i <= n /\ n - (n - i) = i
    BY <2>1
  <2>3. n - i \in Turned
    BY <2>1, <2>2
  <2> QED BY <2>3
<1>2. PICK m \in Turned : \A k \in Turned : m <= k
  <2> HIDE DEF Turned
  <2> QED BY <1>1, LeastNatural
<1>3. \A j \in S : j <= n - m
  <2> SUFFICES ASSUME NEW j \in S  PROVE j <= n - m
    OBVIOUS
  <2>1. j \in 1..n
    OBVIOUS
  <2>2. n - j \in Nat /\ n - j <= n /\ n - (n - j) = j
    BY <2>1
  <2>3. n - j \in Turned
    BY <2>2
  <2>4. m <= n - j /\ m \in Nat
    BY <1>2, <2>3
  <2> QED BY <2>1, <2>4
<1>4. n - m \in S
  BY <1>2
<1> QED BY <1>3, <1>4

\* Rounded up, as many batches as are needed.
LEMMA RoundedUp ==
  ASSUME NEW B \in Nat \ {0}, NEW L \in Nat
  PROVE  LET n == (L + B - 1) \div B IN
         /\ n \in Nat /\ L <= n * B
         /\ L = 0 => n = 0
         /\ L > 0 => n > 0 /\ (n - 1) * B < L
<1> DEFINE n == (L + B - 1) \div B
           r == (L + B - 1) % B
<1>1. L + B - 1 \in Nat
  OBVIOUS
<1>2. n \in Nat /\ r \in 0..(B - 1) /\ L + B - 1 = B * n + r
  BY <1>1
<1> HIDE DEF n, r
<1>3. B * n = n * B /\ n * B \in Nat
  BY <1>2
<1>4. L <= n * B
  BY <1>2, <1>3
<1>5. L = 0 => n = 0
  <2> SUFFICES ASSUME L = 0, n > 0  PROVE FALSE
    BY <1>2
  <2>1. n - 1 \in Nat /\ 1 \in 0..n
    BY <1>2
  <2>2. 1 * B <= n * B
    BY <1>2, <2>1, Multiples
  <2> QED BY <1>2, <1>3, <2>2
<1>6. L > 0 => n > 0 /\ (n - 1) * B < L
  <2> SUFFICES ASSUME L > 0  PROVE n > 0 /\ (n - 1) * B < L
    OBVIOUS
  <2>1. n > 0
    <3> SUFFICES ASSUME n = 0  PROVE FALSE
      BY <1>2
    <3>1. n * B = 0
      OBVIOUS
    <3> QED BY <1>3, <1>4, <3>1
  <2>2. n - 1 \in Nat /\ n - 1 \in 0..n /\ (n - 1) + 1 = n
    BY <1>2, <2>1
  <2>3. ((n - 1) + 1) * B = (n - 1) * B + B /\ (n - 1) * B \in Nat
    BY <1>2, <2>2, Multiples
  <2>4. n * B = (n - 1) * B + B
    BY <2>2, <2>3
  <2> QED BY <1>2, <1>3, <2>1, <2>3, <2>4
<1> QED BY <1>2, <1>4, <1>5, <1>6 DEF n

-----------------------------------------------------------------------------

Answer == [batch : Nat, vectors : Seq(Texts)]

EmbedTypeOK ==
  /\ cache \in [Texts -> Texts \cup {NoVector}]
  /\ texts \in [Callers -> Seq(Texts)]
  /\ results \in [Callers -> Seq(Texts \cup {NoVector})]
  /\ answers \in [Callers -> Seq(Answer)]
  /\ \A c \in Callers : Len(results[c]) = Len(texts[c])

\* An answer has the vectors of its batch, in their order.
AnswersRight ==
  \A c \in Callers : \A i \in 1..Len(answers[c]) :
    \E b \in 1..Batches(c) : answers[c][i].batch = b /\ answers[c][i].vectors = Batch(c, b)

EmbedInv == EmbedTypeOK /\ AnswersRight /\ EmbeddingsAligned

\* to_compute
ToCompute(c) == [k \in 1..Len(Missing(c)) |-> texts[c][Missing(c)[k]]]

LEMMA MissingFound ==
  ASSUME EmbedTypeOK, NEW c \in Callers
  PROVE  /\ Missing(c) \in Seq(1..Len(texts[c])) /\ Len(Missing(c)) \in Nat
         /\ \A i \in 1..Len(texts[c]) :
              results[c][i] = NoVector => \E k \in 1..Len(Missing(c)) : Missing(c)[k] = i
         /\ ToCompute(c) \in Seq(Texts) /\ Len(ToCompute(c)) = Len(Missing(c))
<1>1. texts[c] \in Seq(Texts) /\ Len(texts[c]) \in Nat /\ Len(results[c]) = Len(texts[c])
  BY DEF EmbedTypeOK
<1>2. /\ Missing(c) \in Seq(1..Len(texts[c]))
      /\ \A i \in 1..Len(texts[c]) :
           results[c][i] = NoVector => \E k \in 1..Len(Missing(c)) : Missing(c)[k] = i
  <2>1. Missing(c) = Gaps(results[c])[Len(texts[c])]
    BY <1>1 DEF Missing
  <2>2. PICK r, n : r = results[c] /\ n = Len(texts[c])
    OBVIOUS
  <2>3. n \in Nat
    BY <1>1, <2>2
  <2>4. /\ Gaps(r)[n] \in Seq(1..n)
        /\ \A i \in 1..n :
             r[i] = NoVector => \E k \in 1..Len(Gaps(r)[n]) : Gaps(r)[n][k] = i
    BY <2>3, GapsFound
  <2> QED BY <2>1, <2>2, <2>4
<1>3. Len(Missing(c)) \in Nat /\ \A k \in 1..Len(Missing(c)) : Missing(c)[k] \in 1..Len(texts[c])
  BY <1>2
<1>4. \A k \in 1..Len(Missing(c)) : texts[c][Missing(c)[k]] \in Texts
  BY <1>1, <1>3, ElementOfSeq
<1>5. ToCompute(c) \in Seq(Texts) /\ Len(ToCompute(c)) = Len(Missing(c))
  BY <1>3, <1>4 DEF ToCompute
<1> QED BY <1>2, <1>3, <1>5

LEMMA BatchesCounted ==
  ASSUME EmbedTypeOK, NEW c \in Callers
  PROVE  /\ Batches(c) \in Nat /\ Len(Missing(c)) <= Batches(c) * BatchSize
         /\ Len(Missing(c)) = 0 => Batches(c) = 0
         /\ Len(Missing(c)) > 0 =>
              Batches(c) > 0 /\ (Batches(c) - 1) * BatchSize < Len(Missing(c))
BY MissingFound, RoundedUp, EmbeddingAssumption DEF Batches

LEMMA BatchTyped ==
  ASSUME EmbedTypeOK, NEW c \in Callers, NEW b \in 1..Batches(c)
  PROVE  Batch(c, b) \in Seq(Texts)
<1> DEFINE first == (b - 1) * BatchSize + 1
           last == IF b < Batches(c) THEN b * BatchSize ELSE Len(Missing(c))
<1>1. Len(Missing(c)) \in Nat /\ Batches(c) \in Nat /\ BatchSize \in Nat \ {0}
      /\ ToCompute(c) \in Seq(Texts) /\ Len(ToCompute(c)) = Len(Missing(c))
  BY MissingFound, BatchesCounted, EmbeddingAssumption
<1>2. first \in Nat \ {0}
  <2>1. b - 1 \in Nat /\ b - 1 \in 0..(b - 1)
    BY <1>1
  <2>2. (b - 1) * BatchSize \in Nat
    BY <1>1, <2>1, Multiples
  <2> QED BY <2>2
<1>3. last \in 0..Len(Missing(c))
  <2>1. CASE b < Batches(c)
    <3>1. Len(Missing(c)) > 0
      BY <1>1, <2>1, BatchesCounted
    <3>2. (Batches(c) - 1) * BatchSize < Len(Missing(c))
      BY <3>1, BatchesCounted
    <3>3. Batches(c) - 1 \in Nat /\ b \in 0..(Batches(c) - 1)
      BY <1>1, <2>1
    <3>4. b * BatchSize \in Nat /\ b * BatchSize <= (Batches(c) - 1) * BatchSize
          /\ (Batches(c) - 1) * BatchSize \in Nat
      <4>1. Batches(c) - 1 \in 0..(Batches(c) - 1)
        BY <3>3
      <4> QED BY <1>1, <3>3, <4>1, Multiples
    <3> QED BY <1>1, <2>1, <3>2, <3>4
  <2>2. CASE ~ (b < Batches(c))
    BY <1>1, <2>2
  <2> QED BY <2>1, <2>2
<1> HIDE DEF first, last
<1>4. \A i \in first..last : ToCompute(c)[i] \in Texts
  <2>1. \A i \in first..last : i \in 1..Len(ToCompute(c))
    BY <1>1, <1>2, <1>3
  <2> QED BY <1>1, <2>1, ElementOfSeq
<1>5. first \in Int /\ last \in Int
  BY <1>1, <1>2, <1>3
<1>6. SubSeq(ToCompute(c), first, last) \in Seq(Texts)
  BY <1>4, <1>5, SubSeqProperties
<1> QED BY <1>6 DEF Batch, ToCompute, first, last

\* When every batch is answered the vectors stand in the order of to_compute.
LEMMA ComputedInOrder ==
  ASSUME EmbedInv, NEW c \in Callers, Len(Missing(c)) > 0,
         \A b \in 1..Batches(c) : \E i \in 1..Len(answers[c]) : answers[c][i].batch = b
  PROVE  Computed(c) = ToCompute(c)
<1> USE DEF EmbedInv
<1>1. Len(Missing(c)) \in Nat /\ Batches(c) \in Nat \ {0} /\ BatchSize \in Nat \ {0}
      /\ ToCompute(c) \in Seq(Texts) /\ Len(ToCompute(c)) = Len(Missing(c))
      /\ (Batches(c) - 1) * BatchSize < Len(Missing(c))
      /\ Len(Missing(c)) <= Batches(c) * BatchSize
  BY MissingFound, BatchesCounted, EmbeddingAssumption
<1>2. \A b \in 1..Batches(c) : answers[c][AnswerTo(c, b)].vectors = Batch(c, b)
  <2> SUFFICES ASSUME NEW b \in 1..Batches(c)
      PROVE  answers[c][AnswerTo(c, b)].vectors = Batch(c, b)
    OBVIOUS
  <2>1. AnswerTo(c, b) \in 1..Len(answers[c]) /\ answers[c][AnswerTo(c, b)].batch = b
    BY DEF AnswerTo
  <2>2. PICK e \in 1..Batches(c) : /\ answers[c][AnswerTo(c, b)].batch = e
                                   /\ answers[c][AnswerTo(c, b)].vectors = Batch(c, e)
    BY <2>1 DEF AnswersRight
  <2> QED BY <2>1, <2>2
<1> DEFINE parts == [b \in 1..Batches(c) |-> answers[c][AnswerTo(c, b)].vectors]
<1>3. parts = [b \in 1..Batches(c) |->
                 SubSeq(ToCompute(c), (b - 1) * BatchSize + 1,
                        IF b < Batches(c) THEN b * BatchSize ELSE Len(ToCompute(c)))]
  <2>1. \A b \in 1..Batches(c) :
          Batch(c, b) = SubSeq(ToCompute(c), (b - 1) * BatchSize + 1,
                               IF b < Batches(c) THEN b * BatchSize ELSE Len(ToCompute(c)))
    BY <1>1 DEF Batch, ToCompute
  <2> QED BY <1>2, <2>1
<1> HIDE DEF parts, EmbedInv
<1>4. FlattenSeq(parts) = ToCompute(c)
  <2>1. /\ (Batches(c) - 1) * BatchSize < Len(ToCompute(c))
        /\ Len(ToCompute(c)) <= Batches(c) * BatchSize
        /\ Batches(c) \in Nat \ {0} /\ BatchSize \in Nat \ {0} /\ ToCompute(c) \in Seq(Texts)
    BY <1>1
  <2>2. PICK s, n, p : s = ToCompute(c) /\ n = Batches(c) /\ p = parts
    OBVIOUS
  <2>3. /\ (n - 1) * BatchSize < Len(s) /\ Len(s) <= n * BatchSize
        /\ n \in Nat \ {0} /\ BatchSize \in Nat \ {0} /\ s \in Seq(Texts)
    BY <2>1, <2>2
  <2>4. p = [b \in 1..n |-> SubSeq(s, (b - 1) * BatchSize + 1,
                                  IF b < n THEN b * BatchSize ELSE Len(s))]
    BY <1>3, <2>2
  <2>5. FlattenSeq([b \in 1..n |-> SubSeq(s, (b - 1) * BatchSize + 1,
                                 IF b < n THEN b * BatchSize ELSE Len(s))]) = s
    BY <2>3, BatchesJoin
  <2> QED BY <2>2, <2>4, <2>5
<1> QED BY <1>4 DEF Computed, parts

-----------------------------------------------------------------------------
(* Steps.                                                                   *)

LEMMA SameCall ==
  ASSUME NEW c \in Callers, texts'[c] = texts[c], results'[c] = results[c]
  PROVE  /\ Missing(c)' = Missing(c) /\ Batches(c)' = Batches(c)
         /\ \A b : Batch(c, b)' = Batch(c, b)
<1>1. Missing(c)' = Missing(c)
  BY DEF Missing
<1>2. Batches(c)' = Batches(c)
  BY <1>1 DEF Batches
<1>3. \A b : Batch(c, b)' = Batch(c, b)
  BY <1>1, <1>2 DEF Batch
<1> QED BY <1>1, <1>2, <1>3

\* A caller whose call and whose answers a step leaves alone has the right answers.
LEMMA OthersRight ==
  ASSUME AnswersRight, NEW c \in Callers,
         texts'[c] = texts[c], results'[c] = results[c], answers'[c] = answers[c],
         NEW i \in 1..Len(answers'[c])
  PROVE  \E b \in 1..Batches(c)' :
           answers'[c][i].batch = b /\ answers'[c][i].vectors = Batch(c, b)'
<1>1. Batches(c)' = Batches(c) /\ \A b : Batch(c, b)' = Batch(c, b)
  BY SameCall
<1>2. PICK b \in 1..Batches(c) : answers[c][i].batch = b /\ answers[c][i].vectors = Batch(c, b)
  BY DEF AnswersRight
<1> QED BY <1>1, <1>2

LEMMA AsksKeeps ==
  ASSUME EmbedInv, NEW c \in Callers, Asks(c)
  PROVE  EmbedInv'
<1>1. EmbedTypeOK /\ AnswersRight /\ EmbeddingsAligned
  BY DEF EmbedInv
<1>0. PICK n \in 1..MaxTexts :
        \E ts \in [1..n -> Texts] :
          /\ texts' = [texts EXCEPT ![c] = ts]
          /\ results' = [results EXCEPT ![c] = [i \in 1..n |-> cache[ts[i]]]]
  BY DEF Asks
<1>2. PICK ts \in [1..n -> Texts] :
        /\ texts' = [texts EXCEPT ![c] = ts]
        /\ results' = [results EXCEPT ![c] = [i \in 1..n |-> cache[ts[i]]]]
  BY <1>0
<1>3. UNCHANGED <<cache, answers>> /\ Missing(c) = <<>>
  BY DEF Asks
<1>4. n \in Nat /\ ts \in Seq(Texts) /\ Len(ts) = n
  BY <1>2, EmbeddingAssumption
<1> DEFINE found == [i \in 1..n |-> cache[ts[i]]]
<1>5. found \in Seq(Texts \cup {NoVector}) /\ Len(found) = n
  <2>1. \A i \in 1..n : cache[ts[i]] \in Texts \cup {NoVector}
    BY <1>1, <1>2 DEF EmbedTypeOK
  <2> QED BY <1>4, <2>1
<1>6. \A i \in 1..n : found[i] \in {NoVector, ts[i]}
  <2>1. \A i \in 1..n : ts[i] \in Texts /\ found[i] = cache[ts[i]]
    BY <1>2
  <2> HIDE DEF found
  <2> QED BY <1>1, <2>1 DEF EmbeddingsAligned
<1>7. results' = [results EXCEPT ![c] = found]
  BY <1>2
<1> HIDE DEF found
<1>8. /\ texts'[c] = ts /\ results'[c] = found /\ answers' = answers /\ cache' = cache
      /\ \A d \in Callers : d # c => texts'[d] = texts[d] /\ results'[d] = results[d]
  BY <1>1, <1>2, <1>3, <1>7 DEF EmbedTypeOK
<1>9. EmbedTypeOK'
  <2>1. texts' \in [Callers -> Seq(Texts)]
    BY <1>1, <1>2, <1>4 DEF EmbedTypeOK
  <2>2. results' \in [Callers -> Seq(Texts \cup {NoVector})]
    BY <1>1, <1>5, <1>7 DEF EmbedTypeOK
  <2>3. \A d \in Callers : Len(results'[d]) = Len(texts'[d])
    BY <1>1, <1>4, <1>5, <1>8 DEF EmbedTypeOK
  <2> QED BY <1>1, <1>8, <2>1, <2>2, <2>3 DEF EmbedTypeOK
<1>10. Len(answers[c]) = 0
  <2>1. Len(answers[c]) \in Nat
    BY <1>1 DEF EmbedTypeOK
  <2>2. Len(Missing(c)) = 0
    BY <1>3
  <2>3. Batches(c) = 0
    BY <1>1, <2>2, BatchesCounted
  <2>4. Len(answers[c]) > 0 => answers[c][1].batch \in 1..Batches(c)
    BY <1>1, <2>1 DEF AnswersRight
  <2> QED BY <2>1, <2>3, <2>4
<1>11. AnswersRight'
  <2> SUFFICES ASSUME NEW d \in Callers
      PROVE  \A i \in 1..Len(answers'[d]) : \E e \in 1..Batches(d)' :
               answers'[d][i].batch = e /\ answers'[d][i].vectors = Batch(d, e)'
    BY DEF AnswersRight
  <2>1. CASE d = c
    <3>1. Len(answers'[d]) = 0
      BY <1>8, <1>10, <2>1
    <3> QED BY <3>1
  <2>2. CASE d # c
    BY <1>1, <1>8, <2>2, OthersRight
  <2> QED BY <2>1, <2>2
<1>12. EmbeddingsAligned'
  <2>1. ASSUME NEW d \in Callers, NEW i \in 1..Len(texts'[d])
        PROVE  results'[d][i] \in {NoVector, texts'[d][i]}
    <3>1. CASE d = c
      BY <1>4, <1>6, <1>8, <3>1
    <3>2. CASE d # c
      BY <1>1, <1>8, <3>2 DEF EmbeddingsAligned
    <3> QED BY <3>1, <3>2
  <2> QED BY <1>1, <1>8, <2>1 DEF EmbeddingsAligned
<1> QED BY <1>9, <1>11, <1>12 DEF EmbedInv

LEMMA AnswersKeeps ==
  ASSUME EmbedInv, NEW c \in Callers, NEW b \in 1..Batches(c), Answers(c, b)
  PROVE  EmbedInv'
<1>1. EmbedTypeOK /\ AnswersRight /\ EmbeddingsAligned
  BY DEF EmbedInv
<1>2. PICK accepted \in 1..BatchSize :
        answers' = [answers EXCEPT ![c] =
          Append(@, [batch |-> b, vectors |-> Embedded(Batch(c, b), accepted)])]
  BY DEF Answers
<1>3. UNCHANGED <<cache, texts, results>>
  BY DEF Answers
<1>4. Batch(c, b) \in Seq(Texts) /\ b \in Nat
  BY <1>1, BatchTyped, BatchesCounted
<1>5. Embedded(Batch(c, b), accepted) = Batch(c, b)
  <2>1. accepted \in Nat \ {0}
    BY EmbeddingAssumption
  <2> QED BY <1>4, <2>1, EmbeddedInPlace
<1> DEFINE new == [batch |-> b, vectors |-> Batch(c, b)]
<1>6. answers' = [answers EXCEPT ![c] = Append(@, new)]
  BY <1>2, <1>5
<1>7. new \in Answer /\ new.batch = b /\ new.vectors = Batch(c, b)
  BY <1>4 DEF Answer
<1> HIDE DEF new
<1>8. /\ answers' \in [Callers -> Seq(Answer)]
      /\ answers'[c] = Append(answers[c], new)
      /\ \A d \in Callers : d # c => answers'[d] = answers[d]
  BY <1>1, <1>6, <1>7 DEF EmbedTypeOK
<1>9. EmbedTypeOK'
  BY <1>1, <1>3, <1>8 DEF EmbedTypeOK
<1>10. EmbeddingsAligned'
  BY <1>1, <1>3 DEF EmbeddingsAligned
<1>11. AnswersRight'
  <2> SUFFICES ASSUME NEW d \in Callers
      PROVE  \A i \in 1..Len(answers'[d]) : \E e \in 1..Batches(d)' :
               answers'[d][i].batch = e /\ answers'[d][i].vectors = Batch(d, e)'
    BY DEF AnswersRight
  <2>1. CASE d # c
    <3>1. texts'[d] = texts[d] /\ results'[d] = results[d] /\ answers'[d] = answers[d]
      BY <1>3, <1>8, <2>1
    <3> QED BY <1>1, <3>1, OthersRight
  <2>2. CASE d = c
    <3>1. Batches(c)' = Batches(c) /\ \A e : Batch(c, e)' = Batch(c, e)
      BY <1>3, SameCall
    <3>2. answers[c] \in Seq(Answer) /\ Len(answers[c]) \in Nat
      BY <1>1 DEF EmbedTypeOK
    <3>3. /\ Len(answers'[c]) = Len(answers[c]) + 1
          /\ answers'[c][Len(answers[c]) + 1] = new
          /\ \A i \in 1..Len(answers[c]) : answers'[c][i] = answers[c][i]
      BY <1>8, <3>2
    <3>4. ASSUME NEW i \in 1..Len(answers'[c])
          PROVE  \E e \in 1..Batches(c) :
                   answers'[c][i].batch = e /\ answers'[c][i].vectors = Batch(c, e)
      <4>1. CASE i = Len(answers[c]) + 1
        <5>1. answers'[c][i] = new
          BY <3>3, <4>1
        <5> QED BY <1>7, <5>1
      <4>2. CASE i # Len(answers[c]) + 1
        <5>1. i \in 1..Len(answers[c]) /\ answers'[c][i] = answers[c][i]
          BY <3>2, <3>3, <4>2
        <5> QED BY <1>1, <5>1 DEF AnswersRight
      <4> QED BY <4>1, <4>2
    <3> QED BY <2>2, <3>1, <3>4
  <2> QED BY <2>1, <2>2
<1> QED BY <1>9, <1>10, <1>11 DEF EmbedInv

LEMMA RaisesKeeps ==
  ASSUME EmbedInv, NEW c \in Callers, Raises(c)
  PROVE  EmbedInv'
<1>1. EmbedTypeOK /\ AnswersRight /\ EmbeddingsAligned
  BY DEF EmbedInv
<1>2. /\ texts' = [texts EXCEPT ![c] = <<>>] /\ results' = [results EXCEPT ![c] = <<>>]
      /\ answers' = [answers EXCEPT ![c] = <<>>] /\ cache' = cache
  BY DEF Raises
<1>3. \A T : <<>> \in Seq(T)
  OBVIOUS
<1>4. /\ texts'[c] = <<>> /\ results'[c] = <<>> /\ answers'[c] = <<>>
      /\ \A d \in Callers : d # c => /\ texts'[d] = texts[d] /\ results'[d] = results[d]
                                     /\ answers'[d] = answers[d]
  BY <1>1, <1>2 DEF EmbedTypeOK
<1>5. EmbedTypeOK'
  <2>1. texts' \in [Callers -> Seq(Texts)]
    BY <1>1, <1>2, <1>3 DEF EmbedTypeOK
  <2>2. results' \in [Callers -> Seq(Texts \cup {NoVector})]
    BY <1>1, <1>2, <1>3 DEF EmbedTypeOK
  <2>3. answers' \in [Callers -> Seq(Answer)]
    BY <1>1, <1>2, <1>3 DEF EmbedTypeOK
  <2>4. \A d \in Callers : Len(results'[d]) = Len(texts'[d])
    BY <1>1, <1>4 DEF EmbedTypeOK
  <2> QED BY <1>1, <1>2, <2>1, <2>2, <2>3, <2>4 DEF EmbedTypeOK
<1>6. AnswersRight'
  <2> SUFFICES ASSUME NEW d \in Callers, NEW i \in 1..Len(answers'[d])
      PROVE  \E e \in 1..Batches(d)' :
               answers'[d][i].batch = e /\ answers'[d][i].vectors = Batch(d, e)'
    BY DEF AnswersRight
  <2>1. d # c
    <3>1. Len(answers'[c]) = 0
      BY <1>4
    <3> QED BY <3>1
  <2> QED BY <1>1, <1>4, <2>1, OthersRight
<1>7. EmbeddingsAligned'
  <2>1. ASSUME NEW d \in Callers, NEW i \in 1..Len(texts'[d])
        PROVE  results'[d][i] \in {NoVector, texts'[d][i]}
    <3>1. d # c
      <4>1. Len(texts'[c]) = 0
        BY <1>4
      <4> QED BY <4>1
    <3> QED BY <1>1, <1>4, <3>1 DEF EmbeddingsAligned
  <2> QED BY <1>1, <1>2, <2>1 DEF EmbeddingsAligned
<1> QED BY <1>5, <1>6, <1>7 DEF EmbedInv

\* When every batch is answered the call has the vector of each of its texts.
LEMMA StackedInPlace ==
  ASSUME EmbedInv, NEW c \in Callers, Len(Missing(c)) > 0,
         \A b \in 1..Batches(c) : \E i \in 1..Len(answers[c]) : answers[c][i].batch = b
  PROVE  /\ Stacked(c) \in Seq(Texts) /\ Len(Stacked(c)) = Len(texts[c])
         /\ \A i \in 1..Len(texts[c]) : Stacked(c)[i] = texts[c][i]
<1>1. EmbedTypeOK /\ AnswersRight /\ EmbeddingsAligned
  BY DEF EmbedInv
<1>2. Computed(c) = ToCompute(c)
  BY ComputedInOrder
<1>3. texts[c] \in Seq(Texts) /\ Len(texts[c]) \in Nat
  BY <1>1 DEF EmbedTypeOK
<1> DEFINE at(i) == CHOOSE k \in 1..Len(Missing(c)) : Missing(c)[k] = i
<1>4. Stacked(c) = [i \in 1..Len(texts[c]) |->
                      IF results[c][i] = NoVector THEN Computed(c)[at(i)] ELSE results[c][i]]
  BY DEF Stacked
<1>5. ASSUME NEW i \in 1..Len(texts[c]), results[c][i] = NoVector
      PROVE  Computed(c)[at(i)] = texts[c][i]
  <2>1. \E k \in 1..Len(Missing(c)) : Missing(c)[k] = i
    BY <1>1, <1>5, MissingFound
  <2>2. at(i) \in 1..Len(Missing(c)) /\ Missing(c)[at(i)] = i
    BY <2>1
  <2> HIDE DEF at
  <2> QED BY <1>2, <2>2 DEF ToCompute
<1> HIDE DEF at
<1>6. ASSUME NEW i \in 1..Len(texts[c]), results[c][i] # NoVector
      PROVE  results[c][i] = texts[c][i]
  BY <1>1, <1>6 DEF EmbeddingsAligned
<1>7. \A i \in 1..Len(texts[c]) : Stacked(c)[i] = texts[c][i]
  BY <1>4, <1>5, <1>6
<1>8. \A i \in 1..Len(texts[c]) : texts[c][i] \in Texts
  BY <1>3, ElementOfSeq
<1>9. Stacked(c) \in Seq(Texts) /\ Len(Stacked(c)) = Len(texts[c])
  <2>1. DOMAIN Stacked(c) = 1..Len(texts[c]) /\ Stacked(c) = [i \in 1..Len(texts[c]) |-> Stacked(c)[i]]
    BY <1>4
  <2>2. \A i \in 1..Len(texts[c]) : Stacked(c)[i] \in Texts
    BY <1>7, <1>8
  <2> QED BY <1>3, <2>1, <2>2
<1> QED BY <1>7, <1>9

LEMMA FinishesKeeps ==
  ASSUME EmbedInv, NEW c \in Callers, Finishes(c)
  PROVE  EmbedInv'
<1>1. EmbedTypeOK /\ AnswersRight /\ EmbeddingsAligned
  BY DEF EmbedInv
<1>2. /\ texts' = texts /\ results' = [results EXCEPT ![c] = Stacked(c)]
      /\ answers' = [answers EXCEPT ![c] = <<>>]
  BY DEF Finishes
<1>3. /\ \A b \in 1..Batches(c) : \E i \in 1..Len(answers[c]) : answers[c][i].batch = b
      /\ Missing(c) # <<>>
  BY DEF Finishes
<1>4. Len(Missing(c)) > 0
  BY <1>1, <1>3, MissingFound, EmptySeq
<1>5. /\ Stacked(c) \in Seq(Texts) /\ Len(Stacked(c)) = Len(texts[c])
      /\ \A i \in 1..Len(texts[c]) : Stacked(c)[i] = texts[c][i]
  BY <1>3, <1>4, StackedInPlace
<1>6. Stacked(c) \in Seq(Texts \cup {NoVector})
  BY <1>5, SeqMonotonic
<1>7. \A T : <<>> \in Seq(T)
  OBVIOUS
<1>8. /\ results'[c] = Stacked(c) /\ answers'[c] = <<>>
      /\ \A d \in Callers : d # c => results'[d] = results[d] /\ answers'[d] = answers[d]
  BY <1>1, <1>2 DEF EmbedTypeOK
<1> DEFINE at(t) == {i \in 1..Len(texts[c]) : results[c][i] = NoVector /\ texts[c][i] = t}
           last(t) == CHOOSE i \in at(t) : \A j \in at(t) : j <= i
<1>9. cache' = [t \in Texts |-> IF at(t) = {} THEN cache[t] ELSE Stacked(c)[last(t)]]
  BY DEF Finishes
<1>10. ASSUME NEW t \in Texts, at(t) # {}
       PROVE  Stacked(c)[last(t)] = t
  <2>1. Len(texts[c]) \in Nat /\ at(t) \subseteq 1..Len(texts[c])
    BY <1>1 DEF EmbedTypeOK
  <2>2. \E i \in at(t) : \A j \in at(t) : j <= i
    <3> HIDE DEF at
    <3> QED BY <1>10, <2>1, LastOne
  <2>3. last(t) \in at(t)
    <3> HIDE DEF at
    <3> QED BY <2>2
  <2> HIDE DEF last
  <2>4. last(t) \in 1..Len(texts[c]) /\ texts[c][last(t)] = t
    BY <2>3
  <2> QED BY <1>5, <2>4
<1> HIDE DEF at, last
<1>11. \A t \in Texts : cache'[t] \in {cache[t], t}
  BY <1>9, <1>10
<1>12. EmbedTypeOK'
  <2>1. cache' \in [Texts -> Texts \cup {NoVector}]
    <3>1. \A t \in Texts : cache'[t] \in Texts \cup {NoVector}
      BY <1>1, <1>11 DEF EmbedTypeOK
    <3> QED BY <1>9, <3>1
  <2>2. results' \in [Callers -> Seq(Texts \cup {NoVector})]
    BY <1>1, <1>2, <1>6 DEF EmbedTypeOK
  <2>3. answers' \in [Callers -> Seq(Answer)]
    BY <1>1, <1>2, <1>7 DEF EmbedTypeOK
  <2>4. \A d \in Callers : Len(results'[d]) = Len(texts'[d])
    BY <1>1, <1>2, <1>5, <1>8 DEF EmbedTypeOK
  <2> QED BY <1>1, <1>2, <2>1, <2>2, <2>3, <2>4 DEF EmbedTypeOK
<1>13. AnswersRight'
  <2> SUFFICES ASSUME NEW d \in Callers, NEW i \in 1..Len(answers'[d])
      PROVE  \E e \in 1..Batches(d)' :
               answers'[d][i].batch = e /\ answers'[d][i].vectors = Batch(d, e)'
    BY DEF AnswersRight
  <2>1. d # c
    <3>1. Len(answers'[c]) = 0
      BY <1>8
    <3> QED BY <3>1
  <2> QED BY <1>1, <1>2, <1>8, <2>1, OthersRight
<1>14. EmbeddingsAligned'
  <2>1. ASSUME NEW d \in Callers, NEW i \in 1..Len(texts[d])
        PROVE  results'[d][i] \in {NoVector, texts[d][i]}
    <3>1. CASE d = c
      BY <1>5, <1>8, <3>1
    <3>2. CASE d # c
      BY <1>1, <1>8, <3>2 DEF EmbeddingsAligned
    <3> QED BY <3>1, <3>2
  <2>2. \A t \in Texts : cache'[t] \in {NoVector, t}
    BY <1>1, <1>11 DEF EmbeddingsAligned
  <2> QED BY <1>2, <2>1, <2>2 DEF EmbeddingsAligned
<1> QED BY <1>12, <1>13, <1>14 DEF EmbedInv

LEMMA EmbedInvHolds == EmbedSpec => []EmbedInv
<1>1. EmbedInit => EmbedInv
  <2> SUFFICES ASSUME EmbedInit  PROVE EmbedInv
    OBVIOUS
  <2>1. /\ cache = [t \in Texts |-> NoVector] /\ texts = [c \in Callers |-> <<>>]
        /\ results = [c \in Callers |-> <<>>] /\ answers = [c \in Callers |-> <<>>]
    BY DEF EmbedInit
  <2>2. \A T : <<>> \in Seq(T)
    OBVIOUS
  <2>3. \A c \in Callers : /\ texts[c] = <<>> /\ results[c] = <<>> /\ answers[c] = <<>>
                           /\ Len(texts[c]) = 0 /\ Len(answers[c]) = 0
    BY <2>1
  <2>4. EmbedTypeOK
    BY <2>1, <2>2, <2>3 DEF EmbedTypeOK
  <2>5. AnswersRight
    BY <2>3 DEF AnswersRight
  <2>6. EmbeddingsAligned
    BY <2>1, <2>3 DEF EmbeddingsAligned
  <2> QED BY <2>4, <2>5, <2>6 DEF EmbedInv
<1>2. EmbedInv /\ [EmbedNext]_embedVars => EmbedInv'
  <2> SUFFICES ASSUME EmbedInv, [EmbedNext]_embedVars  PROVE EmbedInv'
    OBVIOUS
  <2>1. ASSUME NEW c \in Callers, Asks(c)  PROVE EmbedInv'
    BY <2>1, AsksKeeps
  <2>2. ASSUME NEW c \in Callers, Raises(c)  PROVE EmbedInv'
    BY <2>2, RaisesKeeps
  <2>3. ASSUME NEW c \in Callers, Finishes(c)  PROVE EmbedInv'
    BY <2>3, FinishesKeeps
  <2>4. ASSUME NEW c \in Callers, NEW b \in 1..Batches(c), Answers(c, b)  PROVE EmbedInv'
    BY <2>4, AnswersKeeps
  <2>5. CASE UNCHANGED embedVars
    <3>1. UNCHANGED <<cache, texts, results, answers>>
      BY <2>5 DEF embedVars
    <3>2. AnswersRight'
      <4> SUFFICES ASSUME NEW d \in Callers, NEW i \in 1..Len(answers'[d])
          PROVE  \E e \in 1..Batches(d)' :
                   answers'[d][i].batch = e /\ answers'[d][i].vectors = Batch(d, e)'
        BY DEF AnswersRight
      <4>1. AnswersRight
        BY DEF EmbedInv
      <4> QED BY <3>1, <4>1, OthersRight
    <3>3. EmbedTypeOK' /\ EmbeddingsAligned'
      BY <3>1 DEF EmbedInv, EmbedTypeOK, EmbeddingsAligned
    <3> QED BY <3>2, <3>3 DEF EmbedInv
  <2> QED BY <2>1, <2>2, <2>3, <2>4, <2>5 DEF EmbedNext
<1> QED BY <1>1, <1>2, PTL DEF EmbedSpec

\* embed_batch gives every text its own vector and never another text's, and the cache that
\* all callers share keeps none under a wrong text: for every number of callers, every
\* batch size and every length of a call.
THEOREM EmbeddingsAlignedCorrect == EmbedSpec => []EmbeddingsAligned
<1>1. EmbedInv => EmbeddingsAligned
  BY DEF EmbedInv
<1> QED BY <1>1, EmbedInvHolds, PTL

-----------------------------------------------------------------------------
(* Lists: induction, FlattenSeq, repetition, places in an order.           *)

LEMMA InductionOnLists ==
  ASSUME NEW T, NEW P, <<>> \in P,
         \A l \in Seq(T), e \in T : l \in P => Append(l, e) \in P
  PROVE  Seq(T) \subseteq P
<1> DEFINE Upto == {n \in Nat : \A l \in Seq(T) : Len(l) = n => l \in P}
<1>1. 0 \in Upto
  OBVIOUS
<1>2. ASSUME NEW n \in Nat, n \in Upto  PROVE n + 1 \in Upto
  <2> SUFFICES ASSUME NEW l \in Seq(T), Len(l) = n + 1  PROVE l \in P
    OBVIOUS
  <2>1. n + 1 \in 1..Len(l) /\ l # <<>>
    OBVIOUS
  <2>2. SubSeq(l, 1, n) \in Seq(T) /\ Len(SubSeq(l, 1, n)) = n /\ l[n + 1] \in T
    BY <2>1
  <2>3. l = Append(SubSeq(l, 1, n), l[n + 1])
    BY <2>1, <2>2
  <2>4. SubSeq(l, 1, n) \in P
    BY <1>2, <2>2
  <2> HIDE DEF Upto
  <2> QED BY <2>2, <2>3, <2>4
<1>3. Nat \subseteq Upto
  <2> HIDE DEF Upto
  <2> QED BY <1>1, <1>2, InductionOnNaturals
<1> QED BY <1>3

-----------------------------------------------------------------------------
(* FlattenSeq.                                                             *)

LEMMA FlattenDefined ==
  ASSUME NEW T, NEW s \in Seq(Seq(T))
  PROVE  \E f \in [0..Len(s) -> Seq(T)] :
           /\ f[0] = <<>>
           /\ \A i \in 1..Len(s) : f[i] = f[i - 1] \o s[i]
           /\ FlattenSeq(s) = f[Len(s)]
<1> DEFINE n == Len(s)
           Joins(v, k) == v = [i \in 1..k |-> IF i = 1 THEN s[i] ELSE v[i - 1] \o s[i]]
           Upto == {k \in Nat : k <= n => \E v : Joins(v, k)}
<1> HIDE DEF Joins
<1>1. n \in Nat /\ \A i \in 1..n : s[i] \in Seq(T)
  OBVIOUS
<1>2. CASE n = 0
  <2>1. s = <<>>
    BY <1>2
  <2>2. FlattenSeq(s) = <<>>
    BY <2>1 DEF FlattenSeq
  <2> DEFINE f == [i \in 0..0 |-> <<>>]
  <2>3. f \in [0..0 -> Seq(T)] /\ f[0] = <<>>
    OBVIOUS
  <2>4. Len(s) = 0
    BY <1>2
  <2> HIDE DEF f
  <2> QED BY <2>2, <2>3, <2>4
<1>3. CASE n # 0
  <2>1. 0 \in Upto
    <3>1. Joins(<<>>, 0)
      BY DEF Joins
    <3> QED BY <3>1
  <2>2. ASSUME NEW k \in Nat, k \in Upto  PROVE k + 1 \in Upto
    <3> SUFFICES ASSUME k + 1 <= n  PROVE \E v : Joins(v, k + 1)
      OBVIOUS
    <3>1. PICK v : Joins(v, k)
      BY <1>1, <2>2
    <3> DEFINE w == [i \in 1..(k + 1) |-> IF i <= k THEN v[i]
                                          ELSE IF i = 1 THEN s[i] ELSE v[i - 1] \o s[i]]
    <3>2. \A i \in 1..k : v[i] = IF i = 1 THEN s[i] ELSE v[i - 1] \o s[i]
      BY <3>1 DEF Joins
    <3>3. ASSUME NEW i \in 1..(k + 1)
          PROVE  w[i] = IF i = 1 THEN s[i] ELSE w[i - 1] \o s[i]
      <4>1. w[i] = IF i <= k THEN v[i] ELSE IF i = 1 THEN s[i] ELSE v[i - 1] \o s[i]
        OBVIOUS
      <4>2. w[i] = IF i = 1 THEN s[i] ELSE v[i - 1] \o s[i]
        BY <3>2, <4>1
      <4>3. i # 1 => i - 1 \in 1..(k + 1) /\ i - 1 <= k
        OBVIOUS
      <4>4. i # 1 => w[i - 1] = v[i - 1]
        BY <4>3
      <4> HIDE DEF w
      <4> QED BY <4>2, <4>4
    <3>4. w = [i \in 1..(k + 1) |-> IF i = 1 THEN s[i] ELSE w[i - 1] \o s[i]]
      <4>1. DOMAIN w = 1..(k + 1) /\ w = [i \in DOMAIN w |-> w[i]]
        OBVIOUS
      <4> HIDE DEF w
      <4> QED BY <3>3, <4>1
    <3> HIDE DEF w
    <3>5. Joins(w, k + 1)
      BY <3>4 DEF Joins
    <3> QED BY <3>5
  <2>3. Nat \subseteq Upto
    <3> HIDE DEF Upto
    <3> QED BY <2>1, <2>2, InductionOnNaturals
  <2>4. \E v : Joins(v, n)
    BY <1>1, <2>3
  <2>5. PICK v : v = (CHOOSE w : Joins(w, n)) /\ Joins(v, n)
    <3> QED BY <2>4
  <2>6. FlattenSeq(s) = v[n]
    <3>1. FlattenSeq(s) = (CHOOSE w : Joins(w, n))[n]
      BY <1>3 DEF FlattenSeq, Joins
    <3> QED BY <2>5, <3>1
  <2>7. \A i \in 1..n : v[i] = IF i = 1 THEN s[i] ELSE v[i - 1] \o s[i]
    BY <2>5 DEF Joins
  <2> HIDE DEF Upto
  <2> DEFINE f == [i \in 0..n |-> IF i = 0 THEN <<>> ELSE v[i]]
             Lists == {i \in Nat : i <= n => f[i] \in Seq(T)}
  <2>8. \A i \in 1..n : f[i] = f[i - 1] \o s[i]
    <3> SUFFICES ASSUME NEW i \in 1..n  PROVE f[i] = f[i - 1] \o s[i]
      OBVIOUS
    <3>3. i \in 0..n /\ i - 1 \in 0..n /\ s[i] \in Seq(T)
      BY <1>1
    <3>4. f[i] = v[i] /\ f[i - 1] = IF i = 1 THEN <<>> ELSE v[i - 1]
      BY <3>3
    <3> HIDE DEF f
    <3>1. CASE i = 1
      <4>1. f[i] = s[i] /\ f[i - 1] = <<>>
        BY <2>7, <3>1, <3>4
      <4>2. <<>> \o s[i] = s[i]
        BY <3>3, ConcatEmptySeq
      <4> QED BY <4>1, <4>2
    <3>2. CASE i # 1
      BY <2>7, <3>2, <3>4
    <3> QED BY <3>1, <3>2
  <2>9. f[0] = <<>> /\ f[n] = v[n]
    BY <1>1, <1>3
  <2>13. f = [i \in 0..n |-> f[i]]
    OBVIOUS
  <2> HIDE DEF f
  <2>10. 0 \in Lists
    <3>1. <<>> \in Seq(T)
      OBVIOUS
    <3> QED BY <2>9, <3>1
  <2>11. ASSUME NEW i \in Nat, i \in Lists  PROVE i + 1 \in Lists
    <3> SUFFICES ASSUME i + 1 <= n  PROVE f[i + 1] \in Seq(T)
      OBVIOUS
    <3>1. f[i] \in Seq(T) /\ i + 1 \in 1..n /\ (i + 1) - 1 = i
      BY <1>1, <2>11
    <3>2. f[i + 1] = f[i] \o s[i + 1] /\ s[i + 1] \in Seq(T)
      BY <1>1, <2>8, <3>1
    <3> HIDE DEF Lists
    <3> QED BY <3>1, <3>2, ConcatProperties
  <2>12. Nat \subseteq Lists
    <3> HIDE DEF Lists
    <3> QED BY <2>10, <2>11, InductionOnNaturals
  <2>14. f \in [0..n -> Seq(T)]
    BY <1>1, <2>12, <2>13
  <2>15. FlattenSeq(s) = f[n]
    BY <2>6, <2>9
  <2> QED BY <2>8, <2>9, <2>14, <2>15
<1> QED BY <1>2, <1>3

LEMMA FlattenEmpty == FlattenSeq(<<>>) = <<>>
BY DEF FlattenSeq

LEMMA FlattenTyped ==
  ASSUME NEW T, NEW s \in Seq(Seq(T))
  PROVE  FlattenSeq(s) \in Seq(T)
<1>1. PICK f \in [0..Len(s) -> Seq(T)] : FlattenSeq(s) = f[Len(s)]
  BY FlattenDefined
<1> QED BY <1>1

LEMMA FlattenAppend ==
  ASSUME NEW T, NEW s \in Seq(Seq(T)), NEW e \in Seq(T)
  PROVE  FlattenSeq(Append(s, e)) = FlattenSeq(s) \o e
<1> DEFINE n == Len(s)  t == Append(s, e)
<1>1. n \in Nat /\ t \in Seq(Seq(T)) /\ Len(t) = n + 1 /\ t[n + 1] = e
      /\ \A i \in 1..n : t[i] = s[i]
  OBVIOUS
<1> HIDE DEF t
<1>2. PICK f \in [0..n -> Seq(T)] : /\ f[0] = <<>>
                                    /\ \A i \in 1..n : f[i] = f[i - 1] \o s[i]
                                    /\ FlattenSeq(s) = f[n]
  BY FlattenDefined
<1>3. PICK g \in [0..(n + 1) -> Seq(T)] :
        /\ g[0] = <<>>
        /\ \A i \in 1..(n + 1) : g[i] = g[i - 1] \o t[i]
        /\ FlattenSeq(t) = g[n + 1]
  <2>1. \E g \in [0..Len(t) -> Seq(T)] :
          /\ g[0] = <<>>
          /\ \A i \in 1..Len(t) : g[i] = g[i - 1] \o t[i]
          /\ FlattenSeq(t) = g[Len(t)]
    BY <1>1, FlattenDefined
  <2>2. Len(t) = n + 1
    BY <1>1
  <2> HIDE DEF n
  <2> QED BY <2>1, <2>2
<1> DEFINE Same == {i \in Nat : i <= n => f[i] = g[i]}
<1>4. 0 \in Same
  BY <1>2, <1>3
<1>5. ASSUME NEW i \in Nat, i \in Same  PROVE i + 1 \in Same
  <2> SUFFICES ASSUME i + 1 <= n  PROVE f[i + 1] = g[i + 1]
    OBVIOUS
  <2>1. i + 1 \in 1..n /\ i + 1 \in 1..(n + 1) /\ (i + 1) - 1 = i /\ f[i] = g[i]
    BY <1>1, <1>5
  <2>2. f[i + 1] = f[i] \o s[i + 1] /\ g[i + 1] = g[i] \o t[i + 1]
    BY <1>2, <1>3, <2>1
  <2> QED BY <1>1, <2>1, <2>2
<1>6. Nat \subseteq Same
  <2> HIDE DEF Same
  <2> QED BY <1>4, <1>5, InductionOnNaturals
<1>7. f[n] = g[n]
  <2>1. n \in Same
    BY <1>1, <1>6, Zenon
  <2> HIDE DEF n
  <2> QED BY <1>1, <2>1
<1>8. g[n + 1] = g[n] \o t[n + 1]
  <2>1. n + 1 \in 1..(n + 1) /\ (n + 1) - 1 = n
    BY <1>1
  <2> QED BY <1>3, <2>1
<1> QED BY <1>1, <1>2, <1>3, <1>7, <1>8 DEF t

LEMMA FlattenConcat ==
  ASSUME NEW T, NEW s \in Seq(Seq(T)), NEW t \in Seq(Seq(T))
  PROVE  FlattenSeq(s \o t) = FlattenSeq(s) \o FlattenSeq(t)
<1> DEFINE P == {l \in Seq(Seq(T)) : FlattenSeq(s \o l) = FlattenSeq(s) \o FlattenSeq(l)}
<1>1. <<>> \in P
  <2>1. FlattenSeq(s) \in Seq(T) /\ <<>> \in Seq(Seq(T))
    BY FlattenTyped
  <2>2. s \o <<>> = s /\ FlattenSeq(s) \o <<>> = FlattenSeq(s)
    BY <2>1, ConcatEmptySeq
  <2> QED BY <2>1, <2>2, FlattenEmpty
<1>2. ASSUME NEW l \in Seq(Seq(T)), NEW e \in Seq(T), l \in P
      PROVE  Append(l, e) \in P
  <2>1. s \o Append(l, e) = Append(s \o l, e)
    OBVIOUS
  <2>2. s \o l \in Seq(Seq(T))
    BY ConcatProperties
  <2>3. FlattenSeq(s \o Append(l, e)) = FlattenSeq(s \o l) \o e
    BY <2>1, <2>2, FlattenAppend
  <2>4. FlattenSeq(Append(l, e)) = FlattenSeq(l) \o e
    BY FlattenAppend
  <2>5. (FlattenSeq(s) \o FlattenSeq(l)) \o e = FlattenSeq(s) \o (FlattenSeq(l) \o e)
    <3>1. PICK x \in Seq(T), y \in Seq(T) : x = FlattenSeq(s) /\ y = FlattenSeq(l)
      BY FlattenTyped
    <3> HIDE DEF P
    <3>2. (x \o y) \o e = x \o (y \o e)
      BY SMTT(30), ConcatAssociative
    <3> QED BY <3>1, <3>2
  <2>6. Append(l, e) \in Seq(Seq(T))
    OBVIOUS
  <2> QED BY <1>2, <2>3, <2>4, <2>5, <2>6
<1>3. Seq(Seq(T)) \subseteq P
  <2> HIDE DEF P
  <2> QED BY <1>1, <1>2, InductionOnLists
<1> QED BY <1>3

LEMMA ElementsOfConcat ==
  ASSUME NEW T, NEW s \in Seq(T), NEW t \in Seq(T)
  PROVE  ToSet(s \o t) = ToSet(s) \cup ToSet(t)
<1>1. /\ Len(s) \in Nat /\ Len(t) \in Nat
      /\ DOMAIN (s \o t) = 1..(Len(s) + Len(t)) /\ DOMAIN s = 1..Len(s) /\ DOMAIN t = 1..Len(t)
  BY ConcatProperties, LenProperties
<1>2. \A i \in 1..Len(s) : (s \o t)[i] = s[i] /\ i \in 1..(Len(s) + Len(t))
  BY <1>1, ConcatProperties
<1>3. \A i \in 1..Len(t) : (s \o t)[i + Len(s)] = t[i] /\ i + Len(s) \in 1..(Len(s) + Len(t))
  BY <1>1, ConcatProperties
<1>4. \A i \in 1..(Len(s) + Len(t)) :
        \/ i \in 1..Len(s) /\ (s \o t)[i] = s[i]
        \/ i - Len(s) \in 1..Len(t) /\ (s \o t)[i] = t[i - Len(s)]
  BY <1>1, ConcatProperties
<1>5. ToSet(s \o t) \subseteq ToSet(s) \cup ToSet(t)
  <2> SUFFICES ASSUME NEW i \in 1..(Len(s) + Len(t))
      PROVE  (s \o t)[i] \in ToSet(s) \cup ToSet(t)
    BY <1>1 DEF ToSet
  <2> QED BY <1>1, <1>4 DEF ToSet
<1>6. ToSet(s) \subseteq ToSet(s \o t)
  BY <1>1, <1>2 DEF ToSet
<1>7. ToSet(t) \subseteq ToSet(s \o t)
  BY <1>1, <1>3 DEF ToSet
<1> QED BY <1>5, <1>6, <1>7

\* No element occurs twice.
Distinct(list) == \A i, j \in 1..Len(list) : list[i] = list[j] => i = j

LEMMA DistinctConcat ==
  ASSUME NEW T, NEW s \in Seq(T), NEW t \in Seq(T), Distinct(s), Distinct(t),
         ToSet(s) \cap ToSet(t) = {}
  PROVE  Distinct(s \o t)
<1>1. /\ Len(s) \in Nat /\ Len(t) \in Nat /\ Len(s \o t) = Len(s) + Len(t)
      /\ DOMAIN s = 1..Len(s) /\ DOMAIN t = 1..Len(t)
  BY ConcatProperties, LenProperties
<1>2. \A i \in 1..(Len(s) + Len(t)) :
        (s \o t)[i] = IF i <= Len(s) THEN s[i] ELSE t[i - Len(s)]
  BY <1>1, ConcatProperties
<1>3. ASSUME NEW i \in 1..(Len(s) + Len(t)), NEW j \in 1..(Len(s) + Len(t)),
             (s \o t)[i] = (s \o t)[j]
      PROVE  i = j
  <2>1. CASE i <= Len(s) /\ j <= Len(s)
    BY <1>1, <1>2, <1>3, <2>1 DEF Distinct
  <2>2. CASE i > Len(s) /\ j > Len(s)
    <3>1. i - Len(s) \in 1..Len(t) /\ j - Len(s) \in 1..Len(t)
      BY <1>1, <2>2
    <3>2. t[i - Len(s)] = t[j - Len(s)]
      BY <1>1, <1>2, <1>3, <2>2
    <3>3. i - Len(s) = j - Len(s)
      BY <3>1, <3>2 DEF Distinct
    <3> QED BY <1>1, <3>3
  <2>3. \A k \in 1..Len(s), l \in 1..Len(t) : s[k] # t[l]
    BY <1>1 DEF ToSet
  <2>4. CASE i <= Len(s) /\ j > Len(s)
    <3>1. i \in 1..Len(s) /\ j - Len(s) \in 1..Len(t)
      BY <1>1, <2>4
    <3> QED BY <1>1, <1>2, <1>3, <2>3, <2>4, <3>1
  <2>5. CASE i > Len(s) /\ j <= Len(s)
    <3>1. j \in 1..Len(s) /\ i - Len(s) \in 1..Len(t)
      BY <1>1, <2>5
    <3> QED BY <1>1, <1>2, <1>3, <2>3, <2>5, <3>1
  <2> QED BY <1>1, <2>1, <2>2, <2>4, <2>5
<1> QED BY <1>1, <1>3 DEF Distinct

LEMMA ElementsOfFlatten ==
  ASSUME NEW T, NEW s \in Seq(Seq(T))
  PROVE  ToSet(FlattenSeq(s)) = UNION {ToSet(s[k]) : k \in 1..Len(s)}
<1> DEFINE P == {l \in Seq(Seq(T)) :
                   ToSet(FlattenSeq(l)) = UNION {ToSet(l[k]) : k \in 1..Len(l)}}
<1>1. <<>> \in P
  BY FlattenEmpty DEF ToSet
<1>2. ASSUME NEW l \in Seq(Seq(T)), NEW e \in Seq(T), l \in P
      PROVE  Append(l, e) \in P
  <2> DEFINE m == Append(l, e)
  <2>1. /\ m \in Seq(Seq(T)) /\ Len(l) \in Nat /\ Len(m) = Len(l) + 1
        /\ \A k \in 1..Len(l) : m[k] = l[k]
        /\ m[Len(l) + 1] = e
    OBVIOUS
  <2>2. ToSet(FlattenSeq(m)) = ToSet(FlattenSeq(l)) \cup ToSet(e)
    <3>1. FlattenSeq(m) = FlattenSeq(l) \o e /\ FlattenSeq(l) \in Seq(T)
      BY FlattenAppend, FlattenTyped
    <3> QED BY <3>1, ElementsOfConcat
  <2> HIDE DEF m
  <2>3. 1..Len(m) = 1..Len(l) \cup {Len(l) + 1}
    BY <2>1
  <2>4. UNION {ToSet(m[k]) : k \in 1..Len(m)}
          = (UNION {ToSet(l[k]) : k \in 1..Len(l)}) \cup ToSet(e)
    <3>1. ASSUME NEW k \in 1..Len(m)
          PROVE  IF k \in 1..Len(l) THEN m[k] = l[k] ELSE m[k] = e
      BY <2>1, <2>3
    <3>2. Len(l) + 1 \in 1..Len(m) /\ ~ (Len(l) + 1 \in 1..Len(l))
      BY <2>1
    <3>3. 1..Len(l) \subseteq 1..Len(m)
      BY <2>1
    <3> HIDE DEF P
    <3> QED BY <3>1, <3>2, <3>3
  <2>5. ToSet(FlattenSeq(m)) = UNION {ToSet(m[k]) : k \in 1..Len(m)}
    BY <1>2, <2>2, <2>4
  <2>6. m \in P
    BY <2>1, <2>5
  <2> HIDE DEF P
  <2> QED BY <2>6 DEF m
<1>3. Seq(Seq(T)) \subseteq P
  <2> HIDE DEF P
  <2> QED BY <1>1, <1>2, InductionOnLists
<1> QED BY <1>3

LEMMA DistinctFlatten ==
  ASSUME NEW T, NEW s \in Seq(Seq(T)),
         \A k \in 1..Len(s) : Distinct(s[k]),
         \A j, k \in 1..Len(s) : j # k => ToSet(s[j]) \cap ToSet(s[k]) = {}
  PROVE  Distinct(FlattenSeq(s))
<1> DEFINE Apart(l) == /\ \A k \in 1..Len(l) : Distinct(l[k])
                       /\ \A j, k \in 1..Len(l) : j # k => ToSet(l[j]) \cap ToSet(l[k]) = {}
           P == {l \in Seq(Seq(T)) : Apart(l) => Distinct(FlattenSeq(l))}
<1>1. <<>> \in P
  BY FlattenEmpty DEF Distinct
<1>2. ASSUME NEW l \in Seq(Seq(T)), NEW e \in Seq(T), l \in P
      PROVE  Append(l, e) \in P
  <2> DEFINE m == Append(l, e)
  <2>1. /\ m \in Seq(Seq(T)) /\ Len(l) \in Nat /\ Len(m) = Len(l) + 1
        /\ \A k \in 1..Len(l) : m[k] = l[k]
        /\ m[Len(l) + 1] = e
    OBVIOUS
  <2>2. FlattenSeq(m) = FlattenSeq(l) \o e
    BY FlattenAppend
  <2> HIDE DEF m
  <2>3. ASSUME Apart(m)  PROVE Distinct(FlattenSeq(m))
    <3>1. \A k \in 1..Len(l) : k \in 1..Len(m) /\ k # Len(l) + 1
      BY <2>1
    <3>2. Len(l) + 1 \in 1..Len(m)
      BY <2>1
    <3>3. Apart(l)
      BY <2>1, <2>3, <3>1
    <3>4. Distinct(FlattenSeq(l)) /\ Distinct(e)
      BY <1>2, <2>1, <2>3, <3>2, <3>3
    <3>5. \A k \in 1..Len(l) : ToSet(l[k]) \cap ToSet(e) = {}
      BY <2>1, <2>3, <3>1, <3>2
    <3>6. ToSet(FlattenSeq(l)) \cap ToSet(e) = {}
      BY <3>5, ElementsOfFlatten
    <3> QED BY <2>2, <3>4, <3>6, FlattenTyped, DistinctConcat
  <2> QED BY <2>1, <2>3 DEF m
<1>3. Seq(Seq(T)) \subseteq P
  <2> HIDE DEF P
  <2> QED BY <1>1, <1>2, InductionOnLists
<1> QED BY <1>3
LEMMA LenOfDistinct ==
  ASSUME NEW T, NEW l \in Seq(T), Distinct(l)
  PROVE  IsFiniteSet(ToSet(l)) /\ Cardinality(ToSet(l)) = Len(l)
<1>1. Len(l) \in Nat /\ l \in [1..Len(l) -> T] /\ DOMAIN l = 1..Len(l)
  BY LenProperties
<1>2. ToSet(l) = {l[i] : i \in 1..Len(l)}
  BY <1>1 DEF ToSet
<1>3. l \in Bijection(1..Len(l), ToSet(l))
  <2>1. l \in [1..Len(l) -> ToSet(l)]
    BY <1>1, <1>2
  <2>2. \A i, j \in 1..Len(l) : l[i] = l[j] => i = j
    BY DEF Distinct
  <2>3. \A e \in ToSet(l) : \E i \in 1..Len(l) : l[i] = e
    BY <1>2
  <2> QED BY <2>1, <2>2, <2>3 DEF Bijection, Injection, Surjection, IsInjective
<1>4. ExistsBijection(1..Len(l), ToSet(l))
  BY <1>3 DEF ExistsBijection
<1> QED BY <1>1, <1>4, FS_CountingElements, FS_NatBijection

LEMMA LessOrMore ==
  ASSUME NEW a \in Int, NEW b \in Int
  PROVE  /\ Min({a, b}) = IF a <= b THEN a ELSE b
         /\ Max({a, b}) = IF a >= b THEN a ELSE b
BY DEF Min, Max

\* Counting what goes before gives every element of a strict total order a place of
\* its own, and leaves no place free.
LEMMA PlacesOfOrder ==
  ASSUME NEW n \in Nat, NEW before \in [1..n -> SUBSET (1..n)],
         \A x \in 1..n : x \notin before[x],
         \A x, y \in 1..n : x # y => x \in before[y] \/ y \in before[x],
         \A x, y \in 1..n : x \in before[y] => before[x] \subseteq before[y]
  PROVE  /\ \A x \in 1..n : Cardinality(before[x]) \in 0..(n - 1)
         /\ \A x, y \in 1..n : Cardinality(before[x]) = Cardinality(before[y]) => x = y
         /\ \A k \in 0..(n - 1) : \E x \in 1..n : Cardinality(before[x]) = k
<1>1. IsFiniteSet(1..n) /\ Cardinality(1..n) = n
  <2>1. 1 \in Int /\ n \in Int
    OBVIOUS
  <2>2. Cardinality(1..n) = IF 1 > n THEN 0 ELSE n - 1 + 1
    BY <2>1, FS_Interval
  <2> QED BY <2>1, <2>2, FS_Interval
<1>2. ASSUME NEW x \in 1..n
      PROVE  IsFiniteSet(before[x]) /\ Cardinality(before[x]) \in 0..(n - 1)
  <2>1. before[x] \in SUBSET ((1..n) \ {x})
    OBVIOUS
  <2>2. IsFiniteSet((1..n) \ {x}) /\ Cardinality((1..n) \ {x}) = n - 1
    BY <1>1, FS_RemoveElement
  <2>3. IsFiniteSet(before[x]) /\ Cardinality(before[x]) <= n - 1
    <3>1. IsFiniteSet(before[x]) /\ Cardinality(before[x]) <= Cardinality((1..n) \ {x})
      BY <2>1, <2>2, FS_Subset
    <3> QED BY <2>2, <3>1
  <2>4. Cardinality(before[x]) \in Nat
    BY <2>3, FS_CardinalityType
  <2> QED BY <2>3, <2>4
<1>3. ASSUME NEW x \in 1..n, NEW y \in 1..n, x \in before[y]
      PROVE  Cardinality(before[x]) # Cardinality(before[y])
  <2>1. before[x] \in SUBSET before[y] /\ before[x] # before[y]
    BY <1>3
  <2> QED BY <1>2, <2>1, FS_Subset
<1>4. \A x, y \in 1..n : Cardinality(before[x]) = Cardinality(before[y]) => x = y
  BY <1>3
<1> DEFINE pos == [x \in 1..n |-> Cardinality(before[x])]
<1>5. pos \in [1..n -> 0..(n - 1)]
  BY <1>2
<1>6. \A x \in 1..n : pos[x] = Cardinality(before[x])
  OBVIOUS
<1> HIDE DEF pos
<1>7. pos \in Injection(1..n, 0..(n - 1))
  BY <1>4, <1>5, <1>6 DEF Injection, IsInjective
<1>8. IsFiniteSet(0..(n - 1)) /\ Cardinality(0..(n - 1)) = n
  <2>1. 0 \in Int /\ n - 1 \in Int
    OBVIOUS
  <2>2. Cardinality(0..(n - 1)) = IF 0 > n - 1 THEN 0 ELSE (n - 1) - 0 + 1
    BY <2>1, FS_Interval
  <2> QED BY <2>1, <2>2, FS_Interval
<1>9. pos \in Surjection(1..n, 0..(n - 1))
  BY <1>1, <1>7, <1>8, FS_Injection
<1>10. \A k \in 0..(n - 1) : \E x \in 1..n : pos[x] = k
  BY <1>9 DEF Surjection
<1> QED BY <1>2, <1>4, <1>6, <1>10

-----------------------------------------------------------------------------
(* Ranking: which chunks a query finds.                                    *)

\* Those keeps what is in the set, and repeats nothing that the list does not repeat.
LEMMA ThoseFound ==
  ASSUME NEW T, NEW l \in Seq(T), NEW S
  PROVE  /\ Those(l, S) \in Seq(T)
         /\ ToSet(Those(l, S)) = ToSet(l) \cap S
         /\ Distinct(l) => Distinct(Those(l, S))
<1> DEFINE parts == [k \in DOMAIN l |-> IF l[k] \in S THEN <<l[k]>> ELSE <<>>]
<1>1. Len(l) \in Nat /\ DOMAIN l = 1..Len(l) /\ \A k \in 1..Len(l) : l[k] \in T
  OBVIOUS
<1>2. \A k \in 1..Len(l) : (IF l[k] \in S THEN <<l[k]>> ELSE <<>>) \in Seq(T)
  BY <1>1
<1>3. parts \in Seq(Seq(T)) /\ Len(parts) = Len(l)
  <2>1. parts = [k \in 1..Len(l) |-> IF l[k] \in S THEN <<l[k]>> ELSE <<>>]
    BY <1>1
  <2> QED BY <1>1, <1>2, <2>1
<1>4. \A k \in 1..Len(l) : parts[k] = IF l[k] \in S THEN <<l[k]>> ELSE <<>>
  BY <1>1
<1>5. Those(l, S) = FlattenSeq(parts)
  BY DEF Those
<1> HIDE DEF parts
<1>6. \A k \in 1..Len(l) : ToSet(parts[k]) = {l[k]} \cap S /\ Distinct(parts[k])
  <2> SUFFICES ASSUME NEW k \in 1..Len(l)
      PROVE  ToSet(parts[k]) = {l[k]} \cap S /\ Distinct(parts[k])
    OBVIOUS
  <2>1. CASE l[k] \in S
    <3>1. parts[k] = <<l[k]>>
      BY <1>4, <2>1
    <3>2. ToSet(<<l[k]>>) = {l[k]} /\ Distinct(<<l[k]>>)
      BY DEF ToSet, Distinct
    <3> QED BY <2>1, <3>1, <3>2
  <2>2. CASE l[k] \notin S
    <3>1. parts[k] = <<>>
      BY <1>4, <2>2
    <3> QED BY <2>2, <3>1 DEF ToSet, Distinct
  <2> QED BY <2>1, <2>2
<1>7. ToSet(Those(l, S)) = ToSet(l) \cap S
  <2>1. ToSet(l) = {l[k] : k \in 1..Len(l)}
    BY <1>1 DEF ToSet
  <2>2. ToSet(FlattenSeq(parts)) = UNION {{l[k]} \cap S : k \in 1..Len(l)}
    BY <1>3, <1>6, ElementsOfFlatten
  <2> QED BY <1>5, <2>1, <2>2
<1>8. ASSUME Distinct(l)  PROVE Distinct(Those(l, S))
  <2>1. \A j, k \in 1..Len(l) : j # k => l[j] # l[k]
    BY <1>8 DEF Distinct
  <2>2. \A j, k \in 1..Len(l) : j # k => ToSet(parts[j]) \cap ToSet(parts[k]) = {}
    BY <1>6, <2>1
  <2>3. /\ \A k \in 1..Len(parts) : Distinct(parts[k])
        /\ \A j, k \in 1..Len(parts) : j # k => ToSet(parts[j]) \cap ToSet(parts[k]) = {}
    BY <1>3, <1>6, <2>2
  <2>4. Distinct(FlattenSeq(parts))
    BY <1>3, <2>3, DistinctFlatten
  <2> QED BY <1>5, <2>4
<1> QED BY <1>3, <1>5, <1>7, <1>8, FlattenTyped

-----------------------------------------------------------------------------
Names == ToSet(Sources)

RankInv ==
  /\ topK \in 1..MaxTopK
  /\ target \in Names \cup {None}
  /\ rows \in [Names -> Seq(0..MaxScore)]
  /\ \A s \in Names : /\ Len(rows[s]) <= PerSource
                      /\ \A i, j \in 1..Len(rows[s]) : i <= j => rows[s][j] <= rows[s][i]

LEMMA RankInvHolds == RankSpec => []RankInv
<1>1. RankInit => RankInv
  BY RankingAssumption DEF RankInit, RankInv, Names
<1>2. RankInv /\ [RankNext]_rankVars => RankInv'
  <2> SUFFICES ASSUME RankInv, [RankNext]_rankVars  PROVE RankInv'
    OBVIOUS
  <2> USE RankingAssumption
  <2>1. CASE RankNext
    <3>1. PICK s \in Names, score \in 0..MaxScore : Finds(s, score)
      BY <2>1 DEF RankNext, Names
    <3>2. /\ rows[s] \in Seq(0..MaxScore) /\ Len(rows[s]) \in Nat
          /\ DOMAIN rows = Names /\ rows' = [rows EXCEPT ![s] = Append(rows[s], score)]
          /\ topK' = topK /\ target' = target /\ Len(rows[s]) < PerSource
      BY <3>1 DEF RankInv, Finds
    <3> DEFINE longer == Append(rows[s], score)
    <3>3. /\ longer \in Seq(0..MaxScore) /\ Len(longer) = Len(rows[s]) + 1
          /\ \A i \in 1..Len(rows[s]) : longer[i] = rows[s][i]
          /\ longer[Len(rows[s]) + 1] = score
      BY <3>2
    <3>4. \A i \in 1..Len(rows[s]) : rows[s][i] \in Int /\ rows[s][i] >= score
      <4> SUFFICES ASSUME NEW i \in 1..Len(rows[s])
          PROVE  rows[s][i] \in Int /\ rows[s][i] >= score
        OBVIOUS
      <4>1. rows[s] # <<>> /\ Last(rows[s]) = rows[s][Len(rows[s])]
            /\ Len(rows[s]) \in 1..Len(rows[s])
        BY <3>2 DEF Last
      <4>2. score <= rows[s][Len(rows[s])]
        BY <3>1, <4>1 DEF Finds
      <4>3. rows[s][Len(rows[s])] <= rows[s][i]
        <5>1. \A i1, j1 \in 1..Len(rows[s]) : i1 <= j1 => rows[s][j1] <= rows[s][i1]
          BY DEF RankInv
        <5> QED BY <3>2, <4>1, <5>1
      <4>4. rows[s][i] \in 0..MaxScore /\ rows[s][Len(rows[s])] \in 0..MaxScore
        BY <3>2, <4>1
      <4> QED BY <4>2, <4>3, <4>4
    <3>5. \A i, j \in 1..Len(longer) : i <= j => longer[j] <= longer[i]
      <4> SUFFICES ASSUME NEW i \in 1..Len(longer), NEW j \in 1..Len(longer), i <= j
          PROVE  longer[j] <= longer[i]
        OBVIOUS
      <4> HIDE DEF longer
      <4>1. CASE j <= Len(rows[s])
        <5>1. i \in 1..Len(rows[s]) /\ j \in 1..Len(rows[s])
          BY <3>2, <3>3, <4>1
        <5> QED BY <3>3, <5>1 DEF RankInv
      <4>2. CASE j = Len(rows[s]) + 1
        <5>1. i \in 1..Len(rows[s]) \/ i = Len(rows[s]) + 1
          BY <3>2, <3>3
        <5>2. longer[j] = score /\ score \in Int
          BY <3>3, <4>2
        <5>3. CASE i \in 1..Len(rows[s])
          <6>1. longer[i] = rows[s][i] /\ rows[s][i] \in Int /\ rows[s][i] >= score
            BY <3>3, <3>4, <5>3
          <6> QED BY <5>2, <6>1
        <5>4. CASE i = Len(rows[s]) + 1
          <6>1. longer[i] = score
            BY <3>3, <5>4
          <6> QED BY <5>2, <6>1
        <5> QED BY <5>1, <5>3, <5>4
      <4> QED BY <3>2, <3>3, <4>1, <4>2
    <3>6. \A r \in Names : rows'[r] = IF r = s THEN longer ELSE rows[r]
      BY <3>2
    <3>7. rows' \in [Names -> Seq(0..MaxScore)]
      BY <3>2, <3>3 DEF RankInv
    <3> HIDE DEF longer
    <3>8. ASSUME NEW r \in Names
          PROVE  /\ Len(rows'[r]) <= PerSource
                 /\ \A i, j \in 1..Len(rows'[r]) : i <= j => rows'[r][j] <= rows'[r][i]
      <4>1. CASE r = s
        <5>1. rows'[r] = longer
          BY <3>6, <4>1
        <5>2. Len(longer) <= PerSource
          BY <3>2, <3>3
        <5> QED BY <3>5, <5>1, <5>2
      <4>2. CASE r # s
        BY <3>6, <4>2 DEF RankInv
      <4> QED BY <4>1, <4>2
    <3> QED BY <3>2, <3>7, <3>8 DEF RankInv, Names
  <2>2. CASE UNCHANGED rankVars
    BY <2>2 DEF RankInv, rankVars, Names
  <2> QED BY <2>1, <2>2
<1> QED BY <1>1, <1>2, PTL DEF RankSpec

-----------------------------------------------------------------------------
(* Scores.                                                                 *)

LEMMA DivOrder ==
  ASSUME NEW a \in Int, NEW b \in Int, NEW d \in Nat \ {0}, a <= b
  PROVE  a \div d \in Int /\ a \div d <= b \div d
OBVIOUS

LEMMA ProductOrder ==
  ASSUME NEW c \in Nat, NEW a \in Int, NEW b \in Int, b <= a
  PROVE  c * b <= c * a /\ c * b \in Int /\ c * a \in Int
<1>1. PICK d \in Nat : a = b + d
  <2>1. a - b \in Nat /\ a = b + (a - b)
    OBVIOUS
  <2> QED BY <2>1
<1>2. c * a = c * b + c * d /\ c * d \in Nat /\ c * b \in Int
  BY <1>1
<1> QED BY <1>2

LEMMA DivHalf ==
  ASSUME NEW q \in Nat, NEW d \in Nat \ {0}
  PROVE  (2 * q * d + d) \div (2 * d) = q
OBVIOUS

\* Normalised: whole numbers, the best one is Scale, and they do not rise.
LEMMA ScoresFound ==
  ASSUME RankInv, NEW s \in Names, rows[s] # <<>>
  PROVE  /\ 1 \in 1..Len(rows[s]) /\ Len(rows[s]) \in Nat
         /\ \A i \in 1..Len(rows[s]) : Normalised(s, i) \in Int
         /\ Normalised(s, 1) = Scale
         /\ \A i, j \in 1..Len(rows[s]) : i <= j => Normalised(s, j) <= Normalised(s, i)
<1> DEFINE n == Len(rows[s])
           least == Last(rows[s])
           spread == Head(rows[s]) - least
<1>1. rows[s] \in Seq(0..MaxScore)
  BY DEF RankInv
<1>2. n \in Nat /\ 1 \in 1..n /\ n \in 1..n /\ \A i \in 1..n : rows[s][i] \in 0..MaxScore
  <2>1. \A l \in Seq(0..MaxScore) : l # <<>> => Len(l) \in Nat \ {0}
    OBVIOUS
  <2>3. n \in Nat \ {0}
    BY <1>1, <2>1
  <2>4. \A i \in 1..n : rows[s][i] \in 0..MaxScore
    BY <1>1, ElementOfSeq
  <2> QED BY <2>3, <2>4
<1>3. least = rows[s][n] /\ Head(rows[s]) = rows[s][1]
  BY <1>1, <1>2 DEF Last
<1>4. \A i, j \in 1..n : i <= j => rows[s][j] <= rows[s][i]
  BY DEF RankInv
<1>5. /\ least \in Int /\ spread \in Int /\ Scale \in Nat \ {0}
      /\ \A i \in 1..n : rows[s][i] \in Int
  BY <1>2, <1>3, RankingAssumption
<1>6. spread = rows[s][1] - least
  BY <1>3
<1>7. \A i \in 1..n : Normalised(s, i) = IF spread > 0
                      THEN (2 * Scale * (rows[s][i] - least) + spread) \div (2 * spread)
                      ELSE Scale
  BY DEF Normalised
<1>8. CASE spread > 0
  <2> DEFINE up(i) == 2 * Scale * (rows[s][i] - least) + spread
  <2>1. spread \in Nat \ {0} /\ 2 * spread \in Nat \ {0}
    BY <1>5, <1>8
  <2>2. ASSUME NEW i \in 1..n  PROVE up(i) \in Int /\ Normalised(s, i) = up(i) \div (2 * spread)
    <3>1. Normalised(s, i) = up(i) \div (2 * spread)
      BY <1>7, <1>8
    <3>2. rows[s][i] - least \in Int /\ 2 * Scale \in Int
      BY <1>5
    <3>3. 2 * Scale * (rows[s][i] - least) \in Int
      BY <3>2
    <3> QED BY <1>5, <3>1, <3>3
  <2>3. ASSUME NEW i \in 1..n, NEW j \in 1..n, i <= j  PROVE up(j) <= up(i)
    <3> DEFINE a == rows[s][i] - least
               b == rows[s][j] - least
               c == 2 * Scale
    <3>1. a \in Int /\ b \in Int /\ c \in Nat
      BY <1>5
    <3>2. b <= a
      BY <1>4, <1>5, <2>3
    <3>3. up(i) = c * a + spread /\ up(j) = c * b + spread
      OBVIOUS
    <3> HIDE DEF a, b, c, up, spread
    <3>4. c * b <= c * a /\ c * b \in Int /\ c * a \in Int
      BY <3>1, <3>2, ProductOrder
    <3> QED BY <1>5, <3>3, <3>4
  <2>4. up(1) = 2 * Scale * spread + spread
    BY <1>6
  <2> HIDE DEF up, spread, least
  <2>5. Normalised(s, 1) = Scale
    BY <1>2, <1>5, <2>1, <2>2, <2>4, DivHalf
  <2>6. \A i, j \in 1..n : i <= j => Normalised(s, j) <= Normalised(s, i)
    BY <2>1, <2>2, <2>3, DivOrder
  <2>7. \A i \in 1..n : Normalised(s, i) \in Int
    BY <2>1, <2>2
  <2> QED BY <1>2, <2>5, <2>6, <2>7
<1>9. CASE ~ (spread > 0)
  <2>1. \A i \in 1..n : Normalised(s, i) = Scale
    BY <1>7, <1>9
  <2> QED BY <1>2, <1>5, <2>1
<1> QED BY <1>8, <1>9

-----------------------------------------------------------------------------
(* Chunks.                                                                 *)

ChunkPlaces == {c \in Names \X (1..PerSource) : c[2] <= Len(rows[c[1]])}
AllChunks == {Chunk(c[1], c[2]) : c \in ChunkPlaces}

LEMMA ChunkFields ==
  \A s, i : Chunk(s, i).src = s /\ Chunk(s, i).rank = i
BY DEF Chunk

LEMMA PlaceOfRow ==
  ASSUME RankInv, NEW s \in Names, NEW i \in 1..Len(rows[s])
  PROVE  <<s, i>> \in ChunkPlaces /\ Chunk(s, i) \in AllChunks /\ rows[s] # <<>>
<1>1. rows[s] \in Seq(0..MaxScore) /\ Len(rows[s]) \in Nat /\ Len(rows[s]) <= PerSource
  BY DEF RankInv
<1>2. <<s, i>> \in ChunkPlaces
  BY <1>1, RankingAssumption DEF ChunkPlaces
<1>3. <<s, i>>[1] = s /\ <<s, i>>[2] = i
  OBVIOUS
<1>4. rows[s] # <<>>
  BY <1>1
<1> QED BY <1>2, <1>3, <1>4 DEF AllChunks

\* There are as many chunks as places.
LEMMA AllChunksCounted ==
  ASSUME RankInv
  PROVE  IsFiniteSet(AllChunks) /\ Cardinality(AllChunks) = Cardinality(ChunkPlaces)
<1>1. IsFiniteSet(Names)
  BY RankingAssumption, LenOfDistinct DEF Names, Distinct
<1>2. IsFiniteSet(1..PerSource)
  BY RankingAssumption, FS_Interval
<1>3. IsFiniteSet(ChunkPlaces)
  <2>1. ChunkPlaces \in SUBSET (Names \X (1..PerSource))
    BY DEF ChunkPlaces
  <2>2. IsFiniteSet(Names \X (1..PerSource))
    BY <1>1, <1>2, FS_Product
  <2> QED BY <2>1, <2>2, FS_Subset
<1> DEFINE f == [c \in ChunkPlaces |-> Chunk(c[1], c[2])]
<1>4. f \in Bijection(ChunkPlaces, AllChunks)
  <2>1. f \in [ChunkPlaces -> AllChunks]
    BY DEF AllChunks
  <2>2. ASSUME NEW c \in ChunkPlaces, NEW d \in ChunkPlaces, f[c] = f[d]  PROVE c = d
    <3>1. f[c] = Chunk(c[1], c[2]) /\ f[d] = Chunk(d[1], d[2])
      OBVIOUS
    <3>2. c[1] = d[1] /\ c[2] = d[2]
      <4>1. f[c].src = c[1] /\ f[c].rank = c[2] /\ f[d].src = d[1] /\ f[d].rank = d[2]
        BY <3>1, ChunkFields
      <4> HIDE DEF f
      <4> QED BY <2>2, <4>1
    <3>3. c = <<c[1], c[2]>> /\ d = <<d[1], d[2]>>
      BY DEF ChunkPlaces
    <3> QED BY <3>2, <3>3
  <2>3. \A e \in AllChunks : \E c \in ChunkPlaces : f[c] = e
    BY DEF AllChunks
  <2> QED BY <2>1, <2>2, <2>3 DEF Bijection, Injection, Surjection, IsInjective
<1>5. ExistsBijection(ChunkPlaces, AllChunks)
  BY <1>4 DEF ExistsBijection
<1> QED BY <1>3, <1>5, FS_Bijection

LEMMA PresentFound ==
  ASSUME RankInv
  PROVE  /\ Present \in Seq(Names) /\ Distinct(Present)
         /\ ToSet(Present) = {s \in Names : rows[s] # <<>>}
<1>1. Sources \in Seq(Names) /\ Distinct(Sources)
  BY RankingAssumption DEF Names, Distinct
<1> QED BY <1>1, ThoseFound DEF Present, Names

LEMMA ChunksFound ==
  ASSUME RankInv, NEW s \in Names, NEW n \in Nat \ {0}, rows[s] # <<>>
  PROVE  /\ Chunks(s, n) \in Seq(AllChunks) /\ Distinct(Chunks(s, n))
         /\ \A c \in ToSet(Chunks(s, n)) : c.src = s
         /\ Chunk(s, 1) \in ToSet(Chunks(s, n))
<1> DEFINE m == Min({n, Len(rows[s])})
<1>1. Len(rows[s]) \in Nat /\ 1 \in 1..Len(rows[s])
  BY ScoresFound
<1>2. m \in Nat /\ 1 <= m /\ m <= Len(rows[s])
  BY <1>1, LessOrMore
<1>3. Chunks(s, n) = [i \in 1..m |-> Chunk(s, i)]
  BY DEF Chunks
<1> HIDE DEF m
<1>4. ASSUME NEW i \in 1..m  PROVE Chunk(s, i) \in AllChunks
  <2>1. i \in 1..Len(rows[s])
    BY <1>1, <1>2
  <2> QED BY <2>1, PlaceOfRow
<1>5. Chunks(s, n) \in Seq(AllChunks) /\ Len(Chunks(s, n)) = m
  BY <1>2, <1>3, <1>4
<1>6. \A i \in 1..m : Chunks(s, n)[i] = Chunk(s, i)
  BY <1>3
<1>7. Distinct(Chunks(s, n))
  BY <1>5, <1>6, ChunkFields DEF Distinct
<1>8. ToSet(Chunks(s, n)) = {Chunk(s, i) : i \in 1..m}
  BY <1>3 DEF ToSet
<1> QED BY <1>2, <1>5, <1>7, <1>8, ChunkFields

\* Every source with a row has a slot.
LEMMA SlotsFound ==
  ASSUME RankInv, NEW s, Present # <<>>
  PROVE  Slots(s) \in Nat \ {0}
<1> DEFINE n == Len(Present)
           boosted == Max({1, (7 * topK) \div 10})
<1>1. topK \in Nat
  BY RankingAssumption DEF RankInv
<1>2. n \in Nat \ {0}
  <2>1. Present \in Seq(Names)
    BY PresentFound
  <2> QED BY <2>1
<1> DEFINE atLeastOne(x) == Max({1, x})
<1>3. ASSUME NEW x \in Int  PROVE atLeastOne(x) \in Nat \ {0}
  <2>1. 1 \in Int
    OBVIOUS
  <2>2. Max({1, x}) = IF 1 >= x THEN 1 ELSE x
    BY <2>1, LessOrMore
  <2> QED BY <2>2
<1>4. Slots(s) = IF target \notin ToSet(Present) THEN atLeastOne(topK \div n)
                 ELSE IF s = target THEN boosted
                 ELSE atLeastOne((topK - boosted) \div atLeastOne(n - 1))
  BY DEF Slots
<1>5. boosted = atLeastOne((7 * topK) \div 10) /\ (7 * topK) \div 10 \in Int
  BY <1>1
<1> HIDE DEF n, boosted, atLeastOne
<1>6. boosted \in Nat \ {0}
  BY <1>3, <1>5
<1>7. atLeastOne(topK \div n) \in Nat \ {0}
  <2>1. topK \div n \in Int
    BY <1>1, <1>2
  <2> QED BY <1>3, <2>1
<1>8. atLeastOne((topK - boosted) \div atLeastOne(n - 1)) \in Nat \ {0}
  <2>1. n - 1 \in Int
    BY <1>2
  <2>2. PICK d \in Nat \ {0} : d = atLeastOne(n - 1)
    BY <1>3, <2>1
  <2>3. (topK - boosted) \div d \in Int
    BY <1>1, <1>6
  <2> QED BY <1>3, <2>2, <2>3
<1> QED BY <1>4, <1>6, <1>7, <1>8

\* The slots of a source hold its own chunks, the best one first.
LEMMA AllocatedFound ==
  ASSUME RankInv
  PROVE  /\ Allocated \in Seq(AllChunks) /\ Distinct(Allocated)
         /\ \A s \in ToSet(Present) : Chunk(s, 1) \in ToSet(Allocated)
<1> DEFINE first == Those(Present, {target})
           others == Those(Present, Names \ {target})
           order == InOrder
<1>1. order = first \o others
  BY DEF InOrder, Names
<1>2. Present \in Seq(Names) /\ Distinct(Present)
      /\ ToSet(Present) = {s \in Names : rows[s] # <<>>}
  BY PresentFound
<1>3. /\ first \in Seq(Names) /\ ToSet(first) = ToSet(Present) \cap {target}
      /\ others \in Seq(Names) /\ ToSet(others) = ToSet(Present) \cap (Names \ {target})
      /\ Distinct(first) /\ Distinct(others)
  BY <1>2, ThoseFound
<1> HIDE DEF first, others
<1>4. order \in Seq(Names) /\ Distinct(order)
  BY <1>1, <1>3, ConcatProperties, DistinctConcat
<1>5. ToSet(order) = ToSet(Present)
  <2>1. ToSet(order) = ToSet(first) \cup ToSet(others)
    BY <1>1, <1>3, ElementsOfConcat
  <2> QED BY <1>2, <1>3, <2>1
<1> HIDE DEF order
<1> DEFINE parts == [k \in DOMAIN order |-> Chunks(order[k], Slots(order[k]))]
<1>6. Allocated = FlattenSeq(parts)
  BY DEF Allocated, order
<1>7. Len(order) \in Nat /\ DOMAIN order = 1..Len(order)
  BY <1>4
<1>8. \A k \in 1..Len(order) : parts[k] = Chunks(order[k], Slots(order[k]))
  BY <1>7
<1>9. ToSet(order) = {order[k] : k \in 1..Len(order)}
  BY <1>7 DEF ToSet
<1>10. ASSUME NEW k \in 1..Len(order)
       PROVE  /\ Chunks(order[k], Slots(order[k])) \in Seq(AllChunks)
              /\ Distinct(Chunks(order[k], Slots(order[k])))
              /\ \A c \in ToSet(Chunks(order[k], Slots(order[k]))) : c.src = order[k]
              /\ Chunk(order[k], 1) \in ToSet(Chunks(order[k], Slots(order[k])))
  <2>1. order[k] \in Names /\ rows[order[k]] # <<>>
    BY <1>2, <1>5, <1>9
  <2>2. Present # <<>>
    <3>1. ToSet(Present) # {}
      BY <1>5, <1>9
    <3>2. ToSet(<<>>) = {}
      BY DEF ToSet
    <3> QED BY <3>1, <3>2
  <2> QED BY <2>1, <2>2, SlotsFound, ChunksFound
<1>11. parts \in Seq(Seq(AllChunks)) /\ Len(parts) = Len(order)
  <2>1. parts = [k \in 1..Len(order) |-> Chunks(order[k], Slots(order[k]))]
    BY <1>7
  <2> QED BY <1>7, <1>10, <2>1
<1>12. \A k \in 1..Len(order) : /\ Distinct(parts[k])
                               /\ \A c \in ToSet(parts[k]) : c.src = order[k]
                               /\ Chunk(order[k], 1) \in ToSet(parts[k])
  BY <1>8, <1>10
<1> HIDE DEF parts
<1>13. \A j, k \in 1..Len(order) : order[j] = order[k] => j = k
  BY <1>4 DEF Distinct
<1>14. \A j, k \in 1..Len(order) : j # k => ToSet(parts[j]) \cap ToSet(parts[k]) = {}
  <2> SUFFICES ASSUME NEW j \in 1..Len(order), NEW k \in 1..Len(order), j # k,
                      NEW c \in ToSet(parts[j]) \cap ToSet(parts[k])
      PROVE FALSE
    OBVIOUS
  <2>1. c.src = order[j] /\ c.src = order[k]
    BY <1>12
  <2> QED BY <1>13, <2>1
<1>15. Distinct(Allocated)
  <2>1. /\ \A k \in 1..Len(parts) : Distinct(parts[k])
        /\ \A j, k \in 1..Len(parts) : j # k => ToSet(parts[j]) \cap ToSet(parts[k]) = {}
    BY <1>11, <1>12, <1>14
  <2> QED BY <1>6, <1>11, <2>1, DistinctFlatten
<1>16. Allocated \in Seq(AllChunks)
  BY <1>6, <1>11, FlattenTyped
<1>17. ASSUME NEW s \in ToSet(Present)  PROVE Chunk(s, 1) \in ToSet(Allocated)
  <2>1. PICK k \in 1..Len(order) : s = order[k]
    BY <1>5, <1>9
  <2>2. Chunk(s, 1) \in ToSet(parts[k]) /\ k \in 1..Len(parts)
    <3>1. Chunk(order[k], 1) \in ToSet(Chunks(order[k], Slots(order[k])))
      BY <1>10
    <3>2. parts[k] = Chunks(order[k], Slots(order[k]))
      BY <1>8
    <3> QED BY <1>11, <2>1, <3>1, <3>2
  <2>3. ToSet(Allocated) = UNION {ToSet(parts[i]) : i \in 1..Len(parts)}
    BY <1>6, <1>11, ElementsOfFlatten
  <2> QED BY <2>2, <2>3
<1> QED BY <1>15, <1>16, <1>17

\* Every chunk has its turn, once.
LEMMA TurnsFound ==
  ASSUME RankInv
  PROVE  Turns \in Seq(AllChunks) /\ Distinct(Turns) /\ ToSet(Turns) = AllChunks
<1> DEFINE list == Present
<1>1. list \in Seq(Names) /\ Distinct(list) /\ ToSet(list) = {s \in Names : rows[s] # <<>>}
  BY PresentFound
<1>2. PerSource \in Nat
  BY RankingAssumption
<1> DEFINE piece(d, k) == IF d <= Len(rows[list[k]]) THEN <<Chunk(list[k], d)>> ELSE <<>>
           turn(d) == [k \in DOMAIN list |-> piece(d, k)]
           round(d) == FlattenSeq(turn(d))
           rounds == [d \in 1..PerSource |-> round(d)]
<1>3. Turns = FlattenSeq(rounds)
  BY DEF Turns
<1> HIDE DEF list
<1>4. /\ Len(list) \in Nat /\ DOMAIN list = 1..Len(list)
      /\ ToSet(list) = {list[k] : k \in 1..Len(list)}
      /\ \A k \in 1..Len(list) : list[k] \in Names
  BY <1>1 DEF ToSet
<1>5. ASSUME NEW d \in 1..PerSource, NEW k \in 1..Len(list)
      PROVE  /\ piece(d, k) \in Seq(AllChunks) /\ Distinct(piece(d, k))
             /\ ToSet(piece(d, k)) = IF d <= Len(rows[list[k]]) THEN {Chunk(list[k], d)} ELSE {}
  <2>1. CASE d <= Len(rows[list[k]])
    <3>1. list[k] \in Names /\ rows[list[k]] \in Seq(0..MaxScore)
      BY <1>4 DEF RankInv
    <3>2. d \in 1..Len(rows[list[k]])
      BY <2>1, <3>1
    <3>3. Chunk(list[k], d) \in AllChunks
      BY <3>1, <3>2, PlaceOfRow
    <3>4. piece(d, k) = <<Chunk(list[k], d)>>
      BY <2>1
    <3>5. \A c : ToSet(<<c>>) = {c} /\ Distinct(<<c>>)
      BY DEF ToSet, Distinct
    <3> HIDE DEF piece
    <3> QED BY <2>1, <3>3, <3>4, <3>5
  <2>2. CASE ~ (d <= Len(rows[list[k]]))
    <3>1. piece(d, k) = <<>> /\ <<>> \in Seq(AllChunks)
      BY <2>2
    <3>2. ToSet(<<>>) = {} /\ Distinct(<<>>)
      BY DEF ToSet, Distinct
    <3> HIDE DEF piece
    <3> QED BY <2>2, <3>1, <3>2
  <2> QED BY <2>1, <2>2
<1>6. ASSUME NEW d \in 1..PerSource
      PROVE  /\ turn(d) \in Seq(Seq(AllChunks)) /\ Len(turn(d)) = Len(list)
             /\ \A k \in 1..Len(list) : turn(d)[k] = piece(d, k)
  <2> HIDE DEF piece
  <2>1. turn(d) = [k \in 1..Len(list) |-> piece(d, k)]
    BY <1>4
  <2> QED BY <1>4, <1>5, <2>1
<1>7. ASSUME NEW d \in 1..PerSource
      PROVE  /\ round(d) \in Seq(AllChunks) /\ Distinct(round(d))
             /\ ToSet(round(d)) = {Chunk(s, d) : s \in {t \in Names : d <= Len(rows[t])}}
  <2> HIDE DEF piece, turn
  <2>1. round(d) \in Seq(AllChunks)
    BY <1>6, FlattenTyped
  <2>2. ToSet(round(d)) = UNION {ToSet(turn(d)[k]) : k \in 1..Len(turn(d))}
    BY <1>6, ElementsOfFlatten
  <2>3. \A k \in 1..Len(list) : ToSet(turn(d)[k])
           = IF d <= Len(rows[list[k]]) THEN {Chunk(list[k], d)} ELSE {}
    BY <1>5, <1>6
  <2>4. ToSet(round(d)) = UNION {ToSet(turn(d)[k]) : k \in 1..Len(list)}
    BY <1>6, <2>2
  <2>11. ASSUME NEW k \in 1..Len(list), NEW c \in ToSet(turn(d)[k])
         PROVE  d <= Len(rows[list[k]]) /\ c = Chunk(list[k], d) /\ c.src = list[k]
    <3>1. CASE d <= Len(rows[list[k]])
      <4>1. ToSet(turn(d)[k]) = {Chunk(list[k], d)}
        BY <2>3, <3>1
      <4>2. c = Chunk(list[k], d)
        BY <4>1
      <4> QED BY <3>1, <4>2, ChunkFields
    <3>2. CASE ~ (d <= Len(rows[list[k]]))
      <4>1. ToSet(turn(d)[k]) = {}
        BY <2>3, <3>2
      <4> QED BY <4>1
    <3> QED BY <3>1, <3>2
  <2>5. \A k \in 1..Len(list) : \A c \in ToSet(turn(d)[k]) : c.src = list[k]
    BY <2>11
  <2>6. \A j, k \in 1..Len(list) : list[j] = list[k] => j = k
    BY <1>1 DEF Distinct
  <2>7. \A j, k \in 1..Len(list) : j # k => ToSet(turn(d)[j]) \cap ToSet(turn(d)[k]) = {}
    <3> SUFFICES ASSUME NEW j \in 1..Len(list), NEW k \in 1..Len(list), j # k,
                        NEW c \in ToSet(turn(d)[j]) \cap ToSet(turn(d)[k])
        PROVE FALSE
      OBVIOUS
    <3>1. c.src = list[j] /\ c.src = list[k]
      BY <2>5
    <3> QED BY <2>6, <3>1
  <2>8. Distinct(round(d))
    <3>1. /\ \A k \in 1..Len(turn(d)) : Distinct(turn(d)[k])
          /\ \A j, k \in 1..Len(turn(d)) :
               j # k => ToSet(turn(d)[j]) \cap ToSet(turn(d)[k]) = {}
      BY <1>5, <1>6, <2>7
    <3> QED BY <1>6, <3>1, DistinctFlatten
  <2> HIDE DEF round
  <2>9. ASSUME NEW c \in ToSet(round(d))
        PROVE  c \in {Chunk(s, d) : s \in {t \in Names : d <= Len(rows[t])}}
    <3>1. PICK k \in 1..Len(list) : c \in ToSet(turn(d)[k])
      BY <2>4
    <3>2. d <= Len(rows[list[k]]) /\ c = Chunk(list[k], d) /\ list[k] \in Names
      BY <1>4, <2>11, <3>1
    <3> QED BY <3>2
  <2>10. ASSUME NEW s \in Names, d <= Len(rows[s])  PROVE Chunk(s, d) \in ToSet(round(d))
    <3>1. rows[s] \in Seq(0..MaxScore) /\ d >= 1
      BY DEF RankInv
    <3>2. rows[s] # <<>>
      BY <2>10, <3>1
    <3>3. PICK k \in 1..Len(list) : s = list[k]
      BY <1>1, <1>4, <3>2
    <3>4. Chunk(s, d) \in ToSet(turn(d)[k])
      BY <2>3, <2>10, <3>3
    <3> QED BY <2>4, <3>4
  <2> QED BY <2>1, <2>8, <2>9, <2>10
<1> HIDE DEF piece, turn, round
<1>8. rounds \in Seq(Seq(AllChunks)) /\ Len(rounds) = PerSource
      /\ \A d \in 1..PerSource : rounds[d] = round(d)
  BY <1>2, <1>7
<1> HIDE DEF rounds
<1>9. \A d \in 1..PerSource : \A c \in ToSet(rounds[d]) : c.rank = d
  BY <1>7, <1>8, ChunkFields
<1>10. \A d, e \in 1..PerSource : d # e => ToSet(rounds[d]) \cap ToSet(rounds[e]) = {}
  BY <1>9
<1>11. Distinct(Turns)
  <2>1. /\ \A d \in 1..Len(rounds) : Distinct(rounds[d])
        /\ \A d, e \in 1..Len(rounds) : d # e => ToSet(rounds[d]) \cap ToSet(rounds[e]) = {}
    BY <1>7, <1>8, <1>10
  <2> QED BY <1>3, <1>8, <2>1, DistinctFlatten
<1>12. Turns \in Seq(AllChunks)
  BY <1>3, <1>8, FlattenTyped
<1>13. ToSet(Turns) = UNION {ToSet(round(d)) : d \in 1..PerSource}
  <2>1. ToSet(Turns) = UNION {ToSet(rounds[d]) : d \in 1..Len(rounds)}
    BY <1>3, <1>8, ElementsOfFlatten
  <2> QED BY <1>8, <2>1
<1>14. ToSet(Turns) \subseteq AllChunks
  BY <1>12 DEF ToSet
<1>15. ASSUME NEW c \in ChunkPlaces  PROVE Chunk(c[1], c[2]) \in ToSet(Turns)
  <2>1. c[1] \in Names /\ c[2] \in 1..PerSource /\ c[2] <= Len(rows[c[1]])
    BY DEF ChunkPlaces
  <2>2. Chunk(c[1], c[2]) \in ToSet(round(c[2]))
    BY <1>7, <2>1
  <2> QED BY <1>13, <2>1, <2>2
<1>16. AllChunks \subseteq ToSet(Turns)
  BY <1>15 DEF AllChunks
<1> QED BY <1>11, <1>12, <1>14, <1>16

-----------------------------------------------------------------------------
(* The list.                                                               *)

\* The allocated chunks, then as many of the others as there is room for.
LEMMA FilledFound ==
  ASSUME RankInv
  PROVE  /\ Filled \in Seq(AllChunks) /\ Distinct(Filled)
         /\ Len(Filled) \in Nat /\ Len(Filled) <= Cardinality(AllChunks)
         /\ Len(Filled) < topK => Len(Filled) = Cardinality(AllChunks)
         /\ Len(Allocated) <= topK => Len(Filled) <= topK
         /\ \A c \in ToSet(Allocated) : \E x \in 1..Len(Filled) : Filled[x] = c
<1> DEFINE own == Allocated
           rest == Those(Turns, ToSet(Turns) \ ToSet(own))
           room == Max({0, topK - Len(own)})
           more == Min({Len(rest), room})
           tail == SubSeq(rest, 1, more)
<1>1. /\ own \in Seq(AllChunks) /\ Distinct(own)
      /\ Turns \in Seq(AllChunks) /\ Distinct(Turns) /\ ToSet(Turns) = AllChunks
  BY AllocatedFound, TurnsFound
<1>2. /\ rest \in Seq(AllChunks) /\ Distinct(rest)
      /\ ToSet(rest) = AllChunks \ ToSet(own)
  <2>1. /\ rest \in Seq(AllChunks) /\ Distinct(rest)
        /\ ToSet(rest) = ToSet(Turns) \cap (ToSet(Turns) \ ToSet(own))
    BY <1>1, ThoseFound
  <2> QED BY <1>1, <2>1
<1>3. Filled = own \o tail
  BY DEF Filled
<1>4. topK \in Nat
  BY RankingAssumption DEF RankInv
<1> HIDE DEF own, rest
<1>5. Len(own) \in Nat /\ Len(rest) \in Nat /\ 0 \in Int
  BY <1>1, <1>2, LenProperties
<1>6. room = IF topK <= Len(own) THEN 0 ELSE topK - Len(own)
  <2>1. PICK d \in Int : d = topK - Len(own) /\ (0 >= d <=> topK <= Len(own))
    BY <1>4, <1>5
  <2>2. Max({0, d}) = IF 0 >= d THEN 0 ELSE d
    BY <1>5, LessOrMore
  <2> QED BY <2>1, <2>2
<1>7. more = IF Len(rest) <= room THEN Len(rest) ELSE room
  <2>1. room \in Int
    BY <1>4, <1>5, <1>6
  <2> HIDE DEF room
  <2> QED BY <1>5, <2>1, LessOrMore
<1> HIDE DEF room, more
<1>8. more \in 0..Len(rest)
  BY <1>4, <1>5, <1>6, <1>7
<1>9. /\ tail \in Seq(AllChunks) /\ Len(tail) = more
      /\ \A i \in 1..more : tail[i] = rest[i] /\ i \in 1..Len(rest)
  BY <1>2, <1>5, <1>8
<1> HIDE DEF tail
<1>10. Distinct(tail)
  BY <1>2, <1>9 DEF Distinct
<1>11. ToSet(tail) \subseteq ToSet(rest)
  BY <1>2, <1>9 DEF ToSet
<1>12. ToSet(own) \cap ToSet(tail) = {}
  BY <1>2, <1>11
<1>13. Distinct(Filled) /\ Filled \in Seq(AllChunks) /\ Len(Filled) = Len(own) + more
  BY <1>1, <1>3, <1>9, <1>10, <1>12, DistinctConcat, ConcatProperties
<1>14. Cardinality(AllChunks) = Len(own) + Len(rest)
  <2>1. ToSet(own) \subseteq AllChunks
    BY <1>1 DEF ToSet
  <2>2. /\ IsFiniteSet(ToSet(own)) /\ Cardinality(ToSet(own)) = Len(own)
        /\ IsFiniteSet(ToSet(rest)) /\ Cardinality(ToSet(rest)) = Len(rest)
    BY <1>1, <1>2, LenOfDistinct
  <2>3. ToSet(own) \cap ToSet(rest) = {} /\ ToSet(own) \cup ToSet(rest) = AllChunks
    BY <1>2, <2>1
  <2>4. Cardinality(AllChunks) = Cardinality(ToSet(own)) + Cardinality(ToSet(rest))
    <3>1. Cardinality(ToSet(own) \cap ToSet(rest)) = 0
      BY <2>3, FS_EmptySet
    <3>2. Cardinality(ToSet(own) \cup ToSet(rest))
            = Cardinality(ToSet(own)) + Cardinality(ToSet(rest))
              - Cardinality(ToSet(own) \cap ToSet(rest))
      BY <2>2, FS_Union
    <3>3. Cardinality(ToSet(own)) \in Nat /\ Cardinality(ToSet(rest)) \in Nat
      BY <1>5, <2>2
    <3>4. Cardinality(ToSet(own) \cup ToSet(rest)) = Cardinality(AllChunks)
      BY <2>3
    <3> QED BY <3>1, <3>2, <3>3, <3>4
  <2> QED BY <2>2, <2>4
<1>15. ASSUME NEW c \in ToSet(own)  PROVE \E x \in 1..Len(Filled) : Filled[x] = c
  <2>1. PICK x \in 1..Len(own) : own[x] = c
    BY <1>1 DEF ToSet
  <2>2. x \in 1..Len(Filled) /\ Filled[x] = own[x]
    <3>1. Filled[x] = own[x]
      BY <1>1, <1>3, <1>9, ConcatProperties
    <3> QED BY <1>5, <1>8, <1>13, <3>1
  <2> QED BY <2>1, <2>2
<1>16. Len(Filled) \in Nat /\ Len(Filled) <= Cardinality(AllChunks)
  BY <1>5, <1>8, <1>13, <1>14
<1>17. Len(Filled) < topK => Len(Filled) = Cardinality(AllChunks)
  BY <1>4, <1>5, <1>6, <1>7, <1>8, <1>13, <1>14
<1>18. Len(own) <= topK => Len(Filled) <= topK
  BY <1>4, <1>5, <1>6, <1>7, <1>8, <1>13
<1> QED BY <1>13, <1>15, <1>16, <1>17, <1>18 DEF own

LEMMA ChunkScores ==
  ASSUME RankInv, NEW c \in AllChunks
  PROVE  /\ c.score \in Int /\ c.src \in Names
         /\ c.rank \in 1..Len(rows[c.src]) /\ rows[c.src] # <<>>
         /\ c = Chunk(c.src, c.rank) /\ c.score = Normalised(c.src, c.rank)
<1>1. PICK p \in ChunkPlaces : c = Chunk(p[1], p[2])
  BY DEF AllChunks
<1>2. p[1] \in Names /\ p[2] \in 1..PerSource /\ p[2] <= Len(rows[p[1]])
  BY DEF ChunkPlaces
<1>3. c.src = p[1] /\ c.rank = p[2] /\ c.score = Normalised(p[1], p[2])
  BY <1>1 DEF Chunk
<1>4. rows[p[1]] \in Seq(0..MaxScore)
  BY <1>2 DEF RankInv
<1>5. p[2] \in 1..Len(rows[p[1]])
  BY <1>2, <1>4
<1>6. rows[p[1]] # <<>>
  BY <1>4, <1>5
<1>7. Normalised(p[1], p[2]) \in Int
  BY <1>2, <1>5, <1>6, ScoresFound
<1> QED BY <1>1, <1>2, <1>3, <1>5, <1>6, <1>7

\* Sorting gives every place of the list one of its own.
LEMMA SortedPlaces ==
  ASSUME RankInv
  PROVE  /\ \A x \in 1..Len(Filled) : Cardinality(Before(Filled, x)) \in 0..(Len(Filled) - 1)
         /\ \A x, y \in 1..Len(Filled) :
              Cardinality(Before(Filled, x)) = Cardinality(Before(Filled, y)) => x = y
         /\ \A k \in 0..(Len(Filled) - 1) :
              \E x \in 1..Len(Filled) : Cardinality(Before(Filled, x)) = k
<1> DEFINE list == Filled
           n == Len(list)
<1>1. list \in Seq(AllChunks) /\ n \in Nat
  BY FilledFound
<1> HIDE DEF list
<1>2. DOMAIN list = 1..n /\ \A x \in 1..n : list[x] \in AllChunks
  BY <1>1
<1>3. \A x \in 1..n : list[x].score \in Int
  BY <1>2, ChunkScores
<1> HIDE DEF n
<1> DEFINE before == [x \in 1..n |-> Before(list, x)]
<1>4. before \in [1..n -> SUBSET (1..n)]
  BY <1>2 DEF Before
<1>5. \A x \in 1..n : before[x] = Before(list, x)
  OBVIOUS
<1> HIDE DEF before
<1>6. \A x, y \in 1..n : y \in before[x]
        <=> \/ list[y].score > list[x].score
            \/ list[y].score = list[x].score /\ y < x
  BY <1>2, <1>5 DEF Before
<1>7. n \in Nat
  BY <1>1 DEF n
<1>8. \A x \in 1..n : x \notin before[x]
  BY <1>3, <1>6
<1>9. \A x, y \in 1..n : x # y => x \in before[y] \/ y \in before[x]
  BY <1>3, <1>6, <1>7
<1>10. ASSUME NEW x \in 1..n, NEW y \in 1..n, x \in before[y]
       PROVE  before[x] \subseteq before[y]
  <2> SUFFICES ASSUME NEW z \in before[x]  PROVE z \in before[y]
    OBVIOUS
  <2>1. z \in 1..n
    BY <1>4
  <2> QED BY <1>3, <1>6, <1>7, <1>10, <2>1
<1>11. /\ \A x \in 1..n : Cardinality(before[x]) \in 0..(n - 1)
       /\ \A x, y \in 1..n : Cardinality(before[x]) = Cardinality(before[y]) => x = y
       /\ \A k \in 0..(n - 1) : \E x \in 1..n : Cardinality(before[x]) = k
  BY <1>4, <1>7, <1>8, <1>9, <1>10, PlacesOfOrder
<1>12. /\ \A x \in 1..n : Cardinality(Before(list, x)) \in 0..(n - 1)
       /\ \A x, y \in 1..n :
            Cardinality(Before(list, x)) = Cardinality(Before(list, y)) => x = y
       /\ \A k \in 0..(n - 1) : \E x \in 1..n : Cardinality(Before(list, x)) = k
  BY <1>5, <1>11
<1> QED BY <1>12 DEF list, n

\* The sorted list has the first top_k places of the order, each once.
LEMMA RankedFound ==
  ASSUME RankInv
  PROVE  /\ Ranked \in Seq(AllChunks) /\ Distinct(Ranked)
         /\ Len(Ranked) = Min({topK, Len(Filled)})
         /\ \A x \in 1..Len(Filled) : Cardinality(Before(Filled, x)) < topK
              => \E k \in DOMAIN Ranked : Ranked[k] = Filled[x]
<1> DEFINE n == Len(Filled)
           m == Min({topK, n})
           place(k) == CHOOSE x \in DOMAIN Filled : Cardinality(Before(Filled, x)) = k - 1
<1>1. Ranked = [k \in 1..m |-> Filled[place(k)]]
  BY DEF Ranked
<1>2. Filled \in Seq(AllChunks) /\ Distinct(Filled) /\ n \in Nat
  BY FilledFound
<1>3. DOMAIN Filled = 1..n /\ \A x \in 1..n : Filled[x] \in AllChunks
  BY <1>2
<1>4. topK \in Nat \ {0}
  BY RankingAssumption DEF RankInv
<1>5. m = IF topK <= n THEN topK ELSE n
  BY <1>2, <1>4, LessOrMore
<1>6. /\ \A x \in 1..n : Cardinality(Before(Filled, x)) \in 0..(n - 1)
      /\ \A x, y \in 1..n :
           Cardinality(Before(Filled, x)) = Cardinality(Before(Filled, y)) => x = y
      /\ \A k \in 0..(n - 1) : \E x \in 1..n : Cardinality(Before(Filled, x)) = k
  BY SortedPlaces
<1>7. ASSUME NEW k \in 1..n
      PROVE  place(k) \in 1..n /\ Cardinality(Before(Filled, place(k))) = k - 1
  <2>1. k - 1 \in 0..(n - 1)
    BY <1>2
  <2>2. \E x \in DOMAIN Filled : Cardinality(Before(Filled, x)) = k - 1
    BY <1>3, <1>6, <2>1
  <2> QED BY <1>3, <2>2
<1> HIDE DEF n, m, place
<1>8. m \in Nat /\ m <= n /\ m <= topK
  BY <1>2, <1>4, <1>5
<1>9. Ranked \in Seq(AllChunks) /\ Len(Ranked) = m /\ DOMAIN Ranked = 1..m
      /\ \A k \in 1..m : Ranked[k] = Filled[place(k)]
  <2>1. \A k \in 1..m : Filled[place(k)] \in AllChunks
    BY <1>2, <1>3, <1>7, <1>8
  <2> QED BY <1>1, <1>8, <2>1
<1>10. ASSUME NEW j \in 1..m, NEW k \in 1..m, Ranked[j] = Ranked[k]  PROVE j = k
  <2>1. j \in 1..n /\ k \in 1..n
    BY <1>2, <1>8
  <2>2. place(j) \in 1..n /\ place(k) \in 1..n
    BY <1>7, <2>1
  <2>3. Filled[place(j)] = Filled[place(k)]
    BY <1>9, <1>10
  <2>4. place(j) = place(k)
    BY <1>2, <2>2, <2>3 DEF Distinct, n
  <2>5. j - 1 = k - 1
    BY <1>7, <2>1, <2>4
  <2> QED BY <2>5
<1>11. ASSUME NEW x \in 1..n, Cardinality(Before(Filled, x)) < topK
       PROVE  \E k \in DOMAIN Ranked : Ranked[k] = Filled[x]
  <2> DEFINE k == Cardinality(Before(Filled, x)) + 1
  <2>1. Cardinality(Before(Filled, x)) \in 0..(n - 1)
    BY <1>6
  <2>2. k \in 1..m /\ k \in 1..n /\ k - 1 = Cardinality(Before(Filled, x))
    BY <1>2, <1>4, <1>5, <1>11, <2>1
  <2> HIDE DEF k
  <2>3. place(k) \in 1..n /\ Cardinality(Before(Filled, place(k))) = Cardinality(Before(Filled, x))
    BY <1>7, <2>2
  <2>4. place(k) = x
    BY <1>6, <2>3
  <2> QED BY <1>9, <2>2, <2>4
<1>12. Distinct(Ranked)
  BY <1>9, <1>10 DEF Distinct
<1> QED BY <1>9, <1>11, <1>12 DEF m, n

\* The list that the answer is written from is as long as top_k and the rows found
\* allow, and holds no chunk twice.
THEOREM FullAndDistinctCorrect == RankSpec => []FullAndDistinct
<1>1. RankInv => FullAndDistinct
  <2> SUFFICES ASSUME RankInv  PROVE FullAndDistinct
    OBVIOUS
  <2> DEFINE m == Len(Filled)
             all == Cardinality(AllChunks)
  <2>1. /\ Ranked \in Seq(AllChunks) /\ Distinct(Ranked)
        /\ Len(Ranked) = Min({topK, m})
    BY RankedFound
  <2>2. Cardinality(ToSet(Ranked)) = Len(Ranked)
    BY <2>1, LenOfDistinct
  <2>3. topK \in Nat /\ all \in Nat /\ all = Cardinality(ChunkPlaces)
    <3>1. topK \in Nat
      BY RankingAssumption DEF RankInv
    <3>2. IsFiniteSet(AllChunks) /\ all = Cardinality(ChunkPlaces)
      BY AllChunksCounted
    <3> QED BY <3>1, <3>2, FS_CardinalityType
  <2>4. m \in Nat /\ m <= all /\ (m < topK => m = all)
    BY FilledFound
  <2> HIDE DEF m, all
  <2>5. Min({topK, m}) = Min({topK, all})
    <3>1. Min({topK, m}) = IF topK <= m THEN topK ELSE m
      BY <2>3, <2>4, LessOrMore
    <3>2. Min({topK, all}) = IF topK <= all THEN topK ELSE all
      BY <2>3, LessOrMore
    <3> QED BY <2>3, <2>4, <3>1, <3>2
  <2>6. Len(Ranked) = Min({topK, Cardinality(ChunkPlaces)})
    BY <2>1, <2>3, <2>5
  <2> QED BY <2>2, <2>6 DEF FullAndDistinct, ChunkPlaces, Names
<1> QED BY <1>1, RankInvHolds, PTL

\* If the best chunk of a source ties with no other chunk of it, only the best chunks
\* of the other sources can go before it.
LEMMA BestGoFirst ==
  ASSUME RankInv, NEW x \in 1..Len(Filled),
         \A s \in ToSet(Present) : Len(rows[s]) = 1 \/ Normalised(s, 1) > Normalised(s, 2),
         Filled[x].rank = 1
  PROVE  Cardinality(Before(Filled, x)) < Len(Present)
<1>1. /\ Filled \in Seq(AllChunks) /\ Distinct(Filled) /\ Len(Filled) \in Nat
  BY FilledFound
<1>2. DOMAIN Filled = 1..Len(Filled) /\ \A y \in 1..Len(Filled) : Filled[y] \in AllChunks
  BY <1>1
<1>3. /\ ToSet(Present) = {s \in Names : rows[s] # <<>>}
      /\ IsFiniteSet(ToSet(Present)) /\ Cardinality(ToSet(Present)) = Len(Present)
  BY PresentFound, LenOfDistinct
<1>4. ASSUME NEW y \in 1..Len(Filled)
      PROVE  /\ Filled[y].src \in ToSet(Present)
             /\ Filled[y] = Chunk(Filled[y].src, Filled[y].rank)
             /\ Filled[y].score \in Int
             /\ Filled[y].rank = 1 => Filled[y].score = Scale
             /\ Filled[y].rank # 1 => Filled[y].score < Scale
  <2> DEFINE s == Filled[y].src
             i == Filled[y].rank
  <2>1. /\ Filled[y].score \in Int /\ s \in Names /\ rows[s] # <<>>
        /\ i \in 1..Len(rows[s]) /\ Filled[y] = Chunk(s, i)
        /\ Filled[y].score = Normalised(s, i)
    BY <1>2, ChunkScores
  <2> HIDE DEF s, i
  <2>2. s \in ToSet(Present)
    BY <1>3, <2>1
  <2>3. /\ Normalised(s, 1) = Scale /\ Len(rows[s]) \in Nat /\ Scale \in Int
        /\ \A j \in 1..Len(rows[s]) : Normalised(s, j) \in Int
        /\ \A j, k \in 1..Len(rows[s]) : j <= k => Normalised(s, k) <= Normalised(s, j)
    BY <2>1, ScoresFound, RankingAssumption
  <2>4. ASSUME i # 1  PROVE Filled[y].score < Scale
    <3>1. 2 \in 1..Len(rows[s]) /\ 2 <= i
      BY <2>1, <2>3, <2>4
    <3>2. Normalised(s, 2) < Scale
      <4>1. Normalised(s, 1) > Normalised(s, 2)
        <5>1. Len(rows[s]) = 1 \/ Normalised(s, 1) > Normalised(s, 2)
          BY <2>2
        <5>2. Len(rows[s]) # 1
          <6>1. 2 \in 1..Len(rows[s])
            BY <3>1
          <6>2. 2 \notin 1..1
            OBVIOUS
          <6> QED BY <6>1, <6>2, Zenon
        <5> QED BY <5>1, <5>2
      <4>2. Normalised(s, 2) \in Int
        BY <2>3, <3>1
      <4> QED BY <2>3, <4>1, <4>2
    <3>3. Normalised(s, i) <= Normalised(s, 2)
      BY <2>1, <2>3, <3>1
    <3>4. Normalised(s, i) \in Int /\ Normalised(s, 2) \in Int
      BY <2>1, <2>3, <3>1
    <3> QED BY <2>1, <2>3, <3>2, <3>3, <3>4
  <2>5. i = 1 => Filled[y].score = Scale
    BY <2>1, <2>3
  <2> QED BY <2>1, <2>2, <2>4, <2>5 DEF s, i
<1> DEFINE before == Before(Filled, x)
           best == ToSet(Present) \ {Filled[x].src}
           f == [y \in before |-> Filled[y].src]
<1>5. ASSUME NEW y \in before
      PROVE  y \in 1..Len(Filled) /\ y # x /\ Filled[y].rank = 1
  <2>1. y \in 1..Len(Filled)
        /\ \/ Filled[y].score > Filled[x].score
           \/ Filled[y].score = Filled[x].score /\ y < x
    BY <1>2 DEF Before
  <2>2. Filled[x].score = Scale /\ Scale \in Int /\ Filled[y].score \in Int
    BY <1>4, <2>1, RankingAssumption
  <2>3. y # x
    BY <2>1, <2>2
  <2>4. ~ (Filled[y].score < Scale)
    BY <2>1, <2>2
  <2> QED BY <1>4, <2>1, <2>3, <2>4
<1>6. ASSUME NEW y \in 1..Len(Filled), NEW z \in 1..Len(Filled),
             Filled[y].rank = 1, Filled[z].rank = 1, Filled[y].src = Filled[z].src
      PROVE  y = z
  <2>1. Filled[y] = Filled[z]
    BY <1>4, <1>6
  <2> QED BY <1>1, <2>1 DEF Distinct
<1> HIDE DEF before
<1>7. f \in Injection(before, best)
  <2>1. \A y \in before : Filled[y].src \in best
    BY <1>4, <1>5, <1>6
  <2>2. f \in [before -> best]
    BY <2>1
  <2>3. \A y, z \in before : f[y] = f[z] => y = z
    BY <1>5, <1>6
  <2> QED BY <2>2, <2>3 DEF Injection, IsInjective
<1>8. IsFiniteSet(best) /\ Cardinality(best) = Len(Present) - 1
  BY <1>3, <1>4, FS_RemoveElement
<1> HIDE DEF best, f
<1>9. IsFiniteSet(before) /\ Cardinality(before) <= Cardinality(best)
  BY <1>7, <1>8, FS_Injection
<1>10. Cardinality(before) \in Nat /\ Len(Present) \in Nat
  BY <1>3, <1>9, FS_CardinalityType
<1> QED BY <1>8, <1>9, <1>10 DEF before

\* Every ready source with a row is represented in the list, by its best chunk, under
\* the condition that EverySourceSeen names.
THEOREM EverySourceSeenCorrect == RankSpec => []EverySourceSeen
<1>1. RankInv => EverySourceSeen
  <2> SUFFICES ASSUME RankInv, Len(Present) <= topK,
                      \/ Len(Allocated) <= topK
                      \/ \A s \in ToSet(Present) :
                           Len(rows[s]) = 1 \/ Normalised(s, 1) > Normalised(s, 2),
                      NEW s \in ToSet(Present)
      PROVE  \E k \in DOMAIN Ranked : Ranked[k].src = s /\ Ranked[k].rank = 1
    BY DEF EverySourceSeen
  <2>1. PICK x \in 1..Len(Filled) : Filled[x] = Chunk(s, 1)
    BY AllocatedFound, FilledFound
  <2>2. Filled[x].src = s /\ Filled[x].rank = 1
    BY <2>1, ChunkFields
  <2>3. topK \in Nat /\ Len(Present) \in Nat /\ Len(Filled) \in Nat
    BY PresentFound, FilledFound, RankingAssumption DEF RankInv
  <2>4. Cardinality(Before(Filled, x)) \in 0..(Len(Filled) - 1)
    BY SortedPlaces
  <2>5. Cardinality(Before(Filled, x)) < topK
    <3>1. CASE Len(Allocated) <= topK
      <4>1. Len(Filled) <= topK
        BY <3>1, FilledFound
      <4> QED BY <2>3, <2>4, <4>1
    <3>2. CASE \A r \in ToSet(Present) :
                 Len(rows[r]) = 1 \/ Normalised(r, 1) > Normalised(r, 2)
      <4>1. Cardinality(Before(Filled, x)) < Len(Present)
        BY <2>2, <3>2, BestGoFirst
      <4> QED BY <2>3, <2>4, <4>1
    <3> QED BY <3>1, <3>2
  <2> QED BY <2>2, <2>5, RankedFound
<1> QED BY <1>1, RankInvHolds, PTL

-----------------------------------------------------------------------------
(* Lines.                                                                  *)

LastOf(l) == l[Len(l)]

LEMMA NextCharacterTyped ==
  ASSUME NEW T, NEW ls \in Seq(Seq(T)), NEW c \in T
  PROVE  /\ NextCharacter(ls, c) \in Seq(Seq(T))
         /\ NextCharacter(ls, c)
              = IF ls = <<>> \/ Last(Last(ls)) = LineEnd
                THEN Append(ls, <<c>>)
                ELSE [ls EXCEPT ![Len(ls)] = Append(ls[Len(ls)], c)]
<1>1. <<c>> \in Seq(T)
  OBVIOUS
<1>2. Append(ls, <<c>>) \in Seq(Seq(T))
  BY <1>1
<1>3. ASSUME ls # <<>>  PROVE [ls EXCEPT ![Len(ls)] = Append(ls[Len(ls)], c)] \in Seq(Seq(T))
  <2>1. Len(ls) \in 1..Len(ls) /\ ls[Len(ls)] \in Seq(T)
    BY <1>3
  <2>2. Append(ls[Len(ls)], c) \in Seq(T)
    BY <2>1
  <2> QED BY <2>1, <2>2, ExceptSeq
<1>4. NextCharacter(ls, c)
        = IF ls = <<>> \/ Last(Last(ls)) = LineEnd
          THEN Append(ls, <<c>>)
          ELSE [ls EXCEPT ![Len(ls)] = Append(ls[Len(ls)], c)]
  BY DEF NextCharacter
<1> QED BY <1>2, <1>3, <1>4

\* LinesOf is what its recursive definition reads.
LEMMA LinesDefined ==
  ASSUME NEW T, NEW t \in Seq(T)
  PROVE  \E f \in [0..Len(t) -> Seq(Seq(T))] :
           /\ f[0] = <<>>
           /\ \A i \in 1..Len(t) : f[i] = NextCharacter(f[i - 1], t[i])
           /\ LinesOf(t) = f[Len(t)]
<1> DEFINE n == Len(t)
           IsReading(v, k) == v = [i \in 0..k |->
                                 IF i = 0 THEN <<>> ELSE NextCharacter(v[i - 1], t[i])]
           Upto == {k \in Nat : k <= n => \E v : IsReading(v, k)}
<1>1. n \in Nat /\ \A i \in 1..n : t[i] \in T
  OBVIOUS
<1> HIDE DEF IsReading
<1>2. 0 \in Upto
  <2> DEFINE v == [i \in 0..0 |-> <<>>]
  <2>1. v = [i \in 0..0 |-> IF i = 0 THEN <<>> ELSE NextCharacter(v[i - 1], t[i])]
    OBVIOUS
  <2> HIDE DEF v
  <2>2. IsReading(v, 0)
    BY <2>1 DEF IsReading
  <2> QED BY <2>2
<1>3. ASSUME NEW k \in Nat, k \in Upto  PROVE k + 1 \in Upto
  <2> SUFFICES ASSUME k + 1 <= n  PROVE \E v : IsReading(v, k + 1)
    OBVIOUS
  <2>1. PICK v : IsReading(v, k)
    BY <1>1, <1>3
  <2> DEFINE w == [i \in 0..(k + 1) |-> IF i <= k THEN v[i]
                                        ELSE NextCharacter(v[i - 1], t[i])]
  <2>2. \A i \in 0..k : v[i] = IF i = 0 THEN <<>> ELSE NextCharacter(v[i - 1], t[i])
    BY <2>1 DEF IsReading
  <2>3. ASSUME NEW i \in 0..(k + 1)
        PROVE  w[i] = IF i = 0 THEN <<>> ELSE NextCharacter(w[i - 1], t[i])
    <3>1. w[i] = IF i <= k THEN v[i] ELSE NextCharacter(v[i - 1], t[i])
      OBVIOUS
    <3>2. w[i] = IF i = 0 THEN <<>> ELSE NextCharacter(v[i - 1], t[i])
      BY <2>2, <3>1
    <3>3. i # 0 => i - 1 \in 0..(k + 1) /\ i - 1 <= k
      OBVIOUS
    <3>4. i # 0 => w[i - 1] = v[i - 1]
      BY <3>3
    <3> HIDE DEF w
    <3> QED BY <3>2, <3>4
  <2>4. DOMAIN w = 0..(k + 1) /\ w = [i \in DOMAIN w |-> w[i]]
    OBVIOUS
  <2> HIDE DEF w
  <2>5. w = [i \in 0..(k + 1) |-> IF i = 0 THEN <<>> ELSE NextCharacter(w[i - 1], t[i])]
    BY <2>3, <2>4
  <2>6. IsReading(w, k + 1)
    BY <2>5 DEF IsReading
  <2> QED BY <2>6
<1>4. Nat \subseteq Upto
  <2> HIDE DEF Upto
  <2> QED BY <1>2, <1>3, InductionOnNaturals
<1>5. \E v : IsReading(v, n)
  BY <1>1, <1>4
<1>6. PICK v : v = (CHOOSE w : IsReading(w, n)) /\ IsReading(v, n)
  BY <1>5
<1>7. LinesOf(t) = v[n]
  <2>1. LinesOf(t) = (CHOOSE w : IsReading(w, n))[n]
    BY DEF LinesOf, IsReading
  <2> QED BY <1>6, <2>1
<1>8. \A i \in 0..n : v[i] = IF i = 0 THEN <<>> ELSE NextCharacter(v[i - 1], t[i])
  BY <1>6 DEF IsReading
<1>9. v[0] = <<>> /\ \A i \in 1..n : v[i] = NextCharacter(v[i - 1], t[i])
  BY <1>1, <1>8
<1>10. v = [i \in 0..n |-> v[i]]
  <2>1. DOMAIN v = 0..n /\ v = [i \in DOMAIN v |-> v[i]]
    BY <1>6 DEF IsReading
  <2> QED BY <2>1
<1> HIDE DEF Upto
<1> DEFINE Typed == {i \in Nat : i <= n => v[i] \in Seq(Seq(T))}
<1>11. 0 \in Typed
  <2>1. <<>> \in Seq(Seq(T))
    OBVIOUS
  <2>2. v[0] \in Seq(Seq(T))
    BY <1>9, <2>1
  <2> QED BY <2>2
<1>12. ASSUME NEW i \in Nat, i \in Typed  PROVE i + 1 \in Typed
  <2> SUFFICES ASSUME i + 1 <= n  PROVE v[i + 1] \in Seq(Seq(T))
    OBVIOUS
  <2>1. i + 1 \in 1..n /\ (i + 1) - 1 = i /\ v[i] \in Seq(Seq(T))
    BY <1>1, <1>12
  <2>2. v[i + 1] = NextCharacter(v[i], t[i + 1]) /\ t[i + 1] \in T
    BY <1>1, <1>9, <2>1
  <2> HIDE DEF Typed
  <2> QED BY <2>1, <2>2, NextCharacterTyped
<1>13. Nat \subseteq Typed
  <2> HIDE DEF Typed
  <2> QED BY <1>11, <1>12, InductionOnNaturals
<1>14. v \in [0..n -> Seq(Seq(T))]
  BY <1>1, <1>10, <1>13
<1> QED BY <1>7, <1>9, <1>14

LEMMA LinesEmpty == LinesOf(<<>>) = <<>>
<1>1. <<>> \in Seq({}) /\ Len(<<>>) = 0
  OBVIOUS
<1>2. \E f \in [0..Len(<<>>) -> Seq(Seq({}))] : f[0] = <<>> /\ LinesOf(<<>>) = f[Len(<<>>)]
  BY <1>1, LinesDefined
<1> QED BY <1>1, <1>2

LEMMA LinesTyped ==
  ASSUME NEW T, NEW t \in Seq(T)
  PROVE  LinesOf(t) \in Seq(Seq(T))
<1>1. PICK f \in [0..Len(t) -> Seq(Seq(T))] : LinesOf(t) = f[Len(t)]
  BY LinesDefined
<1> QED BY <1>1

LEMMA LinesAppend ==
  ASSUME NEW T, NEW t \in Seq(T), NEW c \in T
  PROVE  LinesOf(Append(t, c)) = NextCharacter(LinesOf(t), c)
<1> DEFINE n == Len(t)  u == Append(t, c)
<1>1. n \in Nat /\ u \in Seq(T) /\ Len(u) = n + 1 /\ u[n + 1] = c
      /\ \A i \in 1..n : u[i] = t[i]
  OBVIOUS
<1> HIDE DEF u
<1>2. PICK f \in [0..n -> Seq(Seq(T))] : /\ f[0] = <<>>
                                         /\ \A i \in 1..n : f[i] = NextCharacter(f[i - 1], t[i])
                                         /\ LinesOf(t) = f[n]
  BY LinesDefined
<1>3. PICK g \in [0..(n + 1) -> Seq(Seq(T))] :
        /\ g[0] = <<>>
        /\ \A i \in 1..(n + 1) : g[i] = NextCharacter(g[i - 1], u[i])
        /\ LinesOf(u) = g[n + 1]
  <2>1. \E g \in [0..Len(u) -> Seq(Seq(T))] :
          /\ g[0] = <<>>
          /\ \A i \in 1..Len(u) : g[i] = NextCharacter(g[i - 1], u[i])
          /\ LinesOf(u) = g[Len(u)]
    BY <1>1, LinesDefined
  <2>2. Len(u) = n + 1
    BY <1>1
  <2> HIDE DEF n
  <2> QED BY <2>1, <2>2
<1> DEFINE Same == {i \in Nat : i <= n => f[i] = g[i]}
<1>4. 0 \in Same
  BY <1>2, <1>3
<1>5. ASSUME NEW i \in Nat, i \in Same  PROVE i + 1 \in Same
  <2> SUFFICES ASSUME i + 1 <= n  PROVE f[i + 1] = g[i + 1]
    OBVIOUS
  <2>1. i + 1 \in 1..n /\ i + 1 \in 1..(n + 1) /\ (i + 1) - 1 = i /\ f[i] = g[i]
    BY <1>1, <1>5
  <2>2. /\ f[i + 1] = NextCharacter(f[i], t[i + 1])
        /\ g[i + 1] = NextCharacter(g[i], u[i + 1])
    BY <1>2, <1>3, <2>1
  <2> QED BY <1>1, <2>1, <2>2
<1>6. Nat \subseteq Same
  <2> HIDE DEF Same
  <2> QED BY <1>4, <1>5, InductionOnNaturals
<1>7. f[n] = g[n]
  <2>1. n \in Same
    BY <1>1, <1>6, Zenon
  <2> HIDE DEF n
  <2> QED BY <1>1, <2>1
<1>8. g[n + 1] = NextCharacter(g[n], u[n + 1])
  <2>1. n + 1 \in 1..(n + 1) /\ (n + 1) - 1 = n
    BY <1>1
  <2> QED BY <1>3, <2>1
<1> QED BY <1>1, <1>2, <1>3, <1>7, <1>8 DEF u

\* Lines that a text can have: none is empty, a line end stands nowhere but at the end
\* of a line, and only the last line may be without one.
WellLined(ls) ==
  /\ \A k \in 1..Len(ls) : ls[k] # <<>>
  /\ \A k \in 1..Len(ls) : \A i \in 1..(Len(ls[k]) - 1) : ls[k][i] # LineEnd
  /\ \A k \in 1..(Len(ls) - 1) : LastOf(ls[k]) = LineEnd

LEMMA LastIsLast ==
  ASSUME NEW T, NEW l \in Seq(T), l # <<>>
  PROVE  Last(l) = LastOf(l) /\ Len(l) \in 1..Len(l) /\ LastOf(l) \in T
<1>1. Len(l) \in 1..Len(l)
  OBVIOUS
<1>2. Last(l) = l[Len(l)]
  BY DEF Last
<1> QED BY <1>1, <1>2 DEF LastOf

LEMMA LastOfAppend ==
  ASSUME NEW T, NEW l \in Seq(T), NEW e \in T
  PROVE  Last(Append(l, e)) = e /\ LastOf(Append(l, e)) = e /\ Append(l, e) # <<>>
<1>1. Append(l, e) \in Seq(T) /\ Append(l, e) # <<>> /\ LastOf(Append(l, e)) = e
  BY AppendProperties DEF LastOf
<1> QED BY <1>1, LastIsLast

\* A character goes on with the last line if that has no line end.
LEMMA LastLineGrows ==
  ASSUME NEW T, NEW front \in Seq(Seq(T)), NEW e \in Seq(T), NEW c \in T,
         e # <<>>, LastOf(e) # LineEnd
  PROVE  NextCharacter(Append(front, e), c) = Append(front, Append(e, c))
<1> DEFINE ls == Append(front, e)
           longer == Append(e, c)
           next == [ls EXCEPT ![Len(ls)] = longer]
           new == Append(front, longer)
<1>1. /\ ls \in Seq(Seq(T)) /\ ls # <<>> /\ Len(ls) = Len(front) + 1
      /\ Len(front) \in Nat /\ ls[Len(front) + 1] = e
  BY AppendProperties, LenProperties
<1>2. \A k \in 1..Len(front) : ls[k] = front[k]
  BY AppendProperties
<1>3. Last(ls) = e
  BY LastOfAppend
<1>4. Last(e) # LineEnd
  BY LastIsLast
<1>5. longer \in Seq(T)
  OBVIOUS
<1> HIDE DEF ls, longer
<1>6. /\ new \in Seq(Seq(T)) /\ Len(new) = Len(front) + 1
      /\ new[Len(front) + 1] = longer
  BY <1>5, AppendProperties
<1>7. \A k \in 1..Len(front) : new[k] = front[k]
  BY <1>5, AppendProperties
<1> USE DEF longer
<1>8. NextCharacter(ls, c) = [ls EXCEPT ![Len(ls)] = Append(ls[Len(ls)], c)]
  <2>1. ~ (ls = <<>> \/ Last(Last(ls)) = LineEnd)
    BY <1>1, <1>3, <1>4
  <2>2. NextCharacter(ls, c)
          = IF ls = <<>> \/ Last(Last(ls)) = LineEnd
            THEN Append(ls, <<c>>)
            ELSE [ls EXCEPT ![Len(ls)] = Append(ls[Len(ls)], c)]
    BY <1>1, NextCharacterTyped
  <2> QED BY <2>1, <2>2
<1>9. NextCharacter(ls, c) = next
  BY <1>1, <1>8
<1>10. /\ next \in Seq(Seq(T)) /\ Len(next) = Len(ls)
       /\ \A k \in 1..Len(ls) : next[k] = IF k = Len(ls) THEN longer ELSE ls[k]
  <2>1. Len(ls) \in 1..Len(ls)
    BY <1>1
  <2> HIDE DEF longer
  <2> QED BY <1>1, <1>5, <2>1, ExceptSeq
<1> HIDE DEF next, new
<1>11. ASSUME NEW k \in 1..Len(next)  PROVE next[k] = new[k]
  <2>1. k \in 1..Len(ls) /\ Len(ls) = Len(front) + 1
    BY <1>1, <1>10
  <2>2. CASE k = Len(ls)
    BY <1>6, <1>10, <2>1, <2>2
  <2>3. CASE k # Len(ls)
    <3>1. k \in 1..Len(front)
      BY <1>1, <2>1, <2>3
    <3> QED BY <1>2, <1>7, <1>10, <2>1, <2>3, <3>1
  <2> QED BY <2>2, <2>3
<1>12. next = new
  BY <1>1, <1>6, <1>10, <1>11, SeqEqual
<1> QED BY <1>9, <1>12 DEF ls, new

\* A line more: it goes after lines that are all ended.
LEMMA WellLinedAppend ==
  ASSUME NEW T, NEW ls \in Seq(Seq(T)), NEW e \in Seq(T)
  PROVE  WellLined(Append(ls, e))
           <=> /\ WellLined(ls) /\ (ls = <<>> \/ LastOf(LastOf(ls)) = LineEnd)
               /\ e # <<>> /\ \A i \in 1..(Len(e) - 1) : e[i] # LineEnd
<1> DEFINE n == Len(ls)  m == Append(ls, e)
<1>1. n \in Nat /\ Len(m) = n + 1 /\ m[n + 1] = e /\ \A k \in 1..n : m[k] = ls[k]
  BY AppendProperties
<1>2. ls = <<>> <=> n = 0
  OBVIOUS
<1> HIDE DEF m
<1>3. ASSUME WellLined(m)
      PROVE  /\ WellLined(ls) /\ (ls = <<>> \/ LastOf(LastOf(ls)) = LineEnd)
             /\ e # <<>> /\ \A i \in 1..(Len(e) - 1) : e[i] # LineEnd
  <2>1. \A k \in 1..n : /\ ls[k] # <<>> /\ LastOf(ls[k]) = LineEnd
                        /\ \A i \in 1..(Len(ls[k]) - 1) : ls[k][i] # LineEnd
    <3> SUFFICES ASSUME NEW k \in 1..n
        PROVE  /\ ls[k] # <<>> /\ LastOf(ls[k]) = LineEnd
               /\ \A i \in 1..(Len(ls[k]) - 1) : ls[k][i] # LineEnd
      OBVIOUS
    <3>1. k \in 1..Len(m) /\ k \in 1..(Len(m) - 1) /\ m[k] = ls[k]
      BY <1>1
    <3>2. /\ m[k] # <<>> /\ LastOf(m[k]) = LineEnd
          /\ \A i \in 1..(Len(m[k]) - 1) : m[k][i] # LineEnd
      BY <1>3, <3>1 DEF WellLined
    <3> QED BY <3>1, <3>2
  <2>2. WellLined(ls)
    BY <1>1, <2>1 DEF WellLined
  <2>3. n + 1 \in 1..Len(m)
    BY <1>1
  <2>4. e # <<>> /\ \A i \in 1..(Len(e) - 1) : e[i] # LineEnd
    BY <1>1, <1>3, <2>3 DEF WellLined
  <2>5. ls # <<>> => LastOf(ls) = ls[n] /\ n \in 1..n
    BY <1>1, <1>2 DEF LastOf
  <2>6. ls # <<>> => LastOf(LastOf(ls)) = LineEnd
    BY <2>1, <2>5
  <2> QED BY <2>2, <2>4, <2>6
<1>4. ASSUME /\ WellLined(ls) /\ (ls = <<>> \/ LastOf(LastOf(ls)) = LineEnd)
             /\ e # <<>> /\ \A i \in 1..(Len(e) - 1) : e[i] # LineEnd
      PROVE  WellLined(m)
  <2>1. \A k \in 1..Len(m) : IF k = n + 1 THEN m[k] = e ELSE k \in 1..n /\ m[k] = ls[k]
    BY <1>1
  <2>2. \A k \in 1..Len(m) : m[k] # <<>> /\ \A i \in 1..(Len(m[k]) - 1) : m[k][i] # LineEnd
    <3> SUFFICES ASSUME NEW k \in 1..Len(m)
        PROVE  m[k] # <<>> /\ \A i \in 1..(Len(m[k]) - 1) : m[k][i] # LineEnd
      OBVIOUS
    <3>1. CASE k = n + 1
      BY <1>4, <2>1, <3>1
    <3>2. CASE k # n + 1
      <4>1. k \in 1..n /\ m[k] = ls[k]
        BY <2>1, <3>2
      <4> QED BY <1>4, <4>1 DEF WellLined
    <3> QED BY <3>1, <3>2
  <2>3. ASSUME NEW k \in 1..(Len(m) - 1)  PROVE LastOf(m[k]) = LineEnd
    <3>1. k \in 1..n /\ m[k] = ls[k]
      BY <1>1
    <3>2. CASE k = n
      <4>1. ls # <<>> /\ LastOf(ls) = ls[k]
        BY <1>1, <1>2, <3>1, <3>2 DEF LastOf
      <4> QED BY <1>4, <3>1, <4>1
    <3>3. CASE k # n
      <4>1. k \in 1..(Len(ls) - 1)
        BY <1>1, <3>1, <3>3
      <4> QED BY <1>4, <3>1, <4>1 DEF WellLined
    <3> QED BY <3>2, <3>3
  <2> QED BY <2>2, <2>3 DEF WellLined
<1> QED BY <1>3, <1>4 DEF m

\* The lines of a text are well formed, and one after the other they are the text.
LEMMA LinesFound ==
  ASSUME NEW T, NEW t \in Seq(T)
  PROVE  /\ LinesOf(t) \in Seq(Seq(T)) /\ WellLined(LinesOf(t))
         /\ FlattenSeq(LinesOf(t)) = t
<1> DEFINE P == {u \in Seq(T) : WellLined(LinesOf(u)) /\ FlattenSeq(LinesOf(u)) = u}
<1>1. <<>> \in P
  BY LinesEmpty, FlattenEmpty DEF WellLined
<1>2. ASSUME NEW u \in Seq(T), NEW c \in T, u \in P  PROVE Append(u, c) \in P
  <2> DEFINE ls == LinesOf(u)  next == LinesOf(Append(u, c))
  <2>1. ls \in Seq(Seq(T)) /\ WellLined(ls) /\ FlattenSeq(ls) = u
    BY <1>2, LinesTyped
  <2>2. next = NextCharacter(ls, c)
    BY LinesAppend
  <2>3. Append(u, c) \in Seq(T) /\ <<c>> \in Seq(T)
    OBVIOUS
  <2> HIDE DEF ls, next
  <2>4. CASE ls = <<>> \/ Last(Last(ls)) = LineEnd
    <3>1. next = Append(ls, <<c>>)
      BY <2>1, <2>2, <2>4, NextCharacterTyped
    <3>2. ls = <<>> \/ LastOf(LastOf(ls)) = LineEnd
      <4> SUFFICES ASSUME ls # <<>>  PROVE LastOf(LastOf(ls)) = LineEnd
        OBVIOUS
      <4>1. Last(ls) = LastOf(ls) /\ LastOf(ls) \in Seq(T) /\ Len(ls) \in 1..Len(ls)
        BY <2>1, LastIsLast
      <4>2. LastOf(ls) # <<>>
        BY <2>1, <4>1 DEF WellLined, LastOf
      <4> QED BY <2>4, <4>1, <4>2, LastIsLast
    <3>3. <<c>> # <<>> /\ \A i \in 1..(Len(<<c>>) - 1) : <<c>>[i] # LineEnd
      OBVIOUS
    <3>4. WellLined(next)
      BY <2>1, <2>3, <3>1, <3>2, <3>3, WellLinedAppend
    <3>5. FlattenSeq(next) = u \o <<c>>
      BY <2>1, <2>3, <3>1, FlattenAppend
    <3>6. u \o <<c>> = Append(u, c)
      BY AppendIsConcat
    <3> QED BY <2>3, <3>4, <3>5, <3>6 DEF next
  <2>5. CASE ~ (ls = <<>> \/ Last(Last(ls)) = LineEnd)
    <3>1. PICK front \in Seq(Seq(T)), e \in Seq(T) : ls = Append(front, e)
      BY <2>1, <2>5, SequenceEmptyOrAppend
    <3> DEFINE longer == Append(e, c)
    <3>2. /\ WellLined(front) /\ (front = <<>> \/ LastOf(LastOf(front)) = LineEnd)
          /\ e # <<>> /\ \A i \in 1..(Len(e) - 1) : e[i] # LineEnd
      BY <2>1, <3>1, WellLinedAppend
    <3>3. Last(ls) = e /\ LastOf(e) # LineEnd
      BY <2>5, <3>1, <3>2, LastOfAppend, LastIsLast
    <3>4. /\ longer \in Seq(T) /\ longer # <<>> /\ Len(longer) = Len(e) + 1
          /\ \A i \in 1..Len(e) : longer[i] = e[i]
      BY AppendProperties
    <3> HIDE DEF longer
    <3>5. \A i \in 1..(Len(longer) - 1) : longer[i] # LineEnd
      <4>1. \A i \in 1..Len(e) : e[i] # LineEnd
        BY <3>2, <3>3 DEF LastOf
      <4>2. Len(e) \in Nat
        OBVIOUS
      <4> QED BY <3>4, <4>1, <4>2
    <3>6. next = Append(front, longer)
      <4>1. NextCharacter(Append(front, e), c) = Append(front, Append(e, c))
        BY SMTT(30), <3>2, <3>3, LastLineGrows
      <4> QED BY <2>2, <3>1, <4>1 DEF longer
    <3>7. WellLined(next)
      BY <3>2, <3>4, <3>5, <3>6, WellLinedAppend
    <3>8. FlattenSeq(next) = FlattenSeq(front) \o longer /\ u = FlattenSeq(front) \o e
          /\ FlattenSeq(front) \in Seq(T)
      BY <2>1, <3>1, <3>4, <3>6, FlattenAppend, FlattenTyped
    <3>9. FlattenSeq(front) \o longer = Append(u, c)
      <4>1. longer = e \o <<c>> /\ Append(u, c) = u \o <<c>>
        BY AppendIsConcat DEF longer
      <4> QED BY <2>3, <3>8, <4>1, ConcatAssociative
    <3> QED BY <2>3, <3>7, <3>8, <3>9 DEF next
  <2> QED BY <2>4, <2>5
<1>3. Seq(T) \subseteq P
  <2> HIDE DEF P
  <2> QED BY <1>1, <1>2, InductionOnLists
<1> QED BY <1>3, LinesTyped

\* Well formed lines, one after the other, are read as these lines.
LEMMA LinesOfFlatten ==
  ASSUME NEW T, NEW ls \in Seq(Seq(T)), WellLined(ls)
  PROVE  LinesOf(FlattenSeq(ls)) = ls
<1> DEFINE P == {l \in Seq(Seq(T)) : WellLined(l) => LinesOf(FlattenSeq(l)) = l}
<1>1. <<>> \in P
  BY LinesEmpty, FlattenEmpty
<1>2. ASSUME NEW l \in Seq(Seq(T)), NEW e \in Seq(T), l \in P  PROVE Append(l, e) \in P
  <2> SUFFICES ASSUME WellLined(Append(l, e))
      PROVE  LinesOf(FlattenSeq(Append(l, e))) = Append(l, e)
    OBVIOUS
  <2> DEFINE t == FlattenSeq(l)
  <2>1. /\ WellLined(l) /\ (l = <<>> \/ LastOf(LastOf(l)) = LineEnd)
        /\ e # <<>> /\ \A i \in 1..(Len(e) - 1) : e[i] # LineEnd
    BY WellLinedAppend
  <2>2. t \in Seq(T) /\ LinesOf(t) = l /\ FlattenSeq(Append(l, e)) = t \o e
    BY <1>2, <2>1, FlattenTyped, FlattenAppend
  <2>3. l = <<>> \/ Last(Last(l)) = LineEnd
    <3> SUFFICES ASSUME l # <<>>  PROVE Last(Last(l)) = LineEnd
      OBVIOUS
    <3>1. Last(l) = LastOf(l) /\ LastOf(l) \in Seq(T) /\ Len(l) \in 1..Len(l)
      BY LastIsLast
    <3>2. LastOf(l) # <<>>
      BY <2>1, <3>1 DEF WellLined, LastOf
    <3>3. Last(LastOf(l)) = LastOf(LastOf(l))
      BY <3>1, <3>2, LastIsLast
    <3> QED BY <2>1, <3>1, <3>3
  <2> HIDE DEF t, P
  <2> DEFINE Unended(d) == \A i \in 1..(Len(d) - 1) : d[i] # LineEnd
             Q == {d \in Seq(T) : d # <<>> /\ Unended(d) => LinesOf(t \o d) = Append(l, d)}
  <2>4. <<>> \in Q
    OBVIOUS
  <2>5. ASSUME NEW d \in Seq(T), NEW c \in T, d \in Q  PROVE Append(d, c) \in Q
    <3> DEFINE more == Append(d, c)
    <3>1. /\ more \in Seq(T) /\ Len(more) = Len(d) + 1 /\ Len(d) \in Nat
          /\ \A i \in 1..Len(d) : more[i] = d[i]
      BY AppendProperties
    <3>2. t \o more = Append(t \o d, c) /\ t \o d \in Seq(T)
      <4>1. more = d \o <<c>> /\ <<c>> \in Seq(T) /\ t \o d \in Seq(T)
        BY <2>2, AppendIsConcat, ConcatProperties
      <4>2. Append(t \o d, c) = (t \o d) \o <<c>>
        BY <4>1, AppendIsConcat
      <4> QED BY <2>2, <4>1, <4>2, ConcatAssociative
    <3>3. LinesOf(t \o more) = NextCharacter(LinesOf(t \o d), c)
      BY <3>2, LinesAppend
    <3>4. ASSUME Unended(more)  PROVE LinesOf(t \o more) = Append(l, more)
      <4>1. CASE d = <<>>
        <5>1. t \o d = t /\ more = <<c>>
          BY <2>2, <4>1, ConcatEmptySeq
        <5> HIDE DEF more
        <5>2. NextCharacter(l, c) = Append(l, <<c>>)
          BY <2>3, NextCharacterTyped
        <5> QED BY <2>2, <3>3, <5>1, <5>2
      <4>2. CASE d # <<>>
        <5>1. \A i \in 1..Len(d) : d[i] # LineEnd
          BY <3>1, <3>4
        <5>2. Unended(d)
          BY <3>1, <5>1
        <5>3. LinesOf(t \o d) = Append(l, d)
          BY <2>5, <4>2, <5>2
        <5>4. LastOf(d) # LineEnd
          BY <4>2, <5>1, LastIsLast DEF LastOf
        <5> QED BY <3>3, <4>2, <5>3, <5>4, LastLineGrows
      <4> QED BY <4>1, <4>2
    <3> HIDE DEF Unended
    <3> QED BY <3>1, <3>4
  <2>6. Seq(T) \subseteq Q
    <3> HIDE DEF Q
    <3> QED BY <2>4, <2>5, InductionOnLists
  <2>7. LinesOf(t \o e) = Append(l, e)
    BY <2>1, <2>6
  <2> QED BY <2>2, <2>7
<1>3. Seq(Seq(T)) \subseteq P
  <2> HIDE DEF P
  <2> QED BY <1>1, <1>2, InductionOnLists
<1> QED BY <1>3

\* A block of well formed lines is well formed; so are two, if the lines of the first
\* are all ended.
LEMMA WellLinedBlock ==
  ASSUME NEW T, NEW ls \in Seq(Seq(T)), WellLined(ls),
         NEW i \in 1..(Len(ls) + 1), NEW j \in (i - 1)..Len(ls)
  PROVE  /\ SubSeq(ls, i, j) \in Seq(Seq(T)) /\ WellLined(SubSeq(ls, i, j))
         /\ j < Len(ls) => \A k \in 1..Len(SubSeq(ls, i, j)) : LastOf(SubSeq(ls, i, j)[k]) = LineEnd
<1> DEFINE b == SubSeq(ls, i, j)
<1>1. Len(ls) \in Nat /\ i \in Int /\ j \in Int
  OBVIOUS
<1>2. /\ b \in Seq(Seq(T)) /\ Len(b) = j - i + 1
      /\ \A k \in 1..(j - i + 1) : b[k] = ls[i + k - 1]
  <2>1. \A k \in i..j : ls[k] \in Seq(T)
    BY <1>1
  <2>2. /\ b \in Seq(Seq(T)) /\ Len(b) = IF i <= j THEN j - i + 1 ELSE 0
        /\ \A k \in 1..(j - i + 1) : b[k] = ls[i + k - 1]
    BY <1>1, <2>1, SubSeqProperties
  <2> HIDE DEF b
  <2>3. i <= j \/ j - i + 1 = 0
    BY <1>1
  <2> QED BY <1>1, <2>2, <2>3
<1> HIDE DEF b
<1>3. ASSUME NEW k \in 1..Len(b)
      PROVE  /\ i + k - 1 \in 1..Len(ls) /\ b[k] = ls[i + k - 1]
             /\ k < Len(b) => i + k - 1 \in 1..(Len(ls) - 1)
             /\ j < Len(ls) => i + k - 1 \in 1..(Len(ls) - 1)
  <2>1. k \in 1..(j - i + 1)
    BY <1>1, <1>2
  <2>2. i >= 1 /\ j <= Len(ls)
    OBVIOUS
  <2>3. i + k - 1 \in 1..Len(ls)
    BY <1>1, <2>1, <2>2
  <2>4. b[k] = ls[i + k - 1]
    BY <1>2, <2>1
  <2>5. k < Len(b) => i + k - 1 \in 1..(Len(ls) - 1)
    BY <1>1, <1>2, <2>1, <2>2
  <2>6. j < Len(ls) => i + k - 1 \in 1..(Len(ls) - 1)
    BY <1>1, <2>1, <2>2
  <2> QED BY <2>3, <2>4, <2>5, <2>6
<1>4. \A k \in 1..Len(b) : b[k] # <<>>
  BY <1>3 DEF WellLined
<1>5. ASSUME NEW k \in 1..Len(b)  PROVE \A c \in 1..(Len(b[k]) - 1) : b[k][c] # LineEnd
  BY <1>3 DEF WellLined
<1>6. ASSUME NEW k \in 1..Len(b), k < Len(b) \/ j < Len(ls)  PROVE LastOf(b[k]) = LineEnd
  BY <1>3, <1>6 DEF WellLined
<1>7. \A k \in 1..(Len(b) - 1) : k \in 1..Len(b) /\ k < Len(b)
  BY <1>1, <1>2
<1>8. WellLined(b)
  BY <1>4, <1>5, <1>6, <1>7 DEF WellLined
<1> QED BY <1>2, <1>6, <1>8 DEF b

LEMMA WellLinedJoin ==
  ASSUME NEW T, NEW a \in Seq(Seq(T)), NEW b \in Seq(Seq(T)), WellLined(a), WellLined(b),
         \A k \in 1..Len(a) : LastOf(a[k]) = LineEnd
  PROVE  a \o b \in Seq(Seq(T)) /\ WellLined(a \o b)
<1> DEFINE ab == a \o b
<1>1. /\ ab \in Seq(Seq(T)) /\ Len(ab) = Len(a) + Len(b) /\ Len(a) \in Nat /\ Len(b) \in Nat
      /\ \A k \in 1..Len(ab) : ab[k] = IF k <= Len(a) THEN a[k] ELSE b[k - Len(a)]
  BY ConcatProperties, LenProperties
<1> HIDE DEF ab
<1>2. ASSUME NEW k \in 1..Len(ab)
      PROVE  \/ k \in 1..Len(a) /\ ab[k] = a[k]
             \/ k - Len(a) \in 1..Len(b) /\ ab[k] = b[k - Len(a)]
                /\ (k < Len(ab) => k - Len(a) \in 1..(Len(b) - 1))
  BY <1>1
<1>3. ASSUME NEW k \in 1..Len(ab)
      PROVE  /\ ab[k] # <<>> /\ \A c \in 1..(Len(ab[k]) - 1) : ab[k][c] # LineEnd
             /\ k < Len(ab) => LastOf(ab[k]) = LineEnd
  <2>1. CASE k \in 1..Len(a) /\ ab[k] = a[k]
    BY <2>1 DEF WellLined
  <2>2. CASE k - Len(a) \in 1..Len(b) /\ ab[k] = b[k - Len(a)]
             /\ (k < Len(ab) => k - Len(a) \in 1..(Len(b) - 1))
    BY <2>2 DEF WellLined
  <2> QED BY <1>2, <2>1, <2>2
<1>4. \A k \in 1..(Len(ab) - 1) : k \in 1..Len(ab) /\ k < Len(ab)
  BY <1>1
<1>5. WellLined(ab)
  BY <1>3, <1>4 DEF WellLined
<1> QED BY <1>1, <1>5 DEF ab

-----------------------------------------------------------------------------
(* Blanks.                                                                 *)

LEMMA MinFound ==
  ASSUME NEW S, S \subseteq Nat, S # {}
  PROVE  Min(S) \in S /\ \A x \in S : Min(S) <= x
<1>1. \E m \in S : \A x \in S : m <= x
  BY LeastNatural
<1> QED BY <1>1 DEF Min

LEMMA MaxFound ==
  ASSUME NEW S, S \subseteq Nat, S # {}, NEW b \in Nat, \A x \in S : x <= b
  PROVE  Max(S) \in S /\ \A x \in S : x <= Max(S)
<1> DEFINE R == {b - x : x \in S}
<1>1. R \subseteq Nat /\ R # {}
  <2>1. \A x \in S : x \in Nat /\ b - x \in Nat
    OBVIOUS
  <2>2. R \subseteq Nat
    BY <2>1
  <2>3. PICK x \in S : TRUE
    OBVIOUS
  <2>4. b - x \in R
    OBVIOUS
  <2> QED BY <2>2, <2>4
<1> HIDE DEF R
<1>2. PICK d \in R : \A e \in R : d <= e
  BY <1>1, LeastNatural
<1>3. PICK m \in S : d = b - m
  BY <1>2 DEF R
<1>4. ASSUME NEW x \in S  PROVE m >= x
  <2>1. d <= b - x
    BY <1>2 DEF R
  <2> QED BY <1>3, <2>1
<1>5. \E y \in S : \A x \in S : y >= x
  BY <1>4
<1>6. Max(S) \in S /\ \A x \in S : Max(S) >= x
  BY <1>5 DEF Max
<1>7. \A x \in S : x \in Nat /\ Max(S) \in Nat
  BY <1>6
<1> QED BY <1>6, <1>7

\* strip takes what is left of a line after rstrip.
LEMMA StrippedFromRStripped ==
  ASSUME NEW T, NEW l \in Seq(T)
  PROVE  Stripped(l) = Stripped(RStripped(l)) /\ Stripped(l) \in Seq(T)
<1> DEFINE V == Visible(l)
           r == RStripped(l)
<1>1. Len(l) \in Nat /\ DOMAIN l = 1..Len(l) /\ V \subseteq 1..Len(l) /\ V \subseteq Nat
  BY DEF Visible
<1>2. r = SubSeq(l, 1, Max(V \cup {0}))
  BY DEF RStripped
<1>3. CASE V = {}
  <2>1. Max(V \cup {0}) = 0
    BY <1>3 DEF Max
  <2>2. r = <<>>
    BY <1>2, <2>1, SubSeqEmpty
  <2>3. Visible(<<>>) = {}
    BY DEF Visible
  <2>4. Stripped(<<>>) = <<>> /\ Stripped(l) = <<>>
    BY <1>3, <2>3 DEF Stripped
  <2>5. <<>> \in Seq(T)
    OBVIOUS
  <2> QED BY <2>2, <2>4, <2>5
<1>4. CASE V # {}
  <2> DEFINE low == Min(V)  high == Max(V)
  <2>1. low \in V /\ \A x \in V : low <= x
    BY <1>1, <1>4, MinFound
  <2>2. high \in V /\ \A x \in V : x <= high
    BY <1>1, <1>4, MaxFound
  <2>3. Max(V \cup {0}) = high
    <3>1. /\ Max(V \cup {0}) \in V \cup {0}
          /\ \A x \in V \cup {0} : x <= Max(V \cup {0})
      <4>1. V \cup {0} \subseteq Nat /\ V \cup {0} # {} /\ \A x \in V \cup {0} : x <= Len(l)
        BY <1>1
      <4> QED BY <1>1, <4>1, MaxFound
    <3> HIDE DEF high, V
    <3>2. high \in Nat /\ high >= 1 /\ high <= Max(V \cup {0})
      <4>1. high \in 1..Len(l)
        BY <1>1, <2>2
      <4>2. high <= Max(V \cup {0})
        BY <2>2, <3>1
      <4> QED BY <1>1, <4>1, <4>2
    <3>3. Max(V \cup {0}) \in V
      BY <3>1, <3>2
    <3>4. Max(V \cup {0}) <= high /\ Max(V \cup {0}) \in Nat
      BY <1>1, <2>2, <3>3
    <3> QED BY <3>2, <3>4
  <2> HIDE DEF low, high
  <2>4. high \in 1..Len(l) /\ low \in 1..high /\ 1 \in 1..Len(l)
    BY <1>1, <2>1, <2>2
  <2>5. r = SubSeq(l, 1, high)
    BY <1>2, <2>3
  <2>6. r \in Seq(T) /\ Len(r) = high /\ \A i \in 1..high : r[i] = l[i]
    <3>1. \A i \in 1..high : l[i] \in T
      BY <1>1, <2>4
    <3>2. /\ SubSeq(l, 1, high) \in Seq(T)
          /\ Len(SubSeq(l, 1, high)) = IF 1 <= high THEN high - 1 + 1 ELSE 0
          /\ \A i \in 1..(high - 1 + 1) : SubSeq(l, 1, high)[i] = l[1 + i - 1]
      <4>1. 1 \in Int /\ high \in Int
        BY <2>4
      <4> QED BY <3>1, <4>1, SubSeqProperties
    <3> HIDE DEF r
    <3> QED BY <1>1, <2>4, <2>5, <3>2
  <2> HIDE DEF r
  <2>7. Visible(r) = V
    <3>1. DOMAIN r = 1..high
      BY <2>6
    <3>2. \A i \in V : i \in 1..high
      BY <1>1, <2>2, <2>4
    <3>3. \A i \in 1..high : i \in 1..Len(l)
      BY <1>1, <2>4
    <3> QED BY <1>1, <2>6, <3>1, <3>2, <3>3 DEF Visible
  <2>8. Stripped(r) = SubSeq(r, low, high) /\ Stripped(l) = SubSeq(l, low, high)
    BY <1>4, <2>7 DEF Stripped, low, high
  <2>9. SubSeq(SubSeq(l, 1, high), low, high) = SubSeq(l, low, high)
    <3>1. low \in 1..(high - 1 + 1) /\ high \in 1..(high - 1 + 1)
      BY <1>1, <2>4
    <3>2. SubSeq(SubSeq(l, 1, high), low, high) = SubSeq(l, 1 + low - 1, 1 + high - 1)
      BY <2>4, <3>1, SubSeqOfSubSeq
    <3>3. 1 + low - 1 = low /\ 1 + high - 1 = high
      BY <1>1, <2>4
    <3> QED BY <3>2, <3>3
  <2>10. SubSeq(l, low, high) \in Seq(T)
    <3>1. \A i \in low..high : l[i] \in T
      BY <1>1, <2>4
    <3> QED BY <2>4, <3>1, SubSeqProperties
  <2> QED BY <2>5, <2>8, <2>9, <2>10 DEF r
<1> QED BY <1>3, <1>4

LEMMA NotBlankEmpty == NotBlank(<<>>) = <<>>
<1>1. [k \in DOMAIN <<>> |-> IF <<>>[k] = <<>> THEN <<>> ELSE << <<>>[k] >>] = <<>>
  OBVIOUS
<1> QED BY <1>1, FlattenEmpty DEF NotBlank

LEMMA NotBlankTyped ==
  ASSUME NEW S, NEW l \in Seq(S)
  PROVE  NotBlank(l) \in Seq(S)
<1> DEFINE parts == [k \in DOMAIN l |-> IF l[k] = <<>> THEN <<>> ELSE <<l[k]>>]
<1>1. DOMAIN l = 1..Len(l) /\ Len(l) \in Nat /\ \A k \in 1..Len(l) : l[k] \in S
  OBVIOUS
<1>2. \A x \in S : (IF x = <<>> THEN <<>> ELSE <<x>>) \in Seq(S)
  OBVIOUS
<1>3. parts \in Seq(Seq(S))
  BY <1>1, <1>2
<1> QED BY <1>3, FlattenTyped DEF NotBlank

LEMMA NotBlankAppend ==
  ASSUME NEW S, NEW l \in Seq(S), NEW e \in S
  PROVE  /\ NotBlank(l) \in Seq(S)
         /\ NotBlank(Append(l, e)) = IF e = <<>> THEN NotBlank(l) ELSE Append(NotBlank(l), e)
<1> DEFINE part(x) == IF x = <<>> THEN <<>> ELSE <<x>>
           parts(ls) == [k \in DOMAIN ls |-> part(ls[k])]
           m == Append(l, e)
<1>1. \A x \in S : part(x) \in Seq(S)
  OBVIOUS
<1>2. \A ls : NotBlank(ls) = FlattenSeq(parts(ls))
  BY DEF NotBlank
<1>3. part(e) = IF e = <<>> THEN <<>> ELSE <<e>>
  OBVIOUS
<1> HIDE DEF part
<1>4. ASSUME NEW ls \in Seq(S)
      PROVE  /\ parts(ls) \in Seq(Seq(S)) /\ Len(parts(ls)) = Len(ls)
             /\ \A k \in 1..Len(ls) : parts(ls)[k] = part(ls[k])
  <2>1. Len(ls) \in Nat /\ DOMAIN ls = 1..Len(ls) /\ \A k \in 1..Len(ls) : ls[k] \in S
    OBVIOUS
  <2>2. parts(ls) = [k \in 1..Len(ls) |-> part(ls[k])]
    BY <2>1
  <2> QED BY <1>1, <2>1, <2>2
<1>5. /\ m \in Seq(S) /\ Len(m) = Len(l) + 1 /\ m[Len(l) + 1] = e /\ Len(l) \in Nat
      /\ \A k \in 1..Len(l) : m[k] = l[k]
  BY AppendProperties, LenProperties
<1> HIDE DEF parts, m
<1> DEFINE p == Append(parts(l), part(e))
<1>6. /\ p \in Seq(Seq(S)) /\ Len(p) = Len(l) + 1 /\ p[Len(l) + 1] = part(e)
      /\ \A k \in 1..Len(l) : p[k] = parts(l)[k]
  <2>1. part(e) \in Seq(S) /\ parts(l) \in Seq(Seq(S)) /\ Len(parts(l)) = Len(l)
    BY <1>1, <1>4
  <2>2. /\ p \in Seq(Seq(S)) /\ Len(p) = Len(parts(l)) + 1
        /\ p[Len(parts(l)) + 1] = part(e)
        /\ \A k \in 1..Len(parts(l)) : p[k] = parts(l)[k]
    BY <2>1, AppendProperties
  <2> HIDE DEF p
  <2> QED BY <2>1, <2>2
<1> HIDE DEF p
<1>7. parts(m) = p
  <2>1. /\ parts(m) \in Seq(Seq(S)) /\ Len(parts(m)) = Len(m)
        /\ \A k \in 1..Len(m) : parts(m)[k] = part(m[k])
    BY <1>4, <1>5
  <2>2. ASSUME NEW k \in 1..Len(m)  PROVE parts(m)[k] = p[k]
    <3>1. CASE k = Len(l) + 1
      BY <1>5, <1>6, <2>1, <3>1
    <3>2. CASE k # Len(l) + 1
      <4>1. k \in 1..Len(l)
        BY <1>5, <3>2
      <4> QED BY <1>4, <1>5, <1>6, <2>1, <4>1
    <3> QED BY <3>1, <3>2
  <2> QED BY <1>5, <1>6, <2>1, <2>2, SeqEqual
<1>8. NotBlank(l) \in Seq(S)
  BY NotBlankTyped
<1>9. NotBlank(m) = NotBlank(l) \o part(e)
  <2>1. FlattenSeq(p) = FlattenSeq(parts(l)) \o part(e)
    BY <1>1, <1>4, FlattenAppend DEF p
  <2> QED BY <1>2, <1>7, <2>1
<1>10. NotBlank(l) \o part(e) = IF e = <<>> THEN NotBlank(l) ELSE Append(NotBlank(l), e)
  <2>1. e = <<>> => NotBlank(l) \o part(e) = NotBlank(l)
    BY <1>3, <1>8, ConcatEmptySeq
  <2>2. e # <<>> => NotBlank(l) \o part(e) = Append(NotBlank(l), e)
    BY <1>3, <1>8, AppendIsConcat
  <2> QED BY <2>1, <2>2
<1> QED BY <1>8, <1>9, <1>10 DEF m

LEMMA AppendToConcat ==
  ASSUME NEW S, NEW a \in Seq(S), NEW b \in Seq(S), NEW e \in S
  PROVE  Append(a \o b, e) = a \o Append(b, e)
<1>1. a \o b \in Seq(S) /\ <<e>> \in Seq(S)
  BY ConcatProperties
<1>2. Append(b, e) = b \o <<e>> /\ Append(a \o b, e) = (a \o b) \o <<e>>
  BY <1>1, AppendIsConcat
<1> QED BY <1>1, <1>2, ConcatAssociative

LEMMA NotBlankConcat ==
  ASSUME NEW S, NEW a \in Seq(S), NEW b \in Seq(S)
  PROVE  NotBlank(a \o b) = NotBlank(a) \o NotBlank(b)
<1> DEFINE P == {l \in Seq(S) : NotBlank(a \o l) = NotBlank(a) \o NotBlank(l)}
<1>1. <<>> \in P
  <2>1. NotBlank(a) \in Seq(S)
    BY NotBlankTyped
  <2>2. a \o <<>> = a /\ NotBlank(a) \o <<>> = NotBlank(a)
    BY <2>1, ConcatEmptySeq
  <2>3. <<>> \in Seq(S)
    OBVIOUS
  <2> QED BY <2>2, <2>3, NotBlankEmpty
<1>2. ASSUME NEW l \in Seq(S), NEW e \in S, l \in P  PROVE Append(l, e) \in P
  <2>1. a \o Append(l, e) = Append(a \o l, e) /\ a \o l \in Seq(S)
    BY ConcatProperties, AppendToConcat
  <2>2. NotBlank(a \o Append(l, e))
          = IF e = <<>> THEN NotBlank(a \o l) ELSE Append(NotBlank(a \o l), e)
    BY <2>1, NotBlankAppend
  <2>3. NotBlank(Append(l, e)) = IF e = <<>> THEN NotBlank(l) ELSE Append(NotBlank(l), e)
    BY NotBlankAppend
  <2>4. Append(NotBlank(a) \o NotBlank(l), e) = NotBlank(a) \o Append(NotBlank(l), e)
    <3>1. NotBlank(a) \in Seq(S) /\ NotBlank(l) \in Seq(S)
      BY NotBlankTyped
    <3>2. ASSUME NEW x \in Seq(S), NEW y \in Seq(S)
          PROVE  Append(x \o y, e) = x \o Append(y, e)
      <4> HIDE DEF P
      <4>1. x \o y \in Seq(S) /\ <<e>> \in Seq(S)
        BY ConcatProperties
      <4>2. Append(y, e) = y \o <<e>> /\ Append(x \o y, e) = (x \o y) \o <<e>>
        BY <4>1, AppendIsConcat
      <4>3. (x \o y) \o <<e>> = x \o (y \o <<e>>)
        BY SMTT(30), <4>1, ConcatAssociative
      <4> QED BY Zenon, <4>2, <4>3
    <3> QED BY Zenon, <3>1, <3>2
  <2>5. NotBlank(a \o l) = NotBlank(a) \o NotBlank(l)
    BY <1>2
  <2>6. NotBlank(a \o Append(l, e)) = NotBlank(a) \o NotBlank(Append(l, e))
    BY <2>2, <2>3, <2>4, <2>5
  <2>7. Append(l, e) \in Seq(S)
    OBVIOUS
  <2> QED BY <2>6, <2>7
<1>3. Seq(S) \subseteq P
  <2> HIDE DEF P
  <2> QED BY <1>1, <1>2, InductionOnLists
<1> QED BY <1>3

\* Leaving out blank lines makes a list shorter unless there are none; a list without
\* one stays; nothing is left of a list of blank lines only.
LEMMA NotBlankFound ==
  ASSUME NEW S, NEW l \in Seq(S)
  PROVE  /\ NotBlank(l) \in Seq(S) /\ NotBlank(NotBlank(l)) = NotBlank(l)
         /\ Len(NotBlank(l)) \in Nat /\ Len(NotBlank(l)) <= Len(l)
         /\ Len(NotBlank(l)) = Len(l) => NotBlank(l) = l
         /\ NotBlank(l) = <<>> <=> \A k \in 1..Len(l) : l[k] = <<>>
<1> DEFINE Right(m) == /\ NotBlank(NotBlank(m)) = NotBlank(m)
                       /\ Len(NotBlank(m)) <= Len(m)
                       /\ Len(NotBlank(m)) = Len(m) => NotBlank(m) = m
                       /\ NotBlank(m) = <<>> <=> \A k \in 1..Len(m) : m[k] = <<>>
           P == {m \in Seq(S) : Right(m)}
<1>1. <<>> \in P
  <2>1. <<>> \in Seq(S)
    OBVIOUS
  <2> QED BY <2>1, NotBlankEmpty
<1>2. ASSUME NEW m \in Seq(S), NEW e \in S, m \in P  PROVE Append(m, e) \in P
  <2> DEFINE n == NotBlank(m)  q == Append(m, e)
  <2>1. /\ n \in Seq(S)
        /\ NotBlank(q) = IF e = <<>> THEN n ELSE Append(n, e)
    BY NotBlankAppend
  <2>2. Right(m)
    BY <1>2
  <2>3. /\ q \in Seq(S) /\ Len(q) = Len(m) + 1 /\ Len(m) \in Nat /\ Len(n) \in Nat
        /\ q[Len(m) + 1] = e /\ \A k \in 1..Len(m) : q[k] = m[k]
    BY <2>1, AppendProperties, LenProperties
  <2>4. /\ NotBlank(n) = n /\ Len(n) <= Len(m) /\ (Len(n) = Len(m) => n = m)
        /\ n = <<>> <=> \A k \in 1..Len(m) : m[k] = <<>>
    BY <2>2
  <2> HIDE DEF n
  <2>5. CASE e = <<>>
    <3>1. NotBlank(q) = n
      BY <2>1, <2>5
    <3>2. (\A k \in 1..Len(q) : q[k] = <<>>) <=> (\A k \in 1..Len(m) : m[k] = <<>>)
      <4>1. \A k \in 1..Len(q) : k = Len(m) + 1 \/ k \in 1..Len(m)
        BY <2>3
      <4>2. \A k \in 1..Len(m) : k \in 1..Len(q)
        BY <2>3
      <4> HIDE DEF q
      <4> QED BY <2>3, <2>5, <4>1, <4>2
    <3> HIDE DEF q
    <3>4. NotBlank(NotBlank(q)) = NotBlank(q)
      BY <2>4, <3>1
    <3>5. Len(NotBlank(q)) < Len(q)
      BY <2>3, <2>4, <3>1
    <3>6. NotBlank(q) = <<>> <=> \A k \in 1..Len(q) : q[k] = <<>>
      BY <2>4, <3>1, <3>2
    <3>3. Right(q)
      <4>1. Len(NotBlank(q)) \in Nat /\ Len(q) \in Nat
        BY <2>3, <3>1
      <4> QED BY <3>4, <3>5, <3>6, <4>1
    <3> QED BY <2>3, <3>3 DEF q
  <2>6. CASE e # <<>>
    <3>1. NotBlank(q) = Append(n, e)
      BY <2>1, <2>6
    <3>2. Append(n, e) # <<>> /\ Len(Append(n, e)) = Len(n) + 1
      <4>1. n \in Seq(S)
        BY <2>1
      <4> QED BY <4>1, AppendProperties
    <3>3. ~ (\A k \in 1..Len(q) : q[k] = <<>>)
      <4>1. Len(m) + 1 \in 1..Len(q) /\ q[Len(m) + 1] # <<>>
        BY <2>3, <2>6
      <4> QED BY <4>1
    <3>4. NotBlank(Append(n, e)) = Append(n, e)
      BY <2>1, <2>4, <2>6, NotBlankAppend
    <3>5. Len(NotBlank(q)) = Len(q) => NotBlank(q) = q
      BY <2>3, <2>4, <3>1, <3>2
    <3>6. Len(NotBlank(q)) <= Len(q)
      BY <2>3, <2>4, <3>1, <3>2
    <3>7. NotBlank(NotBlank(q)) = NotBlank(q) /\ NotBlank(q) # <<>>
      BY <3>1, <3>2, <3>4
    <3> HIDE DEF q
    <3>8. Right(q)
      BY <3>3, <3>5, <3>6, <3>7
    <3> QED BY <2>3, <3>8 DEF q
  <2> QED BY <2>5, <2>6
<1>3. Seq(S) \subseteq P
  <2> HIDE DEF P
  <2> QED BY <1>1, <1>2, InductionOnLists
<1>4. Right(l)
  BY <1>3
<1>5. NotBlank(l) \in Seq(S) /\ Len(NotBlank(l)) \in Nat
  BY NotBlankTyped, LenProperties
<1> QED BY <1>4, <1>5

LEMMA StrippedTyped ==
  ASSUME NEW T, NEW t \in Seq(T)
  PROVE  /\ StrippedLines(t) \in Seq(Seq(T)) /\ Len(StrippedLines(t)) = Len(LinesOf(t))
         /\ Len(RStrippedLines(t)) = Len(LinesOf(t)) /\ Len(LinesOf(t)) \in Nat
         /\ \A k \in 1..Len(LinesOf(t)) :
              /\ StrippedLines(t)[k] = Stripped(LinesOf(t)[k])
              /\ RStrippedLines(t)[k] = RStripped(LinesOf(t)[k])
<1> DEFINE ls == LinesOf(t)
<1>1. ls \in Seq(Seq(T)) /\ Len(ls) \in Nat /\ DOMAIN ls = 1..Len(ls)
      /\ \A k \in 1..Len(ls) : ls[k] \in Seq(T)
  BY LinesTyped
<1>2. /\ StrippedLines(t) = [k \in DOMAIN ls |-> Stripped(ls[k])]
      /\ RStrippedLines(t) = [k \in DOMAIN ls |-> RStripped(ls[k])]
  BY DEF StrippedLines, RStrippedLines
<1> HIDE DEF ls
<1>3. \A k \in 1..Len(ls) : Stripped(ls[k]) \in Seq(T)
  BY <1>1, StrippedFromRStripped
<1>4. StrippedLines(t) \in Seq(Seq(T)) /\ Len(StrippedLines(t)) = Len(ls)
  BY <1>1, <1>2, <1>3
<1>5. Len(RStrippedLines(t)) = Len(ls)
  BY <1>1, <1>2
<1>6. \A k \in 1..Len(ls) : /\ StrippedLines(t)[k] = Stripped(ls[k])
                            /\ RStrippedLines(t)[k] = RStripped(ls[k])
  BY <1>1, <1>2
<1> QED BY <1>1, <1>4, <1>5, <1>6 DEF ls

\* A block of the lines of a text, put together, has these lines.
LEMMA BlockFound ==
  ASSUME NEW T, NEW t \in Seq(T),
         NEW i \in 1..(Len(LinesOf(t)) + 1), NEW j \in (i - 1)..Len(LinesOf(t))
  PROVE  /\ SubSeq(LinesOf(t), i, j) \in Seq(Seq(T))
         /\ FlattenSeq(SubSeq(LinesOf(t), i, j)) \in Seq(T)
         /\ LinesOf(FlattenSeq(SubSeq(LinesOf(t), i, j))) = SubSeq(LinesOf(t), i, j)
         /\ StrippedLines(FlattenSeq(SubSeq(LinesOf(t), i, j))) = SubSeq(StrippedLines(t), i, j)
<1> DEFINE ls == LinesOf(t)
           block == SubSeq(ls, i, j)
           u == FlattenSeq(block)
           strip == StrippedLines(t)
<1>1. ls \in Seq(Seq(T)) /\ WellLined(ls) /\ Len(ls) \in Nat
  BY LinesFound, LenProperties
<1>2. block \in Seq(Seq(T)) /\ WellLined(block)
  BY <1>1, WellLinedBlock
<1>3. u \in Seq(T) /\ LinesOf(u) = block
  BY <1>2, FlattenTyped, LinesOfFlatten
<1>4. i \in Int /\ j \in Int /\ (i <= j \/ j - i + 1 = 0) /\ 1 <= i /\ j <= Len(ls)
  BY <1>1
<1>5. strip \in Seq(Seq(T)) /\ Len(strip) = Len(ls)
      /\ \A k \in 1..Len(ls) : strip[k] = Stripped(ls[k])
  BY StrippedTyped
<1> HIDE DEF ls, strip
<1>6. \A k \in i..j : ls[k] \in Seq(T) /\ strip[k] \in Seq(T) /\ strip[k] = Stripped(ls[k])
  <2>1. \A k \in i..j : k \in 1..Len(ls)
    BY <1>1, <1>4
  <2>2. \A k \in 1..Len(ls) : ls[k] \in Seq(T) /\ strip[k] \in Seq(T)
    BY <1>1, <1>5
  <2> QED BY <1>5, <2>1, <2>2
<1>7. Len(block) = j - i + 1 /\ \A k \in 1..(j - i + 1) : block[k] = ls[i + k - 1]
  <2>1. /\ Len(block) = IF i <= j THEN j - i + 1 ELSE 0
        /\ \A k \in 1..(j - i + 1) : block[k] = ls[i + k - 1]
    BY <1>4, <1>6, SubSeqProperties
  <2> HIDE DEF block
  <2> QED BY <1>4, <2>1
<1> DEFINE kept == SubSeq(strip, i, j)
<1>8. /\ kept \in Seq(Seq(T)) /\ Len(kept) = j - i + 1
      /\ \A k \in 1..(j - i + 1) : kept[k] = strip[i + k - 1]
  <2>1. /\ kept \in Seq(Seq(T)) /\ Len(kept) = IF i <= j THEN j - i + 1 ELSE 0
        /\ \A k \in 1..(j - i + 1) : kept[k] = strip[i + k - 1]
    BY <1>4, <1>6, SubSeqProperties
  <2> HIDE DEF kept
  <2> QED BY <1>4, <2>1
<1> HIDE DEF block, kept, u
<1>9. /\ StrippedLines(u) \in Seq(Seq(T)) /\ Len(StrippedLines(u)) = Len(block)
      /\ \A k \in 1..Len(block) : StrippedLines(u)[k] = Stripped(block[k])
  BY <1>3, StrippedTyped
<1>10. ASSUME NEW k \in 1..Len(block)  PROVE StrippedLines(u)[k] = kept[k]
  <2>1. k \in 1..(j - i + 1) /\ i + k - 1 \in i..j
    BY <1>4, <1>7
  <2> QED BY <1>6, <1>7, <1>8, <1>9, <2>1
<1>11. StrippedLines(u) = kept
  BY <1>7, <1>8, <1>9, <1>10, SeqEqual
<1> QED BY <1>2, <1>3, <1>11 DEF ls, block, u, kept, strip

-----------------------------------------------------------------------------
(* Edits.                                                                  *)

LEMMA BlockTyped ==
  ASSUME NEW S, NEW s \in Seq(S), NEW i \in 1..(Len(s) + 1), NEW j \in (i - 1)..Len(s)
  PROVE  /\ SubSeq(s, i, j) \in Seq(S) /\ Len(SubSeq(s, i, j)) = j - i + 1
         /\ \A k \in 1..(j - i + 1) : i + k - 1 \in i..j /\ SubSeq(s, i, j)[k] = s[i + k - 1]
<1> DEFINE b == SubSeq(s, i, j)
<1>1. Len(s) \in Nat /\ i \in Int /\ j \in Int /\ (i <= j \/ j - i + 1 = 0) /\ 1 <= i /\ j <= Len(s)
  OBVIOUS
<1>2. \A k \in i..j : s[k] \in S
  BY <1>1
<1>3. /\ b \in Seq(S) /\ Len(b) = IF i <= j THEN j - i + 1 ELSE 0
      /\ \A k \in 1..(j - i + 1) : b[k] = s[i + k - 1]
  BY <1>1, <1>2, SubSeqProperties
<1>4. \A k \in 1..(j - i + 1) : i + k - 1 \in i..j
  BY <1>1
<1> HIDE DEF b
<1>5. Len(b) = j - i + 1
  BY <1>1, <1>3
<1> QED BY <1>3, <1>4, <1>5 DEF b

\* A list is what stands before a block, the block, and what stands after it.
LEMMA ThreeParts ==
  ASSUME NEW S, NEW s \in Seq(S), NEW i \in 1..(Len(s) + 1), NEW j \in (i - 1)..Len(s)
  PROVE  /\ SubSeq(s, 1, i - 1) \in Seq(S) /\ SubSeq(s, j + 1, Len(s)) \in Seq(S)
         /\ SubSeq(s, i, j) \in Seq(S)
         /\ SubSeq(s, 1, i - 1) \o SubSeq(s, i, j) \o SubSeq(s, j + 1, Len(s)) = s
<1>1. Len(s) \in Nat /\ i \in Int /\ j \in Int /\ 1 <= i /\ i - 1 <= j /\ j <= Len(s)
  OBVIOUS
<1>2. /\ 1 \in 1..(Len(s) + 1) /\ i - 1 \in (1 - 1)..Len(s) /\ j \in (i - 1)..Len(s)
      /\ j \in (1 - 1)..Len(s) /\ Len(s) \in j..Len(s) /\ j + 1 \in 1..(Len(s) + 1)
      /\ Len(s) \in ((j + 1) - 1)..Len(s)
  BY <1>1
<1>3. /\ SubSeq(s, 1, i - 1) \in Seq(S) /\ SubSeq(s, j + 1, Len(s)) \in Seq(S)
      /\ SubSeq(s, i, j) \in Seq(S)
  <2>1. SubSeq(s, 1, i - 1) \in Seq(S)
    BY <1>2, BlockTyped
  <2>2. SubSeq(s, j + 1, Len(s)) \in Seq(S)
    BY <1>2, BlockTyped
  <2>3. SubSeq(s, i, j) \in Seq(S)
    BY BlockTyped
  <2> QED BY <2>1, <2>2, <2>3
<1>4. SubSeq(s, 1, i - 1) \o SubSeq(s, i, j) = SubSeq(s, 1, j)
  <2>1. SubSeq(s, 1, i - 1) \o SubSeq(s, (i - 1) + 1, j) = SubSeq(s, 1, j)
    BY <1>2, ConcatAdjacentSubSeq
  <2>2. (i - 1) + 1 = i
    BY <1>1
  <2> QED BY <2>1, <2>2
<1>5. SubSeq(s, 1, j) \o SubSeq(s, j + 1, Len(s)) = SubSeq(s, 1, Len(s))
  BY <1>2, ConcatAdjacentSubSeq
<1>6. SubSeq(s, 1, Len(s)) = s
  BY SubSeqFull
<1> QED BY <1>3, <1>4, <1>5, <1>6

LEMMA OccurrencesFound ==
  ASSUME NEW S, NEW p \in Seq(S), NEW s \in Seq(S), NEW i \in Occurrences(p, s)
  PROVE  /\ i \in 1..(Len(s) + 1) /\ i \in Nat /\ i + Len(p) - 1 \in (i - 1)..Len(s)
         /\ p # <<>> => i \in 1..Len(s)
         /\ SubSeq(s, i, i + Len(p) - 1) = p
<1>1. Len(s) \in Nat /\ Len(p) \in Nat /\ (p # <<>> => Len(p) # 0)
  OBVIOUS
<1>2. i \in 1..(Len(s) + 1 - Len(p)) /\ SubSeq(s, i, i + Len(p) - 1) = p
  BY DEF Occurrences
<1> QED BY <1>1, <1>2

LEMMA FirstOccurrence ==
  ASSUME NEW S, NEW p \in Seq(S), NEW s \in Seq(S), Occurrences(p, s) # {}
  PROVE  Min(Occurrences(p, s)) \in Occurrences(p, s)
<1>1. Occurrences(p, s) \subseteq Nat
  <2>1. Len(s) \in Nat /\ Len(p) \in Nat
    OBVIOUS
  <2> QED BY <2>1 DEF Occurrences
<1> QED BY <1>1, MinFound

\* An edit of the text as it is.
LEMMA ByTextFound ==
  ASSUME NEW T, body \in Seq(T), old \in Seq(T), NEW place \in Occurrences(old, body)
  PROVE  /\ ByText(place).found = "text" /\ ByText(place).named = old
         /\ ByText(place).before \o ByText(place).named \o ByText(place).after = body
         /\ ByText(place).before \in Seq(T) /\ ByText(place).after \in Seq(T)
<1> DEFINE next == place + Len(old)
<1>1. /\ place \in 1..(Len(body) + 1) /\ next - 1 \in (place - 1)..Len(body)
      /\ SubSeq(body, place, next - 1) = old
  BY OccurrencesFound
<1>2. (next - 1) + 1 = next
  <2>1. Len(old) \in Nat /\ Len(body) \in Nat
    OBVIOUS
  <2> QED BY <1>1, <2>1
<1>3. SubSeq(body, 1, place - 1) \o SubSeq(body, place, next - 1)
        \o SubSeq(body, (next - 1) + 1, Len(body)) = body
  BY <1>1, ThreeParts
<1>4. /\ ByText(place).found = "text" /\ ByText(place).before = SubSeq(body, 1, place - 1)
      /\ ByText(place).named = SubSeq(body, place, next - 1)
      /\ ByText(place).after = SubSeq(body, next, Len(body))
  BY DEF ByText
<1>5. SubSeq(body, 1, place - 1) \in Seq(T) /\ SubSeq(body, next, Len(body)) \in Seq(T)
  BY <1>1, <1>2, ThreeParts
<1> QED BY <1>1, <1>2, <1>3, <1>4, <1>5

\* What replaces lines are lines, each with its line end.
LEMMA ReplacementFound ==
  ASSUME NEW T, LineEnd \in T, NewText \in Seq(T)
  PROVE  /\ Replacement("lines") \in Seq(T)
         /\ \A k \in 1..Len(LinesOf(Replacement("lines"))) :
              LastOf(LinesOf(Replacement("lines"))[k]) = LineEnd
<1> DEFINE r == Replacement("lines")  b == LinesOf(r)
<1>1. r \in Seq(T) /\ (r = <<>> \/ Last(r) = LineEnd)
  <2>1. r = IF NewText # <<>> /\ Last(NewText) # LineEnd
            THEN Append(NewText, LineEnd) ELSE NewText
    BY DEF Replacement
  <2>2. Append(NewText, LineEnd) \in Seq(T) /\ Last(Append(NewText, LineEnd)) = LineEnd
    BY LastOfAppend
  <2> QED BY <2>1, <2>2
<1> HIDE DEF r
<1>2. b \in Seq(Seq(T)) /\ WellLined(b) /\ FlattenSeq(b) = r
  BY <1>1, LinesFound
<1>3. CASE r = <<>>
  <2>1. b = <<>>
    BY <1>3, LinesEmpty
  <2> QED BY <1>1, <2>1 DEF r
<1>4. CASE r # <<>>
  <2> HIDE DEF b
  <2>1. b # <<>>
    BY <1>2, <1>4, FlattenEmpty
  <2>2. PICK front \in Seq(Seq(T)), e \in Seq(T) : b = Append(front, e)
    BY <1>2, <2>1, SequenceEmptyOrAppend
  <2>3. e # <<>> /\ Len(b) = Len(front) + 1 /\ b[Len(b)] = e /\ Len(front) \in Nat
    <3>1. Len(b) = Len(front) + 1 /\ b[Len(front) + 1] = e /\ Len(front) \in Nat
      BY <2>2, AppendProperties, LenProperties
    <3>2. e # <<>>
      BY <1>2, <2>2, WellLinedAppend
    <3> QED BY <3>1, <3>2
  <2>4. r = FlattenSeq(front) \o e /\ FlattenSeq(front) \in Seq(T)
    BY <1>2, <2>2, FlattenAppend, FlattenTyped
  <2>5. LastOf(e) = LineEnd
    <3>1. PICK w \in Seq(T) : w = FlattenSeq(front)
      BY <2>4
    <3>2. Len(w) \in Nat /\ Len(e) \in Nat /\ Len(e) # 0
      BY <2>3
    <3>3. /\ Len(w \o e) = Len(w) + Len(e)
          /\ (w \o e)[Len(w) + Len(e)] = e[Len(e)]
      <4>1. /\ Len(w \o e) = Len(w) + Len(e)
            /\ \A i \in 1..(Len(w) + Len(e)) :
                 (w \o e)[i] = IF i <= Len(w) THEN w[i] ELSE e[i - Len(w)]
        BY ConcatProperties
      <4>2. /\ Len(w) + Len(e) \in 1..(Len(w) + Len(e)) /\ ~ (Len(w) + Len(e) <= Len(w))
            /\ (Len(w) + Len(e)) - Len(w) = Len(e)
        BY <3>2
      <4> QED BY <4>1, <4>2
    <3>4. LastOf(r) = LastOf(e)
      BY <2>4, <3>1, <3>3 DEF LastOf
    <3>5. Last(r) = LastOf(r)
      BY <1>1, <1>4, LastIsLast
    <3> QED BY <1>1, <1>4, <3>4, <3>5
  <2>6. \A k \in 1..Len(b) : k \in 1..(Len(b) - 1) \/ k = Len(b)
    BY <2>3
  <2>7. \A k \in 1..Len(b) : LastOf(b[k]) = LineEnd
    BY <1>2, <2>3, <2>5, <2>6 DEF WellLined
  <2> QED BY <1>1, <2>7 DEF r, b
<1> QED BY <1>3, <1>4

\* An edit of lines: it replaces these lines, and leaves the others as they are.
LEMMA ByLinesFound ==
  ASSUME NEW T, LineEnd \in T, NewText \in Seq(T), body \in Seq(T),
         NEW first \in 1..Len(LinesOf(body)), NEW last \in (first - 1)..Len(LinesOf(body))
  PROVE  /\ ByLines(first, last).found = "lines"
         /\ ByLines(first, last).before \o ByLines(first, last).named
              \o ByLines(first, last).after = body
         /\ ByLines(first, last).before \in Seq(T) /\ ByLines(first, last).named \in Seq(T)
         /\ ByLines(first, last).after \in Seq(T) /\ Replacement("lines") \in Seq(T)
         /\ StrippedLines(ByLines(first, last).named)
              = SubSeq(StrippedLines(body), first, last)
         /\ LinesOf(Updated(ByLines(first, last)))
              = LinesOf(ByLines(first, last).before) \o LinesOf(Replacement("lines"))
                  \o LinesOf(ByLines(first, last).after)
<1> DEFINE ls == LinesOf(body)
           n == Len(ls)
           a == SubSeq(ls, 1, first - 1)
           b == SubSeq(ls, first, last)
           c == SubSeq(ls, last + 1, n)
           f == ByLines(first, last)
           r == LinesOf(Replacement("lines"))
<1>1. ls \in Seq(Seq(T)) /\ WellLined(ls) /\ FlattenSeq(ls) = body /\ n \in Nat
  BY LinesFound, LenProperties
<1>2. /\ f.found = "lines" /\ f.before = FlattenSeq(a) /\ f.named = FlattenSeq(b)
      /\ f.after = FlattenSeq(c)
  BY DEF ByLines
<1>3. /\ 1 \in 1..(n + 1) /\ first - 1 \in (1 - 1)..n /\ first - 1 < n
      /\ first \in 1..(n + 1) /\ last \in (first - 1)..n
      /\ last + 1 \in 1..(n + 1) /\ n \in ((last + 1) - 1)..n
  BY <1>1
<1>4. a \in Seq(Seq(T)) /\ WellLined(a) /\ \A k \in 1..Len(a) : LastOf(a[k]) = LineEnd
  BY <1>1, <1>3, WellLinedBlock
<1>5. b \in Seq(Seq(T)) /\ StrippedLines(FlattenSeq(b)) = SubSeq(StrippedLines(body), first, last)
  BY <1>3, BlockFound
<1>6. c \in Seq(Seq(T)) /\ WellLined(c)
  BY <1>1, <1>3, WellLinedBlock
<1>7. a \o b \o c = ls
  BY <1>1, <1>3, ThreeParts
<1>8. /\ r \in Seq(Seq(T)) /\ WellLined(r) /\ FlattenSeq(r) = Replacement("lines")
      /\ \A k \in 1..Len(r) : LastOf(r[k]) = LineEnd
  BY ReplacementFound, LinesFound
<1> HIDE DEF ls, a, b, c, f, r
<1>9. f.before \o f.named \o f.after = body
  <2>1. FlattenSeq(a \o b) = FlattenSeq(a) \o FlattenSeq(b) /\ a \o b \in Seq(Seq(T))
    BY <1>4, <1>5, FlattenConcat, ConcatProperties
  <2>2. FlattenSeq((a \o b) \o c) = FlattenSeq(a \o b) \o FlattenSeq(c)
    BY <1>6, <2>1, FlattenConcat
  <2> QED BY <1>1, <1>2, <1>7, <2>1, <2>2
<1>10. LinesOf(Updated(f)) = LinesOf(f.before) \o r \o LinesOf(f.after)
  <2>1. a \o r \in Seq(Seq(T)) /\ WellLined(a \o r)
        /\ FlattenSeq(a \o r) = FlattenSeq(a) \o FlattenSeq(r)
    BY <1>4, <1>8, WellLinedJoin, FlattenConcat
  <2>2. \A k \in 1..Len(a \o r) : LastOf((a \o r)[k]) = LineEnd
    <3>1. /\ Len(a \o r) = Len(a) + Len(r) /\ Len(a) \in Nat /\ Len(r) \in Nat
          /\ \A k \in 1..(Len(a) + Len(r)) :
               (a \o r)[k] = IF k <= Len(a) THEN a[k] ELSE r[k - Len(a)]
      BY <1>4, <1>8, ConcatProperties, LenProperties
    <3> SUFFICES ASSUME NEW k \in 1..(Len(a) + Len(r))
                 PROVE  LastOf((a \o r)[k]) = LineEnd
      BY <3>1
    <3>2. CASE k <= Len(a)
      <4>1. k \in 1..Len(a) /\ (a \o r)[k] = a[k]
        BY <3>1, <3>2
      <4> QED BY <1>4, <4>1
    <3>3. CASE ~ (k <= Len(a))
      <4>1. k - Len(a) \in 1..Len(r) /\ (a \o r)[k] = r[k - Len(a)]
        BY <3>1, <3>3
      <4> QED BY <1>8, <4>1
    <3> QED BY <3>2, <3>3
  <2>3. (a \o r) \o c \in Seq(Seq(T)) /\ WellLined((a \o r) \o c)
        /\ FlattenSeq((a \o r) \o c) = FlattenSeq(a \o r) \o FlattenSeq(c)
    <3>1. PICK ar \in Seq(Seq(T)) : ar = a \o r
      BY <2>1
    <3>2. ar \o c \in Seq(Seq(T)) /\ WellLined(ar \o c)
      BY <1>6, <2>1, <2>2, <3>1, WellLinedJoin
    <3>3. FlattenSeq(ar \o c) = FlattenSeq(ar) \o FlattenSeq(c)
      BY <1>6, FlattenConcat
    <3> QED BY <3>1, <3>2, <3>3
  <2>4. Updated(f) = FlattenSeq((a \o r) \o c)
    <3>1. Updated(f) = f.before \o Replacement(f.found) \o f.after
      BY DEF Updated
    <3> QED BY <1>2, <1>8, <2>1, <2>3, <3>1
  <2>5. LinesOf(Updated(f)) = (a \o r) \o c
    BY <2>3, <2>4, LinesOfFlatten
  <2>6. LinesOf(f.before) = a /\ LinesOf(f.after) = c
    BY <1>2, <1>4, <1>6, LinesOfFlatten
  <2> QED BY <2>5, <2>6
<1>11. f.before \in Seq(T) /\ f.named \in Seq(T) /\ f.after \in Seq(T)
  <2>1. FlattenSeq(a) \in Seq(T) /\ FlattenSeq(b) \in Seq(T) /\ FlattenSeq(c) \in Seq(T)
    BY <1>4, <1>5, <1>6, FlattenTyped
  <2> QED BY <1>2, <2>1
<1>12. Replacement("lines") \in Seq(T)
  BY ReplacementFound
<1> QED BY <1>2, <1>5, <1>9, <1>10, <1>11, <1>12 DEF f, r

\* Lines that are the same without trailing blanks say the same.
LEMMA SameLinesFound ==
  ASSUME NEW T, body \in Seq(T), old \in Seq(T), old # <<>>, NEW i \in SameLines
  PROVE  /\ i \in 1..Len(LinesOf(body))
         /\ i + Len(LinesOf(old)) - 1 \in (i - 1)..Len(LinesOf(body))
         /\ SubSeq(StrippedLines(body), i, i + Len(LinesOf(old)) - 1) = StrippedLines(old)
<1> DEFINE n == Len(LinesOf(old))
           j == i + n - 1
           R == {RStripped(l) : l \in Seq(T)}
           rb == RStrippedLines(body)
           ro == RStrippedLines(old)
           sb == StrippedLines(body)
           so == StrippedLines(old)
<1>1. /\ LinesOf(body) \in Seq(Seq(T)) /\ LinesOf(old) \in Seq(Seq(T))
      /\ \A k \in 1..Len(LinesOf(body)) : LinesOf(body)[k] \in Seq(T)
      /\ \A k \in 1..n : LinesOf(old)[k] \in Seq(T)
  BY LinesTyped
<1>2. n \in Nat /\ n # 0
  <2>1. LinesOf(old) # <<>>
    BY LinesFound, FlattenEmpty
  <2> QED BY <1>1, <2>1
<1>3. /\ sb \in Seq(Seq(T)) /\ Len(sb) = Len(LinesOf(body)) /\ Len(rb) = Len(LinesOf(body))
      /\ Len(LinesOf(body)) \in Nat
      /\ \A k \in 1..Len(LinesOf(body)) : /\ sb[k] = Stripped(LinesOf(body)[k])
                                          /\ rb[k] = RStripped(LinesOf(body)[k])
  BY StrippedTyped
<1>4. /\ so \in Seq(Seq(T)) /\ Len(so) = n /\ Len(ro) = n
      /\ \A k \in 1..n : so[k] = Stripped(LinesOf(old)[k]) /\ ro[k] = RStripped(LinesOf(old)[k])
  BY StrippedTyped
<1>5. rb \in Seq(R) /\ ro \in Seq(R)
  <2>1. /\ rb = [k \in DOMAIN LinesOf(body) |-> RStripped(LinesOf(body)[k])]
        /\ ro = [k \in DOMAIN LinesOf(old) |-> RStripped(LinesOf(old)[k])]
    BY DEF RStrippedLines
  <2>2. DOMAIN LinesOf(body) = 1..Len(LinesOf(body)) /\ DOMAIN LinesOf(old) = 1..n
    BY <1>1
  <2>3. \A l \in Seq(T) : RStripped(l) \in R
    OBVIOUS
  <2> HIDE DEF R
  <2> QED BY <1>1, <1>2, <1>3, <2>1, <2>2, <2>3
<1> HIDE DEF R, rb, ro, sb, so
<1>6. i \in Occurrences(ro, rb)
  BY DEF SameLines, ro, rb
<1>7. /\ i \in 1..(Len(rb) + 1) /\ i + Len(ro) - 1 \in (i - 1)..Len(rb) /\ i \in 1..Len(rb)
      /\ SubSeq(rb, i, i + Len(ro) - 1) = ro
  <2>1. ro # <<>>
    BY <1>2, <1>4
  <2> QED BY <1>5, <1>6, <2>1, OccurrencesFound
<1>8. /\ i \in 1..Len(LinesOf(body)) /\ j \in (i - 1)..Len(LinesOf(body)) /\ j - i + 1 = n
      /\ i \in 1..(Len(LinesOf(body)) + 1)
  BY <1>2, <1>3, <1>4, <1>7
<1>9. \A k \in 1..n : i + k - 1 \in 1..Len(LinesOf(body)) /\ ro[k] = rb[i + k - 1]
  <2>1. \A k \in 1..(j - i + 1) : i + k - 1 \in i..j /\ SubSeq(rb, i, j)[k] = rb[i + k - 1]
    BY <1>3, <1>5, <1>8, BlockTyped
  <2>2. SubSeq(rb, i, j) = ro
    BY <1>4, <1>7
  <2>3. \A m \in i..j : m \in 1..Len(LinesOf(body))
    BY <1>3, <1>8
  <2> HIDE DEF j
  <2> QED BY <1>8, <2>1, <2>2, <2>3
<1>10. /\ SubSeq(sb, i, j) \in Seq(Seq(T)) /\ Len(SubSeq(sb, i, j)) = n
       /\ \A k \in 1..n : SubSeq(sb, i, j)[k] = sb[i + k - 1]
  <2> DEFINE S == Seq(T)
  <2>2. /\ sb \in Seq(S) /\ i \in 1..(Len(sb) + 1) /\ j \in (i - 1)..Len(sb)
    BY <1>3, <1>8
  <2> HIDE DEF S, j
  <2>3. /\ SubSeq(sb, i, j) \in Seq(S) /\ Len(SubSeq(sb, i, j)) = j - i + 1
        /\ \A k \in 1..(j - i + 1) : SubSeq(sb, i, j)[k] = sb[i + k - 1]
    BY <2>2, BlockTyped
  <2>1. /\ SubSeq(sb, i, j) \in Seq(Seq(T)) /\ Len(SubSeq(sb, i, j)) = j - i + 1
        /\ \A k \in 1..(j - i + 1) : SubSeq(sb, i, j)[k] = sb[i + k - 1]
    BY <2>3 DEF S
  <2> QED BY <1>8, <2>1
<1>11. ASSUME NEW k \in 1..n  PROVE SubSeq(sb, i, j)[k] = so[k]
  <2> DEFINE x == LinesOf(body)[i + k - 1]  y == LinesOf(old)[k]
  <2>1. x \in Seq(T) /\ y \in Seq(T) /\ i + k - 1 \in 1..Len(LinesOf(body))
    BY <1>1, <1>9
  <2>2. RStripped(x) = RStripped(y)
    BY <1>3, <1>4, <1>9, <2>1
  <2>3. Stripped(x) = Stripped(RStripped(x)) /\ Stripped(y) = Stripped(RStripped(y))
    BY <2>1, StrippedFromRStripped
  <2>4. SubSeq(sb, i, j)[k] = Stripped(x) /\ so[k] = Stripped(y)
    BY <1>3, <1>4, <1>10, <2>1
  <2> QED BY <2>2, <2>3, <2>4
<1>12. SubSeq(sb, i, j) = so
  <2>1. Len(SubSeq(sb, i, j)) = Len(so)
    BY <1>4, <1>10
  <2> HIDE DEF j
  <2> QED BY <1>4, <1>10, <1>11, <2>1, SeqEqual
<1> QED BY <1>8, <1>12 DEF sb, so

\* The lines that say what old_text says, with the blank lines that follow.
LEMMA SaidLinesFound ==
  ASSUME NEW T, body \in Seq(T), old \in Seq(T), SaidLines # {}
  PROVE  /\ Min(SaidLines) \in 1..Len(LinesOf(body))
         /\ LastLine(Len(Said(old))) \in (Min(SaidLines) - 1)..Len(LinesOf(body))
         /\ NotBlank(SubSeq(StrippedLines(body), Min(SaidLines), LastLine(Len(Said(old)))))
              = Said(old)
<1> DEFINE said == Said(old)
           n == Len(said)
           lines == StrippedLines(body)
           i == Min(SaidLines)
           j == i + n - 1
           last == LastLine(n)
<1>1. /\ lines \in Seq(Seq(T)) /\ Len(lines) = Len(LinesOf(body)) /\ Len(lines) \in Nat
  BY StrippedTyped
<1>2. said \in Seq(Seq(T)) /\ n \in Nat /\ NotBlank(said) = said
  <2>1. PICK s \in Seq(Seq(T)) : s = StrippedLines(old)
    BY StrippedTyped
  <2>2. NotBlank(s) \in Seq(Seq(T)) /\ Len(NotBlank(s)) \in Nat
        /\ NotBlank(NotBlank(s)) = NotBlank(s)
    BY NotBlankFound
  <2> QED BY <2>1, <2>2 DEF Said
<1> HIDE DEF said, lines
<1>3. said # <<>> /\ SaidLines = Occurrences(said, lines)
  BY DEF SaidLines, said, lines
<1>4. i \in Occurrences(said, lines)
  BY <1>1, <1>2, <1>3, FirstOccurrence
<1> HIDE DEF i
<1>5. /\ i \in 1..Len(lines) /\ i \in 1..(Len(lines) + 1) /\ j \in (i - 1)..Len(lines)
      /\ SubSeq(lines, i, j) = said
  <2>1. PICK S : S = Seq(T)
    OBVIOUS
  <2>2. said \in Seq(S) /\ lines \in Seq(S)
    BY <1>1, <1>2, <2>1
  <2> QED BY <1>3, <1>4, <2>2, OccurrencesFound
<1>6. n >= 1 /\ j \in Nat /\ j >= i /\ j >= 1 /\ j <= Len(lines)
  <2>1. n # 0
    BY <1>2, <1>3
  <2> QED BY <1>1, <1>2, <1>5, <2>1
<1> HIDE DEF j
<1>7. last \in j..Len(lines) /\ \A k \in (j + 1)..last : lines[k] = <<>>
  <2> DEFINE top == Min({Len(lines), j + 3})
             M == {m \in j..top : \A k \in (j + 1)..m : lines[k] = <<>>}
  <2>1. top \in {Len(lines), j + 3} /\ \A x \in {Len(lines), j + 3} : top <= x
    <3>1. {Len(lines), j + 3} \subseteq Nat /\ {Len(lines), j + 3} # {}
      BY <1>1, <1>6
    <3> QED BY <3>1, MinFound
  <2> HIDE DEF top
  <2>2. top \in Nat /\ top <= Len(lines) /\ j <= top
    BY <1>1, <1>6, <2>1
  <2>3. j \in M
    BY <1>6, <2>2
  <2>4. M \subseteq Nat /\ \A x \in M : x <= top
    BY <1>6, <2>2
  <2>5. Max(M) \in M
    <3> HIDE DEF M
    <3>1. M # {}
      BY <2>3
    <3> QED BY <2>2, <2>4, <3>1, MaxFound
  <2>6. last = Max(M)
    BY DEF LastLine, lines, i, j, top
  <2>7. Max(M) \in j..top /\ \A k \in (j + 1)..Max(M) : lines[k] = <<>>
    BY <2>5
  <2> HIDE DEF M
  <2> QED BY <1>1, <1>6, <2>2, <2>6, <2>7
<1> HIDE DEF last
<1>8. /\ last \in Int /\ j <= last /\ last <= Len(lines) /\ last \in (i - 1)..Len(lines)
      /\ j + 1 \in 1..(Len(lines) + 1) /\ last \in ((j + 1) - 1)..Len(lines)
      /\ j \in (i - 1)..Len(lines) /\ last \in j..Len(lines)
  BY <1>1, <1>5, <1>6, <1>7
<1> DEFINE rest == SubSeq(lines, j + 1, last)
<1>9. SubSeq(lines, i, last) = said \o rest
  <2>1. SubSeq(lines, i, j) \o SubSeq(lines, j + 1, last) = SubSeq(lines, i, last)
    BY <1>1, <1>5, <1>8, ConcatAdjacentSubSeq
  <2> QED BY <1>5, <2>1
<1>10. rest \in Seq(Seq(T)) /\ \A k \in 1..Len(rest) : rest[k] = <<>>
  <2>1. /\ rest \in Seq(Seq(T)) /\ Len(rest) = last - (j + 1) + 1
        /\ \A k \in 1..(last - (j + 1) + 1) :
             (j + 1) + k - 1 \in (j + 1)..last /\ rest[k] = lines[(j + 1) + k - 1]
    BY <1>1, <1>8, BlockTyped
  <2> HIDE DEF rest
  <2> QED BY <1>7, <2>1
<1> HIDE DEF rest
<1>11. NotBlank(rest) = <<>>
  BY <1>10, NotBlankFound
<1>12. NotBlank(said \o rest) = said
  <2>1. NotBlank(said \o rest) = NotBlank(said) \o NotBlank(rest)
    BY <1>2, <1>10, NotBlankConcat
  <2>2. said \o <<>> = said
    BY <1>2, ConcatEmptySeq
  <2> QED BY <1>2, <1>11, <2>1, <2>2
<1> QED BY <1>1, <1>5, <1>8, <1>9, <1>12 DEF said, lines, i, last

\* A block of as many lines as old_text has, that says what old_text says, is found.
LEMMA SaidBlockFound ==
  ASSUME NEW T, body \in Seq(T), old \in Seq(T),
         NEW i \in 1..Len(StrippedLines(body)), NEW j \in 1..Len(StrippedLines(body)),
         Says(SubSeq(StrippedLines(body), i, j), Said(old)), ~ (j - i >= Len(Said(old)))
  PROVE  SaidLines # {}
<1> DEFINE said == Said(old)
           lines == StrippedLines(body)
           block == SubSeq(lines, i, j)
<1>1. /\ lines \in Seq(Seq(T)) /\ Len(lines) \in Nat /\ i \in 1..Len(lines) /\ j \in 1..Len(lines)
  BY StrippedTyped
<1>2. Says(block, said) /\ ~ (j - i >= Len(said)) /\ SaidLines = IF said = <<>> THEN {} ELSE Occurrences(said, lines)
  BY DEF SaidLines
<1> HIDE DEF said, lines
<1>3. block # <<>> /\ block[1] # <<>> /\ NotBlank(block) = said
  BY <1>2 DEF Says
<1>4. i <= j
  <2>1. ~ (j < i)
    BY <1>1, <1>3, SubSeqEmpty
  <2> QED BY <1>1, <2>1
<1>5. block \in Seq(Seq(T)) /\ Len(block) = j - i + 1
  <2>1. i \in 1..(Len(lines) + 1) /\ j \in (i - 1)..Len(lines)
    BY <1>1, <1>4
  <2> QED BY <1>1, <2>1, BlockTyped
<1> HIDE DEF block
<1>6. /\ Len(said) \in Nat /\ Len(said) <= Len(block)
      /\ Len(said) = Len(block) => said = block
      /\ said = <<>> <=> \A k \in 1..Len(block) : block[k] = <<>>
  <2>1. PICK b \in Seq(Seq(T)) : b = block
    BY <1>5
  <2>2. /\ Len(NotBlank(b)) \in Nat /\ Len(NotBlank(b)) <= Len(b)
        /\ Len(NotBlank(b)) = Len(b) => NotBlank(b) = b
        /\ NotBlank(b) = <<>> <=> \A k \in 1..Len(b) : b[k] = <<>>
    BY NotBlankFound
  <2> QED BY <1>3, <2>1, <2>2
<1>7. said = block /\ Len(said) = j - i + 1
  BY <1>1, <1>2, <1>4, <1>5, <1>6
<1>8. said # <<>>
  BY <1>3, <1>7
<1>9. i \in Occurrences(said, lines)
  <2>1. i \in 1..(Len(lines) + 1 - Len(said)) /\ i + Len(said) - 1 = j
    BY <1>1, <1>4, <1>7
  <2>2. SubSeq(lines, i, i + Len(said) - 1) = said
    BY <1>7, <2>1 DEF block
  <2> QED BY <2>1, <2>2 DEF Occurrences
<1> QED BY <1>2, <1>8, <1>9

\* The file and old_text are always texts of these characters.
EditInv == file \in Seq(Characters \cup Foreign) /\ old \in Seq(Characters)

LEMMA EditInvHolds == EditSpec => []EditInv
<1>1. EditInit => EditInv
  BY DEF EditInit, EditInv
<1>2. EditInv /\ [EditNext]_editVars => EditInv'
  <2> SUFFICES ASSUME EditInv, [EditNext]_editVars  PROVE EditInv'
    OBVIOUS
  <2>1. CASE EditNext
    <3>1. \/ \E c \in Characters \cup Foreign : file' = Append(file, c) /\ old' = old
          \/ \E c \in Characters : old' = Append(old, c) /\ file' = file
      BY <2>1 DEF EditNext, Grows
    <3>2. \A S : \A l \in Seq(S), c \in S : Append(l, c) \in Seq(S)
      BY AppendProperties
    <3> QED BY <3>1, <3>2 DEF EditInv
  <2>2. CASE UNCHANGED editVars
    BY <2>2 DEF EditInv, editVars
  <2> QED BY <2>1, <2>2
<1> QED BY <1>1, <1>2, PTL DEF EditSpec

\* What a file is read as: a text as long as the file, and the same but for what is
\* foreign.
LEMMA FileRead ==
  ASSUME EditInv
  PROVE  /\ body \in Seq(Characters) /\ Len(body) = Len(file)
         /\ \A i \in 1..Len(file) : file[i] \in Characters => body[i] = file[i]
<1>1. Unknown \in Characters /\ LineEnd \in Characters
      /\ OtherLineEnd \notin Characters /\ BadByte \notin Characters
  BY FileEditsAssumption DEF Characters
<1>2. /\ Len(file) \in Nat /\ DOMAIN file = 1..Len(file)
      /\ \A i \in 1..Len(file) : file[i] \in Characters \cup Foreign
  BY DEF EditInv
<1> DEFINE read == [i \in 1..Len(file) |-> CASE file[i] = OtherLineEnd -> LineEnd
                                            [] file[i] = BadByte -> Unknown
                                            [] OTHER -> file[i]]
<1>3. body = read
  BY <1>2 DEF body
<1>4. ASSUME NEW i \in 1..Len(file)
      PROVE  read[i] \in Characters /\ (file[i] \in Characters => read[i] = file[i])
  BY <1>1, <1>2 DEF Foreign
<1>5. read \in Seq(Characters) /\ Len(read) = Len(file)
  <2> HIDE DEF Characters
  <2>1. read \in [1..Len(file) -> Characters]
    BY <1>4
  <2> HIDE DEF read
  <2> QED BY <1>2, <2>1
<1> QED BY <1>3, <1>4, <1>5

\* The outer two of three texts that stand in a row.
LEMMA InARow ==
  ASSUME NEW T, NEW b \in Seq(T), NEW n \in Seq(T), NEW a \in Seq(T)
  PROVE  /\ Len(b) \in Nat /\ Len(n) \in Nat /\ Len(a) \in Nat
         /\ Len(b \o n) = Len(b) + Len(n)
         /\ Len(b \o n \o a) = Len(b) + Len(n) + Len(a)
         /\ \A i \in 1..Len(b) : (b \o n \o a)[i] = b[i]
         /\ \A k \in 1..Len(a) : (b \o n \o a)[Len(b) + Len(n) + k] = a[k]
<1>1. PICK c \in Seq(T) : c = b \o n
  BY ConcatProperties
<1>2. /\ Len(b) \in Nat /\ Len(n) \in Nat /\ Len(a) \in Nat /\ Len(c) = Len(b) + Len(n)
      /\ \A i \in 1..(Len(b) + Len(n)) : c[i] = IF i <= Len(b) THEN b[i] ELSE n[i - Len(b)]
  BY <1>1, ConcatProperties, LenProperties
<1>3. /\ Len(c \o a) = Len(c) + Len(a)
      /\ \A i \in 1..(Len(c) + Len(a)) :
           (c \o a)[i] = IF i <= Len(c) THEN c[i] ELSE a[i - Len(c)]
  BY ConcatProperties
<1>4. ASSUME NEW i \in 1..Len(b)  PROVE (c \o a)[i] = b[i]
  <2>1. i \in 1..(Len(b) + Len(n)) /\ i \in 1..(Len(c) + Len(a)) /\ i <= Len(b) /\ i <= Len(c)
    BY <1>2
  <2> QED BY <1>2, <1>3, <2>1
<1>5. ASSUME NEW k \in 1..Len(a)  PROVE (c \o a)[Len(b) + Len(n) + k] = a[k]
  <2> DEFINE i == Len(b) + Len(n) + k
  <2>1. i \in 1..(Len(c) + Len(a)) /\ ~ (i <= Len(c)) /\ i - Len(c) = k
    BY <1>2
  <2> HIDE DEF i
  <2>2. (c \o a)[i] = a[k]
    BY <1>3, <2>1
  <2> QED BY <2>2 DEF i
<1> QED BY <1>1, <1>2, <1>3, <1>4, <1>5

\* The characters before and after what is replaced are written where they belong.
LEMMA OthersWritten ==
  ASSUME EditInv, NEW T, NEW f, f.before \in Seq(T), f.named \in Seq(T), f.after \in Seq(T),
         Replacement(f.found) \in Seq(T), f.before \o f.named \o f.after = body
  PROVE  OthersStay(f)
<1>1. PICK b \in Seq(T), n \in Seq(T), a \in Seq(T), p \in Seq(T) :
        b = f.before /\ n = f.named /\ a = f.after /\ p = Replacement(f.found)
  OBVIOUS
<1> DEFINE t == b \o n \o a  w == b \o p \o a
<1>2. /\ Len(b) \in Nat /\ Len(n) \in Nat /\ Len(a) \in Nat
      /\ Len(b \o n) = Len(b) + Len(n) /\ Len(t) = Len(b) + Len(n) + Len(a)
      /\ \A i \in 1..Len(b) : t[i] = b[i]
      /\ \A k \in 1..Len(a) : t[Len(b) + Len(n) + k] = a[k]
  BY InARow
<1>3. /\ Len(p) \in Nat /\ Len(w) = Len(b) + Len(p) + Len(a)
      /\ \A i \in 1..Len(b) : w[i] = b[i]
      /\ \A k \in 1..Len(a) : w[Len(b) + Len(p) + k] = a[k]
  BY InARow
<1>4. /\ t = body /\ Updated(f) = w /\ Len(t) = Len(file)
      /\ \A i \in 1..Len(file) : file[i] \in Characters => t[i] = file[i]
  BY <1>1, FileRead DEF Updated
<1> HIDE DEF t, w
<1>5. ASSUME NEW i \in 1..Len(b)  PROVE i \in 1..Len(t) /\ w[i] = t[i]
  BY <1>2, <1>3
<1>6. ASSUME NEW i \in (Len(b) + Len(n) + 1)..Len(t)
      PROVE  i \in 1..Len(t) /\ w[(i + Len(w)) - Len(t)] = t[i]
  <2>1. PICK k \in 1..Len(a) : i = Len(b) + Len(n) + k
    <3>1. i - (Len(b) + Len(n)) \in 1..Len(a) /\ i = Len(b) + Len(n) + (i - (Len(b) + Len(n)))
      BY <1>2
    <3> QED BY <3>1
  <2>2. i \in 1..Len(t) /\ (i + Len(w)) - Len(t) = Len(b) + Len(p) + k
    BY <1>2, <1>3, <2>1
  <2>3. t[i] = a[k] /\ w[Len(b) + Len(p) + k] = a[k]
    BY <1>2, <1>3, <2>1
  <2> QED BY <2>2, <2>3
<1>7. Len(f.before \o f.named) = Len(b) + Len(n) /\ Len(f.before) = Len(b)
  BY <1>1, <1>2
<1> QED BY <1>4, <1>5, <1>6, <1>7 DEF OthersStay

LEMMA EditsFound == EditInv => EditsOnlyWhatIsNamed
<1> SUFFICES ASSUME EditInv, old # <<>>
             PROVE  IF Found.found = "no"
                    THEN \A i \in 1..Len(StrippedLines(body)), j \in 1..Len(StrippedLines(body)) :
                           Says(SubSeq(StrippedLines(body), i, j), Said(old))
                             => j - i >= Len(Said(old))
                    ELSE /\ Found.before \o Found.named \o Found.after = body
                         /\ OthersStay(Found)
                         /\ Said(Found.named) = Said(old)
                         /\ Found.found = "lines" =>
                              LinesOf(Updated(Found))
                                = LinesOf(Found.before) \o LinesOf(Replacement(Found.found))
                                    \o LinesOf(Found.after)
  BY DEF EditsOnlyWhatIsNamed
<1> DEFINE T == Characters \cup ToSet(NewText)
           Right(f) == /\ f.found # "no"
                       /\ f.before \o f.named \o f.after = body
                       /\ OthersStay(f)
                       /\ Said(f.named) = Said(old)
                       /\ f.found = "lines" =>
                            LinesOf(Updated(f))
                              = LinesOf(f.before) \o LinesOf(Replacement(f.found)) \o LinesOf(f.after)
<1>1. body \in Seq(T) /\ old \in Seq(T) /\ LineEnd \in T /\ NewText \in Seq(T)
  <2>1. Characters \subseteq T /\ ToSet(NewText) \subseteq T /\ LineEnd \in Characters
    BY DEF Characters
  <2>3. body \in Seq(Characters)
    BY FileRead
  <2> HIDE DEF T
  <2>2. \A S, l : l \in Seq(S) /\ S \subseteq T => l \in Seq(T)
    OBVIOUS
  <2> QED BY <2>1, <2>2, <2>3, FileEditsAssumption DEF EditInv
<1> HIDE DEF T
<1>2. CASE Occurrences(old, body) # {}
  <2>1. PICK place \in Occurrences(old, body) : Found = ByText(place)
    BY <1>1, <1>2, FirstOccurrence DEF Found
  <2>2. /\ ByText(place).found = "text" /\ ByText(place).named = old
        /\ ByText(place).before \o ByText(place).named \o ByText(place).after = body
        /\ ByText(place).before \in Seq(T) /\ ByText(place).after \in Seq(T)
    BY <1>1, ByTextFound
  <2>3. Replacement(ByText(place).found) \in Seq(T)
    BY <1>1, <2>2 DEF Replacement
  <2> DEFINE f == ByText(place)
  <2>4. f.before \in Seq(T) /\ f.named \in Seq(T) /\ f.after \in Seq(T)
        /\ Replacement(f.found) \in Seq(T) /\ f.before \o f.named \o f.after = body
    BY <1>1, <2>2, <2>3
  <2> HIDE DEF f
  <2>5. OthersStay(f)
    BY <2>4, OthersWritten
  <2>6. Right(Found)
    BY <2>1, <2>2, <2>5 DEF f
  <2> QED BY <2>6
<1>3. CASE Occurrences(old, body) = {} /\ SameLines # {}
  <2> DEFINE first == Min(SameLines)  last == Min(SameLines) + Len(LinesOf(old)) - 1
             f == ByLines(first, last)
  <2>1. Found = f
    BY <1>3 DEF Found
  <2>2. first \in SameLines
    <3>1. SameLines \subseteq Nat
      <4>1. Len(RStrippedLines(body)) \in Nat /\ Len(RStrippedLines(old)) \in Nat
        BY <1>1, StrippedTyped
      <4> QED BY <4>1 DEF SameLines, Occurrences
    <3> QED BY <1>3, <3>1, MinFound
  <2>3. /\ first \in 1..Len(LinesOf(body)) /\ last \in (first - 1)..Len(LinesOf(body))
        /\ SubSeq(StrippedLines(body), first, last) = StrippedLines(old)
    BY <1>1, <2>2, SameLinesFound
  <2> HIDE DEF first, last
  <2>4. /\ f.found = "lines"
        /\ f.before \o f.named \o f.after = body
        /\ StrippedLines(f.named) = SubSeq(StrippedLines(body), first, last)
        /\ LinesOf(Updated(f))
             = LinesOf(f.before) \o LinesOf(Replacement("lines")) \o LinesOf(f.after)
        /\ f.before \in Seq(T) /\ f.named \in Seq(T) /\ f.after \in Seq(T)
        /\ Replacement("lines") \in Seq(T)
    BY <1>1, <2>3, ByLinesFound
  <2> HIDE DEF f
  <2>5. Said(f.named) = Said(old)
    BY <2>3, <2>4 DEF Said
  <2>6. OthersStay(f)
    BY <2>4, OthersWritten
  <2>7. Right(Found)
    BY <2>1, <2>4, <2>5, <2>6
  <2> QED BY <2>7
<1>4. CASE Occurrences(old, body) = {} /\ SameLines = {} /\ SaidLines # {}
  <2> DEFINE first == Min(SaidLines)  last == LastLine(Len(Said(old)))
             f == ByLines(first, last)
  <2>1. Found = f
    BY <1>4 DEF Found
  <2>2. /\ first \in 1..Len(LinesOf(body)) /\ last \in (first - 1)..Len(LinesOf(body))
        /\ NotBlank(SubSeq(StrippedLines(body), first, last)) = Said(old)
    BY <1>1, <1>4, SaidLinesFound
  <2> HIDE DEF first, last
  <2>3. /\ f.found = "lines"
        /\ f.before \o f.named \o f.after = body
        /\ StrippedLines(f.named) = SubSeq(StrippedLines(body), first, last)
        /\ LinesOf(Updated(f))
             = LinesOf(f.before) \o LinesOf(Replacement("lines")) \o LinesOf(f.after)
        /\ f.before \in Seq(T) /\ f.named \in Seq(T) /\ f.after \in Seq(T)
        /\ Replacement("lines") \in Seq(T)
    BY <1>1, <2>2, ByLinesFound
  <2> HIDE DEF f
  <2>4. Said(f.named) = Said(old)
    <3>1. Said(f.named) = NotBlank(StrippedLines(f.named))
      BY DEF Said
    <3> QED BY <2>2, <2>3, <3>1
  <2>5. OthersStay(f)
    BY <2>3, OthersWritten
  <2>6. Right(Found)
    BY <2>1, <2>3, <2>4, <2>5
  <2> QED BY <2>6
<1>5. CASE Occurrences(old, body) = {} /\ SameLines = {} /\ SaidLines = {}
  <2>1. Found.found = "no"
    BY <1>5 DEF Found, NotFound
  <2>2. ASSUME NEW i \in 1..Len(StrippedLines(body)), NEW j \in 1..Len(StrippedLines(body)),
               Says(SubSeq(StrippedLines(body), i, j), Said(old))
        PROVE  j - i >= Len(Said(old))
    BY <1>1, <1>5, <2>2, SaidBlockFound
  <2> QED BY <2>1, <2>2
<1> QED BY <1>2, <1>3, <1>4, <1>5

\* An edit removes what old_text says and nothing else that is not blank, and writes every
\* other character back as it was, unless it is a line end of another system or a bad byte;
\* it is refused only when every block of the file that says the
\* same has a blank line within (edit_file), for every file, old_text and new_text.
THEOREM EditsOnlyWhatIsNamedCorrect == EditSpec => []EditsOnlyWhatIsNamed
BY EditInvHolds, EditsFound, PTL
=============================================================================
