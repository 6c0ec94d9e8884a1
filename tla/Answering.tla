----------------------------- MODULE Answering -----------------------------
(* Calls of an LLM and what is made of them.  Questions about a notebook or a    *)
(* repository are answered by request handlers that occupy the event loop until  *)
(* the answer is there; beside it, worker threads answer batches of questions,   *)
(* analyse files and complete the turns of agents.  All of them share            *)
(* LLM_SEMAPHORE, and each kind of caller retries, backs off and falls back to   *)
(* other providers in its own way.  An answer about a notebook is graded,        *)
(* perhaps written again, and kept in the notebook's history.                    *)
EXTENDS Naturals, Sequences, FiniteSets

CONSTANTS
  Loop,       \* the thread of the event loop
  Workers,    \* worker threads
  Limit,      \* LLM_SEMAPHORE_LIMIT
  Providers,  \* number of providers there is a key for
  Tries,      \* kind of caller -> attempts with each provider
  MaxAsked,   \* questions asked about the notebook
  Faults      \* "db": a statement fails, or its answer is lost

\* Generator._call_api, _ingest_chat_completion and chat_completion.
Kinds == {"answer", "analysis", "agent"}

ASSUME AnsweringAssumption ==
  /\ Loop \notin Workers /\ IsFiniteSet(Workers)
  /\ Limit \in Nat \ {0} /\ Providers \in Nat \ {0} /\ MaxAsked \in Nat
  /\ Tries \in [Kinds -> Nat \ {0}]
  /\ Faults \subseteq {"db"}

VARIABLES
  permits,  \* LLM_SEMAPHORE
  call,     \* what each thread is doing
  asked,    \* questions asked about the notebook
  history   \* notebooks.conversation_history

vars == <<permits, call, asked, history>>

Threads == Workers \cup {Loop}

Places == {"idle", "acquire", "request", "backoff",
           "grade", "save question", "save answer"}

\* second: the answer that is being written is the second one.
Calls == [kind : Kinds, at : Places, provider : 1..Providers, attempt : Nat,
          second : BOOLEAN]
NoCall == [kind |-> "answer", at |-> "idle", provider |-> 1, attempt |-> 1,
           second |-> FALSE]

Entries == [who : {"user", "ai"}, question : 1..MaxAsked]

Init ==
  /\ permits = Limit
  /\ call = [t \in Threads |-> NoCall]
  /\ asked = 0
  /\ history = <<>>

At(t, place) == call[t].at = place
Goto(t, place) == call' = [call EXCEPT ![t].at = place]
Returns(t) == call' = [call EXCEPT ![t] = NoCall]

\* The event loop runs other handlers and coroutines.
LoopIsFree == At(Loop, "idle")

\* notebook_query: the answer is graded and kept.
IsQuery(t) == t = Loop /\ call[t].kind = "answer"

-----------------------------------------------------------------------------
(* Who calls.                                                              *)

Starts(t, kind) ==
  /\ At(t, "idle")
  /\ call' = [call EXCEPT ![t] = [NoCall EXCEPT !.kind = kind, !.at = "acquire"]]
  /\ UNCHANGED <<permits, history>>

\* notebook_query has found chunks.
AsksNotebook ==
  /\ asked < MaxAsked
  /\ asked' = asked + 1
  /\ Starts(Loop, "answer")

\* query_repo
AsksRepository == Starts(Loop, "analysis") /\ UNCHANGED asked

\* A batch's next question, a file to analyse or a consolidation; and an agent's
\* turn, which its coroutine hands to a thread.
WorkerCalls(t) ==
  /\ \E kind \in Kinds : (kind = "agent" => LoopIsFree) /\ Starts(t, kind)
  /\ UNCHANGED asked

-----------------------------------------------------------------------------
(* The call.                                                               *)

Acquires(t) ==
  /\ At(t, "acquire") /\ permits > 0
  /\ permits' = permits - 1
  /\ Goto(t, "request")
  /\ UNCHANGED <<asked, history>>

\* A provider answers.
Answered(t) ==
  /\ At(t, "request")
  /\ permits' = permits + 1
  /\ IF IsQuery(t) THEN Goto(t, "grade") ELSE Returns(t)
  /\ UNCHANGED <<asked, history>>

\* 429, any other HTTP error, and a timeout or an answer that cannot be read.
Failures == {"limit", "refused", "broken"}

\* After which failures an attempt follows with the same provider.
Retried(c, failure) ==
  /\ c.attempt < Tries[c.kind]
  /\ CASE c.kind = "answer" -> failure # "refused"
       [] c.kind = "analysis" -> TRUE
       [] c.kind = "agent" -> failure = "limit"

\* _ingest_try_provider sleeps without a permit, the others with theirs.
BacksOff(t, failure) ==
  /\ At(t, "request") /\ Retried(call[t], failure)
  /\ Goto(t, "backoff")
  /\ permits' = IF call[t].kind = "analysis" THEN permits + 1 ELSE permits
  /\ UNCHANGED <<asked, history>>

\* Each attempt has its own permit, but chat_completion has one for all.
TriesAgain(t) ==
  /\ At(t, "backoff")
  /\ call' = [call EXCEPT ![t].attempt = @ + 1,
                          ![t].at = IF call[t].kind = "agent" THEN "request" ELSE "acquire"]
  /\ permits' = IF call[t].kind = "answer" THEN permits + 1 ELSE permits
  /\ UNCHANGED <<asked, history>>

\* Mutant of FallsBack: a refusal leaves the loop before the permit is released.
FallsBackHolding(t, failure) ==
  /\ At(t, "request") /\ ~ Retried(call[t], failure)
  /\ call[t].provider < Providers
  /\ call' = [call EXCEPT ![t].provider = @ + 1, ![t].attempt = 1,
                          ![t].at = IF call[t].kind = "agent" THEN @ ELSE "acquire"]
  /\ permits' = IF call[t].kind = "agent" \/ failure = "refused"
                THEN permits ELSE permits + 1
  /\ UNCHANGED <<asked, history>>

\* The next provider.
FallsBack(t, failure) ==
  /\ At(t, "request") /\ ~ Retried(call[t], failure)
  /\ call[t].provider < Providers
  /\ call' = [call EXCEPT ![t].provider = @ + 1, ![t].attempt = 1,
                          ![t].at = IF call[t].kind = "agent" THEN @ ELSE "acquire"]
  /\ permits' = IF call[t].kind = "agent" THEN permits ELSE permits + 1
  /\ UNCHANGED <<asked, history>>

\* No provider is left: RuntimeError.  A query fails with it, even if it was about
\* its second answer.
GivesUp(t, failure) ==
  /\ At(t, "request") /\ ~ Retried(call[t], failure)
  /\ call[t].provider = Providers
  /\ permits' = permits + 1
  /\ Returns(t)
  /\ UNCHANGED <<asked, history>>

-----------------------------------------------------------------------------
(* notebook_query, on the event loop.                                      *)

\* The grading request needs no permit; if it fails the answer passes.  An answer
\* that does not, with feedback, is written once more, and the better is kept.
Graded ==
  /\ At(Loop, "grade")
  /\ \/ Goto(Loop, "save question")
     \/ /\ ~ call[Loop].second
        /\ call' = [call EXCEPT ![Loop] =
             [NoCall EXCEPT !.at = "acquire", !.second = TRUE]]
  /\ UNCHANGED <<permits, asked, history>>

Entry(who) == Append(history, [who |-> who, question |-> asked])

\* Two transactions.  If one fails the answer is given all the same.
SavesQuestion ==
  /\ At(Loop, "save question")
  /\ history' = Entry("user")
  /\ Goto(Loop, "save answer")
  /\ UNCHANGED <<permits, asked>>

SavesAnswer ==
  /\ At(Loop, "save answer")
  /\ history' = Entry("ai")
  /\ Returns(Loop)
  /\ UNCHANGED <<permits, asked>>

SaveFails ==
  /\ "db" \in Faults
  /\ \E who \in {"user", "ai"} :
       /\ At(Loop, IF who = "user" THEN "save question" ELSE "save answer")
       /\ history' \in {history, Entry(who)}
  /\ Returns(Loop)
  /\ UNCHANGED <<permits, asked>>

\* Mutant of Clears: queries are answered in a thread.
ClearsAnyTime ==
  /\ history' = <<>>
  /\ UNCHANGED <<permits, call, asked>>

\* clear_notebook_history
Clears ==
  /\ LoopIsFree
  /\ history' = <<>>
  /\ UNCHANGED <<permits, call, asked>>

-----------------------------------------------------------------------------

\* Mutant of Step: an agent's call is a coroutine, and continues on the event loop.
StepOnLoop(t) ==
  /\ t \in Workers /\ call[t].kind = "agent" => LoopIsFree
  /\ \/ Answered(t) \/ TriesAgain(t)
     \/ \E failure \in Failures :
          BacksOff(t, failure) \/ FallsBack(t, failure) \/ GivesUp(t, failure)
     \/ t = Loop /\ (Graded \/ SavesQuestion \/ SavesAnswer \/ SaveFails)

Step(t) ==
  \/ Answered(t) \/ TriesAgain(t)
  \/ \E failure \in Failures :
       BacksOff(t, failure) \/ FallsBack(t, failure) \/ GivesUp(t, failure)
  \/ t = Loop /\ (Graded \/ SavesQuestion \/ SavesAnswer \/ SaveFails)

Next ==
  \/ AsksNotebook \/ AsksRepository \/ Clears
  \/ \E t \in Workers : WorkerCalls(t)
  \/ \E t \in Threads : Acquires(t) \/ Step(t)

Spec == Init /\ [][Next]_vars

\* Requests have timeouts, sleeps end, and a thread that waits for the semaphore is
\* woken in its turn (threading.Condition notifies the one that has waited
\* longest).  Nobody has to ask anything.
FairSpec == Spec /\ \A t \in Threads : WF_vars(Step(t)) /\ SF_vars(Acquires(t))

-----------------------------------------------------------------------------
(* Properties.                                                             *)

\* Every variable stays in its range.
TypeOK ==
  /\ permits \in 0..Limit
  /\ call \in [Threads -> Calls]
  /\ \A t \in Threads : call[t].attempt \in 1..Tries[call[t].kind]
  /\ asked \in 0..MaxAsked
  /\ history \in Seq(Entries)

HoldsPermit(t) ==
  \/ At(t, "request")
  \/ At(t, "backoff") /\ call[t].kind # "analysis"

\* llm_semaphore: "Acquire before every LLM HTTP request; release in finally".  Through every
\* retry, fallback and failure of the three ways to call, a permit that
\* is not there is held by a thread that is at work with it.
NoPermitLost ==
  permits + Cardinality({t \in Threads : HoldsPermit(t)}) = Limit

\* No answer in the history without its question before it, and the questions in
\* the order they were asked, whatever is cleared and whatever fails in between.
AnswersFollowQuestions ==
  \A i \in 1..Len(history) :
    /\ history[i].who = "ai" =>
         i > 1 /\ history[i - 1] = [who |-> "user", question |-> history[i].question]
    /\ i > 1 /\ history[i].who = "user" =>
         history[i - 1].question < history[i].question

\* Every call comes to an end, whatever the providers answer; and so the event loop,
\* which waits for permits that other threads hold, always runs again.
CallsEnd == \A t \in Threads : At(t, "acquire") ~> At(t, "idle")
=============================================================================
