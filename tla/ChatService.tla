---------------------------- MODULE ChatService ----------------------------
(***************************************************************************)
(* Chat turns, as POST /chat/turns streams them.  A turn picks a model     *)
(* from the pool, titles the session, asks a model who should answer,      *)
(* records the question, and then hands the work to an agent (TASK_MODE),  *)
(* answers from the knowledge base (RAG_MODE), or streams a reply          *)
(* (CHAT_MODE).                                                            *)
(*                                                                         *)
(* One step is one transaction or what lies between two awaits.  Turns of  *)
(* one session run beside each other, in one process or in several; the    *)
(* client may leave at any await and a process may die anywhere.  Every    *)
(* message has some text (a blank one sets no title).                      *)
(***************************************************************************)
EXTENDS LLMCalls, ModelPool, KnowledgeAnswer

CONSTANTS
  Turns,             \* request ids of chat turns
  Sessions,          \* session ids of the caller
  NoTurn, NoSession,
  Candidates,        \* routable specialist agents
  RouteAnswers,      \* per turn, what the router model may answer
  Rag,               \* knowledge.chat.enabled
  ProviderOf,        \* model |-> provider_key of its pool entry
  HistoryLimit,
  Faulty             \* bound: turns whose calls, transactions or client may fail

ASSUME ChatAssumption ==
  /\ Calls = Turns \X {"route", "first", "second"}
  /\ NoTurn \notin Turns /\ NoSession \notin Sessions
  /\ Faulty \subseteq Turns
  /\ HistoryLimit \in Nat \ {0}

VARIABLES
  sessions,          \* rows: unborn, there or gone, and whose title they carry
  messages,          \* per session, the transcript, in commit order
  turn,              \* what each turn is doing
  queue, ledger,     \* turns whose workflow was sent, turns with a submission row
  answered           \* turns whose workflow has written its answer

chatVars == <<sessions, messages, turn, queue, ledger, answered>>
vars == <<chatVars, llmVars, poolVars>>

NoHits == <<>>
NewTurn ==
  [pc |-> "idle", session |-> NoSession, titled |-> FALSE, model |-> NoModel, mode |-> "none",
   agent |-> "none", hits |-> NoHits, frame |-> "none"]

Init ==
  /\ LLMInit
  /\ PoolInit
  /\ sessions = [s \in Sessions |-> [state |-> "unborn", title |-> NoTurn]]
  /\ messages = [s \in Sessions |-> <<>>]
  /\ turn = [t \in Turns |-> NewTurn]
  /\ queue = {}
  /\ ledger = {}
  /\ answered = {}

\* ------------------------------------------------------------ building blocks

There(s) == sessions[s].state = "there"
Message(t, role, mode, evidence) == [turn |-> t, role |-> role, mode |-> mode, evidence |-> evidence]
append_session_messages(t, role, mode, evidence) ==
  messages' = [messages EXCEPT ![turn[t].session] = Append(@, Message(t, role, mode, evidence))]

list_session_messages_Earlier(s) ==      \* Wrong on purpose: without the newest
  LET all == messages[s]
      from == IF Len(all) > HistoryLimit THEN Len(all) - HistoryLimit + 1 ELSE 1
  IN  SubSeq(all, from, Len(all) - 1)

\* list_session_messages: the newest HistoryLimit messages, oldest first
list_session_messages(s) ==
  LET all == messages[s]
      from == IF Len(all) > HistoryLimit THEN Len(all) - HistoryLimit + 1 ELSE 1
  IN  SubSeq(all, from, Len(all))

Goes(t, pc) == turn' = [turn EXCEPT ![t].pc = pc]

\* A frame that ends the stream; nothing follows it.
Done(t) == turn' = [turn EXCEPT ![t].pc = "over", ![t].frame = "done"]
ErrorFrame(t) == turn' = [turn EXCEPT ![t].pc = "over", ![t].frame = "error"]

SendFor_Again(t, leg, mode, prompt) ==     \* Wrong on purpose: the pool is asked again
  \E e \in Default : Send(<<t, leg>>, mode, ProviderOf[pool[e].model], pool[e].model, prompt)

SendFor(t, leg, mode, prompt) ==
  Send(<<t, leg>>, mode, ProviderOf[turn[t].model], turn[t].model, prompt)
CallOf(t, leg) == call[<<t, leg>>]

\* ----------------------------------------------------------- before the stream

\* create_chat_turn: ensure_session, then resolve_entry.  A session the caller
\* names is there or the turn is refused; a session created for the turn stays
\* when the model is refused.
Ask(t, s, choice) ==
  LET fresh == sessions[s].state = "unborn"
      found == Resolvable(choice)
  IN  /\ turn[t].pc = "idle"
      /\ IF fresh THEN sessions' = [sessions EXCEPT ![s].state = "there"] ELSE UNCHANGED sessions
      /\ IF sessions[s].state = "gone" \/ found = {}
         THEN turn' = [turn EXCEPT ![t].pc = "refused"]
         ELSE \E e \in found :
                turn' = [turn EXCEPT ![t] = [@ EXCEPT !.pc = "opened", !.session = s,
                                              !.model = pool[e].model,
                                              !.titled = sessions[s].title # NoTurn]]
      /\ UNCHANGED <<messages, queue, ledger, answered, llmVars, poolVars>>

\* _set_title_if_absent looks at the session as ensure_session loaded it.
SetTitle(t) ==
  LET s == turn[t].session
  IN  /\ turn[t].pc = "opened"
      /\ IF ~turn[t].titled /\ There(s) THEN sessions' = [sessions EXCEPT ![s].title = t]
         ELSE UNCHANGED sessions
      /\ Goes(t, "titled")
      /\ UNCHANGED <<messages, queue, ledger, answered, llmVars, poolVars>>

\* ------------------------------------------------------------------- decide

\* What the router model answers: something that is no JSON object, or a mode
\* and an agent.
Unparsable == [kind |-> "unparsable"]
Says(mode, agent) == [kind |-> "decision", mode |-> mode, agent |-> agent]

Decision_Trusts(answer) ==        \* Wrong on purpose: a hallucinated agent is believed
  IF answer.kind = "unparsable" THEN (IF Rag THEN "rag" ELSE "chat") ELSE answer.mode

Decision(answer) ==
  IF answer.kind = "unparsable" THEN (IF Rag THEN "rag" ELSE "chat")
  ELSE IF answer.mode = "task" /\ answer.agent \in Candidates THEN "task"
  ELSE IF Rag /\ answer.mode # "chat" THEN "rag"
  ELSE "chat"

Route(t) ==
  /\ turn[t].pc = "titled"
  /\ IF Candidates = {} /\ ~Rag
     THEN turn' = [turn EXCEPT ![t].pc = "decided", ![t].mode = "chat"] /\ UNCHANGED llmVars
     ELSE SendFor(t, "route", "complete", <<>>) /\ Goes(t, "routing")
  /\ UNCHANGED <<sessions, messages, queue, ledger, answered, poolVars>>

Decided(t) ==
  LET answer == CallOf(t, "route").answer
      mode == Decision(answer)
  IN  /\ turn[t].pc = "routing"
      /\ CallOf(t, "route").pc = "returned"
      /\ turn' = [turn EXCEPT ![t].pc = "decided", ![t].mode = mode,
                              ![t].agent = IF mode = "task" THEN answer.agent ELSE @]
      /\ call' = [call EXCEPT ![<<t, "route">>].answer = NoAnswer]      \* not kept
      /\ UNCHANGED <<audits, sessions, messages, queue, ledger, answered, poolVars>>

RecordQuestion(t) ==
  /\ turn[t].pc = "decided"
  /\ append_session_messages(t, "user", turn[t].mode, <<>>)
  /\ Goes(t, "asked")
  /\ UNCHANGED <<sessions, queue, ledger, answered, llmVars, poolVars>>

\* ------------------------------------------------------------- _dispatch_task

SendTask(t) ==
  /\ turn[t].pc = "asked" /\ turn[t].mode = "task"
  /\ queue' = queue \cup {t}
  /\ Goes(t, "sent")
  /\ UNCHANGED <<sessions, messages, ledger, answered, llmVars, poolVars>>

CreateSubmission(t) ==
  /\ turn[t].pc = "sent"
  /\ ledger' = ledger \cup {t}
  /\ Goes(t, "listed")
  /\ UNCHANGED <<sessions, messages, queue, answered, llmVars, poolVars>>

HandOver(t) ==
  /\ turn[t].pc = "listed"
  /\ append_session_messages(t, "assistant", "task", <<>>)
  /\ Done(t)
  /\ UNCHANGED <<sessions, queue, ledger, answered, llmVars, poolVars>>

\* The worker's side of it: the run appends the answer of the specialist, and
\* the question too unless the request has a turn already.
Own(t) == {i \in DOMAIN messages[turn[t].session] : messages[turn[t].session][i].turn = t}
Asked(m) == m.role = "user"

has_request_turn_Answered(t) ==       \* Wrong on purpose: only an answer counts
  \E i \in Own(t) : ~Asked(messages[turn[t].session][i])

has_request_turn(t) == Own(t) # {}

WorkerAnswers(t) ==
  LET session == turn[t].session
      asked == IF has_request_turn(t) THEN messages[session]
               ELSE Append(messages[session], Message(t, "user", "workflow", <<>>))
  IN  /\ t \in queue /\ t \notin answered
      /\ messages' = [messages EXCEPT ![session] = Append(asked, Message(t, "assistant", "workflow", <<>>))]
      /\ answered' = answered \cup {t}
      /\ UNCHANGED <<sessions, turn, queue, ledger, llmVars, poolVars>>

\* ----------------------------------------------------------------- _rag_reply

\* KnowledgeAnswerer.answer up to its first call; without a hit there is none.
Retrieve(t) ==
  /\ turn[t].pc = "asked" /\ turn[t].mode = "rag"
  /\ \E hits \in Retrievals :
       IF build_prompt(hits, FALSE) = <<>>
       THEN turn' = [turn EXCEPT ![t].pc = "refusing"] /\ UNCHANGED llmVars
       ELSE /\ SendFor(t, "first", "complete", build_prompt(hits, FALSE))
            /\ turn' = [turn EXCEPT ![t].pc = "first", ![t].hits = hits]
  /\ UNCHANGED <<sessions, messages, queue, ledger, answered, poolVars>>

\* The first call answered: it is unusable, or asks for more, or it will do.
FirstAnswer(t) ==
  LET kind == CallOf(t, "first").answer.kind
  IN  /\ turn[t].pc = "first"
      /\ CallOf(t, "first").pc = "returned"
      /\ \/ kind \in Unusable /\ ErrorFrame(t) /\ UNCHANGED llmVars
         \/ /\ AskAgain(turn[t].hits, kind)
            /\ SendFor(t, "second", "complete", build_prompt(turn[t].hits, TRUE))
            /\ Goes(t, "second")
         \/ /\ kind \notin Unusable /\ ~AskAgain(turn[t].hits, kind)
            /\ Goes(t, "rag_reply")
            /\ UNCHANGED llmVars
      /\ UNCHANGED <<sessions, messages, queue, ledger, answered, poolVars>>

SecondAnswer(t) ==
  /\ turn[t].pc = "second"
  /\ CallOf(t, "second").pc = "returned"
  /\ IF CallOf(t, "second").answer.kind \in Unusable THEN ErrorFrame(t) ELSE Goes(t, "rag_reply")
  /\ UNCHANGED <<sessions, messages, queue, ledger, answered, llmVars, poolVars>>

\* contexts of the answer: what the last call was given.
LastLeg_First(t) == "first"       \* Wrong on purpose: the evidence of the first pass
LastLeg(t) == IF CallOf(t, "second").pc = "idle" THEN "first" ELSE "second"
Evidence(t) == IF turn[t].pc = "refusing" THEN <<>> ELSE CallOf(t, LastLeg(t)).prompt

RagReply(t) ==
  /\ turn[t].pc \in {"refusing", "rag_reply"}
  /\ append_session_messages(t, "assistant", "rag", Evidence(t))
  /\ Done(t)
  /\ UNCHANGED <<sessions, queue, ledger, answered, llmVars, poolVars>>

\* -------------------------------------------------------------- _stream_reply

StartStream(t) ==
  /\ turn[t].pc = "asked" /\ turn[t].mode = "chat"
  /\ SendFor(t, "first", "stream", list_session_messages(turn[t].session))
  /\ Goes(t, "streaming")
  /\ UNCHANGED <<sessions, messages, queue, ledger, answered, poolVars>>

StreamReply(t) ==
  /\ turn[t].pc = "streaming"
  /\ CallOf(t, "first").pc = "returned"
  /\ append_session_messages(t, "assistant", "chat", <<>>)
  /\ Done(t)
  /\ UNCHANGED <<sessions, queue, ledger, answered, llmVars, poolVars>>

\* -------------------------------------------------------------- what goes wrong

Leg(t) ==
  CASE turn[t].pc = "routing" -> "route"
    [] turn[t].pc = "second" -> "second"
    [] OTHER -> "first"

Awaiting_NotSecond(t) ==       \* Wrong on purpose: the second pass runs outside the try
  turn[t].pc \in {"routing", "first", "streaming"}

Awaiting(t) == turn[t].pc \in {"routing", "first", "second", "streaming"}

\* An exception ends the stream with an error frame, whatever was done before.
CallRaised(t) ==
  /\ Awaiting(t)
  /\ CallOf(t, Leg(t)).pc = "raised"
  /\ ErrorFrame(t)
  /\ UNCHANGED <<sessions, messages, queue, ledger, answered, llmVars, poolVars>>

MayFail(t) == t \in Faulty /\ Change

\* Departures, deletions and these failures share the bound of the pool's
\* changes; the provider's failures are bounded by the attempts.

\* Redis cannot be reached, the database refuses a commit, the retriever fails.
Fault(t) ==
  /\ \/ turn[t].pc \in {"opened", "decided", "asked", "sent", "listed", "refusing", "rag_reply"}
     \/ turn[t].pc = "streaming" /\ CallOf(t, "first").pc = "returned"
  /\ MayFail(t)
  /\ ErrorFrame(t)
  /\ UNCHANGED <<sessions, messages, queue, ledger, answered, llmVars, pool, demoted>>

Running == {t \in Turns : turn[t].pc \notin {"idle", "refused", "over", "gone"}}

\* The client leaves, or the process dies: nobody is told, and the calls in
\* flight are cancelled.
Leave(t) ==
  /\ t \in Running /\ MayFail(t)
  /\ Goes(t, "gone")
  /\ Cancel({<<t, leg>> : leg \in {"route", "first", "second"}})
  /\ UNCHANGED <<audits, sessions, messages, queue, ledger, answered, pool, demoted>>

delete_session(s) ==
  /\ There(s) /\ Change
  /\ sessions' = [sessions EXCEPT ![s] = [state |-> "gone", title |-> NoTurn]]
  /\ messages' = [messages EXCEPT ![s] = <<>>]
  /\ UNCHANGED <<turn, queue, ledger, answered, llmVars, pool, demoted>>

\* ------------------------------------------------------------------ behaviours

Answers(t, leg) == IF leg = "route" THEN RouteAnswers[t] ELSE [kind : AnswerKinds \cup {"malformed"}]

ProviderStep(t) ==
  /\ \E leg \in {"route", "first", "second"} :
       \/ Delivers(<<t, leg>>, Answers(t, leg)) /\ UNCHANGED changes
       \/ Fails(<<t, leg>>) /\ IF CallOf(t, leg).attempts > 1 THEN UNCHANGED changes ELSE MayFail(t)
  /\ UNCHANGED <<sessions, messages, turn, queue, ledger, answered, pool, demoted>>

Handle(t) ==
  \/ SetTitle(t) \/ Route(t) \/ Decided(t) \/ RecordQuestion(t)
  \/ SendTask(t) \/ CreateSubmission(t) \/ HandOver(t)
  \/ Retrieve(t) \/ FirstAnswer(t) \/ SecondAnswer(t) \/ RagReply(t)
  \/ StartStream(t) \/ StreamReply(t)
  \/ CallRaised(t)

ChatNext ==
  \/ \E t \in Turns :
       \/ \E s \in Sessions, choice \in Entries \cup {NoEntry} : Ask(t, s, choice)
       \/ Handle(t)
       \/ WorkerAnswers(t)
       \/ ProviderStep(t)
       \/ Fault(t)
       \/ Leave(t)
  \/ \E s \in Sessions : delete_session(s)

AdminStep == PoolNext /\ UNCHANGED <<chatVars, llmVars>>

Next == ChatNext \/ AdminStep

Spec == Init /\ [][Next]_vars

\* A turn that can go on does; a provider answers, fails, or runs into the
\* timeout of the call; a stream's pieces come to an end.
Fairness == \A t \in Turns : WF_vars(Handle(t) \/ ProviderStep(t))
FairSpec == Spec /\ Fairness

-----------------------------------------------------------------------------
\* Properties

Questions(t) == {i \in Own(t) : Asked(messages[turn[t].session][i])}
OnRecord(t) == \E q \in Questions(t) : \A i \in Own(t) : q <= i

\* A "done" frame is sent only for a turn on record: its question once and
\* first, its answer after it, in its session, unless the session was deleted.
\* And no question is ever on record twice, although the chat and the workflow
\* it started both record it (base.py:104 "must not get it duplicated here").
DoneIsRecorded ==
  \A t \in Turns : turn[t].session # NoSession =>
    /\ \A i, j \in Questions(t) : i = j
    /\ turn[t].frame = "done" /\ There(turn[t].session) => OnRecord(t) /\ Own(t) # Questions(t)

\* Work reaches the queue only for a question that is on record, for an agent
\* somebody registered, and a submission row names a message that was sent; a
\* turn that says it is done has both.
TaskHandedOver ==
  \A t \in Turns :
    /\ t \in ledger => t \in queue
    /\ t \in queue => turn[t].mode = "task" /\ turn[t].agent \in Candidates
    /\ t \in queue /\ There(turn[t].session) => OnRecord(t)
    /\ turn[t].frame = "done" /\ turn[t].mode = "task" => t \in ledger

\* The evidence on record with an answer is exactly what the model that wrote
\* it was given (rag.py:13 "exactly the text handed to the model in the
\* prompt"), and that model answered.
EvidenceGiven ==
  \A s \in Sessions : \A i \in DOMAIN messages[s] :
    LET m == messages[s][i]
        last == IF CallOf(m.turn, "second").pc = "returned" THEN "second" ELSE "first"
    IN  m.mode = "rag" /\ m.role = "assistant" /\ m.evidence # <<>> =>
          m.evidence = CallOf(m.turn, last).prompt /\ CallOf(m.turn, last).answer.kind \in {"text", "refusal"}

SizeOf(hits) ==
  LET sum[n \in 0..Len(hits)] == IF n = 0 THEN 0 ELSE sum[n - 1] + hits[n].size
  IN  sum[Len(hits)]

\* That evidence is within the limit, or one hit; and the hits the quota had
\* rejected are in it only after the model refused without them (rag.py:423).
EvidenceFits ==
  \A s \in Sessions : \A i \in DOMAIN messages[s] :
    LET m == messages[s][i]
    IN  m.mode = "rag" /\ m.role = "assistant" /\ m.evidence # <<>> =>
          /\ Len(m.evidence) = 1 \/ SizeOf(m.evidence) <= MaxContext
          /\ Supplementary(m.evidence) # {} => CallOf(m.turn, "first").answer.kind = "refusal"

\* Whatever happens to the pool while a turn is answered, every call of it asks
\* for the model that was picked (model_pool_service.py:146 "a user never gets
\* a different model from the one they picked"); a provider without a key is
\* refused before it could put its own in its place.
AsksPicked ==
  \A t \in Turns, leg \in {"route", "first", "second"} :
    LET model == turn[t].model
        provider == ProviderOf[model]
    IN  CallOf(t, leg).pc # "idle" =>
          CallOf(t, leg).model = IF provider \in Usable THEN ResolvedModel(provider, model) ELSE model

\* A streamed reply is written from a history that holds the question it
\* answers, although the other turns of the session write to it.
SeesQuestion ==
  \A t \in Turns :
    CallOf(t, "first").mode = "stream" /\ CallOf(t, "first").pc # "raised" /\ There(turn[t].session) =>
      \E i \in DOMAIN CallOf(t, "first").prompt :
        CallOf(t, "first").prompt[i].turn = t /\ Asked(CallOf(t, "first").prompt[i])

\* A turn that was let in is answered, ends with an error frame, or its client
\* is gone: nobody waits for a stream that never ends.
TurnsEnd == \A t \in Turns : t \in Running ~> t \notin Running

=============================================================================
