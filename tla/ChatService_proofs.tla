------------------------- MODULE ChatService_proofs -------------------------
(***************************************************************************)
(* Proofs about chat turns, for all turns, sessions, pools, providers and  *)
(* bounds, however turns, workers, providers, clients and administrators   *)
(* interleave: what the audit says of a call is what became of the call;   *)
(* a turn that is done is on record; work that is queued is for a          *)
(* registered agent and a question on record; every call asks for the      *)
(* model that was picked; the evidence on record is what was answered from.*)
(***************************************************************************)
EXTENDS ChatService, WellFoundedInduction, TLAPS

Legs == {"route", "first", "second"}

LEMMA LegIsCall == ASSUME NEW t \in Turns, NEW leg \in Legs PROVE <<t, leg>> \in Calls
BY ChatAssumption DEF Legs

-----------------------------------------------------------------------------
(* The invariant, one call at a time: where the call is, what was audited  *)
(* of it, and how often it was attempted.                                  *)

Row(k, status) == <<[model |-> k.model, status |-> status]>>

Fields == {"pc", "mode", "model", "attempts", "pieces", "prompt", "answer"}
Shape(k) == k = [f \in Fields |-> k[f]]

Counted(k) ==
  /\ k.attempts \in 0 .. (1 + MaxRetries) /\ k.pieces \in Nat
  /\ k.mode \in {"none", "complete", "stream"}
  /\ k.mode = "stream" /\ k.pc \in {"waiting", "streaming"} => k.attempts = 1
  /\ k.mode # "stream" => k.pieces = 0 /\ k.pc # "streaming"
  /\ k.pieces > 0 => k.attempts = 1

Audited(k, rows) ==
  \/ k.pc \in {"idle", "waiting", "streaming", "cancelled"} /\ rows = <<>>
  \/ k.pc = "raised" /\ (rows = <<>> \/ rows = Row(k, "failed"))
  \/ k.pc = "returned" /\ rows = Row(k, "success")

Sound(k, rows) == Shape(k) /\ Counted(k) /\ Audited(k, rows)

CallInv ==
  /\ call = [c \in Calls |-> call[c]]
  /\ audits = [c \in Calls |-> audits[c]]
  /\ \A c \in Calls : Sound(call[c], audits[c])

(* A step that changes one call, and the rows of that call, keeps the      *)
(* invariant when it leaves that call sound.                               *)
LEMMA OneCall ==
  ASSUME CallInv, NEW c \in Calls, NEW k, NEW rows, Sound(k, rows),
         call' = [call EXCEPT ![c] = k], audits' = [audits EXCEPT ![c] = rows]
  PROVE  CallInv'
<1>1. call' = [d \in Calls |-> call'[d]] /\ audits' = [d \in Calls |-> audits'[d]]
  BY DEF CallInv
<1>2. ASSUME NEW d \in Calls PROVE Sound(call'[d], audits'[d])
  <2>1. CASE d = c
    <3>1. call'[d] = k /\ audits'[d] = rows
      BY <2>1 DEF CallInv
    <3>q. QED  BY <3>1
  <2>2. CASE d # c
    <3>1. call'[d] = call[d] /\ audits'[d] = audits[d]
      BY <2>2 DEF CallInv
    <3>q. QED  BY <3>1 DEF CallInv
  <2>q. QED  BY <2>1, <2>2
<1>q. QED  BY <1>1, <1>2 DEF CallInv

(* The same when nothing is audited. *)
LEMMA OneCallUnaudited ==
  ASSUME CallInv, NEW c \in Calls, NEW k, Sound(k, audits[c]),
         call' = [call EXCEPT ![c] = k], audits' = audits
  PROVE  CallInv'
<1>1. audits' = [audits EXCEPT ![c] = audits[c]]
  BY DEF CallInv
<1>q. QED  BY <1>1, OneCall

-----------------------------------------------------------------------------
(* The steps of LLMCalls.                                                  *)

LEMMA SendStep ==
  ASSUME CallInv, NEW c \in Calls, NEW mode \in {"complete", "stream"}, NEW provider, NEW model,
         NEW prompt, Send(c, mode, provider, model, prompt)
  PROVE  CallInv'
<1>1. Sound(call[c], audits[c]) /\ call[c].pc = "idle" /\ audits[c] = <<>>
  BY DEF CallInv, Send, Sound, Audited
<1>2. CASE provider \in Usable
  <2> DEFINE k == [NoCall EXCEPT !.pc = "waiting", !.mode = mode, !.attempts = 1, !.prompt = prompt,
                                 !.model = ResolvedModel(provider, model)]
  <2>1. /\ k.pc = "waiting" /\ k.mode = mode /\ k.attempts = 1 /\ k.pieces = 0
        /\ Shape(k)
    BY DEF NoCall, Shape, Fields
  <2>2. Sound(k, audits[c])
    <3> HIDE DEF k
    <3>q. QED  BY <2>1, <1>1, RetryAssumption DEF Sound, Counted, Audited
  <2>3. call' = [call EXCEPT ![c] = k] /\ audits' = audits
    BY <1>2 DEF Send
  <2> HIDE DEF k
  <2>q. QED  BY <2>2, <2>3, OneCallUnaudited
<1>3. CASE provider \notin Usable
  <2> DEFINE k == [NoCall EXCEPT !.pc = "raised", !.mode = mode, !.model = model]
             rows == Append(audits[c], [model |-> model, status |-> "failed"])
  <2>1. /\ k.pc = "raised" /\ k.mode = mode /\ k.model = model
        /\ k.attempts = 0 /\ k.pieces = 0
        /\ Shape(k)
    BY DEF NoCall, Shape, Fields
  <2>2. rows = Row(k, "failed")
    BY <1>1, <2>1 DEF Row
  <2>3. call' = [call EXCEPT ![c] = k] /\ audits' = [audits EXCEPT ![c] = rows]
    BY <1>3 DEF Send, Audit
  <2> HIDE DEF k, rows
  <2>4. Sound(k, rows)
    BY <2>1, <2>2, RetryAssumption DEF Sound, Counted, Audited
  <2>q. QED  BY <2>3, <2>4, OneCall
<1>q. QED  BY <1>2, <1>3

(* A call that fails in flight gets one row. *)
LEMMA FailStep ==
  ASSUME CallInv, NEW c \in Calls, call[c].pc \in {"waiting", "streaming"}, Fail(c)
  PROVE  CallInv'
<1> DEFINE k == [call[c] EXCEPT !.pc = "raised"]
           rows == Append(audits[c], [model |-> call[c].model, status |-> "failed"])
<1>1. Sound(call[c], audits[c]) /\ audits[c] = <<>>
  BY DEF CallInv, Sound, Audited
<1>2. /\ k.pc = "raised" /\ Shape(k)
      /\ k.mode = call[c].mode /\ k.model = call[c].model
      /\ k.attempts = call[c].attempts /\ k.pieces = call[c].pieces
  BY <1>1 DEF Sound, Shape, Fields
<1>3. rows = Row(k, "failed")
  BY <1>1, <1>2 DEF Row
<1>4. call' = [call EXCEPT ![c] = k] /\ audits' = [audits EXCEPT ![c] = rows]
  BY DEF Fail, Audit, CallInv
<1> HIDE DEF k, rows
<1>5. Sound(k, rows)
  BY <1>1, <1>2, <1>3 DEF Sound, Counted, Audited
<1>q. QED  BY <1>4, <1>5, OneCall

(* A retry changes the number of attempts, of a completion only. *)
LEMMA TransientStep == ASSUME CallInv, NEW c \in Calls, Transient(c) PROVE CallInv'
<1> DEFINE k == [call[c] EXCEPT !.attempts = @ + 1]
<1>1. Sound(call[c], audits[c]) /\ call[c].pc = "waiting"
  BY DEF CallInv, Transient
<1>2. CASE call[c].mode = "complete" /\ call[c].attempts <= MaxRetries
  <2>1. /\ Shape(k) /\ k.pc = "waiting" /\ k.mode = "complete" /\ k.model = call[c].model
        /\ k.attempts = call[c].attempts + 1 /\ k.pieces = call[c].pieces
    BY <1>1, <1>2 DEF Sound, Shape, Fields
  <2>2. call' = [call EXCEPT ![c] = k] /\ audits' = audits
    BY <1>2 DEF Transient, CallInv
  <2> HIDE DEF k
  <2>3. Sound(k, audits[c])
    BY <1>1, <1>2, <2>1, RetryAssumption DEF Sound, Counted, Audited
  <2>q. QED  BY <2>2, <2>3, OneCallUnaudited
<1>3. CASE ~(call[c].mode = "complete" /\ call[c].attempts <= MaxRetries)
  <2>1. Fail(c)
    BY <1>3 DEF Transient
  <2>q. QED  BY <1>1, <2>1, FailStep
<1>q. QED  BY <1>2, <1>3

LEMMA FailsStep == ASSUME CallInv, NEW c \in Calls, Fails(c) PROVE CallInv'
<1>1. CASE Transient(c)
  BY <1>1, TransientStep
<1>2. CASE Permanent(c)
  BY <1>2, FailStep DEF Permanent
<1>3. CASE Break(c)
  BY <1>3, FailStep DEF Break
<1>q. QED  BY <1>1, <1>2, <1>3 DEF Fails

(* A completion or a stream comes to its end, and a success is audited. *)
LEMMA ReturnStep ==
  ASSUME CallInv, NEW c \in Calls, NEW k, Shape(k), k.pc = "returned",
         call[c].pc \in {"waiting", "streaming"},
         k.mode = call[c].mode, k.model = call[c].model,
         k.attempts = call[c].attempts, k.pieces = call[c].pieces,
         call' = [call EXCEPT ![c] = k], Audit(c, call[c].model, "success")
  PROVE  CallInv'
<1> DEFINE rows == Append(audits[c], [model |-> call[c].model, status |-> "success"])
<1>1. Sound(call[c], audits[c]) /\ audits[c] = <<>>
  BY DEF CallInv, Sound, Audited
<1>2. rows = Row(k, "success")
  BY <1>1 DEF Row
<1>3. audits' = [audits EXCEPT ![c] = rows]
  BY DEF Audit, CallInv
<1> HIDE DEF rows
<1>4. Sound(k, rows)
  BY <1>1, <1>2 DEF Sound, Counted, Audited
<1>q. QED  BY <1>3, <1>4, OneCall

LEMMA CompleteStep == ASSUME CallInv, NEW c \in Calls, NEW answer, Complete(c, answer) PROVE CallInv'
<1>1. Sound(call[c], audits[c]) /\ call[c].pc = "waiting"
  BY DEF CallInv, Complete
<1>2. CASE answer.kind = "malformed"
  <2> DEFINE k == [call[c] EXCEPT !.pc = "raised"]
  <2>1. /\ Shape(k) /\ k.pc = "raised" /\ k.mode = call[c].mode /\ k.model = call[c].model
        /\ k.attempts = call[c].attempts /\ k.pieces = call[c].pieces
    BY <1>1 DEF Sound, Shape, Fields
  <2>2. call' = [call EXCEPT ![c] = k] /\ audits' = audits
    BY <1>2 DEF Complete, CallInv
  <2> HIDE DEF k
  <2>3. Sound(k, audits[c])
    BY <1>1, <2>1 DEF Sound, Counted, Audited
  <2>q. QED  BY <2>2, <2>3, OneCallUnaudited
<1>3. CASE answer.kind # "malformed"
  <2> DEFINE k == [call[c] EXCEPT !.pc = "returned", !.answer = answer]
  <2>1. /\ Shape(k) /\ k.pc = "returned" /\ k.mode = call[c].mode /\ k.model = call[c].model
        /\ k.attempts = call[c].attempts /\ k.pieces = call[c].pieces
    BY <1>1 DEF Sound, Shape, Fields
  <2>2. call' = [call EXCEPT ![c] = k] /\ Audit(c, call[c].model, "success")
    BY <1>3 DEF Complete, CallInv
  <2> HIDE DEF k
  <2>q. QED  BY <1>1, <2>1, <2>2, ReturnStep
<1>q. QED  BY <1>2, <1>3

LEMMA PieceStep == ASSUME CallInv, NEW c \in Calls, Piece(c) PROVE CallInv'
<1> DEFINE k == [call[c] EXCEPT !.pc = "streaming", !.pieces = @ + 1]
<1>1. /\ Sound(call[c], audits[c]) /\ call[c].mode = "stream"
      /\ call[c].pc \in {"waiting", "streaming"}
  BY DEF CallInv, Piece
<1>2. /\ Shape(k) /\ k.pc = "streaming" /\ k.mode = "stream" /\ k.model = call[c].model
      /\ k.attempts = call[c].attempts /\ k.pieces = call[c].pieces + 1
  BY <1>1 DEF Sound, Shape, Fields
<1>3. call' = [call EXCEPT ![c] = k] /\ audits' = audits
  BY DEF Piece, CallInv
<1> HIDE DEF k
<1>4. Sound(k, audits[c])
  BY <1>1, <1>2 DEF Sound, Counted, Audited
<1>q. QED  BY <1>3, <1>4, OneCallUnaudited

LEMMA StreamEndStep == ASSUME CallInv, NEW c \in Calls, StreamEnd(c) PROVE CallInv'
<1> DEFINE k == [call[c] EXCEPT !.pc = "returned"]
<1>1. Sound(call[c], audits[c]) /\ call[c].pc \in {"waiting", "streaming"}
  BY DEF CallInv, StreamEnd
<1>2. /\ Shape(k) /\ k.pc = "returned" /\ k.mode = call[c].mode /\ k.model = call[c].model
      /\ k.attempts = call[c].attempts /\ k.pieces = call[c].pieces
  BY <1>1 DEF Sound, Shape, Fields
<1>3. call' = [call EXCEPT ![c] = k] /\ Audit(c, call[c].model, "success")
  BY DEF StreamEnd, CallInv
<1> HIDE DEF k
<1>q. QED  BY <1>1, <1>2, <1>3, ReturnStep

LEMMA DeliversStep ==
  ASSUME CallInv, NEW c \in Calls, NEW answers, Delivers(c, answers)
  PROVE  CallInv'
BY CompleteStep, PieceStep, StreamEndStep DEF Delivers

(* Cancelled calls leave no row and are not attempted again. *)
LEMMA CancelStep == ASSUME CallInv, NEW cs, Cancel(cs), UNCHANGED audits PROVE CallInv'
<1>1. ASSUME NEW c \in Calls PROVE Sound(call'[c], audits[c])
  <2>1. Sound(call[c], audits[c])
    BY DEF CallInv
  <2>2. CASE c \in cs /\ Cancelled(c)
    <3> DEFINE k == [call[c] EXCEPT !.pc = "cancelled"]
    <3>1. /\ Shape(k) /\ k.pc = "cancelled" /\ k.mode = call[c].mode
          /\ k.attempts = call[c].attempts /\ k.pieces = call[c].pieces
      BY <2>1 DEF Sound, Shape, Fields
    <3>2. call'[c] = k
      BY <2>2 DEF Cancel
    <3> HIDE DEF k
    <3>3. audits[c] = <<>>
      BY <2>1, <2>2 DEF Cancelled, Sound, Audited
    <3>q. QED  BY <2>1, <3>1, <3>2, <3>3 DEF Sound, Counted, Audited
  <2>3. CASE ~(c \in cs /\ Cancelled(c))
    <3>1. call'[c] = call[c]
      BY <2>3 DEF Cancel
    <3>q. QED  BY <2>1, <3>1
  <2>q. QED  BY <2>2, <2>3
<1>2. call' = [c \in Calls |-> call'[c]]
  BY DEF Cancel
<1>q. QED  BY <1>1, <1>2 DEF CallInv

-----------------------------------------------------------------------------
(* The steps of a turn.                                                    *)

(* The parsed answer of the router is not kept. *)
LEMMA DecidedStep == ASSUME CallInv, NEW t \in Turns, Decided(t) PROVE CallInv'
<1> DEFINE c == <<t, "route">>
           k == [call[c] EXCEPT !.answer = NoAnswer]
<1>1. c \in Calls
  BY LegIsCall DEF Legs
<1> HIDE DEF c
<1>2. Sound(call[c], audits[c])
  BY <1>1 DEF CallInv
<1>3. /\ Shape(k) /\ k.pc = call[c].pc /\ k.mode = call[c].mode /\ k.model = call[c].model
      /\ k.attempts = call[c].attempts /\ k.pieces = call[c].pieces
  BY <1>2 DEF Sound, Shape, Fields
<1>4. call' = [call EXCEPT ![c] = k] /\ audits' = audits
  BY <1>1 DEF Decided, CallInv, c
<1> HIDE DEF k
<1>5. Sound(k, audits[c])
  BY <1>2, <1>3 DEF Sound, Counted, Audited, Row
<1>q. QED  BY <1>1, <1>4, <1>5, OneCallUnaudited

LEMMA SendForStep ==
  ASSUME CallInv, NEW t \in Turns, NEW leg \in Legs, NEW mode \in {"complete", "stream"}, NEW prompt,
         SendFor(t, leg, mode, prompt)
  PROVE  CallInv'
BY LegIsCall, SendStep DEF SendFor

LEMMA Untouched == ASSUME CallInv, UNCHANGED llmVars PROVE CallInv'
BY DEF CallInv, llmVars

LEMMA HandleStep == ASSUME CallInv, NEW t \in Turns, Handle(t) PROVE CallInv'
<1>1. CASE Route(t)
  BY <1>1, SendForStep, Untouched DEF Route, Legs
<1>2. CASE Decided(t)
  BY <1>2, DecidedStep
<1>3. CASE Retrieve(t)
  BY <1>3, SendForStep, Untouched DEF Retrieve, Legs
<1>4. CASE FirstAnswer(t)
  BY <1>4, SendForStep, Untouched DEF FirstAnswer, Legs
<1>5. CASE StartStream(t)
  BY <1>5, SendForStep, Untouched DEF StartStream, Legs
<1>6. CASE SetTitle(t) \/ RecordQuestion(t) \/ SendTask(t) \/ CreateSubmission(t) \/ HandOver(t)
  BY <1>6, Untouched DEF SetTitle, RecordQuestion, SendTask, CreateSubmission, HandOver
<1>7. CASE SecondAnswer(t) \/ RagReply(t) \/ StreamReply(t) \/ CallRaised(t)
  BY <1>7, Untouched DEF SecondAnswer, RagReply, StreamReply, CallRaised
<1>q. QED  BY <1>1, <1>2, <1>3, <1>4, <1>5, <1>6, <1>7 DEF Handle

LEMMA ChatStep == ASSUME CallInv, ChatNext PROVE CallInv'
<1>1. ASSUME NEW t \in Turns, NEW s \in Sessions, NEW choice \in Entries \cup {NoEntry}, Ask(t, s, choice)
      PROVE  CallInv'
  BY <1>1, Untouched DEF Ask
<1>2. ASSUME NEW t \in Turns, WorkerAnswers(t) PROVE CallInv'
  BY <1>2, Untouched DEF WorkerAnswers
<1>3. ASSUME NEW t \in Turns, ProviderStep(t) PROVE CallInv'
  BY <1>3, LegIsCall, DeliversStep, FailsStep DEF ProviderStep, Legs
<1>4. ASSUME NEW t \in Turns, Fault(t) PROVE CallInv'
  BY <1>4, Untouched DEF Fault
<1>5. ASSUME NEW t \in Turns, Leave(t) PROVE CallInv'
  BY <1>5, CancelStep DEF Leave
<1>6. ASSUME NEW s \in Sessions, delete_session(s) PROVE CallInv'
  BY <1>6, Untouched DEF delete_session
<1>q. QED  BY <1>1, <1>2, <1>3, <1>4, <1>5, <1>6, HandleStep DEF ChatNext

-----------------------------------------------------------------------------
LEMMA CallInvStarts == Init => CallInv
<1> SUFFICES ASSUME Init PROVE CallInv
  OBVIOUS
<1>1. call = [c \in Calls |-> NoCall] /\ audits = [c \in Calls |-> <<>>]
  BY DEF Init, LLMInit
<1>2. Sound(NoCall, <<>>)
  BY RetryAssumption DEF Sound, Shape, Fields, Counted, Audited, NoCall
<1>q. QED  BY <1>1, <1>2 DEF CallInv

LEMMA CallInvStays == CallInv /\ [Next]_vars => CallInv'
<1> SUFFICES ASSUME CallInv, [Next]_vars PROVE CallInv'
  OBVIOUS
<1>1. CASE ChatNext
  BY <1>1, ChatStep
<1>2. CASE AdminStep
  BY <1>2, Untouched DEF AdminStep
<1>3. CASE UNCHANGED vars
  BY <1>3, Untouched DEF vars
<1>q. QED  BY <1>1, <1>2, <1>3 DEF Next

(* What the invariant says of one call is what the property says of it. *)
LEMMA SoundAudits == CallInv => AuditsMatchCalls
<1> SUFFICES ASSUME CallInv, NEW c \in Calls
             PROVE  /\ Len(audits[c]) <= 1
                    /\ audits[c] # <<>> => audits[c][1].model = call[c].model
                    /\ call[c].pc = "returned" <=> audits[c] # <<>> /\ audits[c][1].status = "success"
                    /\ audits[c] # <<>> /\ audits[c][1].status = "failed" => call[c].pc = "raised"
                    /\ call[c].attempts <= 1 + MaxRetries
                    /\ call[c].pieces > 0 => call[c].attempts = 1
  BY DEF AuditsMatchCalls
<1>1. Counted(call[c]) /\ Audited(call[c], audits[c])
  BY DEF CallInv, Sound
<1>2. call[c].attempts <= 1 + MaxRetries /\ (call[c].pieces > 0 => call[c].attempts = 1)
  BY <1>1, RetryAssumption DEF Counted
<1>3. CASE audits[c] = <<>> /\ call[c].pc # "returned"
  BY <1>2, <1>3
<1>4. CASE call[c].pc = "raised" /\ audits[c] = Row(call[c], "failed")
  BY <1>2, <1>4 DEF Row
<1>5. CASE call[c].pc = "returned" /\ audits[c] = Row(call[c], "success")
  BY <1>2, <1>5 DEF Row
<1>q. QED  BY <1>1, <1>3, <1>4, <1>5 DEF Audited

(* Every call of every turn is audited for what became of it: a success when *)
(* it returned, a failure only when it raised, never twice, never a retry;   *)
(* and nothing is tried again once the caller has a piece of the answer      *)
(* (llm/service.py:106-180, 186, 340-368).                                   *)
THEOREM Audits == Spec => []AuditsMatchCalls
<1>1. Spec => []CallInv
  BY CallInvStarts, CallInvStays, PTL DEF Spec
<1>q. QED  BY <1>1, SoundAudits, PTL

-----------------------------------------------------------------------------
(* A transcript, and what a turn has in it.                                *)

Listed(x) == \E X : x \in Seq(X)
OwnIn(m, t) == {i \in DOMAIN m : m[i].turn = t}
QuestionsIn(m, t) == {i \in OwnIn(m, t) : Asked(m[i])}
RecordedIn(m, t) == \E q \in QuestionsIn(m, t) : \A i \in OwnIn(m, t) : q <= i
AnsweredIn(m, t) == \E i \in OwnIn(m, t) : ~Asked(m[i])
OnceIn(m, t) == \A i, j \in QuestionsIn(m, t) : i = j

\* n is m with more messages of turn t, at most.
Grows(n, m, t) ==
  /\ Listed(n)
  /\ \A u : u # t => OwnIn(n, u) = OwnIn(m, u) /\ \A i \in OwnIn(m, u) : n[i] = m[i]

LEMMA ListedAppend ==
  ASSUME NEW m, Listed(m), NEW e
  PROVE  /\ Listed(Append(m, e)) /\ Len(m) \in Nat /\ DOMAIN m = 1..Len(m)
         /\ DOMAIN Append(m, e) = 1..(Len(m) + 1)
         /\ \A i \in 1..Len(m) : Append(m, e)[i] = m[i]
         /\ Append(m, e)[Len(m) + 1] = e
<1>1. PICK X : m \in Seq(X)
  BY DEF Listed
<1>2. m \in Seq(X \cup {e}) /\ e \in X \cup {e}
  BY <1>1
<1>3. /\ Append(m, e) \in Seq(X \cup {e}) /\ Len(m) \in Nat /\ DOMAIN m = 1..Len(m)
      /\ DOMAIN Append(m, e) = 1..(Len(m) + 1)
      /\ \A i \in 1..Len(m) : Append(m, e)[i] = m[i]
      /\ Append(m, e)[Len(m) + 1] = e
  BY <1>2
<1>q. QED  BY <1>3 DEF Listed

LEMMA AppendGrows ==
  ASSUME NEW m, Listed(m), NEW e
  PROVE  Grows(Append(m, e), m, e.turn)
<1> DEFINE n == Append(m, e)
<1>1. /\ Listed(n) /\ Len(m) \in Nat /\ DOMAIN m = 1..Len(m) /\ DOMAIN n = 1..(Len(m) + 1)
      /\ \A i \in 1..Len(m) : n[i] = m[i]
      /\ n[Len(m) + 1] = e
  BY ListedAppend
<1> HIDE DEF n
<1>2. ASSUME NEW u, u # e.turn PROVE OwnIn(n, u) = OwnIn(m, u) /\ \A i \in OwnIn(m, u) : n[i] = m[i]
  BY <1>1, <1>2 DEF OwnIn
<1>q. QED  BY <1>1, <1>2 DEF Grows, n

LEMMA GrowsTwice ==
  ASSUME NEW l, NEW m, NEW n, NEW t, Grows(m, l, t), Grows(n, m, t)
  PROVE  Grows(n, l, t)
BY DEF Grows

LEMMA GrowsNot == ASSUME NEW m, Listed(m), NEW t PROVE Grows(m, m, t)
BY DEF Grows

\* Nothing changes for the other turns.
LEMMA OthersKeep ==
  ASSUME NEW n, NEW m, NEW t, Grows(n, m, t), NEW u, u # t
  PROVE  /\ OwnIn(n, u) = OwnIn(m, u)
         /\ OnceIn(m, u) => OnceIn(n, u)
         /\ RecordedIn(m, u) => RecordedIn(n, u)
         /\ AnsweredIn(m, u) => AnsweredIn(n, u)
<1>1. OwnIn(n, u) = OwnIn(m, u) /\ \A i \in OwnIn(m, u) : n[i] = m[i]
  BY DEF Grows
<1>2. QuestionsIn(n, u) = QuestionsIn(m, u)
  BY <1>1 DEF QuestionsIn
<1>q. QED  BY <1>1, <1>2 DEF OnceIn, RecordedIn, AnsweredIn

\* The first message of a turn is its question.
LEMMA QuestionFirst ==
  ASSUME NEW m, Listed(m), NEW e, Asked(e), OwnIn(m, e.turn) = {}
  PROVE  RecordedIn(Append(m, e), e.turn) /\ OnceIn(Append(m, e), e.turn)
<1> DEFINE n == Append(m, e)
<1>1. /\ Len(m) \in Nat /\ DOMAIN m = 1..Len(m) /\ DOMAIN n = 1..(Len(m) + 1)
      /\ \A i \in 1..Len(m) : n[i] = m[i]
      /\ n[Len(m) + 1] = e
  BY ListedAppend
<1> HIDE DEF n
<1>2. OwnIn(n, e.turn) = {Len(m) + 1}
  BY <1>1 DEF OwnIn
<1>3. QuestionsIn(n, e.turn) = {Len(m) + 1}
  BY <1>1, <1>2 DEF QuestionsIn
<1>q. QED  BY <1>1, <1>2, <1>3 DEF RecordedIn, OnceIn, n

\* An answer comes after whatever is there.
LEMMA AnswerLast ==
  ASSUME NEW m, Listed(m), NEW e, ~Asked(e)
  PROVE  /\ AnsweredIn(Append(m, e), e.turn)
         /\ RecordedIn(m, e.turn) => RecordedIn(Append(m, e), e.turn)
         /\ OnceIn(m, e.turn) => OnceIn(Append(m, e), e.turn)
<1> DEFINE n == Append(m, e)
<1>1. /\ Len(m) \in Nat /\ DOMAIN m = 1..Len(m) /\ DOMAIN n = 1..(Len(m) + 1)
      /\ \A i \in 1..Len(m) : n[i] = m[i]
      /\ n[Len(m) + 1] = e
  BY ListedAppend
<1> HIDE DEF n
<1>2. OwnIn(n, e.turn) = OwnIn(m, e.turn) \cup {Len(m) + 1}
  BY <1>1 DEF OwnIn
<1>3. QuestionsIn(n, e.turn) = QuestionsIn(m, e.turn)
  BY <1>1, <1>2 DEF QuestionsIn, OwnIn
<1>4. \A i \in OwnIn(m, e.turn) : i <= Len(m)
  BY <1>1 DEF OwnIn
<1>5. AnsweredIn(n, e.turn)
  BY <1>1, <1>2 DEF AnsweredIn
<1>6. RecordedIn(m, e.turn) => RecordedIn(n, e.turn)
  <2>1. ASSUME NEW q \in QuestionsIn(m, e.turn), \A i \in OwnIn(m, e.turn) : q <= i
        PROVE  q \in QuestionsIn(n, e.turn) /\ \A i \in OwnIn(n, e.turn) : q <= i
    BY <1>1, <1>2, <1>3, <1>4, <2>1 DEF QuestionsIn, OwnIn
  <2>q. QED  BY <2>1 DEF RecordedIn
<1>7. OnceIn(m, e.turn) => OnceIn(n, e.turn)
  BY <1>3 DEF OnceIn
<1>q. QED  BY <1>5, <1>6, <1>7 DEF n

-----------------------------------------------------------------------------
(* The invariant, one turn at a time.                                      *)

Before == {"idle", "refused", "opened", "titled", "routing", "decided"}
Past == {"asked", "sent", "listed", "refusing", "rag_reply", "first", "second", "streaming"}
TurnFields == {"pc", "session", "titled", "model", "mode", "agent", "hits", "frame"}
TurnShape(k) == k = [f \in TurnFields |-> k[f]]

\* Turn t stands at k, its session's row is row and its transcript m; sent are
\* the turns whose workflow was sent, listed those with a submission row.
InOrder(t, k, row, m, sent, listed) ==
  /\ k.pc \in {"idle", "refused"} => k.session = NoSession
  /\ k.pc \notin {"idle", "refused"} => k.session \in Sessions /\ row.state # "unborn"
  /\ k.pc \in Before => t \notin sent
  /\ k.session \in Sessions => OnceIn(m, t)
  /\ row.state = "there" /\ (k.pc \in Past \/ k.frame = "done" \/ t \in sent) => RecordedIn(m, t)
  /\ k.frame = "done" => /\ k.pc = "over"
                         /\ row.state = "there" => AnsweredIn(m, t)
                         /\ k.mode = "task" => t \in listed
  /\ t \in listed => t \in sent
  /\ t \in sent => k.mode = "task" /\ k.agent \in Candidates
  /\ k.pc \in {"decided", "asked"} /\ k.mode = "task" => k.agent \in Candidates
  /\ k.pc \in {"sent", "listed"} => t \in sent
  /\ k.pc = "listed" => t \in listed
  /\ k.pc \in {"refusing", "rag_reply", "first", "second"} => k.mode = "rag"
  /\ k.pc = "streaming" => k.mode = "chat"

ChatInv ==
  /\ turn = [t \in Turns |-> turn[t]] /\ \A t \in Turns : TurnShape(turn[t])
  /\ sessions = [s \in Sessions |-> sessions[s]]
  /\ \A s \in Sessions : sessions[s] = [f \in {"state", "title"} |-> sessions[s][f]]
  /\ messages = [s \in Sessions |-> messages[s]] /\ \A s \in Sessions : Listed(messages[s])
  /\ \A t \in Turns, s \in Sessions :
       OwnIn(messages[s], t) # {} => turn[t].session = s /\ turn[t].pc \notin Before
  /\ \A t \in Turns :
       InOrder(t, turn[t], sessions[turn[t].session], messages[turn[t].session], queue, ledger)

\* A step of one turn.
LEMMA OneTurn ==
  ASSUME ChatInv, NEW t \in Turns, NEW k, TurnShape(k), turn' = [turn EXCEPT ![t] = k],
         sessions' = [s \in Sessions |-> sessions'[s]],
         \A s \in Sessions : sessions'[s] = [f \in {"state", "title"} |-> sessions'[s][f]],
         \A s \in Sessions : sessions'[s].state = sessions[s].state \/ sessions[s].state = "unborn",
         messages' = [s \in Sessions |-> messages'[s]],
         \A s \in Sessions : Grows(messages'[s], messages[s], t),
         \A s \in Sessions : OwnIn(messages'[s], t) # {} => k.session = s /\ k.pc \notin Before,
         queue' \ {t} = queue \ {t}, ledger' \ {t} = ledger \ {t},
         InOrder(t, k, sessions'[k.session], messages'[k.session], queue', ledger')
  PROVE  ChatInv'
<1>1. /\ turn' = [u \in Turns |-> turn'[u]] /\ turn'[t] = k
      /\ \A u \in Turns : u # t => turn'[u] = turn[u]
  BY DEF ChatInv
<1>2. \A u \in Turns : TurnShape(turn'[u])
  BY <1>1 DEF ChatInv
<1>3. \A s \in Sessions : Listed(messages'[s])
  BY DEF Grows
<1>4. ASSUME NEW u \in Turns, NEW s \in Sessions, OwnIn(messages'[s], u) # {}
      PROVE  turn'[u].session = s /\ turn'[u].pc \notin Before
  <2>1. CASE u = t
    BY <1>1, <1>4, <2>1
  <2>2. CASE u # t
    <3>1. OwnIn(messages[s], u) # {}
      BY <1>4, <2>2, OthersKeep
    <3>q. QED  BY <1>1, <2>2, <3>1 DEF ChatInv
  <2>q. QED  BY <2>1, <2>2
<1>5. ASSUME NEW u \in Turns
      PROVE  InOrder(u, turn'[u], sessions'[turn'[u].session], messages'[turn'[u].session], queue', ledger')
  <2>1. CASE u = t
    BY <1>1, <2>1
  <2>2. CASE u # t
    <3> DEFINE s == turn[u].session
    <3>1. turn'[u] = turn[u] /\ (u \in queue' <=> u \in queue) /\ (u \in ledger' <=> u \in ledger)
      BY <1>1, <2>2
    <3>2. InOrder(u, turn[u], sessions[s], messages[s], queue, ledger)
      BY DEF ChatInv
    <3>3. CASE s \in Sessions
      <4>1. turn[u].pc \notin {"idle", "refused"}
        BY <3>2, <3>3, ChatAssumption DEF InOrder
      <4>2. sessions'[s].state = sessions[s].state
        BY <3>2, <3>3, <4>1 DEF InOrder
      <4>3. /\ OnceIn(messages[s], u) => OnceIn(messages'[s], u)
            /\ RecordedIn(messages[s], u) => RecordedIn(messages'[s], u)
            /\ AnsweredIn(messages[s], u) => AnsweredIn(messages'[s], u)
        BY <2>2, <3>3, OthersKeep
      <4> HIDE DEF s
      <4>4. InOrder(u, turn[u], sessions'[s], messages'[s], queue', ledger')
        BY <3>1, <3>2, <4>2, <4>3 DEF InOrder
      <4>q. QED  BY <3>1, <4>4 DEF s
    <3>4. CASE s \notin Sessions
      <4>1. turn[u].pc \in {"idle", "refused"} /\ turn[u].session = NoSession
        BY <3>2, <3>4 DEF InOrder
      <4>2. u \notin queue /\ u \notin ledger /\ turn[u].frame # "done"
        BY <3>2, <4>1 DEF InOrder, Before
      <4>3. turn[u].session \notin Sessions
        BY <3>4
      <4>4. InOrder(u, turn[u], sessions'[turn[u].session], messages'[turn[u].session], queue', ledger')
        BY <3>1, <4>1, <4>2, <4>3 DEF InOrder, Past
      <4>q. QED  BY <3>1, <4>4
    <3>q. QED  BY <3>3, <3>4
  <2>q. QED  BY <2>1, <2>2
<1>q. QED  BY <1>1, <1>2, <1>3, <1>4, <1>5 DEF ChatInv

-----------------------------------------------------------------------------
(* The steps.                                                              *)

\* What the invariant says of one turn.
LEMMA TurnFacts ==
  ASSUME ChatInv, NEW t \in Turns
  PROVE  /\ TurnShape(turn[t])
         /\ InOrder(t, turn[t], sessions[turn[t].session], messages[turn[t].session], queue, ledger)
         /\ turn[t].pc \in Before => \A s \in Sessions : OwnIn(messages[s], t) = {}
BY DEF ChatInv

\* The turn moves on; nothing is written but messages to the queue and rows of
\* the ledger, of this turn.
LEMMA Moves ==
  ASSUME ChatInv, NEW t \in Turns, NEW k, TurnShape(k), turn' = [turn EXCEPT ![t] = k],
         k.session = turn[t].session, UNCHANGED <<sessions, messages>>,
         k.pc \in Before => turn[t].pc \in Before,
         queue' \ {t} = queue \ {t}, ledger' \ {t} = ledger \ {t},
         InOrder(t, k, sessions[k.session], messages[k.session], queue', ledger')
  PROVE  ChatInv'
<1>1. \A s \in Sessions : Grows(messages'[s], messages[s], t)
  BY GrowsNot DEF ChatInv
<1>2. \A s \in Sessions : OwnIn(messages'[s], t) # {} => k.session = s /\ k.pc \notin Before
  BY DEF ChatInv
<1>3. /\ sessions' = [s \in Sessions |-> sessions'[s]]
      /\ \A s \in Sessions : sessions'[s] = [f \in {"state", "title"} |-> sessions'[s][f]]
      /\ \A s \in Sessions : sessions'[s].state = sessions[s].state \/ sessions[s].state = "unborn"
      /\ messages' = [s \in Sessions |-> messages'[s]]
  BY DEF ChatInv
<1>4. InOrder(t, k, sessions'[k.session], messages'[k.session], queue', ledger')
  OBVIOUS
<1>q. QED  BY <1>1, <1>2, <1>3, <1>4, OneTurn

\* The turn writes to the transcript of its session.
LEMMA Speaks ==
  ASSUME ChatInv, NEW t \in Turns, NEW k, TurnShape(k), turn' = [turn EXCEPT ![t] = k],
         k.session = turn[t].session, k.session \in Sessions, k.pc \notin Before,
         NEW m, messages' = [messages EXCEPT ![k.session] = m], Grows(m, messages[k.session], t),
         UNCHANGED <<sessions, queue, ledger>>,
         InOrder(t, k, sessions[k.session], m, queue, ledger)
  PROVE  ChatInv'
<1>1. /\ messages' = [s \in Sessions |-> messages'[s]] /\ messages'[k.session] = m
      /\ \A s \in Sessions : s # k.session => messages'[s] = messages[s]
  BY DEF ChatInv
<1>2. \A s \in Sessions : Grows(messages'[s], messages[s], t)
  BY <1>1, GrowsNot DEF ChatInv
<1>3. \A s \in Sessions : OwnIn(messages'[s], t) # {} => k.session = s /\ k.pc \notin Before
  BY <1>1 DEF ChatInv
<1>4. /\ sessions' = [s \in Sessions |-> sessions'[s]]
      /\ \A s \in Sessions : sessions'[s] = [f \in {"state", "title"} |-> sessions'[s][f]]
      /\ \A s \in Sessions : sessions'[s].state = sessions[s].state \/ sessions[s].state = "unborn"
  BY DEF ChatInv
<1>5. InOrder(t, k, sessions'[k.session], messages'[k.session], queue', ledger')
  BY <1>1
<1>q. QED  BY <1>1, <1>2, <1>3, <1>4, <1>5, OneTurn

LEMMA AskStep ==
  ASSUME ChatInv, NEW t \in Turns, NEW s \in Sessions, NEW choice, Ask(t, s, choice)
  PROVE  ChatInv'
<1>1. /\ turn[t].pc = "idle" /\ turn[t].session = NoSession /\ turn[t].frame # "done"
      /\ t \notin queue /\ t \notin ledger /\ TurnShape(turn[t])
      /\ \A r \in Sessions : OwnIn(messages[r], t) = {}
  BY TurnFacts DEF Ask, InOrder, Before
<1>2. /\ sessions' = [r \in Sessions |-> sessions'[r]]
      /\ \A r \in Sessions : sessions'[r] = [f \in {"state", "title"} |-> sessions'[r][f]]
      /\ \A r \in Sessions : sessions'[r].state = sessions[r].state \/ sessions[r].state = "unborn"
      /\ sessions'[s].state # "unborn"
  <2>1. CASE sessions[s].state = "unborn"
    <3>1. sessions' = [sessions EXCEPT ![s].state = "there"]
      BY <2>1 DEF Ask
    <3>q. QED  BY <2>1, <3>1 DEF ChatInv
  <2>2. CASE sessions[s].state # "unborn"
    <3>1. sessions' = sessions
      BY <2>2 DEF Ask
    <3>q. QED  BY <2>2, <3>1 DEF ChatInv
  <2>q. QED  BY <2>1, <2>2
<1>3. messages' = messages /\ queue' = queue /\ ledger' = ledger
  BY DEF Ask
<1>4. /\ \A r \in Sessions : Grows(messages'[r], messages[r], t) /\ OwnIn(messages'[r], t) = {}
      /\ messages' = [r \in Sessions |-> messages'[r]]
  BY <1>1, <1>3, GrowsNot DEF ChatInv
<1>5. \A r \in Sessions : OnceIn(messages'[r], t)
  BY <1>4 DEF OnceIn, QuestionsIn
<1>6. CASE turn' = [turn EXCEPT ![t].pc = "refused"]
  <2> DEFINE k == [turn[t] EXCEPT !.pc = "refused"]
  <2>1. /\ TurnShape(k) /\ k.pc = "refused" /\ k.session = NoSession /\ k.frame # "done"
        /\ turn' = [turn EXCEPT ![t] = k]
    BY <1>1, <1>6 DEF TurnShape, TurnFields
  <2> HIDE DEF k
  <2>2. InOrder(t, k, sessions'[k.session], messages'[k.session], queue', ledger')
    BY <1>1, <1>3, <2>1, ChatAssumption DEF InOrder, Past
  <2>q. QED  BY <1>2, <1>3, <1>4, <2>1, <2>2, OneTurn
<1>7. CASE \E e \in Resolvable(choice) :
             turn' = [turn EXCEPT ![t] = [@ EXCEPT !.pc = "opened", !.session = s,
                                           !.model = pool[e].model,
                                           !.titled = sessions[s].title # NoTurn]]
  <2>1. PICK e : turn' = [turn EXCEPT ![t] = [@ EXCEPT !.pc = "opened", !.session = s,
                                               !.model = pool[e].model,
                                               !.titled = sessions[s].title # NoTurn]]
    BY <1>7
  <2> DEFINE k == [turn[t] EXCEPT !.pc = "opened", !.session = s, !.model = pool[e].model,
                                  !.titled = sessions[s].title # NoTurn]
  <2>2. turn' = [turn EXCEPT ![t] = k]
    BY <2>1, Zenon
  <2>3. TurnShape(k) /\ k.pc = "opened" /\ k.session = s /\ k.frame # "done"
    BY <1>1 DEF TurnShape, TurnFields
  <2> HIDE DEF k
  <2>4. InOrder(t, k, sessions'[k.session], messages'[k.session], queue', ledger')
    BY <1>1, <1>2, <1>3, <1>5, <2>3 DEF InOrder, Past
  <2>q. QED  BY <1>2, <1>3, <1>4, <2>2, <2>3, <2>4, OneTurn
<1>q. QED  BY <1>6, <1>7 DEF Ask

LEMMA SetTitleStep == ASSUME ChatInv, NEW t \in Turns, SetTitle(t) PROVE ChatInv'
<1> DEFINE k == [turn[t] EXCEPT !.pc = "titled"]
<1>1. /\ turn[t].pc = "opened" /\ turn' = [turn EXCEPT ![t] = k]
      /\ messages' = messages /\ queue' = queue /\ ledger' = ledger
  BY DEF SetTitle, Goes, ChatInv
<1>2. /\ TurnShape(k) /\ k.pc = "titled" /\ k.session = turn[t].session /\ k.frame = turn[t].frame
      /\ k.mode = turn[t].mode /\ k.agent = turn[t].agent
  BY TurnFacts DEF TurnShape, TurnFields
<1> HIDE DEF k
<1>3. turn[t].session \in Sessions
  BY <1>1, TurnFacts DEF InOrder
<1>4. /\ sessions' = [s \in Sessions |-> sessions'[s]]
      /\ \A s \in Sessions : sessions'[s] = [f \in {"state", "title"} |-> sessions'[s][f]]
      /\ \A s \in Sessions : sessions'[s].state = sessions[s].state
  <2> DEFINE r == turn[t].session
  <2>1. sessions' = [sessions EXCEPT ![r].title = t] \/ sessions' = sessions
    BY DEF SetTitle
  <2>2. r \in Sessions
    BY <1>3
  <2> HIDE DEF r
  <2>3. CASE sessions' = [sessions EXCEPT ![r].title = t]
    <3>1. /\ sessions' = [s \in Sessions |-> sessions'[s]]
          /\ \A s \in Sessions : s # r => sessions'[s] = sessions[s]
          /\ sessions'[r] = [sessions[r] EXCEPT !.title = t]
      BY <2>2, <2>3 DEF ChatInv
    <3>2. sessions[r] = [f \in {"state", "title"} |-> sessions[r][f]]
      BY <2>2 DEF ChatInv
    <3>3. sessions'[r].state = sessions[r].state /\ sessions'[r] = [f \in {"state", "title"} |-> sessions'[r][f]]
      BY <3>1, <3>2
    <3>4. \A s \in Sessions : sessions'[s] = [f \in {"state", "title"} |-> sessions'[s][f]]
      BY <3>1, <3>3 DEF ChatInv
    <3>q. QED  BY <3>1, <3>3, <3>4
  <2>4. CASE sessions' = sessions
    BY <2>4 DEF ChatInv
  <2>q. QED  BY <2>1, <2>3, <2>4
<1>5. \A s \in Sessions : Grows(messages'[s], messages[s], t) /\ OwnIn(messages'[s], t) = {}
  BY <1>1, TurnFacts, GrowsNot DEF ChatInv, Before
<1>6. /\ sessions'[k.session].state = sessions[turn[t].session].state
      /\ messages'[k.session] = messages[turn[t].session]
  BY <1>1, <1>2, <1>3, <1>4
<1>7. InOrder(t, k, sessions'[k.session], messages'[k.session], queue', ledger')
  BY <1>1, <1>2, <1>3, <1>6, TurnFacts DEF InOrder, Before, Past
<1>q. QED  BY <1>1, <1>2, <1>4, <1>5, <1>7, OneTurn DEF ChatInv

\* The turn goes to another point, and nothing else of it changes.
LEMMA GoesStep ==
  ASSUME ChatInv, NEW t \in Turns, NEW pc, Goes(t, pc), UNCHANGED <<sessions, messages, queue, ledger>>,
         \/ <<turn[t].pc, pc>> \in {<<"titled", "routing">>, <<"first", "second">>, <<"first", "rag_reply">>,
                                    <<"second", "rag_reply">>}
         \/ turn[t].pc = "asked" /\ pc = "streaming" /\ turn[t].mode = "chat"
         \/ turn[t].pc = "asked" /\ pc = "refusing" /\ turn[t].mode = "rag"
         \/ t \in Running /\ pc = "gone"
  PROVE  ChatInv'
<1> DEFINE k == [turn[t] EXCEPT !.pc = pc]
<1>1. turn' = [turn EXCEPT ![t] = k]
  BY DEF Goes, ChatInv
<1>2. /\ TurnShape(k) /\ k.pc = pc /\ k.session = turn[t].session /\ k.frame = turn[t].frame
      /\ k.mode = turn[t].mode /\ k.agent = turn[t].agent
  BY TurnFacts DEF TurnShape, TurnFields
<1> HIDE DEF k
<1>3. InOrder(t, k, sessions[k.session], messages[k.session], queue, ledger)
  BY <1>2, TurnFacts DEF InOrder, Before, Past, Running
<1>4. k.pc \in Before => turn[t].pc \in Before
  BY <1>2 DEF Before
<1>q. QED  BY <1>1, <1>2, <1>3, <1>4, Moves

\* An error frame promises nothing.
LEMMA ErrorStep ==
  ASSUME ChatInv, NEW t \in Turns, ErrorFrame(t), UNCHANGED <<sessions, messages, queue, ledger>>,
         turn[t].pc \notin {"idle", "refused"}
  PROVE  ChatInv'
<1> DEFINE k == [turn[t] EXCEPT !.pc = "over", !.frame = "error"]
<1>1. turn' = [turn EXCEPT ![t] = k]
  BY DEF ErrorFrame, ChatInv
<1>2. /\ TurnShape(k) /\ k.pc = "over" /\ k.session = turn[t].session /\ k.frame = "error"
      /\ k.mode = turn[t].mode /\ k.agent = turn[t].agent
  BY TurnFacts DEF TurnShape, TurnFields
<1> HIDE DEF k
<1>3. InOrder(t, k, sessions[k.session], messages[k.session], queue, ledger)
  BY <1>2, TurnFacts DEF InOrder, Before, Past
<1>q. QED  BY <1>1, <1>2, <1>3, Moves DEF Before

\* The mode, and with it the agent, is decided: an agent somebody registered.
LEMMA ModeStep ==
  ASSUME ChatInv, NEW t \in Turns, turn[t].pc \in {"titled", "routing"},
         UNCHANGED <<sessions, messages, queue, ledger>>, NEW mode, NEW agent,
         turn' = [turn EXCEPT ![t] = [@ EXCEPT !.pc = "decided", !.mode = mode, !.agent = agent]],
         mode = "task" => agent \in Candidates
  PROVE  ChatInv'
<1> DEFINE k == [turn[t] EXCEPT !.pc = "decided", !.mode = mode, !.agent = agent]
<1>1. turn' = [turn EXCEPT ![t] = k]
  BY Zenon
<1>2. /\ TurnShape(k) /\ k.pc = "decided" /\ k.session = turn[t].session /\ k.frame = turn[t].frame
      /\ k.mode = mode /\ k.agent = agent
  BY TurnFacts DEF TurnShape, TurnFields
<1> HIDE DEF k
<1>3. InOrder(t, k, sessions[k.session], messages[k.session], queue, ledger)
  BY <1>2, TurnFacts DEF InOrder, Before, Past
<1>q. QED  BY <1>1, <1>2, <1>3, Moves DEF Before

LEMMA DecideSteps == ASSUME ChatInv, NEW t \in Turns, Route(t) \/ Decided(t) PROVE ChatInv'
<1>1. CASE Route(t)
  <2>1. /\ turn[t].pc = "titled" /\ UNCHANGED <<sessions, messages, queue, ledger>>
        /\ \/ turn' = [turn EXCEPT ![t].pc = "decided", ![t].mode = "chat"]
           \/ Goes(t, "routing")
    BY <1>1 DEF Route
  <2>2. CASE turn' = [turn EXCEPT ![t].pc = "decided", ![t].mode = "chat"]
    <3>1. turn' = [turn EXCEPT ![t] = [@ EXCEPT !.pc = "decided", !.mode = "chat", !.agent = turn[t].agent]]
      BY <2>2, TurnFacts DEF ChatInv, TurnShape, TurnFields
    <3> DEFINE mode == "chat"
    <3>2. mode = "task" => turn[t].agent \in Candidates
      OBVIOUS
    <3>3. turn' = [turn EXCEPT ![t] = [@ EXCEPT !.pc = "decided", !.mode = mode, !.agent = turn[t].agent]]
      BY <3>1
    <3> HIDE DEF mode
    <3>q. QED  BY <2>1, <3>2, <3>3, ModeStep
  <2>q. QED  BY <2>1, <2>2, GoesStep
<1>2. CASE Decided(t)
  <2> DEFINE answer == CallOf(t, "route").answer
             mode == Decision(answer)
             agent == IF mode = "task" THEN answer.agent ELSE turn[t].agent
  <2>1. mode = "task" => answer.agent \in Candidates
    BY DEF Decision
  <2>2. /\ turn[t].pc = "routing" /\ UNCHANGED <<sessions, messages, queue, ledger>>
        /\ turn' = [turn EXCEPT ![t].pc = "decided", ![t].mode = mode,
                                ![t].agent = IF mode = "task" THEN answer.agent ELSE @]
    BY <1>2 DEF Decided
  <2> HIDE DEF answer, mode
  <2>3. turn' = [turn EXCEPT ![t] = [@ EXCEPT !.pc = "decided", !.mode = mode, !.agent = agent]]
    BY <2>2, TurnFacts DEF ChatInv, TurnShape, TurnFields
  <2>4. mode = "task" => agent \in Candidates
    BY <2>1
  <2> HIDE DEF agent
  <2>q. QED  BY <2>2, <2>3, <2>4, ModeStep
<1>q. QED  BY <1>1, <1>2

LEMMA TaskSteps == ASSUME ChatInv, NEW t \in Turns, SendTask(t) \/ CreateSubmission(t) PROVE ChatInv'
<1>1. CASE SendTask(t)
  <2> DEFINE k == [turn[t] EXCEPT !.pc = "sent"]
  <2>1. /\ turn[t].pc = "asked" /\ turn[t].mode = "task" /\ turn' = [turn EXCEPT ![t] = k]
        /\ queue' = queue \cup {t} /\ ledger' = ledger /\ sessions' = sessions /\ messages' = messages
    BY <1>1 DEF SendTask, Goes, ChatInv
  <2>2. /\ TurnShape(k) /\ k.pc = "sent" /\ k.session = turn[t].session /\ k.frame = turn[t].frame
        /\ k.mode = turn[t].mode /\ k.agent = turn[t].agent
    BY TurnFacts DEF TurnShape, TurnFields
  <2> HIDE DEF k
  <2>3. InOrder(t, k, sessions[k.session], messages[k.session], queue', ledger')
    BY <2>1, <2>2, TurnFacts DEF InOrder, Before, Past
  <2>q. QED  BY <2>1, <2>2, <2>3, Moves DEF Before
<1>2. CASE CreateSubmission(t)
  <2> DEFINE k == [turn[t] EXCEPT !.pc = "listed"]
  <2>1. /\ turn[t].pc = "sent" /\ turn' = [turn EXCEPT ![t] = k]
        /\ queue' = queue /\ ledger' = ledger \cup {t} /\ sessions' = sessions /\ messages' = messages
    BY <1>2 DEF CreateSubmission, Goes, ChatInv
  <2>2. /\ TurnShape(k) /\ k.pc = "listed" /\ k.session = turn[t].session /\ k.frame = turn[t].frame
        /\ k.mode = turn[t].mode /\ k.agent = turn[t].agent
    BY TurnFacts DEF TurnShape, TurnFields
  <2> HIDE DEF k
  <2>3. InOrder(t, k, sessions[k.session], messages[k.session], queue', ledger')
    BY <2>1, <2>2, TurnFacts DEF InOrder, Before, Past
  <2>q. QED  BY <2>1, <2>2, <2>3, Moves DEF Before
<1>q. QED  BY <1>1, <1>2

\* The question goes on record.
LEMMA QuestionStep == ASSUME ChatInv, NEW t \in Turns, RecordQuestion(t) PROVE ChatInv'
<1> DEFINE k == [turn[t] EXCEPT !.pc = "asked"]
           s == turn[t].session
           e == Message(t, "user", turn[t].mode, <<>>)
           m == Append(messages[s], e)
<1>1. /\ turn[t].pc = "decided" /\ turn' = [turn EXCEPT ![t] = k]
      /\ messages' = [messages EXCEPT ![s] = m]
      /\ UNCHANGED <<sessions, queue, ledger>>
  BY DEF RecordQuestion, Goes, append_session_messages, ChatInv
<1>2. /\ TurnShape(k) /\ k.pc = "asked" /\ k.session = turn[t].session /\ k.frame = turn[t].frame
      /\ k.mode = turn[t].mode /\ k.agent = turn[t].agent
  BY TurnFacts DEF TurnShape, TurnFields
<1>3. s \in Sessions /\ Listed(messages[s]) /\ OwnIn(messages[s], t) = {}
  BY <1>1, TurnFacts DEF ChatInv, InOrder, Before
<1>4. e.turn = t /\ Asked(e)
  BY DEF Message, Asked
<1> HIDE DEF k, e
<1>5. Grows(m, messages[s], t) /\ RecordedIn(m, t) /\ OnceIn(m, t)
  BY <1>3, <1>4, AppendGrows, QuestionFirst
<1> HIDE DEF m
<1>6. InOrder(t, k, sessions[k.session], m, queue, ledger)
  BY <1>1, <1>2, <1>3, <1>5, TurnFacts DEF InOrder, Before, Past
<1>q. QED  BY <1>1, <1>2, <1>3, <1>5, <1>6, Speaks DEF Before

\* The answer goes on record, and the turn is done.
LEMMA AnswerStep ==
  ASSUME ChatInv, NEW t \in Turns, NEW mode, NEW evidence,
         append_session_messages(t, "assistant", mode, evidence), Done(t), UNCHANGED <<sessions, queue, ledger>>,
         turn[t].pc \in {"listed", "refusing", "rag_reply", "streaming"}
  PROVE  ChatInv'
<1> DEFINE k == [turn[t] EXCEPT !.pc = "over", !.frame = "done"]
           s == turn[t].session
           e == Message(t, "assistant", mode, evidence)
           m == Append(messages[s], e)
<1>1. turn' = [turn EXCEPT ![t] = k] /\ messages' = [messages EXCEPT ![s] = m]
  BY DEF Done, append_session_messages, ChatInv
<1>2. /\ TurnShape(k) /\ k.pc = "over" /\ k.session = turn[t].session /\ k.frame = "done"
      /\ k.mode = turn[t].mode /\ k.agent = turn[t].agent
  BY TurnFacts DEF TurnShape, TurnFields
<1>3. s \in Sessions /\ Listed(messages[s])
  BY TurnFacts DEF ChatInv, InOrder
<1>4. e.turn = t /\ ~Asked(e)
  BY DEF Message, Asked
<1> HIDE DEF k, e
<1>5. /\ Grows(m, messages[s], t) /\ AnsweredIn(m, t)
      /\ RecordedIn(messages[s], t) => RecordedIn(m, t)
      /\ OnceIn(messages[s], t) => OnceIn(m, t)
  BY <1>3, <1>4, AppendGrows, AnswerLast
<1> HIDE DEF m
<1>6. InOrder(t, k, sessions[k.session], m, queue, ledger)
  BY <1>2, <1>3, <1>5, TurnFacts DEF InOrder, Before, Past
<1>q. QED  BY <1>1, <1>2, <1>3, <1>5, <1>6, Speaks DEF Before

\* The question is asked, and the turn goes on with the hits it was given.
LEMMA RetrieveStep == ASSUME ChatInv, NEW t \in Turns, Retrieve(t) PROVE ChatInv'
<1>1. /\ turn[t].pc = "asked" /\ turn[t].mode = "rag" /\ UNCHANGED <<sessions, messages, queue, ledger>>
      /\ \/ turn' = [turn EXCEPT ![t].pc = "refusing"]
         \/ \E hits \in Retrievals : turn' = [turn EXCEPT ![t].pc = "first", ![t].hits = hits]
  BY DEF Retrieve
<1>2. CASE turn' = [turn EXCEPT ![t].pc = "refusing"]
  BY <1>1, <1>2, GoesStep DEF Goes
<1>3. ASSUME NEW hits, turn' = [turn EXCEPT ![t].pc = "first", ![t].hits = hits] PROVE ChatInv'
  <2> DEFINE k == [turn[t] EXCEPT !.pc = "first", !.hits = hits]
  <2>1. turn' = [turn EXCEPT ![t] = k]
    BY <1>3 DEF ChatInv
  <2>2. /\ TurnShape(k) /\ k.pc = "first" /\ k.session = turn[t].session /\ k.frame = turn[t].frame
        /\ k.mode = turn[t].mode /\ k.agent = turn[t].agent
    BY TurnFacts DEF TurnShape, TurnFields
  <2> HIDE DEF k
  <2>3. InOrder(t, k, sessions[k.session], messages[k.session], queue, ledger)
    BY <1>1, <2>2, TurnFacts DEF InOrder, Before, Past
  <2>q. QED  BY <1>1, <2>1, <2>2, <2>3, Moves DEF Before
<1>q. QED  BY <1>1, <1>2, <1>3

\* The workflow of the turn answers; it asks the question first if nothing of
\* the turn is on record.
LEMMA WorkerStep == ASSUME ChatInv, NEW t \in Turns, WorkerAnswers(t) PROVE ChatInv'
<1> DEFINE k == turn[t]
           s == turn[t].session
           old == messages[s]
           e == Message(t, "user", "workflow", <<>>)
           a == Message(t, "assistant", "workflow", <<>>)
           asked == IF has_request_turn(t) THEN old ELSE Append(old, e)
           m == Append(asked, a)
<1>1. /\ t \in queue /\ messages' = [messages EXCEPT ![s] = m]
      /\ UNCHANGED <<sessions, turn, queue, ledger>>
  BY DEF WorkerAnswers
<1>2. /\ k.pc \notin Before /\ s \in Sessions /\ Listed(old) /\ OnceIn(old, t) /\ TurnShape(k)
      /\ sessions[s].state = "there" => RecordedIn(old, t)
  BY <1>1, TurnFacts DEF ChatInv, InOrder, Before
<1>3. e.turn = t /\ Asked(e) /\ a.turn = t /\ ~Asked(a)
  BY DEF Message, Asked
<1>4. has_request_turn(t) <=> OwnIn(old, t) # {}
  BY DEF has_request_turn, Own, OwnIn
<1> HIDE DEF e, a
<1>5. /\ Grows(asked, old, t) /\ OnceIn(asked, t)
      /\ RecordedIn(old, t) => RecordedIn(asked, t)
  <2>1. CASE OwnIn(old, t) # {}
    BY <1>2, <1>4, <2>1, GrowsNot
  <2>2. CASE OwnIn(old, t) = {}
    <3>1. asked = Append(old, e)
      BY <1>4, <2>2
    <3> HIDE DEF asked, old
    <3>q. QED  BY <1>2, <1>3, <2>2, <3>1, AppendGrows, QuestionFirst
  <2>q. QED  BY <2>1, <2>2
<1> HIDE DEF asked, old
<1>6. /\ Grows(m, old, t) /\ OnceIn(m, t) /\ AnsweredIn(m, t)
      /\ RecordedIn(old, t) => RecordedIn(m, t)
  <2>1. Listed(asked)
    BY <1>5 DEF Grows
  <2>2. Grows(m, asked, t) /\ OnceIn(m, t) /\ AnsweredIn(m, t) /\ (RecordedIn(asked, t) => RecordedIn(m, t))
    BY <1>3, <1>5, <2>1, AppendGrows, AnswerLast
  <2> HIDE DEF m
  <2>q. QED  BY <1>5, <2>2, GrowsTwice
<1> HIDE DEF m
<1>7. InOrder(t, k, sessions[k.session], m, queue, ledger)
  BY <1>1, <1>2, <1>6, TurnFacts DEF InOrder, Before, old
<1>8. turn' = [turn EXCEPT ![t] = k]
  BY <1>1 DEF ChatInv
<1>9. Grows(m, messages[k.session], t)
  BY <1>6 DEF old
<1> HIDE DEF k
<1>10. k.session = s
  BY DEF k
<1>q. QED  BY <1>1, <1>2, <1>7, <1>8, <1>9, <1>10, Speaks

LEMMA DeleteStep == ASSUME ChatInv, NEW s \in Sessions, delete_session(s) PROVE ChatInv'
<1>1. /\ sessions[s].state = "there" /\ sessions' = [sessions EXCEPT ![s] = [state |-> "gone", title |-> NoTurn]]
      /\ messages' = [messages EXCEPT ![s] = <<>>]
      /\ UNCHANGED <<turn, queue, ledger>>
  BY DEF delete_session, There
<1>2. /\ sessions' = [r \in Sessions |-> sessions'[r]] /\ sessions'[s] = [state |-> "gone", title |-> NoTurn]
      /\ \A r \in Sessions : r # s => sessions'[r] = sessions[r]
      /\ messages' = [r \in Sessions |-> messages'[r]] /\ messages'[s] = <<>>
      /\ \A r \in Sessions : r # s => messages'[r] = messages[r]
  BY <1>1 DEF ChatInv
<1>3. \A r \in Sessions : sessions'[r] = [f \in {"state", "title"} |-> sessions'[r][f]]
  BY <1>2 DEF ChatInv
<1>4. \A r \in Sessions : Listed(messages'[r])
  <2>1. Listed(<<>>)
    <3>1. <<>> \in Seq({})
      OBVIOUS
    <3>q. QED  BY <3>1 DEF Listed
  <2>q. QED  BY <1>2, <2>1 DEF ChatInv
<1>5. \A t : OwnIn(<<>>, t) = {} /\ OnceIn(<<>>, t)
  BY DEF OwnIn, OnceIn, QuestionsIn
<1>6. \A t \in Turns, r \in Sessions :
        OwnIn(messages'[r], t) # {} => turn[t].session = r /\ turn[t].pc \notin Before
  BY <1>2, <1>5 DEF ChatInv
<1>7. ASSUME NEW t \in Turns
      PROVE  InOrder(t, turn[t], sessions'[turn[t].session], messages'[turn[t].session], queue, ledger)
  <2>1. InOrder(t, turn[t], sessions[turn[t].session], messages[turn[t].session], queue, ledger)
    BY DEF ChatInv
  <2> DEFINE k == turn[t]
             r == turn[t].session
  <2>2. CASE r = s
    <3>1. sessions'[r].state = "gone" /\ messages'[r] = <<>>
      BY <1>2, <2>2
    <3>2. InOrder(t, k, sessions[r], messages[r], queue, ledger) /\ k.session = r /\ r \in Sessions
      BY <2>1, <2>2
    <3> HIDE DEF k, r
    <3>3. InOrder(t, k, sessions'[r], messages'[r], queue, ledger)
      BY <1>1, <1>5, <3>1, <3>2, ChatAssumption DEF InOrder
    <3>q. QED  BY <3>3 DEF k, r
  <2>3. CASE r \in Sessions /\ r # s
    BY <1>2, <2>1, <2>3
  <2>4. CASE r \notin Sessions
    <3>1. /\ k.pc \in {"idle", "refused"} /\ k.session = NoSession /\ k.frame # "done"
          /\ t \notin queue /\ t \notin ledger
      BY <2>1, <2>4 DEF InOrder, Before
    <3>2. k.session = r
      OBVIOUS
    <3> HIDE DEF k, r
    <3>3. InOrder(t, k, sessions'[r], messages'[r], queue, ledger)
      BY <2>4, <3>1, <3>2 DEF InOrder, Past
    <3>q. QED  BY <3>3 DEF k, r
  <2>q. QED  BY <2>2, <2>3, <2>4
<1>8. /\ turn' = turn /\ queue' = queue /\ ledger' = ledger
      /\ turn = [t \in Turns |-> turn[t]] /\ \A t \in Turns : TurnShape(turn[t])
  BY <1>1 DEF ChatInv
<1>9. \A t \in Turns :
        InOrder(t, turn'[t], sessions'[turn'[t].session], messages'[turn'[t].session], queue', ledger')
  BY <1>7, <1>8
<1>10. \A t \in Turns, r \in Sessions :
         OwnIn(messages'[r], t) # {} => turn'[t].session = r /\ turn'[t].pc \notin Before
  BY <1>6, <1>8
<1>11. /\ turn' = [t \in Turns |-> turn'[t]] /\ \A t \in Turns : TurnShape(turn'[t])
       /\ sessions' = [r \in Sessions |-> sessions'[r]] /\ messages' = [r \in Sessions |-> messages'[r]]
  BY <1>2, <1>8
<1>q. QED  BY <1>3, <1>4, <1>9, <1>10, <1>11 DEF ChatInv

LEMMA ChatInvHandle == ASSUME ChatInv, NEW t \in Turns, Handle(t) PROVE ChatInv'
<1>1. CASE FirstAnswer(t)
  <2>1. /\ turn[t].pc = "first" /\ UNCHANGED <<sessions, messages, queue, ledger>>
        /\ ErrorFrame(t) \/ Goes(t, "second") \/ Goes(t, "rag_reply")
    BY <1>1 DEF FirstAnswer
  <2>q. QED  BY <2>1, ErrorStep, GoesStep
<1>2. CASE SecondAnswer(t)
  <2>1. /\ turn[t].pc = "second" /\ UNCHANGED <<sessions, messages, queue, ledger>>
        /\ ErrorFrame(t) \/ Goes(t, "rag_reply")
    BY <1>2 DEF SecondAnswer
  <2>q. QED  BY <2>1, ErrorStep, GoesStep
<1>3. CASE StartStream(t)
  <2>1. /\ turn[t].pc = "asked" /\ turn[t].mode = "chat" /\ Goes(t, "streaming")
        /\ UNCHANGED <<sessions, messages, queue, ledger>>
    BY <1>3 DEF StartStream
  <2>q. QED  BY <2>1, GoesStep
<1>4. CASE CallRaised(t)
  <2>1. /\ turn[t].pc \notin {"idle", "refused"} /\ ErrorFrame(t)
        /\ UNCHANGED <<sessions, messages, queue, ledger>>
    BY <1>4 DEF CallRaised, Awaiting
  <2>q. QED  BY <2>1, ErrorStep
<1>5. CASE HandOver(t)
  BY <1>5, AnswerStep DEF HandOver
<1>6. CASE RagReply(t)
  BY <1>6, AnswerStep DEF RagReply
<1>7. CASE StreamReply(t)
  BY <1>7, AnswerStep DEF StreamReply
<1>q. QED
  BY <1>1, <1>2, <1>3, <1>4, <1>5, <1>6, <1>7, SetTitleStep, DecideSteps, QuestionStep, TaskSteps,
     RetrieveStep DEF Handle

LEMMA ChatInvNext == ASSUME ChatInv, ChatNext PROVE ChatInv'
<1>1. ASSUME NEW t \in Turns, ProviderStep(t) PROVE ChatInv'
  BY <1>1 DEF ProviderStep, ChatInv
<1>2. ASSUME NEW t \in Turns, Fault(t) PROVE ChatInv'
  <2>1. /\ turn[t].pc \notin {"idle", "refused"} /\ ErrorFrame(t)
        /\ UNCHANGED <<sessions, messages, queue, ledger>>
    BY <1>2 DEF Fault
  <2>q. QED  BY <2>1, ErrorStep
<1>3. ASSUME NEW t \in Turns, Leave(t) PROVE ChatInv'
  <2>1. t \in Running /\ Goes(t, "gone") /\ UNCHANGED <<sessions, messages, queue, ledger>>
    BY <1>3 DEF Leave
  <2>q. QED  BY <2>1, GoesStep
<1>q. QED  BY <1>1, <1>2, <1>3, AskStep, ChatInvHandle, WorkerStep, DeleteStep DEF ChatNext

LEMMA ChatInvStarts == Init => ChatInv
<1> SUFFICES ASSUME Init PROVE ChatInv
  OBVIOUS
<1>1. /\ sessions = [s \in Sessions |-> [state |-> "unborn", title |-> NoTurn]]
      /\ messages = [s \in Sessions |-> <<>>] /\ turn = [t \in Turns |-> NewTurn]
      /\ queue = {} /\ ledger = {}
  BY DEF Init
<1>2. /\ TurnShape(NewTurn) /\ NewTurn.pc = "idle" /\ NewTurn.session = NoSession /\ NewTurn.frame = "none"
  BY DEF NewTurn, TurnShape, TurnFields
<1>3. Listed(<<>>)
  <2>1. <<>> \in Seq({})
    OBVIOUS
  <2>q. QED  BY <2>1 DEF Listed
<1>4. \A t : OwnIn(<<>>, t) = {}
  BY DEF OwnIn
<1>5. ASSUME NEW t \in Turns
      PROVE  InOrder(t, turn[t], sessions[turn[t].session], messages[turn[t].session], queue, ledger)
  <2>1. /\ turn[t].pc = "idle" /\ turn[t].session = NoSession /\ turn[t].frame = "none"
        /\ t \notin queue /\ t \notin ledger /\ NoSession \notin Sessions
    BY <1>1, <1>2, ChatAssumption
  <2>q. QED  BY <2>1 DEF InOrder, Past
<1>q. QED  BY <1>1, <1>2, <1>3, <1>4, <1>5 DEF ChatInv

LEMMA ChatInvStays == ChatInv /\ [Next]_vars => ChatInv'
<1> SUFFICES ASSUME ChatInv, [Next]_vars PROVE ChatInv'
  OBVIOUS
<1>1. CASE UNCHANGED chatVars
  BY <1>1 DEF chatVars, ChatInv
<1>q. QED  BY <1>1, ChatInvNext DEF Next, AdminStep, vars

LEMMA ChatInvariance == Spec => []ChatInv
BY ChatInvStarts, ChatInvStays, PTL DEF Spec

-----------------------------------------------------------------------------
LEMMA InvRecorded == ChatInv => DoneIsRecorded
<1> SUFFICES ASSUME ChatInv, NEW t \in Turns, turn[t].session # NoSession
             PROVE  /\ \A i, j \in Questions(t) : i = j
                    /\ turn[t].frame = "done" /\ There(turn[t].session) =>
                         OnRecord(t) /\ Own(t) # Questions(t)
  BY DEF DoneIsRecorded
<1> DEFINE s == turn[t].session
           m == messages[s]
<1>1. InOrder(t, turn[t], sessions[s], m, queue, ledger)
  BY DEF ChatInv
<1>2. s \in Sessions
  BY <1>1 DEF InOrder
<1>3. Own(t) = OwnIn(m, t) /\ Questions(t) = QuestionsIn(m, t)
  BY DEF Own, OwnIn, Questions, QuestionsIn
<1>4. \A i, j \in Questions(t) : i = j
  BY <1>1, <1>2, <1>3 DEF InOrder, OnceIn
<1>5. ASSUME turn[t].frame = "done", There(s) PROVE OnRecord(t) /\ Own(t) # Questions(t)
  <2>1. RecordedIn(m, t) /\ AnsweredIn(m, t)
    BY <1>1, <1>5 DEF InOrder, There
  <2>2. OnRecord(t)
    BY <1>3, <2>1 DEF OnRecord, RecordedIn
  <2>3. Own(t) # Questions(t)
    BY <1>3, <2>1 DEF AnsweredIn, QuestionsIn
  <2>q. QED  BY <2>2, <2>3
<1>q. QED  BY <1>4, <1>5

LEMMA InvHandedOver == ChatInv => TaskHandedOver
<1> SUFFICES ASSUME ChatInv, NEW t \in Turns
             PROVE  /\ t \in ledger => t \in queue
                    /\ t \in queue => turn[t].mode = "task" /\ turn[t].agent \in Candidates
                    /\ t \in queue /\ There(turn[t].session) => OnRecord(t)
                    /\ turn[t].frame = "done" /\ turn[t].mode = "task" => t \in ledger
  BY DEF TaskHandedOver
<1> DEFINE s == turn[t].session
           m == messages[s]
<1>1. InOrder(t, turn[t], sessions[s], m, queue, ledger)
  BY DEF ChatInv
<1>2. Own(t) = OwnIn(m, t) /\ Questions(t) = QuestionsIn(m, t)
  BY DEF Own, OwnIn, Questions, QuestionsIn
<1>3. ASSUME t \in queue, There(s) PROVE OnRecord(t)
  <2>1. RecordedIn(m, t)
    BY <1>1, <1>3 DEF InOrder, There
  <2>q. QED  BY <1>2, <2>1 DEF OnRecord, RecordedIn
<1>q. QED  BY <1>1, <1>3 DEF InOrder

(* A turn tells its client it is done only when its question is on record,   *)
(* once and before everything else of the turn, and its answer after it; and *)
(* no question is recorded by the chat and again by the workflow it started  *)
(* (chat_service.py:190-263, 578-599, base.py:83-123).                       *)
THEOREM Recorded == Spec => []DoneIsRecorded
BY ChatInvariance, InvRecorded, PTL

(* Work that reaches the queue is for a registered agent, and its question   *)
(* was on record before it was sent; a submission row names work that was    *)
(* sent (chat_service.py:342-369, 496-557, api/dependencies.py:275-320).     *)
THEOREM HandedOver == Spec => []TaskHandedOver
BY ChatInvariance, InvHandedOver, PTL

-----------------------------------------------------------------------------
(* The model a turn asks for.                                              *)

ModelFor(model) ==
  IF ProviderOf[model] \in Usable THEN ResolvedModel(ProviderOf[model], model) ELSE model

\* What is known of a call of turn k.
Picked(k, c) == c.pc # "idle" => k.pc # "idle" /\ c.model = ModelFor(k.model)

PickInv == \A t \in Turns, leg \in Legs : Picked(turn[t], call[<<t, leg>>])

\* A call that goes on keeps its model.
Kept(c) == call'[c].model = call[c].model /\ (call'[c].pc # "idle" => call[c].pc # "idle")
TurnKept(t) ==
  /\ turn'[t].model = turn[t].model /\ turn'[t].session = turn[t].session
  /\ turn[t].pc # "idle" => turn'[t].pc # "idle"

LEMMA PickKept ==
  ASSUME PickInv, \A c \in Calls : Kept(c), \A t \in Turns : TurnKept(t)
  PROVE  PickInv'
<1>1. ASSUME NEW t \in Turns, NEW leg \in Legs PROVE Picked(turn'[t], call'[<<t, leg>>])
  <2>1. Kept(<<t, leg>>) /\ TurnKept(t) /\ Picked(turn[t], call[<<t, leg>>])
    BY LegIsCall DEF PickInv
  <2>q. QED  BY <2>1 DEF Kept, TurnKept, Picked
<1>q. QED  BY <1>1 DEF PickInv

\* One call is changed, and keeps its model.
LEMMA OneKept ==
  ASSUME CallInv, NEW c \in Calls, NEW k, call' = [call EXCEPT ![c] = k],
         k.model = call[c].model, call[c].pc # "idle"
  PROVE  \A d \in Calls : Kept(d)
BY DEF CallInv, Kept

LEMMA NoneChanged == ASSUME call' = call PROVE \A d \in Calls : Kept(d)
BY DEF Kept

LEMMA FailKeeps ==
  ASSUME CallInv, NEW c \in Calls, call[c].pc # "idle", Fail(c)
  PROVE  \A d \in Calls : Kept(d)
<1> DEFINE k == [call[c] EXCEPT !.pc = "raised"]
<1>1. call' = [call EXCEPT ![c] = k]
  BY DEF Fail, CallInv
<1>2. k.model = call[c].model
  BY DEF CallInv, Sound, Shape, Fields
<1> HIDE DEF k
<1>q. QED  BY <1>1, <1>2, OneKept

LEMMA FailsKeeps == ASSUME CallInv, NEW c \in Calls, Fails(c) PROVE \A d \in Calls : Kept(d)
<1>1. CASE Transient(c)
  <2> DEFINE k == [call[c] EXCEPT !.attempts = @ + 1]
  <2>1. call[c].pc = "waiting" /\ (call' = [call EXCEPT ![c] = k] \/ Fail(c))
    BY <1>1 DEF Transient, CallInv
  <2>2. k.model = call[c].model
    BY DEF CallInv, Sound, Shape, Fields
  <2> HIDE DEF k
  <2>q. QED  BY <2>1, <2>2, OneKept, FailKeeps
<1>2. CASE Permanent(c) \/ Break(c)
  BY <1>2, FailKeeps DEF Permanent, Break
<1>q. QED  BY <1>1, <1>2 DEF Fails

LEMMA DeliversKeeps ==
  ASSUME CallInv, NEW c \in Calls, NEW answers, Delivers(c, answers)
  PROVE  \A d \in Calls : Kept(d)
<1>0. Shape(call[c])
  BY DEF CallInv, Sound
<1>1. ASSUME NEW answer, Complete(c, answer) PROVE \A d \in Calls : Kept(d)
  <2> DEFINE k == [call[c] EXCEPT !.pc = "returned", !.answer = answer]
             r == [call[c] EXCEPT !.pc = "raised"]
  <2>1. call[c].pc = "waiting" /\ (call' = [call EXCEPT ![c] = k] \/ call' = [call EXCEPT ![c] = r])
    BY <1>1 DEF Complete, CallInv
  <2>2. k.model = call[c].model /\ r.model = call[c].model
    BY <1>0 DEF Shape, Fields
  <2> HIDE DEF k, r
  <2>q. QED  BY <2>1, <2>2, OneKept
<1>2. CASE Piece(c)
  <2> DEFINE k == [call[c] EXCEPT !.pc = "streaming", !.pieces = @ + 1]
  <2>1. call[c].pc # "idle" /\ call' = [call EXCEPT ![c] = k]
    BY <1>2 DEF Piece, CallInv
  <2>2. k.model = call[c].model
    BY <1>0 DEF Shape, Fields
  <2> HIDE DEF k
  <2>q. QED  BY <2>1, <2>2, OneKept
<1>3. CASE StreamEnd(c)
  <2> DEFINE k == [call[c] EXCEPT !.pc = "returned"]
  <2>1. call[c].pc # "idle" /\ call' = [call EXCEPT ![c] = k]
    BY <1>3 DEF StreamEnd, CallInv
  <2>2. k.model = call[c].model
    BY <1>0 DEF Shape, Fields
  <2> HIDE DEF k
  <2>q. QED  BY <2>1, <2>2, OneKept
<1>q. QED  BY <1>1, <1>2, <1>3 DEF Delivers

LEMMA CancelKeeps == ASSUME CallInv, NEW cs, Cancel(cs) PROVE \A d \in Calls : Kept(d)
<1>1. ASSUME NEW d \in Calls PROVE Kept(d)
  <2>1. Shape(call[d])
    BY DEF CallInv, Sound
  <2>2. \/ call'[d] = call[d]
        \/ Cancelled(d) /\ call'[d] = [call[d] EXCEPT !.pc = "cancelled"]
    BY DEF Cancel
  <2>q. QED  BY <2>1, <2>2 DEF Kept, Cancelled, Shape, Fields
<1>q. QED  BY <1>1

\* The turn sends a call for the model it picked.
LEMMA SendPicks ==
  ASSUME PickInv, CallInv, NEW t \in Turns, NEW leg \in Legs, NEW mode, NEW prompt,
         SendFor(t, leg, mode, prompt), turn[t].pc # "idle", \A u \in Turns : TurnKept(u)
  PROVE  PickInv'
<1> DEFINE c == <<t, leg>>
           model == turn[t].model
           k == [NoCall EXCEPT !.pc = "waiting", !.mode = mode, !.attempts = 1, !.prompt = prompt,
                               !.model = ResolvedModel(ProviderOf[model], model)]
           r == [NoCall EXCEPT !.pc = "raised", !.mode = mode, !.model = model]
<1>1. /\ c \in Calls
      /\ \/ ProviderOf[model] \in Usable /\ call' = [call EXCEPT ![c] = k]
         \/ ProviderOf[model] \notin Usable /\ call' = [call EXCEPT ![c] = r]
  BY LegIsCall DEF SendFor, Send
<1>2. k.model = ResolvedModel(ProviderOf[model], model) /\ r.model = model
  BY DEF NoCall
<1> HIDE DEF k, r
<1>3. call'[c].model = ModelFor(model) /\ \A d \in Calls : d # c => call'[d] = call[d]
  BY <1>1, <1>2 DEF ModelFor, CallInv
<1>4. ASSUME NEW u \in Turns, NEW l \in Legs PROVE Picked(turn'[u], call'[<<u, l>>])
  <2>1. TurnKept(u) /\ Picked(turn[u], call[<<u, l>>]) /\ <<u, l>> \in Calls
    BY LegIsCall DEF PickInv
  <2>2. CASE <<u, l>> = c
    <3>1. u = t
      BY <2>2
    <3> HIDE DEF c
    <3>q. QED  BY <1>3, <2>1, <2>2, <3>1 DEF Picked, TurnKept
  <2>3. CASE <<u, l>> # c
    <3> HIDE DEF c
    <3>q. QED  BY <1>3, <2>1, <2>3 DEF Picked, TurnKept
  <2>q. QED  BY <2>2, <2>3
<1>q. QED  BY <1>4 DEF PickInv

\* A step of a turn that is under way keeps the model.
LEMMA TurnKeeps ==
  ASSUME ChatInv, NEW t \in Turns, NEW k, turn' = [turn EXCEPT ![t] = k],
         k.model = turn[t].model, k.session = turn[t].session, k.pc # "idle"
  PROVE  \A u \in Turns : TurnKept(u)
BY DEF ChatInv, TurnKept

LEMMA GoesKeeps ==
  ASSUME ChatInv, NEW t \in Turns, NEW pc, pc # "idle", Goes(t, pc)
  PROVE  \A u \in Turns : TurnKept(u)
<1> DEFINE k == [turn[t] EXCEPT !.pc = pc]
<1>1. /\ turn' = [turn EXCEPT ![t] = k] /\ k.model = turn[t].model
      /\ k.session = turn[t].session /\ k.pc = pc
  BY DEF Goes, ChatInv, TurnShape, TurnFields
<1> HIDE DEF k
<1>q. QED  BY <1>1, TurnKeeps

LEMMA EndKeeps ==
  ASSUME ChatInv, NEW t \in Turns, Done(t) \/ ErrorFrame(t)
  PROVE  \A u \in Turns : TurnKept(u)
<1> DEFINE k(frame) == [turn[t] EXCEPT !.pc = "over", !.frame = frame]
<1>1. PICK frame \in {"done", "error"} : turn' = [turn EXCEPT ![t] = k(frame)]
  BY DEF Done, ErrorFrame, ChatInv
<1>2. k(frame).model = turn[t].model /\ k(frame).session = turn[t].session /\ k(frame).pc = "over"
  BY DEF ChatInv, TurnShape, TurnFields
<1> HIDE DEF k
<1>q. QED  BY <1>1, <1>2, TurnKeeps

LEMMA TurnsRest == ASSUME turn' = turn PROVE \A u \in Turns : TurnKept(u)
BY DEF TurnKept

LEMMA AskPicks ==
  ASSUME PickInv, ChatInv, NEW t \in Turns, NEW s \in Sessions, NEW choice, Ask(t, s, choice)
  PROVE  PickInv'
<1>1. /\ turn[t].pc = "idle" /\ call' = call
      /\ \A u \in Turns : u # t => turn'[u] = turn[u]
  BY DEF Ask, llmVars, ChatInv
<1>2. ASSUME NEW u \in Turns, NEW leg \in Legs PROVE Picked(turn'[u], call'[<<u, leg>>])
  BY <1>1 DEF PickInv, Picked
<1>q. QED  BY <1>2 DEF PickInv

LEMMA HandlePicks ==
  ASSUME PickInv, ChatInv, CallInv, NEW t \in Turns, Handle(t)
  PROVE  PickInv'
<1>1. CASE SetTitle(t) \/ RecordQuestion(t) \/ SendTask(t) \/ CreateSubmission(t)
  <2>1. call' = call /\ \E pc \in {"titled", "asked", "sent", "listed"} : Goes(t, pc)
    BY <1>1 DEF SetTitle, RecordQuestion, SendTask, CreateSubmission, llmVars
  <2>q. QED  BY <2>1, GoesKeeps, NoneChanged, PickKept
<1>2. CASE HandOver(t) \/ RagReply(t) \/ StreamReply(t) \/ CallRaised(t)
  <2>1. call' = call /\ (Done(t) \/ ErrorFrame(t))
    BY <1>2 DEF HandOver, RagReply, StreamReply, CallRaised, llmVars
  <2>q. QED  BY <2>1, EndKeeps, NoneChanged, PickKept
<1>3. CASE SecondAnswer(t)
  <2>1. call' = call /\ (ErrorFrame(t) \/ Goes(t, "rag_reply"))
    BY <1>3 DEF SecondAnswer, llmVars
  <2>q. QED  BY <2>1, EndKeeps, GoesKeeps, NoneChanged, PickKept
<1>4. CASE FirstAnswer(t)
  <2>1. /\ turn[t].pc = "first"
        /\ \/ call' = call /\ (ErrorFrame(t) \/ Goes(t, "rag_reply"))
           \/ SendFor(t, "second", "complete", build_prompt(turn[t].hits, TRUE)) /\ Goes(t, "second")
    BY <1>4 DEF FirstAnswer, llmVars
  <2>2. CASE call' = call /\ (ErrorFrame(t) \/ Goes(t, "rag_reply"))
    BY <2>2, EndKeeps, GoesKeeps, NoneChanged, PickKept
  <2>3. CASE SendFor(t, "second", "complete", build_prompt(turn[t].hits, TRUE)) /\ Goes(t, "second")
    <3>1. "second" \in Legs /\ \A u \in Turns : TurnKept(u)
      BY <2>3, GoesKeeps DEF Legs
    <3>q. QED  BY <2>1, <2>3, <3>1, SendPicks
  <2>q. QED  BY <2>1, <2>2, <2>3
<1>5. CASE Retrieve(t)
  <2>1. turn[t].pc = "asked"
    BY <1>5 DEF Retrieve
  <2>2. PICK hits \in Retrievals :
          \/ call' = call /\ Goes(t, "refusing")
          \/ /\ SendFor(t, "first", "complete", build_prompt(hits, FALSE))
             /\ turn' = [turn EXCEPT ![t].pc = "first", ![t].hits = hits]
    BY <1>5 DEF Retrieve, llmVars, Goes
  <2>3. CASE call' = call /\ Goes(t, "refusing")
    BY <2>3, GoesKeeps, NoneChanged, PickKept
  <2>4. CASE /\ SendFor(t, "first", "complete", build_prompt(hits, FALSE))
             /\ turn' = [turn EXCEPT ![t].pc = "first", ![t].hits = hits]
    <3> DEFINE k == [turn[t] EXCEPT !.pc = "first", !.hits = hits]
    <3>0. turn' = [turn EXCEPT ![t] = k]
      BY <2>4 DEF ChatInv
    <3>1. k.model = turn[t].model /\ k.session = turn[t].session /\ k.pc = "first"
      BY DEF ChatInv, TurnShape, TurnFields
    <3> HIDE DEF k
    <3>2. "first" \in Legs /\ \A u \in Turns : TurnKept(u)
      BY <3>0, <3>1, TurnKeeps DEF Legs
    <3>q. QED  BY <2>1, <2>4, <3>2, SendPicks
  <2>q. QED  BY <2>2, <2>3, <2>4
<1>6. CASE StartStream(t)
  <2>1. /\ turn[t].pc = "asked" /\ Goes(t, "streaming") /\ "first" \in Legs
        /\ SendFor(t, "first", "stream", list_session_messages(turn[t].session))
    BY <1>6 DEF StartStream, Legs
  <2>q. QED  BY <2>1, GoesKeeps, SendPicks
<1>7. CASE Route(t)
  <2>1. /\ turn[t].pc = "titled" /\ "route" \in Legs
        /\ \/ call' = call /\ turn' = [turn EXCEPT ![t].pc = "decided", ![t].mode = "chat"]
           \/ SendFor(t, "route", "complete", <<>>) /\ Goes(t, "routing")
    BY <1>7 DEF Route, llmVars, Legs
  <2>2. CASE call' = call /\ turn' = [turn EXCEPT ![t].pc = "decided", ![t].mode = "chat"]
    <3> DEFINE k == [turn[t] EXCEPT !.pc = "decided", !.mode = "chat"]
    <3>0. turn' = [turn EXCEPT ![t] = k]
      BY <2>2 DEF ChatInv
    <3>1. k.model = turn[t].model /\ k.session = turn[t].session /\ k.pc = "decided"
      BY DEF ChatInv, TurnShape, TurnFields
    <3> HIDE DEF k
    <3>q. QED  BY <2>2, <3>0, <3>1, TurnKeeps, NoneChanged, PickKept
  <2>3. CASE SendFor(t, "route", "complete", <<>>) /\ Goes(t, "routing")
    BY <2>1, <2>3, GoesKeeps, SendPicks
  <2>q. QED  BY <2>1, <2>2, <2>3
<1>8. CASE Decided(t)
  <2> DEFINE c == <<t, "route">>
             answer == CallOf(t, "route").answer
             mode == Decision(answer)
             agent == IF mode = "task" THEN answer.agent ELSE turn[t].agent
             k == [turn[t] EXCEPT !.pc = "decided", !.mode = mode, !.agent = agent]
             r == [call[c] EXCEPT !.answer = NoAnswer]
  <2>1. c \in Calls /\ call[c].pc = "returned" /\ call' = [call EXCEPT ![c] = r]
    BY <1>8, LegIsCall DEF Decided, CallOf, Legs, CallInv
  <2>2. r.model = call[c].model
    BY <2>1 DEF CallInv, Sound, Shape, Fields
  <2>3. \A d \in Calls : Kept(d)
    <3> HIDE DEF r, c
    <3>q. QED  BY <2>1, <2>2, OneKept
  <2>4. turn' = [turn EXCEPT ![t] = k]
    <3>1. turn' = [turn EXCEPT ![t].pc = "decided", ![t].mode = mode,
                               ![t].agent = IF mode = "task" THEN answer.agent ELSE @]
      BY <1>8 DEF Decided
    <3> HIDE DEF answer, mode
    <3>q. QED  BY <3>1 DEF ChatInv, TurnShape, TurnFields
  <2>5. k.model = turn[t].model /\ k.session = turn[t].session /\ k.pc = "decided"
    BY DEF ChatInv, TurnShape, TurnFields
  <2> HIDE DEF k
  <2>q. QED  BY <2>3, <2>4, <2>5, TurnKeeps, PickKept
<1>q. QED  BY <1>1, <1>2, <1>3, <1>4, <1>5, <1>6, <1>7, <1>8 DEF Handle

LEMMA ChatPicks == ASSUME PickInv, ChatInv, CallInv, ChatNext PROVE PickInv'
<1>1. ASSUME NEW t \in Turns, WorkerAnswers(t) PROVE PickInv'
  BY <1>1, TurnsRest, NoneChanged, PickKept DEF WorkerAnswers, llmVars
<1>2. ASSUME NEW t \in Turns, ProviderStep(t) PROVE PickInv'
  <2>1. PICK leg \in Legs : Delivers(<<t, leg>>, Answers(t, leg)) \/ Fails(<<t, leg>>)
    BY <1>2 DEF ProviderStep, Legs
  <2>2. \A d \in Calls : Kept(d)
    BY <2>1, LegIsCall, DeliversKeeps, FailsKeeps
  <2>3. turn' = turn
    BY <1>2 DEF ProviderStep
  <2>q. QED  BY <2>2, <2>3, TurnsRest, PickKept
<1>3. ASSUME NEW t \in Turns, Fault(t) PROVE PickInv'
  BY <1>3, EndKeeps, NoneChanged, PickKept DEF Fault, llmVars
<1>4. ASSUME NEW t \in Turns, Leave(t) PROVE PickInv'
  <2>1. Goes(t, "gone") /\ Cancel({<<t, leg>> : leg \in {"route", "first", "second"}})
    BY <1>4 DEF Leave
  <2>2. (\A d \in Calls : Kept(d)) /\ \A u \in Turns : TurnKept(u)
    BY <2>1, CancelKeeps, GoesKeeps
  <2>q. QED  BY <2>2, PickKept
<1>5. ASSUME NEW s \in Sessions, delete_session(s) PROVE PickInv'
  BY <1>5, TurnsRest, NoneChanged, PickKept DEF delete_session, llmVars
<1>q. QED  BY <1>1, <1>2, <1>3, <1>4, <1>5, AskPicks, HandlePicks DEF ChatNext

(* Every call of a turn asks for the model the user picked, however the pool  *)
(* is changed while the turn goes on (model_pool_service.py:136-170,          *)
(* llm/service.py:280-310).                                                   *)
THEOREM SameModel == Spec => []AsksPicked
<1>1. Init => PickInv
  <2> SUFFICES ASSUME Init PROVE PickInv
    OBVIOUS
  <2>1. ASSUME NEW t \in Turns, NEW leg \in Legs PROVE call[<<t, leg>>].pc = "idle"
    <3>1. call[<<t, leg>>] = NoCall
      BY LegIsCall DEF Init, LLMInit
    <3>q. QED  BY <3>1 DEF NoCall
  <2>q. QED  BY <2>1 DEF PickInv, Picked
<1>2. PickInv /\ ChatInv /\ CallInv /\ [Next]_vars => PickInv'
  <2> SUFFICES ASSUME PickInv, ChatInv, CallInv, [Next]_vars PROVE PickInv'
    OBVIOUS
  <2>1. CASE UNCHANGED <<turn, call>>
    BY <2>1 DEF PickInv
  <2>q. QED  BY <2>1, ChatPicks DEF Next, AdminStep, vars, chatVars, llmVars
<1>3. PickInv => AsksPicked
  BY DEF PickInv, Picked, AsksPicked, ModelFor, CallOf, Legs
<1>4. Spec => []CallInv
  BY CallInvStarts, CallInvStays, PTL DEF Spec
<1>q. QED  BY <1>1, <1>2, <1>3, <1>4, ChatInvariance, PTL DEF Spec

-----------------------------------------------------------------------------
(* Induction over the length of a list: it rests on the least              *)
(* counterexample, which the library's theorems about well-founded         *)
(* relations provide.                                                      *)

\* A nonempty set of numbers has a smallest member.
LEMMA LeastNumber ==
  ASSUME NEW T, T \subseteq Nat, T # {}
  PROVE  \E m \in T : \A k \in T : m <= k
<1> DEFINE R == {ss \in Nat \X Nat : ss[1] < ss[2]}
<1>1. IsWellFoundedOn(R, Nat)
  BY NatLessThanWellFounded DEF OpToRel
<1>2. \E x \in T : \A y \in T : ~ (<<y, x>> \in R)
  <2> HIDE DEF R
  <2> QED BY <1>1, WFMin
<1>3. PICK x \in T : \A y \in T : ~ (<<y, x>> \in R)
  BY <1>2
<1>4. ASSUME NEW y \in T PROVE x <= y
  <2>1. x \in Nat /\ y \in Nat
    OBVIOUS
  <2>2. <<y, x>> \in Nat \X Nat /\ <<y, x>>[1] = y /\ <<y, x>>[2] = x
    BY <2>1
  <2>3. ~(<<y, x>>[1] < <<y, x>>[2])
    <3>1. <<y, x>> \notin R
      BY <1>3
    <3> QED BY <2>2, <3>1, Zenon
  <2> QED BY <2>1, <2>2, <2>3
<1> QED BY <1>4

\* Induction over the length of a list.
LEMMA UpTo ==
  ASSUME NEW k \in Nat, NEW P,
         0 \in P, \A n \in 1..k : n - 1 \in P => n \in P
  PROVE  0..k \subseteq P
<1> DEFINE Left == (0..k) \ P
<1>1. ASSUME Left # {} PROVE FALSE
  <2>1. Left \subseteq Nat
    OBVIOUS
  <2>2. PICK m \in Left : \A j \in Left : m <= j
    <3> HIDE DEF Left
    <3> QED BY <1>1, <2>1, LeastNumber
  <2>3. m \in 1..k /\ m - 1 \in 0..k /\ ~(m <= m - 1)
    BY <2>2
  <2>4. m - 1 \in P
    BY <2>2, <2>3
  <2> QED BY <2>2, <2>3, <2>4
<1> QED BY <1>1

\* The functions that take a value of S to the next, one for each of k places.
Steps(k, S) == [1..k -> [S -> S]]

\* What is reached after each number of steps.
Iterates(f, k, S, base, step) ==
    /\ f \in [0..k -> S]
    /\ f[0] = base
    /\ \A n \in 1..k : f[n] = step[n][f[n - 1]]

\* A function may be defined by recursion over the length of a list.
LEMMA Iteration ==
  ASSUME NEW k \in Nat, NEW S, NEW base \in S, NEW step \in Steps(k, S)
  PROVE  \E f : Iterates(f, k, S, base, step)
<1> DEFINE Solves(f, j) == f[0] = base /\ \A n \in 1..j : f[n] = step[n][f[n - 1]]
           Good == {j \in 0..k : \E f \in [0..j -> S] : Solves(f, j)}
<1>1. 0 \in Good
  <2>1. Solves([n \in 0..0 |-> base], 0) /\ [n \in 0..0 |-> base] \in [0..0 -> S]
    OBVIOUS
  <2> HIDE DEF Solves
  <2> QED BY <2>1
<1>2. ASSUME NEW j \in 1..k, j - 1 \in Good PROVE j \in Good
  <2>1. PICK f \in [0..(j - 1) -> S] : Solves(f, j - 1)
    BY <1>2
  <2>0. step \in [1..k -> [S -> S]]
    BY DEF Steps
  <2> DEFINE g == [n \in 0..j |-> IF n = j THEN step[j][f[j - 1]] ELSE f[n]]
  <2>2. g \in [0..j -> S]
    <3>1. step[j] \in [S -> S] /\ f[j - 1] \in S
      BY <2>0, <2>1
    <3>2. ASSUME NEW n \in 0..j, n # j PROVE f[n] \in S
      BY <2>1, <3>2
    <3> QED BY <3>1, <3>2
  <2>3. Solves(g, j)
    <3>1. g[0] = base
      BY <2>1
    <3>2. ASSUME NEW n \in 1..j PROVE g[n] = step[n][g[n - 1]]
      <4>1. CASE n = j
        BY <4>1
      <4>2. CASE n # j
        <5>1. n \in 1..(j - 1) /\ g[n] = f[n] /\ g[n - 1] = f[n - 1]
          BY <4>2
        <5>2. f[n] = step[n][f[n - 1]]
          BY <2>1, <5>1
        <5> QED BY <5>1, <5>2
      <4> QED BY <4>1, <4>2
    <3> QED BY <3>1, <3>2
  <2> HIDE DEF Solves, g
  <2> QED BY <2>2, <2>3
<1>3. 0..k \subseteq Good
  <2> HIDE DEF Good
  <2> QED BY <1>1, <1>2, UpTo
<1>4. k \in Good
  BY <1>3
<1> QED BY <1>4 DEF Iterates

-----------------------------------------------------------------------------
(* What build_prompt makes of the hits, for every list of them.            *)

Accs == [taken : Seq(KnowledgeHit), used : Nat, full : BOOLEAN]

LEMMA TakeTyped == ASSUME NEW acc \in Accs, NEW h \in KnowledgeHit PROVE Take(acc, h) \in Accs
<1>1. acc.taken \in Seq(KnowledgeHit) /\ acc.used \in Nat /\ h.size \in Nat
  BY DEF Accs, KnowledgeHit
<1>2. Append(acc.taken, h) \in Seq(KnowledgeHit) /\ acc.used + h.size \in Nat
  BY <1>1
<1>q. QED  BY <1>2 DEF Take, Accs

LEMMA NothingTyped == Nothing \in Accs
BY DEF Nothing, Accs

LEMMA Taking ==
  ASSUME NEW start \in Accs, NEW hits \in Seq(KnowledgeHit), NEW extra \in BOOLEAN
  PROVE  /\ taking(start, hits, extra) \in [0..Len(hits) -> Accs]
         /\ taking(start, hits, extra)[0] = start
         /\ \A n \in 1..Len(hits) :
              taking(start, hits, extra)[n] =
                IF hits[n].extra = extra THEN Take(taking(start, hits, extra)[n - 1], hits[n])
                ELSE taking(start, hits, extra)[n - 1]
<1> DEFINE k == Len(hits)
           next(acc, n) == IF hits[n].extra = extra THEN Take(acc, hits[n]) ELSE acc
           Solves(f) == f = [n \in 0..k |-> IF n = 0 THEN start
                                            ELSE IF hits[n].extra = extra THEN Take(f[n - 1], hits[n])
                                            ELSE f[n - 1]]
           step == [n \in 1..k |-> [acc \in Accs |-> next(acc, n)]]
           t == CHOOSE f : Solves(f)
<1>1. taking(start, hits, extra) = t
  BY DEF taking
<1>2. k \in Nat /\ \A n \in 1..k : hits[n] \in KnowledgeHit
  OBVIOUS
<1> HIDE DEF k, t
<1>3. ASSUME NEW n \in 1..k, NEW acc \in Accs PROVE next(acc, n) \in Accs
  BY <1>2, TakeTyped
<1>4. step \in Steps(k, Accs)
  <2> HIDE DEF next
  <2>q. QED  BY <1>3 DEF Steps
<1>5. PICK f : Iterates(f, k, Accs, start, step)
  <2> HIDE DEF step
  <2>q. QED  BY <1>2, <1>4, Iteration
<1>6. Solves(f)
  <2>1. f \in [0..k -> Accs] /\ f[0] = start
    BY <1>5 DEF Iterates
  <2>2. ASSUME NEW n \in 1..k PROVE f[n] = next(f[n - 1], n)
    <3>1. f[n] = step[n][f[n - 1]]
      <4> HIDE DEF step
      <4>q. QED  BY <1>5 DEF Iterates
    <3>2. f[n - 1] \in Accs
      BY <1>2, <2>1
    <3> HIDE DEF next
    <3>q. QED  BY <3>1, <3>2
  <2>3. \A n \in 0..k : f[n] = IF n = 0 THEN start ELSE next(f[n - 1], n)
    <3> HIDE DEF next
    <3>q. QED  BY <1>2, <2>1, <2>2
  <2>4. f = [n \in 0..k |-> f[n]]
    BY <2>1
  <2>q. QED  BY <2>3, <2>4
<1>7. Solves(t)
  <2> HIDE DEF Solves
  <2>q. QED  BY <1>6 DEF t
<1>8. /\ t[0] = start /\ t = [n \in 0..k |-> t[n]]
      /\ \A n \in 1..k : t[n] = next(t[n - 1], n)
  BY <1>2, <1>7
<1>9. \A n \in 0..k : t[n] \in Accs
  <2> DEFINE Typed == {n \in 0..k : t[n] \in Accs}
  <2>1. 0 \in Typed
    BY <1>2, <1>8
  <2>2. ASSUME NEW n \in 1..k, n - 1 \in Typed PROVE n \in Typed
    <3> HIDE DEF next
    <3>q. QED  BY <1>2, <1>3, <1>8, <2>2
  <2>3. 0..k \subseteq Typed
    <3> HIDE DEF Typed
    <3>q. QED  BY <1>2, <2>1, <2>2, UpTo
  <2>q. QED  BY <2>3
<1>10. t \in [0..k -> Accs]
  BY <1>8, <1>9
<1>q. QED  BY <1>1, <1>8, <1>10 DEF k

\* What holds of the start and survives each hit that is taken holds at the end.
LEMMA TakenAll ==
  ASSUME NEW start \in Accs, NEW hits \in Seq(KnowledgeHit), NEW extra \in BOOLEAN, NEW P,
         start \in P,
         \A acc \in Accs, h \in KnowledgeHit : acc \in P /\ h.extra = extra => Take(acc, h) \in P
  PROVE  taking(start, hits, extra)[Len(hits)] \in P \cap Accs
<1> DEFINE k == Len(hits)
           t == taking(start, hits, extra)
           Good == {n \in 0..k : t[n] \in P}
<1>1. /\ t \in [0..k -> Accs] /\ t[0] = start
      /\ \A n \in 1..k : t[n] = IF hits[n].extra = extra THEN Take(t[n - 1], hits[n]) ELSE t[n - 1]
  BY Taking
<1>2. k \in Nat /\ \A n \in 1..k : hits[n] \in KnowledgeHit
  OBVIOUS
<1> HIDE DEF k, t
<1>3. 0 \in Good
  BY <1>1, <1>2
<1>4. ASSUME NEW n \in 1..k, n - 1 \in Good PROVE n \in Good
  <2>1. t[n - 1] \in Accs /\ t[n - 1] \in P /\ hits[n] \in KnowledgeHit /\ n \in 0..k
    BY <1>1, <1>2, <1>4
  <2>q. QED  BY <1>1, <2>1
<1>5. 0..k \subseteq Good
  <2> HIDE DEF Good
  <2>q. QED  BY <1>2, <1>3, <1>4, UpTo
<1>6. k \in 0..k
  BY <1>2
<1>q. QED  BY <1>1, <1>5, <1>6 DEF k, t

\* The size of a list is the sum of the sizes of its hits.
LEMMA Sums ==
  ASSUME NEW hits \in Seq(KnowledgeHit)
  PROVE  \E sum \in [0..Len(hits) -> Nat] :
           /\ sum[0] = 0 /\ SizeOf(hits) = sum[Len(hits)]
           /\ \A n \in 1..Len(hits) : sum[n] = sum[n - 1] + hits[n].size
<1> DEFINE k == Len(hits)
           Solves(f) == f = [n \in 0..k |-> IF n = 0 THEN 0 ELSE f[n - 1] + hits[n].size]
           step == [n \in 1..k |-> [j \in Nat |-> j + hits[n].size]]
           sum == CHOOSE f : Solves(f)
<1>1. SizeOf(hits) = sum[k]
  BY DEF SizeOf
<1>2. k \in Nat /\ \A n \in 1..k : hits[n].size \in Nat
  <2>1. k \in Nat /\ \A n \in 1..k : hits[n] \in KnowledgeHit
    OBVIOUS
  <2>q. QED  BY <2>1 DEF KnowledgeHit
<1> HIDE DEF k, sum
<1>3. step \in Steps(k, Nat)
  BY <1>2 DEF Steps
<1>4. PICK f : Iterates(f, k, Nat, 0, step)
  <2> HIDE DEF step
  <2>q. QED  BY <1>2, <1>3, Iteration
<1>5. Solves(f)
  <2>1. f \in [0..k -> Nat] /\ f[0] = 0
    BY <1>4 DEF Iterates
  <2>2. ASSUME NEW n \in 1..k PROVE f[n] = f[n - 1] + hits[n].size
    <3>1. f[n] = step[n][f[n - 1]]
      <4> HIDE DEF step
      <4>q. QED  BY <1>4 DEF Iterates
    <3>2. f[n - 1] \in Nat
      BY <1>2, <2>1
    <3>q. QED  BY <3>1, <3>2
  <2>3. \A n \in 0..k : f[n] = IF n = 0 THEN 0 ELSE f[n - 1] + hits[n].size
    BY <1>2, <2>1, <2>2
  <2>4. f = [n \in 0..k |-> f[n]]
    BY <2>1
  <2>q. QED  BY <2>3, <2>4
<1>6. Solves(sum)
  <2> HIDE DEF Solves
  <2>q. QED  BY <1>5 DEF sum
<1>7. /\ sum[0] = 0 /\ sum = [n \in 0..k |-> sum[n]]
      /\ \A n \in 1..k : sum[n] = sum[n - 1] + hits[n].size
  BY <1>2, <1>6
<1>8. \A n \in 0..k : sum[n] \in Nat
  <2> DEFINE Typed == {n \in 0..k : sum[n] \in Nat}
  <2>1. 0 \in Typed
    BY <1>2, <1>7
  <2>2. ASSUME NEW n \in 1..k, n - 1 \in Typed PROVE n \in Typed
    <3>1. sum[n] = sum[n - 1] + hits[n].size /\ sum[n - 1] \in Nat /\ hits[n].size \in Nat
      BY <1>2, <1>7, <2>2
    <3>2. sum[n - 1] + hits[n].size \in Nat /\ n \in 0..k
      BY <1>2, <3>1
    <3>q. QED  BY <3>1, <3>2
  <2>3. 0..k \subseteq Typed
    <3> HIDE DEF Typed
    <3>q. QED  BY <1>2, <2>1, <2>2, UpTo
  <2>q. QED  BY <2>3
<1>9. sum \in [0..k -> Nat]
  BY <1>7, <1>8
<1>q. QED  BY <1>1, <1>7, <1>9 DEF k

LEMMA SizeEmpty == SizeOf(<<>>) = 0
<1>1. <<>> \in Seq(KnowledgeHit) /\ Len(<<>>) = 0
  OBVIOUS
<1>2. PICK sum \in [0..Len(<<>>) -> Nat] : sum[0] = 0 /\ SizeOf(<<>>) = sum[Len(<<>>)]
  BY <1>1, Sums
<1>q. QED  BY <1>1, <1>2

LEMMA SizeAppend ==
  ASSUME NEW s \in Seq(KnowledgeHit), NEW h \in KnowledgeHit
  PROVE  SizeOf(s) \in Nat /\ SizeOf(Append(s, h)) = SizeOf(s) + h.size
<1> DEFINE k == Len(s)
           l == Append(s, h)
<1>1. /\ k \in Nat /\ l \in Seq(KnowledgeHit) /\ Len(l) = k + 1 /\ l[k + 1] = h
      /\ \A n \in 1..k : l[n] = s[n]
  OBVIOUS
<1>2. PICK a \in [0..k -> Nat] : /\ a[0] = 0 /\ SizeOf(s) = a[k]
                                 /\ \A n \in 1..k : a[n] = a[n - 1] + s[n].size
  BY Sums
<1> HIDE DEF k, l
<1>3. PICK b \in [0..(k + 1) -> Nat] : /\ b[0] = 0 /\ SizeOf(l) = b[k + 1]
                                       /\ \A n \in 1..(k + 1) : b[n] = b[n - 1] + l[n].size
  <2>1. \E b \in [0..Len(l) -> Nat] : /\ b[0] = 0 /\ SizeOf(l) = b[Len(l)]
                                      /\ \A n \in 1..Len(l) : b[n] = b[n - 1] + l[n].size
    BY <1>1, Sums
  <2>q. QED  BY <1>1, <2>1
<1> DEFINE Same == {n \in 0..k : a[n] = b[n]}
<1>4. 0 \in Same
  BY <1>1, <1>2, <1>3
<1>5. ASSUME NEW n \in 1..k, n - 1 \in Same PROVE n \in Same
  <2>1. a[n - 1] = b[n - 1] /\ n \in 0..k /\ n \in 1..(k + 1)
    BY <1>1, <1>5
  <2>q. QED  BY <1>1, <1>2, <1>3, <2>1
<1>6. 0..k \subseteq Same
  <2> HIDE DEF Same
  <2>q. QED  BY <1>1, <1>4, <1>5, UpTo
<1>7. k \in 0..k /\ k + 1 \in 1..(k + 1) /\ (k + 1) - 1 = k
  BY <1>1
<1>8. a[k] = b[k] /\ b[k + 1] = b[k] + h.size
  BY <1>1, <1>3, <1>6, <1>7
<1>q. QED  BY <1>2, <1>3, <1>7, <1>8 DEF l

\* Within the limit, or one hit.
Within(p) == Len(p) = 1 \/ SizeOf(p) <= MaxContext
Counts(acc) == acc.used = SizeOf(acc.taken) /\ (acc.used <= MaxContext \/ Len(acc.taken) = 1)
Plain(p) == Supplementary(p) = {}

LEMMA TakeCounts ==
  ASSUME NEW acc \in Accs, NEW h \in KnowledgeHit, Counts(acc)
  PROVE  Counts(Take(acc, h))
<1> DEFINE new == Take(acc, h)
<1>0. acc.taken \in Seq(KnowledgeHit) /\ acc.used \in Nat /\ h.size \in Nat
  BY DEF Accs, KnowledgeHit
<1>1. CASE acc.full \/ (acc.taken # <<>> /\ acc.used + h.size > MaxContext)
  <2>1. new.taken = acc.taken /\ new.used = acc.used
    BY <1>1 DEF Take, Accs
  <2>q. QED  BY <2>1 DEF Counts
<1>2. CASE ~(acc.full \/ (acc.taken # <<>> /\ acc.used + h.size > MaxContext))
  <2>1. new.taken = Append(acc.taken, h) /\ new.used = acc.used + h.size
    BY <1>2 DEF Take, Accs
  <2>2. SizeOf(new.taken) = new.used
    BY <1>0, <2>1, SizeAppend DEF Counts
  <2>3. CASE acc.taken = <<>>
    <3>1. Len(new.taken) = 1
      BY <1>0, <2>1, <2>3
    <3>q. QED  BY <2>2, <3>1 DEF Counts
  <2>4. CASE acc.taken # <<>>
    <3>1. new.used <= MaxContext
      BY <1>0, <1>2, <2>1, <2>4, ContextAssumption
    <3>q. QED  BY <2>2, <3>1 DEF Counts
  <2>q. QED  BY <2>3, <2>4
<1>q. QED  BY <1>1, <1>2

LEMMA TakePlain ==
  ASSUME NEW acc \in Accs, NEW h \in KnowledgeHit, Plain(acc.taken), h.extra = FALSE
  PROVE  Plain(Take(acc, h).taken)
<1> DEFINE s == acc.taken
<1>0. s \in Seq(KnowledgeHit)
  BY DEF Accs
<1>1. Take(acc, h).taken \in {s, Append(s, h)}
  BY DEF Take, Accs
<1>2. /\ DOMAIN s = 1..Len(s) /\ DOMAIN Append(s, h) = 1..(Len(s) + 1) /\ Len(s) \in Nat
      /\ \A i \in 1..Len(s) : Append(s, h)[i] = s[i]
      /\ Append(s, h)[Len(s) + 1] = h
  BY <1>0
<1>3. \A i \in DOMAIN s : ~s[i].extra
  BY DEF Plain, Supplementary
<1>4. \A i \in DOMAIN Append(s, h) : ~Append(s, h)[i].extra
  BY <1>2, <1>3
<1>q. QED  BY <1>1, <1>3, <1>4 DEF Plain, Supplementary

\* What goes into a prompt fits, and holds no extra hit unless it may.
LEMMA PromptFits ==
  ASSUME NEW hits \in Retrievals, NEW with \in BOOLEAN
  PROVE  /\ Within(build_prompt(hits, with))
         /\ ~with => Plain(build_prompt(hits, with))
<1> DEFINE Fine == {acc \in Accs : Counts(acc)}
           Clean == {acc \in Accs : Counts(acc) /\ Plain(acc.taken)}
           primary == taking(Nothing, hits, FALSE)[Len(hits)]
           start == [primary EXCEPT !.full = FALSE]
           both == taking(start, hits, TRUE)[Len(hits)]
<1>0. hits \in Seq(KnowledgeHit)
  BY ContextAssumption
<1>1. Nothing \in Clean
  <2>1. Counts(Nothing)
    BY SizeEmpty, ContextAssumption DEF Nothing, Counts
  <2>2. Plain(Nothing.taken)
    BY DEF Nothing, Plain, Supplementary
  <2>q. QED  BY <2>1, <2>2, NothingTyped
<1>2. primary \in Clean
  <2>1. \A acc \in Accs, h \in KnowledgeHit : acc \in Clean /\ h.extra = FALSE => Take(acc, h) \in Clean
    BY TakeTyped, TakeCounts, TakePlain
  <2> HIDE DEF Clean
  <2>2. primary \in Clean \cap Accs
    BY <1>0, <1>1, <2>1, NothingTyped, TakenAll
  <2>q. QED  BY <2>2
<1> HIDE DEF primary
<1>3. start \in Fine
  <2>1. start \in Accs /\ start.taken = primary.taken /\ start.used = primary.used
    BY <1>2 DEF Accs
  <2>q. QED  BY <1>2, <2>1 DEF Counts
<1> HIDE DEF start
<1>4. both \in Fine
  <2>1. \A acc \in Accs, h \in KnowledgeHit : acc \in Fine /\ h.extra = TRUE => Take(acc, h) \in Fine
    BY TakeTyped, TakeCounts
  <2>2. start \in Accs
    BY <1>3
  <2> HIDE DEF Fine
  <2>3. both \in Fine \cap Accs
    BY <1>0, <1>3, <2>1, <2>2, TakenAll
  <2>q. QED  BY <2>3
<1> HIDE DEF both
<1>5. build_prompt(hits, with) = IF with THEN both.taken ELSE primary.taken
  BY DEF build_prompt, both, start, primary
<1>6. Within(both.taken) /\ Within(primary.taken) /\ Plain(primary.taken)
  BY <1>2, <1>4 DEF Counts, Within
<1>q. QED  BY <1>5, <1>6

-----------------------------------------------------------------------------
(* The evidence that goes on record.                                       *)

Given == {"text", "refusal"}

\* The passes are over, and the last one was answered.
Settled(f, s) ==
  \/ s.pc = "returned" /\ s.answer.kind \in Given
  \/ s.pc = "idle" /\ f.pc = "returned" /\ f.mode = "complete" /\ f.answer.kind \in Given

\* Where turn k stands with its two passes; a reply is one of four kinds, a
\* prompt fits, and one with extra hits follows a refusal.
Answering(c) == c.pc = "returned" /\ c.mode = "complete" => c.answer.kind \in AnswerKinds
Stage(k, f, s) ==
  /\ k.pc \in Before \cup {"asked"} => f.pc = "idle" /\ s.pc = "idle"
  /\ k.pc = "first" => f.pc # "idle" /\ f.mode = "complete" /\ s.pc = "idle"
  /\ k.pc = "second" => s.pc # "idle" /\ s.mode = "complete"
  /\ k.pc = "rag_reply" => Settled(f, s)
  /\ k.pc = "first" => k.hits \in Retrievals
  /\ Answering(f) /\ Answering(s)
  /\ f.mode = "complete" => Within(f.prompt) /\ Plain(f.prompt)
  /\ s.pc # "idle" => Within(s.prompt) /\ f.pc = "returned" /\ f.answer.kind = "refusal"

First(t) == call[<<t, "first">>]
Second(t) == call[<<t, "second">>]

StageInv == \A t \in Turns : Stage(turn[t], First(t), Second(t))

\* A message of the knowledge base shows what its last pass was given.
Shows(m) ==
  m.mode = "rag" /\ m.role = "assistant" =>
    /\ m.turn \in Turns /\ turn[m.turn].pc = "over"
    /\ \/ m.evidence = <<>>
       \/ /\ Settled(First(m.turn), Second(m.turn))
          /\ m.evidence = IF Second(m.turn).pc = "idle" THEN First(m.turn).prompt ELSE Second(m.turn).prompt

ShowInv == \A s \in Sessions : \A i \in DOMAIN messages[s] : Shows(messages[s][i])

\* What a step may do with a pass that it does not send.
MovesOn(c) ==
  /\ call'[c].mode = call[c].mode /\ call'[c].prompt = call[c].prompt
  /\ call'[c].pc = "idle" <=> call[c].pc = "idle"
  /\ call[c].pc \in {"idle", "returned", "raised"} => call'[c] = call[c]
  /\ call'[c] # call[c] => Answering(call'[c])

PassesMoveOn == \A t \in Turns, leg \in {"first", "second"} : MovesOn(<<t, leg>>)

LEMMA StageMovesOn ==
  ASSUME NEW t \in Turns, PassesMoveOn, NEW k, Stage(k, First(t), Second(t))
  PROVE  Stage(k, First(t)', Second(t)')
<1>1. MovesOn(<<t, "first">>) /\ MovesOn(<<t, "second">>)
  BY DEF PassesMoveOn
<1> DEFINE f == First(t)
           s == Second(t)
           ff == call'[<<t, "first">>]
           ss == call'[<<t, "second">>]
<1>2. /\ ff.mode = f.mode /\ ff.prompt = f.prompt /\ (ff.pc = "idle" <=> f.pc = "idle")
      /\ f.pc \in {"idle", "returned"} => ff = f
      /\ ff # f => Answering(ff)
      /\ ss.mode = s.mode /\ ss.prompt = s.prompt /\ (ss.pc = "idle" <=> s.pc = "idle")
      /\ s.pc \in {"idle", "returned"} => ss = s
      /\ ss # s => Answering(ss)
  BY <1>1 DEF MovesOn, First, Second
<1>3. Stage(k, f, s)
  OBVIOUS
<1> HIDE DEF f, s, ff, ss
<1>4. Stage(k, ff, ss)
  BY <1>2, <1>3 DEF Stage, Settled
<1>q. QED  BY <1>4 DEF First, Second, ff, ss

\* The transcripts grow by messages that show what they should, or are emptied.
LEMMA ShownStay ==
  ASSUME ShowInv, NEW s \in Sessions, NEW e, Listed(messages[s]), messages = [r \in Sessions |-> messages[r]],
         messages' = [messages EXCEPT ![s] = Append(messages[s], e)],
         \A m : Shows(m) => Shows(m)', Shows(e)'
  PROVE  ShowInv'
<1>1. ASSUME NEW r \in Sessions, NEW i \in DOMAIN messages'[r], NEW m, m = messages'[r][i] PROVE Shows(m)'
  <2>1. CASE r = s
    <3>1. messages'[r] = Append(messages[s], e)
      BY <2>1
    <3>2. \/ i \in DOMAIN messages[s] /\ m = messages[s][i]
          \/ m = e
      BY <1>1, <3>1, ListedAppend
    <3>3. CASE i \in DOMAIN messages[s] /\ m = messages[s][i]
      BY <3>3 DEF ShowInv
    <3>q. QED  BY <3>2, <3>3
  <2>2. CASE r # s
    <3>1. messages'[r] = messages[r]
      BY <2>2
    <3>2. Shows(m)
      BY <1>1, <3>1 DEF ShowInv
    <3>q. QED  BY <3>2
  <2>q. QED  BY <2>1, <2>2
<1>2. \A r \in Sessions : \A i \in DOMAIN messages'[r] : \E m : m = messages'[r][i] /\ Shows(m)'
  BY <1>1
<1>q. QED  BY <1>2 DEF ShowInv, Shows

LEMMA ShownSame ==
  ASSUME ShowInv, messages' = messages, \A m : Shows(m) => Shows(m)'
  PROVE  ShowInv'
BY DEF ShowInv

\* A message goes on showing what it shows: its turn is over.
LEMMA ShowsOn ==
  ASSUME \A t \in Turns : turn[t].pc = "over" => turn'[t].pc = "over",
         \A t \in Turns : turn[t].pc = "over" => MovesOn(<<t, "first">>) /\ MovesOn(<<t, "second">>),
         NEW m, Shows(m)
  PROVE  Shows(m)'
<1>1. CASE m.mode = "rag" /\ m.role = "assistant"
  <2> DEFINE t == m.turn
  <2>1. t \in Turns /\ turn[t].pc = "over" /\ turn'[t].pc = "over"
    BY <1>1 DEF Shows
  <2>2. MovesOn(<<t, "first">>) /\ MovesOn(<<t, "second">>)
    BY <2>1
  <2>3. Settled(First(t), Second(t)) =>
          /\ Second(t)' = Second(t) /\ (Second(t).pc = "idle" => First(t)' = First(t))
          /\ Settled(First(t)', Second(t)')
    BY <2>2 DEF MovesOn, Settled, First, Second
  <2>4. \/ m.evidence = <<>>
        \/ /\ Settled(First(t), Second(t))
           /\ m.evidence = IF Second(t).pc = "idle" THEN First(t).prompt ELSE Second(t).prompt
    BY <1>1 DEF Shows
  <2>5. \/ m.evidence = <<>>
        \/ /\ Settled(First(t)', Second(t)')
           /\ m.evidence = IF Second(t)'.pc = "idle" THEN First(t)'.prompt ELSE Second(t)'.prompt
    BY <2>3, <2>4
  <2>q. QED  BY <2>1, <2>5 DEF Shows
<1>2. CASE ~(m.mode = "rag" /\ m.role = "assistant")
  BY <1>2 DEF Shows
<1>q. QED  BY <1>1, <1>2

LEMMA PassesRest == ASSUME call' = call PROVE PassesMoveOn
BY DEF PassesMoveOn, MovesOn

LEMMA PassMoves ==
  ASSUME CallInv, NEW t \in Turns, NEW leg \in Legs, NEW k, call' = [call EXCEPT ![<<t, leg>>] = k],
         leg # "route" => /\ k.mode = call[<<t, leg>>].mode /\ k.prompt = call[<<t, leg>>].prompt
                          /\ k.pc # "idle" /\ call[<<t, leg>>].pc \notin {"idle", "returned", "raised"}
                          /\ Answering(k)
  PROVE  PassesMoveOn
<1>1. ASSUME NEW u \in Turns, NEW l \in {"first", "second"} PROVE MovesOn(<<u, l>>)
  <2>1. <<u, l>> \in Calls
    BY LegIsCall DEF Legs
  <2>2. CASE <<u, l>> = <<t, leg>>
    <3>1. leg # "route"
      BY <2>2
    <3> DEFINE c == <<u, l>>
    <3>2. /\ call'[c] = k /\ k.mode = call[c].mode /\ k.prompt = call[c].prompt /\ k.pc # "idle"
          /\ call[c].pc \notin {"idle", "returned", "raised"}
      BY <2>1, <2>2, <3>1 DEF CallInv
    <3> HIDE DEF c
    <3>3. MovesOn(c)
      BY <3>1, <3>2 DEF MovesOn
    <3>q. QED  BY <3>3 DEF c
  <2>3. CASE <<u, l>> # <<t, leg>>
    <3>1. call'[<<u, l>>] = call[<<u, l>>]
      BY <2>1, <2>3 DEF CallInv
    <3>q. QED  BY <3>1 DEF MovesOn
  <2>q. QED  BY <2>2, <2>3
<1>q. QED  BY <1>1 DEF PassesMoveOn

\* The provider moves a call on; what it says of a pass is one of four kinds.
LEMMA ProviderMoves ==
  ASSUME CallInv, NEW t \in Turns, NEW leg \in Legs,
         Delivers(<<t, leg>>, Answers(t, leg)) \/ Fails(<<t, leg>>)
  PROVE  PassesMoveOn
<1> DEFINE c == <<t, leg>>
<1>0. c \in Calls /\ Shape(call[c])
  BY LegIsCall DEF CallInv, Sound
<1> DEFINE Moved == \E k : /\ call' = [call EXCEPT ![c] = k] /\ k.mode = call[c].mode
                           /\ k.prompt = call[c].prompt /\ k.pc # "idle"
                           /\ call[c].pc \notin {"idle", "returned", "raised"}
                           /\ (leg # "route" => Answering(k))
<1>1. Moved
  <2>1. ASSUME NEW answer \in Answers(t, leg), Complete(c, answer) PROVE Moved
    <3> DEFINE k == [call[c] EXCEPT !.pc = "returned", !.answer = answer]
               r == [call[c] EXCEPT !.pc = "raised"]
    <3>1. /\ call[c].pc = "waiting"
          /\ \/ answer.kind = "malformed" /\ call' = [call EXCEPT ![c] = r]
             \/ answer.kind # "malformed" /\ call' = [call EXCEPT ![c] = k]
      BY <1>0, <2>1 DEF Complete, CallInv
    <3>2. /\ k.mode = call[c].mode /\ k.prompt = call[c].prompt /\ k.pc = "returned" /\ k.answer = answer
          /\ r.mode = call[c].mode /\ r.prompt = call[c].prompt /\ r.pc = "raised"
      BY <1>0 DEF Shape, Fields
    <3>3. leg # "route" /\ answer.kind # "malformed" => answer.kind \in AnswerKinds
      BY DEF Answers
    <3> HIDE DEF k, r, c
    <3>q. QED  BY <3>1, <3>2, <3>3 DEF Answering
  <2>2. CASE Piece(c)
    <3> DEFINE k == [call[c] EXCEPT !.pc = "streaming", !.pieces = @ + 1]
    <3>1. call[c].pc \in {"waiting", "streaming"} /\ call' = [call EXCEPT ![c] = k]
      BY <1>0, <2>2 DEF Piece, CallInv
    <3>2. k.mode = call[c].mode /\ k.prompt = call[c].prompt /\ k.pc = "streaming"
      BY <1>0 DEF Shape, Fields
    <3> HIDE DEF k, c
    <3>q. QED  BY <3>1, <3>2 DEF Answering
  <2>3. CASE StreamEnd(c)
    <3> DEFINE k == [call[c] EXCEPT !.pc = "returned"]
    <3>1. /\ call[c].pc \in {"waiting", "streaming"} /\ call[c].mode = "stream"
          /\ call' = [call EXCEPT ![c] = k]
      BY <1>0, <2>3 DEF StreamEnd, CallInv
    <3>2. k.mode = call[c].mode /\ k.prompt = call[c].prompt /\ k.pc = "returned"
      BY <1>0 DEF Shape, Fields
    <3> HIDE DEF k, c
    <3>q. QED  BY <3>1, <3>2 DEF Answering
  <2>4. CASE Fails(c)
    <3> DEFINE k == [call[c] EXCEPT !.attempts = @ + 1]
               r == [call[c] EXCEPT !.pc = "raised"]
    <3>1. /\ call[c].pc \in {"waiting", "streaming"}
          /\ \/ call' = [call EXCEPT ![c] = r]
             \/ call[c].pc = "waiting" /\ call' = [call EXCEPT ![c] = k]
      BY <1>0, <2>4 DEF Fails, Transient, Permanent, Break, Fail, CallInv
    <3>2. /\ k.mode = call[c].mode /\ k.prompt = call[c].prompt /\ k.pc = call[c].pc
          /\ r.mode = call[c].mode /\ r.prompt = call[c].prompt /\ r.pc = "raised"
      BY <1>0 DEF Shape, Fields
    <3> HIDE DEF k, r, c
    <3>q. QED  BY <3>1, <3>2 DEF Answering
  <2>q. QED  BY <2>1, <2>2, <2>3, <2>4 DEF Delivers
<1>q. QED  BY <1>1, PassMoves

LEMMA CancelMoves == ASSUME CallInv, NEW cs, Cancel(cs) PROVE PassesMoveOn
<1>1. ASSUME NEW d \in Calls PROVE MovesOn(d)
  <2> DEFINE k == [call[d] EXCEPT !.pc = "cancelled"]
  <2>1. k.mode = call[d].mode /\ k.prompt = call[d].prompt /\ k.pc = "cancelled"
    BY DEF CallInv, Sound, Shape, Fields
  <2>2. \/ call'[d] = call[d]
        \/ call[d].pc \in {"waiting", "streaming"} /\ call'[d] = k
    BY DEF Cancel, Cancelled
  <2> HIDE DEF k
  <2>q. QED  BY <2>1, <2>2 DEF MovesOn, Answering
<1>q. QED  BY <1>1, LegIsCall DEF PassesMoveOn, Legs

\* A call is sent; the other calls rest.
LEMMA Sends ==
  ASSUME CallInv, NEW t \in Turns, NEW leg \in Legs, NEW mode, NEW prompt, SendFor(t, leg, mode, prompt)
  PROVE  /\ \A d \in Calls : d # <<t, leg>> => call'[d] = call[d]
         /\ call'[<<t, leg>>].pc \in {"waiting", "raised"} /\ call'[<<t, leg>>].mode = mode
         /\ call'[<<t, leg>>].prompt \in {prompt, <<>>}
         /\ call'[<<t, leg>>].prompt = prompt \/ call'[<<t, leg>>].pc = "raised"
<1> DEFINE c == <<t, leg>>
           model == turn[t].model
           k == [NoCall EXCEPT !.pc = "waiting", !.mode = mode, !.attempts = 1, !.prompt = prompt,
                               !.model = ResolvedModel(ProviderOf[model], model)]
           r == [NoCall EXCEPT !.pc = "raised", !.mode = mode, !.model = model]
<1>1. /\ c \in Calls
      /\ \/ call' = [call EXCEPT ![c] = k]
         \/ call' = [call EXCEPT ![c] = r]
  BY LegIsCall DEF SendFor, Send
<1>2. /\ k.pc = "waiting" /\ k.mode = mode /\ k.prompt = prompt
      /\ r.pc = "raised" /\ r.mode = mode /\ r.prompt = <<>>
  BY DEF NoCall
<1> HIDE DEF k, r, c
<1>3. /\ \A d \in Calls : d # c => call'[d] = call[d]
      /\ call'[c].pc \in {"waiting", "raised"} /\ call'[c].mode = mode
      /\ call'[c].prompt \in {prompt, <<>>}
      /\ call'[c].prompt = prompt \/ call'[c].pc = "raised"
  BY <1>1, <1>2 DEF CallInv
<1>q. QED  BY <1>3 DEF c

-----------------------------------------------------------------------------
EvidenceInv == StageInv /\ ShowInv

\* The turn is not over, or stays so; its passes move on, and it says nothing.
LEMMA Silent ==
  ASSUME EvidenceInv, ChatInv, PassesMoveOn, NEW t \in Turns, NEW k, turn' = [turn EXCEPT ![t] = k],
         turn[t].pc = "over" => k.pc = "over", Stage(k, First(t), Second(t)), messages' = messages
  PROVE  EvidenceInv'
<1>1. turn'[t] = k /\ \A u \in Turns : u # t => turn'[u] = turn[u]
  BY DEF ChatInv
<1>2. ASSUME NEW u \in Turns PROVE Stage(turn'[u], First(u), Second(u))
  BY <1>1 DEF EvidenceInv, StageInv
<1>3. StageInv'
  <2>1. \A u \in Turns : Stage(turn'[u], First(u)', Second(u)')
    BY <1>2, StageMovesOn
  <2>q. QED  BY <2>1 DEF StageInv
<1>4. \A u \in Turns : turn[u].pc = "over" => turn'[u].pc = "over"
  BY <1>1
<1>5. \A m : Shows(m) => Shows(m)'
  BY <1>4, ShowsOn DEF PassesMoveOn
<1>6. ShowInv'
  BY <1>5, ShownSame DEF EvidenceInv
<1>q. QED  BY <1>3, <1>6 DEF EvidenceInv

\* The turn says something that needs no evidence, or has it.
LEMMA Said ==
  ASSUME EvidenceInv, ChatInv, call' = call, NEW t \in Turns, NEW k, turn' = [turn EXCEPT ![t] = k],
         turn[t].pc = "over" => k.pc = "over", Stage(k, First(t), Second(t)),
         NEW s \in Sessions, NEW e, messages' = [messages EXCEPT ![s] = Append(messages[s], e)],
         Shows(e)'
  PROVE  EvidenceInv'
<1>1. turn'[t] = k /\ \A u \in Turns : u # t => turn'[u] = turn[u]
  BY DEF ChatInv
<1>2. ASSUME NEW u \in Turns PROVE Stage(turn'[u], First(u)', Second(u)')
  <2>1. Stage(turn'[u], First(u), Second(u))
    BY <1>1 DEF EvidenceInv, StageInv
  <2>q. QED  BY <2>1 DEF First, Second
<1>3. StageInv'
  BY <1>2 DEF StageInv
<1>4. \A u \in Turns : turn[u].pc = "over" => turn'[u].pc = "over"
  BY <1>1
<1>5. \A m : Shows(m) => Shows(m)'
  BY <1>4, ShowsOn, PassesRest DEF PassesMoveOn
<1>6. ShowInv'
  BY <1>5, ShownStay DEF EvidenceInv, ChatInv
<1>q. QED  BY <1>3, <1>6 DEF EvidenceInv

\* A call is sent by a turn that is under way.
LEMMA SentSilent ==
  ASSUME EvidenceInv, ChatInv, CallInv, NEW t \in Turns, NEW leg \in Legs, NEW mode, NEW prompt,
         SendFor(t, leg, mode, prompt), NEW k, turn' = [turn EXCEPT ![t] = k],
         turn[t].pc # "over", Stage(k, First(t)', Second(t)'), messages' = messages
  PROVE  EvidenceInv'
<1>1. turn'[t] = k /\ \A u \in Turns : u # t => turn'[u] = turn[u]
  BY DEF ChatInv
<1>2. ASSUME NEW u \in Turns, u # t
      PROVE  First(u)' = First(u) /\ Second(u)' = Second(u)
  <2>1. \A d \in Calls : d # <<t, leg>> => call'[d] = call[d]
    BY Sends
  <2>2. <<u, "first">> # <<t, leg>> /\ <<u, "second">> # <<t, leg>>
    BY <1>2
  <2>3. <<u, "first">> \in Calls /\ <<u, "second">> \in Calls
    BY LegIsCall DEF Legs
  <2>q. QED  BY <2>1, <2>2, <2>3 DEF First, Second
<1>3. StageInv'
  <2>1. ASSUME NEW u \in Turns PROVE Stage(turn'[u], First(u)', Second(u)')
    <3>1. CASE u = t
      BY <1>1, <3>1
    <3>2. CASE u # t
      <4>1. Stage(turn[u], First(u), Second(u))
        BY DEF EvidenceInv, StageInv
      <4>q. QED  BY <1>1, <1>2, <3>2, <4>1
    <3>q. QED  BY <3>1, <3>2
  <2>q. QED  BY <2>1 DEF StageInv
<1>4. \A u \in Turns : turn[u].pc = "over" => u # t /\ turn'[u].pc = "over"
  BY <1>1
<1>5. ASSUME NEW u \in Turns, turn[u].pc = "over"
      PROVE  MovesOn(<<u, "first">>) /\ MovesOn(<<u, "second">>)
  BY <1>2, <1>4, <1>5 DEF MovesOn, First, Second
<1>6. \A m : Shows(m) => Shows(m)'
  BY <1>4, <1>5, ShowsOn
<1>7. ShowInv'
  BY <1>6, ShownSame DEF EvidenceInv
<1>q. QED  BY <1>3, <1>7 DEF EvidenceInv

\* Neither the turns nor the calls change, and what is written needs no evidence.
LEMMA Rewritten ==
  ASSUME EvidenceInv, UNCHANGED <<turn, call>>,
         \A r \in Sessions : \A i \in DOMAIN messages'[r] :
           \/ i \in DOMAIN messages[r] /\ messages'[r][i] = messages[r][i]
           \/ messages'[r][i].mode # "rag"
  PROVE  EvidenceInv'
<1>1. StageInv'
  BY DEF EvidenceInv, StageInv, First, Second
<1>2. \A m : Shows(m) <=>
        (m.mode = "rag" /\ m.role = "assistant" =>
           /\ m.turn \in Turns /\ turn[m.turn].pc = "over"
           /\ \/ m.evidence = <<>>
              \/ /\ Settled(First(m.turn), Second(m.turn))
                 /\ m.evidence = IF Second(m.turn).pc = "idle" THEN First(m.turn).prompt
                                 ELSE Second(m.turn).prompt)
  BY DEF Shows
<1>3. ASSUME NEW r \in Sessions, NEW i \in DOMAIN messages'[r], NEW m, m = messages'[r][i] PROVE Shows(m)'
  <2>1. Shows(m)
    BY <1>3 DEF EvidenceInv, ShowInv, Shows
  <2>q. QED  BY <2>1 DEF Shows, First, Second
<1>4. \A r \in Sessions : \A i \in DOMAIN messages'[r] : \E m : m = messages'[r][i] /\ Shows(m)'
  BY <1>3
<1>5. ShowInv'
  BY <1>4 DEF ShowInv, Shows
<1>q. QED  BY <1>1, <1>5 DEF EvidenceInv

LEMMA WorkerShows == ASSUME EvidenceInv, ChatInv, NEW t \in Turns, WorkerAnswers(t) PROVE EvidenceInv'
<1> DEFINE s == turn[t].session
           q == Message(t, "user", "workflow", <<>>)
           a == Message(t, "assistant", "workflow", <<>>)
           asked == IF has_request_turn(t) THEN messages[s] ELSE Append(messages[s], q)
<1>1. messages' = [messages EXCEPT ![s] = Append(asked, a)] /\ UNCHANGED <<turn, call>>
  BY DEF WorkerAnswers, llmVars
<1>2. q.mode # "rag" /\ a.mode # "rag"
  BY DEF Message
<1> HIDE DEF q, a
<1>3. ASSUME NEW r \in Sessions, NEW i \in DOMAIN messages'[r]
      PROVE  \/ i \in DOMAIN messages[r] /\ messages'[r][i] = messages[r][i]
             \/ messages'[r][i].mode # "rag"
  <2>1. CASE r = s
    <3>1. messages'[r] = Append(asked, a) /\ Listed(messages[s])
      BY <1>1, <2>1 DEF ChatInv
    <3>2. /\ Listed(asked)
          /\ \A j \in DOMAIN asked : \/ j \in DOMAIN messages[s] /\ asked[j] = messages[s][j]
                                     \/ asked[j].mode # "rag"
      <4>1. CASE asked = messages[s]
        BY <3>1, <4>1
      <4>2. CASE asked = Append(messages[s], q)
        <5>1. /\ Listed(Append(messages[s], q)) /\ Len(messages[s]) \in Nat
              /\ DOMAIN messages[s] = 1..Len(messages[s])
              /\ DOMAIN Append(messages[s], q) = 1..(Len(messages[s]) + 1)
              /\ \A j \in 1..Len(messages[s]) : Append(messages[s], q)[j] = messages[s][j]
              /\ Append(messages[s], q)[Len(messages[s]) + 1] = q
          BY <3>1, ListedAppend
        <5> HIDE DEF asked
        <5>q. QED  BY <1>2, <4>2, <5>1
      <4>3. asked = messages[s] \/ asked = Append(messages[s], q)
        OBVIOUS
      <4>q. QED  BY <4>1, <4>2, <4>3
    <3> HIDE DEF asked
    <3>3. /\ Len(asked) \in Nat /\ DOMAIN asked = 1..Len(asked)
          /\ DOMAIN Append(asked, a) = 1..(Len(asked) + 1)
          /\ \A j \in 1..Len(asked) : Append(asked, a)[j] = asked[j]
          /\ Append(asked, a)[Len(asked) + 1] = a
      BY <3>2, ListedAppend
    <3>q. QED  BY <1>2, <1>3, <2>1, <3>1, <3>2, <3>3
  <2>2. CASE r # s
    BY <1>1, <1>3, <2>2 DEF ChatInv
  <2>q. QED  BY <2>1, <2>2
<1>q. QED  BY <1>1, <1>3, Rewritten

LEMMA DeleteShows == ASSUME EvidenceInv, ChatInv, NEW s \in Sessions, delete_session(s) PROVE EvidenceInv'
<1>1. messages' = [messages EXCEPT ![s] = <<>>] /\ UNCHANGED <<turn, call>>
  BY DEF delete_session, llmVars
<1>2. ASSUME NEW r \in Sessions, NEW i \in DOMAIN messages'[r]
      PROVE  \/ i \in DOMAIN messages[r] /\ messages'[r][i] = messages[r][i]
             \/ messages'[r][i].mode # "rag"
  BY <1>1, <1>2 DEF ChatInv
<1>q. QED  BY <1>1, <1>2, Rewritten

LEMMA GoesTo ==
  ASSUME ChatInv, NEW t \in Turns, NEW pc, Goes(t, pc)
  PROVE  \E k : turn' = [turn EXCEPT ![t] = k] /\ k.pc = pc
<1> DEFINE k == [turn[t] EXCEPT !.pc = pc]
<1>1. turn' = [turn EXCEPT ![t] = k] /\ k.pc = pc
  BY DEF Goes, ChatInv, TurnShape, TurnFields
<1> HIDE DEF k
<1>q. QED  BY <1>1

LEMMA EndsAt ==
  ASSUME ChatInv, NEW t \in Turns, Done(t) \/ ErrorFrame(t)
  PROVE  \E k : turn' = [turn EXCEPT ![t] = k] /\ k.pc = "over"
<1> DEFINE k(frame) == [turn[t] EXCEPT !.pc = "over", !.frame = frame]
<1>1. PICK frame \in {"done", "error"} : turn' = [turn EXCEPT ![t] = k(frame)]
  BY DEF Done, ErrorFrame, ChatInv
<1>2. k(frame).pc = "over"
  BY DEF ChatInv, TurnShape, TurnFields
<1> HIDE DEF k
<1>q. QED  BY <1>1, <1>2

LEMMA AskShows ==
  ASSUME EvidenceInv, ChatInv, NEW t \in Turns, NEW s \in Sessions, NEW choice, Ask(t, s, choice)
  PROVE  EvidenceInv'
<1>1. turn[t].pc = "idle" /\ messages' = messages /\ call' = call
  BY DEF Ask, llmVars
<1>2. \E k : turn' = [turn EXCEPT ![t] = k] /\ k.pc \in {"refused", "opened"}
  <2>1. CASE turn' = [turn EXCEPT ![t].pc = "refused"]
    <3>1. Goes(t, "refused")
      BY <2>1, Zenon DEF Goes
    <3>2. \E k : turn' = [turn EXCEPT ![t] = k] /\ k.pc = "refused"
      BY <3>1, GoesTo
    <3>q. QED  BY <3>2
  <2>2. CASE \E e \in Resolvable(choice) :
               turn' = [turn EXCEPT ![t] = [@ EXCEPT !.pc = "opened", !.session = s,
                                             !.model = pool[e].model,
                                             !.titled = sessions[s].title # NoTurn]]
    <3>1. PICK e : turn' = [turn EXCEPT ![t] = [@ EXCEPT !.pc = "opened", !.session = s,
                                                 !.model = pool[e].model,
                                                 !.titled = sessions[s].title # NoTurn]]
      BY <2>2
    <3> DEFINE k == [turn[t] EXCEPT !.pc = "opened", !.session = s, !.model = pool[e].model,
                                    !.titled = sessions[s].title # NoTurn]
    <3>2. turn' = [turn EXCEPT ![t] = k]
      BY <3>1, Zenon
    <3>3. k.pc = "opened"
      BY DEF ChatInv, TurnShape, TurnFields
    <3> HIDE DEF k
    <3>q. QED  BY <3>2, <3>3
  <2>q. QED  BY <2>1, <2>2 DEF Ask
<1>3. PICK k : turn' = [turn EXCEPT ![t] = k] /\ k.pc \in {"refused", "opened"}
  BY <1>2
<1>4. Stage(k, First(t), Second(t))
  BY <1>1, <1>3 DEF EvidenceInv, StageInv, Stage, Before
<1>q. QED  BY <1>1, <1>3, <1>4, PassesRest, Silent

\* The turn says something that is no answer from the knowledge base.
LEMMA SaysOther ==
  ASSUME EvidenceInv, ChatInv, call' = call, NEW t \in Turns, NEW k, turn' = [turn EXCEPT ![t] = k],
         turn[t].pc = "over" => k.pc = "over", Stage(k, First(t), Second(t)),
         turn[t].session \in Sessions,
         NEW role, NEW mode, append_session_messages(t, role, mode, <<>>), role = "user" \/ mode # "rag"
  PROVE  EvidenceInv'
<1>1. PICK e : e = Message(t, role, mode, <<>>)
  OBVIOUS
<1>2. e.role = role /\ e.mode = mode
  BY <1>1 DEF Message
<1>3. Shows(e)'
  BY <1>2 DEF Shows
<1>4. PICK s \in Sessions : s = turn[t].session
  OBVIOUS
<1>5. messages' = [messages EXCEPT ![s] = Append(messages[s], e)]
  BY <1>1, <1>4 DEF append_session_messages, ChatInv
<1>q. QED  BY <1>3, <1>5, Said

LEMMA RagReplyShows == ASSUME EvidenceInv, ChatInv, NEW t \in Turns, RagReply(t) PROVE EvidenceInv'
<1>1. /\ turn[t].pc \in {"refusing", "rag_reply"} /\ call' = call
      /\ append_session_messages(t, "assistant", "rag", Evidence(t))
  BY DEF RagReply, llmVars
<1>2. PICK k : turn' = [turn EXCEPT ![t] = k] /\ k.pc = "over"
  BY EndsAt DEF RagReply
<1>3. PICK e : e = Message(t, "assistant", "rag", Evidence(t))
  OBVIOUS
<1>4. e.turn = t /\ e.evidence = Evidence(t)
  BY <1>3 DEF Message
<1>5. Stage(turn[t], First(t), Second(t))
  BY DEF EvidenceInv, StageInv
<1>6. Stage(k, First(t), Second(t))
  BY <1>2, <1>5 DEF Stage, Before
<1>7. \/ e.evidence = <<>>
      \/ /\ Settled(First(t), Second(t))
         /\ e.evidence = IF Second(t).pc = "idle" THEN First(t).prompt ELSE Second(t).prompt
  BY <1>1, <1>4, <1>5 DEF Stage, Evidence, LastLeg, CallOf, First, Second
<1>8. Shows(e)'
  <2>1. turn'[t].pc = "over" /\ First(t)' = First(t) /\ Second(t)' = Second(t)
    BY <1>1, <1>2 DEF ChatInv, First, Second
  <2>2. \/ e.evidence = <<>>
        \/ /\ Settled(First(t)', Second(t)')
           /\ e.evidence = IF Second(t)'.pc = "idle" THEN First(t)'.prompt ELSE Second(t)'.prompt
    BY <1>7, <2>1
  <2>q. QED  BY <1>4, <2>1, <2>2 DEF Shows
<1>9. PICK s \in Sessions : s = turn[t].session
  BY <1>1, TurnFacts DEF InOrder
<1>10. messages' = [messages EXCEPT ![s] = Append(messages[s], e)]
  BY <1>1, <1>3, <1>9 DEF append_session_messages, ChatInv
<1>q. QED  BY <1>1, <1>2, <1>6, <1>8, <1>10, Said

\* The turn goes on to its next point, or ends, without a word.
LEMMA GoesShows ==
  ASSUME EvidenceInv, ChatInv, PassesMoveOn, NEW t \in Turns, NEW k, turn' = [turn EXCEPT ![t] = k],
         messages' = messages, turn[t].pc # "over",
         \/ turn[t].pc \in Before /\ k.pc \in Before
         \/ k.pc \in {"sent", "listed", "refusing", "over", "gone"}
         \/ k.pc = "rag_reply" /\ Settled(First(t), Second(t))
  PROVE  EvidenceInv'
<1>1. Stage(turn[t], First(t), Second(t))
  BY DEF EvidenceInv, StageInv
<1>2. Stage(k, First(t), Second(t))
  BY <1>1 DEF Stage, Before
<1>q. QED  BY <1>2, Silent

\* The turn sends its first or its second pass.
LEMMA SendShows ==
  ASSUME EvidenceInv, ChatInv, CallInv, NEW t \in Turns, NEW leg \in Legs, NEW mode, NEW prompt,
         SendFor(t, leg, mode, prompt), NEW k, turn' = [turn EXCEPT ![t] = k], messages' = messages,
         \/ leg = "route" /\ turn[t].pc = "titled" /\ k.pc = "routing"
         \/ /\ leg = "first" /\ mode = "complete" /\ turn[t].pc = "asked" /\ k.pc = "first"
            /\ Within(prompt) /\ Plain(prompt) /\ k.hits \in Retrievals
         \/ leg = "first" /\ mode = "stream" /\ turn[t].pc = "asked" /\ k.pc = "streaming"
         \/ /\ leg = "second" /\ mode = "complete" /\ turn[t].pc = "first" /\ k.pc = "second"
            /\ Within(prompt) /\ First(t).pc = "returned" /\ First(t).answer.kind = "refusal"
  PROVE  EvidenceInv'
<1>1. Stage(turn[t], First(t), Second(t))
  BY DEF EvidenceInv, StageInv
<1>2. <<t, "first">> \in Calls /\ <<t, "second">> \in Calls
  BY LegIsCall DEF Legs
<1>3. /\ leg # "first" => First(t)' = First(t)
      /\ leg = "first" => /\ First(t)'.pc \in {"waiting", "raised"} /\ First(t)'.mode = mode
                          /\ First(t)'.prompt \in {prompt, <<>>}
      /\ leg # "second" => Second(t)' = Second(t)
      /\ leg = "second" => /\ Second(t)'.pc \in {"waiting", "raised"} /\ Second(t)'.mode = mode
                           /\ Second(t)'.prompt \in {prompt, <<>>}
  <2> DEFINE c == <<t, leg>>
  <2>1. /\ \A d \in Calls : d # c => call'[d] = call[d]
        /\ call'[c].pc \in {"waiting", "raised"} /\ call'[c].mode = mode
        /\ call'[c].prompt \in {prompt, <<>>}
    BY Sends
  <2>2. /\ leg = "first" => c = <<t, "first">>
        /\ leg # "first" => c # <<t, "first">>
        /\ leg = "second" => c = <<t, "second">>
        /\ leg # "second" => c # <<t, "second">>
    OBVIOUS
  <2> HIDE DEF c
  <2>q. QED  BY <1>2, <2>1, <2>2 DEF First, Second
<1>4. Within(<<>>) /\ Plain(<<>>)
  BY SizeEmpty, ContextAssumption DEF Within, Plain, Supplementary
<1>5. Stage(k, First(t)', Second(t)')
  BY <1>1, <1>3, <1>4 DEF Stage, Before, Answering
<1>q. QED  BY <1>5, SentSilent

LEMMA HandleShows ==
  ASSUME EvidenceInv, ChatInv, CallInv, NEW t \in Turns, Handle(t)
  PROVE  EvidenceInv'
<1>0. Stage(turn[t], First(t), Second(t))
  BY DEF EvidenceInv, StageInv
<1>1. CASE SetTitle(t) \/ SendTask(t) \/ CreateSubmission(t)
  <2>1. call' = call /\ messages' = messages
    BY <1>1 DEF SetTitle, SendTask, CreateSubmission, llmVars
  <2>2. \/ turn[t].pc = "opened" /\ Goes(t, "titled")
        \/ turn[t].pc = "asked" /\ Goes(t, "sent")
        \/ turn[t].pc = "sent" /\ Goes(t, "listed")
    BY <1>1 DEF SetTitle, SendTask, CreateSubmission
  <2>3. PICK k : /\ turn' = [turn EXCEPT ![t] = k]
                 /\ \/ k.pc \in {"sent", "listed"}
                    \/ turn[t].pc = "opened" /\ k.pc = "titled"
    BY <2>2, GoesTo
  <2>4. turn[t].pc # "over"
    BY <2>2
  <2>q. QED  BY <2>1, <2>3, <2>4, PassesRest, GoesShows DEF Before
<1>2. CASE Route(t)
  <2>1. /\ turn[t].pc = "titled" /\ messages' = messages
        /\ \/ call' = call /\ turn' = [turn EXCEPT ![t].pc = "decided", ![t].mode = "chat"]
           \/ SendFor(t, "route", "complete", <<>>) /\ Goes(t, "routing")
    BY <1>2 DEF Route, llmVars
  <2>2. CASE call' = call /\ turn' = [turn EXCEPT ![t].pc = "decided", ![t].mode = "chat"]
    <3> DEFINE k == [turn[t] EXCEPT !.pc = "decided", !.mode = "chat"]
    <3>0. turn' = [turn EXCEPT ![t] = k]
      BY <2>2 DEF ChatInv
    <3>1. k.pc = "decided"
      BY DEF ChatInv, TurnShape, TurnFields
    <3> HIDE DEF k
    <3>q. QED  BY <2>1, <2>2, <3>0, <3>1, PassesRest, GoesShows DEF Before
  <2>3. CASE SendFor(t, "route", "complete", <<>>) /\ Goes(t, "routing")
    <3>1. PICK k : turn' = [turn EXCEPT ![t] = k] /\ k.pc = "routing"
      BY <2>3, GoesTo
    <3>q. QED  BY <2>1, <2>3, <3>1, SendShows DEF Legs
  <2>q. QED  BY <2>1, <2>2, <2>3
<1>3. CASE Decided(t)
  <2> DEFINE c == <<t, "route">>
             answer == CallOf(t, "route").answer
             mode == Decision(answer)
             r == [call[c] EXCEPT !.answer = NoAnswer]
  <2>1. turn[t].pc = "routing" /\ messages' = messages
    BY <1>3 DEF Decided
  <2>2. PassesMoveOn
    <3>1. call' = [call EXCEPT ![<<t, "route">>] = r]
      BY <1>3, LegIsCall DEF Decided, CallInv
    <3> HIDE DEF r
    <3>q. QED  BY <3>1, PassMoves DEF Legs
  <2>3. PICK agent : turn' = [turn EXCEPT ![t].pc = "decided", ![t].mode = mode, ![t].agent = agent]
    BY <1>3 DEF Decided
  <2> DEFINE k == [turn[t] EXCEPT !.pc = "decided", !.mode = mode, !.agent = agent]
  <2> HIDE DEF mode
  <2>4. turn' = [turn EXCEPT ![t] = k]
    BY <2>3 DEF ChatInv
  <2>5. k.pc = "decided"
    BY DEF ChatInv, TurnShape, TurnFields
  <2> HIDE DEF k
  <2>q. QED  BY <2>1, <2>2, <2>4, <2>5, GoesShows DEF Before
<1>4. CASE RecordQuestion(t)
  <2>1. /\ turn[t].pc = "decided" /\ call' = call /\ Goes(t, "asked")
        /\ append_session_messages(t, "user", turn[t].mode, <<>>)
    BY <1>4 DEF RecordQuestion, llmVars
  <2>2. PICK k : turn' = [turn EXCEPT ![t] = k] /\ k.pc = "asked"
    BY <2>1, GoesTo
  <2>3. turn[t].session \in Sessions
    BY <2>1, TurnFacts DEF InOrder
  <2>4. Stage(k, First(t), Second(t))
    BY <1>0, <2>1, <2>2 DEF Stage, Before
  <2>q. QED  BY <2>1, <2>2, <2>3, <2>4, SaysOther
<1>5. CASE HandOver(t) \/ StreamReply(t)
  <2>1. /\ turn[t].pc \in {"listed", "streaming"} /\ call' = call
        /\ \E mode \in {"task", "chat"} : append_session_messages(t, "assistant", mode, <<>>)
    BY <1>5 DEF HandOver, StreamReply, llmVars
  <2>2. PICK k : turn' = [turn EXCEPT ![t] = k] /\ k.pc = "over"
    BY <1>5, EndsAt DEF HandOver, StreamReply
  <2>3. turn[t].session \in Sessions
    BY <2>1, TurnFacts DEF InOrder
  <2>4. Stage(k, First(t), Second(t))
    BY <1>0, <2>2 DEF Stage, Before
  <2>q. QED  BY <2>1, <2>2, <2>3, <2>4, SaysOther
<1>6. CASE Retrieve(t)
  <2>1. turn[t].pc = "asked" /\ messages' = messages
    BY <1>6 DEF Retrieve
  <2>2. PICK hits \in Retrievals :
          \/ call' = call /\ Goes(t, "refusing")
          \/ /\ SendFor(t, "first", "complete", build_prompt(hits, FALSE))
             /\ turn' = [turn EXCEPT ![t].pc = "first", ![t].hits = hits]
    BY <1>6 DEF Retrieve, llmVars, Goes
  <2>3. CASE call' = call /\ Goes(t, "refusing")
    <3>1. PICK k : turn' = [turn EXCEPT ![t] = k] /\ k.pc = "refusing"
      BY <2>3, GoesTo
    <3>q. QED  BY <2>1, <2>3, <3>1, PassesRest, GoesShows
  <2>4. CASE /\ SendFor(t, "first", "complete", build_prompt(hits, FALSE))
             /\ turn' = [turn EXCEPT ![t].pc = "first", ![t].hits = hits]
    <3> DEFINE k == [turn[t] EXCEPT !.pc = "first", !.hits = hits]
    <3>0. turn' = [turn EXCEPT ![t] = k]
      BY <2>4 DEF ChatInv
    <3>1. k.pc = "first" /\ k.hits = hits
      BY DEF ChatInv, TurnShape, TurnFields
    <3>2. Within(build_prompt(hits, FALSE)) /\ Plain(build_prompt(hits, FALSE))
      BY PromptFits
    <3> HIDE DEF k
    <3>q. QED  BY <2>1, <2>4, <3>0, <3>1, <3>2, SendShows DEF Legs
  <2>q. QED  BY <2>2, <2>3, <2>4
<1>7. CASE FirstAnswer(t)
  <2> DEFINE kind == First(t).answer.kind
  <2>1. /\ turn[t].pc = "first" /\ First(t).pc = "returned" /\ messages' = messages
        /\ \/ call' = call /\ ErrorFrame(t)
           \/ /\ SendFor(t, "second", "complete", build_prompt(turn[t].hits, TRUE)) /\ Goes(t, "second")
              /\ kind = "refusal"
           \/ call' = call /\ kind \notin Unusable /\ Goes(t, "rag_reply")
    BY <1>7 DEF FirstAnswer, AskAgain, llmVars, CallOf, First
  <2>2. CASE call' = call /\ ErrorFrame(t)
    <3>1. PICK k : turn' = [turn EXCEPT ![t] = k] /\ k.pc = "over"
      BY <2>2, EndsAt
    <3>q. QED  BY <2>1, <2>2, <3>1, PassesRest, GoesShows
  <2>3. CASE /\ SendFor(t, "second", "complete", build_prompt(turn[t].hits, TRUE)) /\ Goes(t, "second")
             /\ kind = "refusal"
    <3>1. PICK k : turn' = [turn EXCEPT ![t] = k] /\ k.pc = "second"
      BY <2>3, GoesTo
    <3>2. Within(build_prompt(turn[t].hits, TRUE))
      BY <1>0, <2>1, PromptFits DEF Stage
    <3>q. QED  BY <2>1, <2>3, <3>1, <3>2, SendShows DEF Legs
  <2>4. CASE call' = call /\ kind \notin Unusable /\ Goes(t, "rag_reply")
    <3>1. PICK k : turn' = [turn EXCEPT ![t] = k] /\ k.pc = "rag_reply"
      BY <2>4, GoesTo
    <3>2. Settled(First(t), Second(t))
      BY <1>0, <2>1, <2>4 DEF Stage, Settled, Answering, AnswerKinds, Unusable, Given
    <3>q. QED  BY <2>1, <2>4, <3>1, <3>2, PassesRest, GoesShows
  <2>q. QED  BY <2>1, <2>2, <2>3, <2>4
<1>8. CASE SecondAnswer(t)
  <2> DEFINE kind == Second(t).answer.kind
  <2>1. /\ turn[t].pc = "second" /\ Second(t).pc = "returned" /\ messages' = messages /\ call' = call
        /\ ErrorFrame(t) \/ (kind \notin Unusable /\ Goes(t, "rag_reply"))
    BY <1>8 DEF SecondAnswer, llmVars, CallOf, Second
  <2>2. Settled(First(t), Second(t)) \/ kind \in Unusable
    BY <1>0, <2>1 DEF Stage, Settled, Answering, AnswerKinds, Unusable, Given
  <2>3. PICK k : turn' = [turn EXCEPT ![t] = k] /\ (k.pc = "over" \/ (k.pc = "rag_reply" /\ kind \notin Unusable))
    BY <2>1, EndsAt, GoesTo
  <2>q. QED  BY <2>1, <2>2, <2>3, PassesRest, GoesShows
<1>9. CASE StartStream(t)
  <2>1. /\ turn[t].pc = "asked" /\ Goes(t, "streaming") /\ messages' = messages
        /\ SendFor(t, "first", "stream", list_session_messages(turn[t].session))
    BY <1>9 DEF StartStream
  <2>2. PICK k : turn' = [turn EXCEPT ![t] = k] /\ k.pc = "streaming"
    BY <2>1, GoesTo
  <2>q. QED  BY <2>1, <2>2, SendShows DEF Legs
<1>10. CASE CallRaised(t)
  <2>1. turn[t].pc # "over" /\ call' = call /\ messages' = messages /\ ErrorFrame(t)
    BY <1>10 DEF CallRaised, Awaiting, llmVars
  <2>2. PICK k : turn' = [turn EXCEPT ![t] = k] /\ k.pc = "over"
    BY <2>1, EndsAt
  <2>q. QED  BY <2>1, <2>2, PassesRest, GoesShows
<1>q. QED
  BY <1>1, <1>2, <1>3, <1>4, <1>5, <1>6, <1>7, <1>8, <1>9, <1>10, RagReplyShows DEF Handle

LEMMA ChatShows == ASSUME EvidenceInv, ChatInv, CallInv, ChatNext PROVE EvidenceInv'
<1>1. ASSUME NEW t \in Turns, ProviderStep(t) PROVE EvidenceInv'
  <2>1. PICK leg \in Legs : Delivers(<<t, leg>>, Answers(t, leg)) \/ Fails(<<t, leg>>)
    BY <1>1 DEF ProviderStep, Legs
  <2>2. turn' = turn /\ messages' = messages
    BY <1>1 DEF ProviderStep
  <2>3. PICK k : k = turn[t]
    OBVIOUS
  <2>4. turn' = [turn EXCEPT ![t] = k]
    BY <2>2, <2>3 DEF ChatInv
  <2>5. Stage(k, First(t), Second(t))
    BY <2>3 DEF EvidenceInv, StageInv
  <2>q. QED  BY <2>1, <2>2, <2>3, <2>4, <2>5, ProviderMoves, Silent
<1>2. ASSUME NEW t \in Turns, Fault(t) PROVE EvidenceInv'
  <2>1. turn[t].pc # "over" /\ call' = call /\ messages' = messages /\ ErrorFrame(t)
    BY <1>2 DEF Fault, llmVars
  <2>2. PICK k : turn' = [turn EXCEPT ![t] = k] /\ k.pc = "over"
    BY <2>1, EndsAt
  <2>q. QED  BY <2>1, <2>2, PassesRest, GoesShows
<1>3. ASSUME NEW t \in Turns, Leave(t) PROVE EvidenceInv'
  <2>1. /\ turn[t].pc # "over" /\ Goes(t, "gone") /\ messages' = messages
        /\ Cancel({<<t, leg>> : leg \in {"route", "first", "second"}})
    BY <1>3 DEF Leave, Running
  <2>2. PICK k : turn' = [turn EXCEPT ![t] = k] /\ k.pc = "gone"
    BY <2>1, GoesTo
  <2>q. QED  BY <2>1, <2>2, CancelMoves, GoesShows
<1>q. QED  BY <1>1, <1>2, <1>3, AskShows, HandleShows, WorkerShows, DeleteShows DEF ChatNext

LEMMA InvGiven == ASSUME EvidenceInv PROVE EvidenceGiven
<1>1. ASSUME NEW s \in Sessions, NEW i \in DOMAIN messages[s],
             messages[s][i].mode = "rag", messages[s][i].role = "assistant", messages[s][i].evidence # <<>>
      PROVE  LET m == messages[s][i]
                 last == IF CallOf(m.turn, "second").pc = "returned" THEN "second" ELSE "first"
             IN  m.evidence = CallOf(m.turn, last).prompt /\ CallOf(m.turn, last).answer.kind \in {"text", "refusal"}
  <2>1. Shows(messages[s][i])
    BY DEF EvidenceInv, ShowInv
  <2>q. QED  BY <1>1, <2>1 DEF Shows, Settled, First, Second, CallOf, Given
<1>q. QED  BY <1>1 DEF EvidenceGiven

LEMMA EvidenceInvariance == Spec => []EvidenceInv
<1>1. Init => EvidenceInv
  <2> SUFFICES ASSUME Init PROVE EvidenceInv
    OBVIOUS
  <2>1. ASSUME NEW t \in Turns PROVE Stage(turn[t], First(t), Second(t))
    <3>1. /\ turn[t].pc = "idle" /\ First(t).pc = "idle" /\ Second(t).pc = "idle"
          /\ First(t).mode = "none"
      BY LegIsCall DEF Init, LLMInit, NewTurn, NoCall, First, Second, Legs
    <3>q. QED  BY <3>1 DEF Stage, Answering
  <2>2. \A s \in Sessions : DOMAIN messages[s] = {}
    BY DEF Init
  <2>q. QED  BY <2>1, <2>2 DEF EvidenceInv, StageInv, ShowInv
<1>2. EvidenceInv /\ ChatInv /\ CallInv /\ [Next]_vars => EvidenceInv'
  <2> SUFFICES ASSUME EvidenceInv, ChatInv, CallInv, [Next]_vars PROVE EvidenceInv'
    OBVIOUS
  <2>1. CASE UNCHANGED <<turn, call, messages>>
    <3>1. \A r \in Sessions : \A i \in DOMAIN messages'[r] :
            i \in DOMAIN messages[r] /\ messages'[r][i] = messages[r][i]
      BY <2>1
    <3>q. QED  BY <2>1, <3>1, Rewritten
  <2>q. QED  BY <2>1, ChatShows DEF Next, AdminStep, vars, chatVars, llmVars
<1>3. Spec => []CallInv
  BY CallInvStarts, CallInvStays, PTL DEF Spec
<1>q. QED  BY <1>1, <1>2, <1>3, ChatInvariance, PTL DEF Spec

(* The evidence on record with an answer from the knowledge base is what the *)
(* model that wrote that answer was given, word for word, and that model did *)
(* answer: an answer of the second pass never carries the evidence of the    *)
(* first (chat_service.py:371-434, rag.py:320-440).                          *)
THEOREM EvidenceFromPrompt == Spec => []EvidenceGiven
<1>1. EvidenceInv => EvidenceGiven
  BY InvGiven
<1>q. QED  BY <1>1, EvidenceInvariance, PTL

LEMMA InvFits == ASSUME EvidenceInv PROVE EvidenceFits
<1>1. ASSUME NEW s \in Sessions, NEW i \in DOMAIN messages[s],
             messages[s][i].mode = "rag", messages[s][i].role = "assistant", messages[s][i].evidence # <<>>
      PROVE  LET m == messages[s][i]
             IN  /\ Len(m.evidence) = 1 \/ SizeOf(m.evidence) <= MaxContext
                 /\ Supplementary(m.evidence) # {} => CallOf(m.turn, "first").answer.kind = "refusal"
  <2> DEFINE m == messages[s][i]
             f == First(m.turn)
             l == Second(m.turn)
  <2>1. /\ m.turn \in Turns /\ Settled(f, l)
        /\ m.evidence = IF l.pc = "idle" THEN f.prompt ELSE l.prompt
    BY <1>1 DEF EvidenceInv, ShowInv, Shows
  <2>2. Stage(turn[m.turn], f, l)
    BY <2>1 DEF EvidenceInv, StageInv
  <2> HIDE DEF m, f, l
  <2>3. Within(m.evidence) /\ (Plain(m.evidence) \/ f.answer.kind = "refusal")
    BY <2>1, <2>2 DEF Stage, Settled
  <2>q. QED  BY <2>3 DEF Within, Plain, m, f, First, CallOf
<1>q. QED  BY <1>1 DEF EvidenceFits

(* Whatever is retrieved, the evidence on record with an answer fits the     *)
(* limit or is a single hit, and holds hits the quota had rejected only      *)
(* after the model refused to answer without them (rag.py:178-241, 418-440). *)
THEOREM EvidenceWithinLimit == Spec => []EvidenceFits
<1>1. EvidenceInv => EvidenceFits
  BY InvFits
<1>q. QED  BY <1>1, EvidenceInvariance, PTL

-----------------------------------------------------------------------------
(* A reply is written from a history that holds its question.              *)

AsksIn(p, t) == \E i \in DOMAIN p : p[i].turn = t /\ Asked(p[i])

SeenInv ==
  \A t \in Turns :
    /\ First(t).pc = "idle" => First(t).mode = "none"
    /\ First(t).mode = "stream" /\ First(t).pc # "raised" /\ There(turn[t].session) => AsksIn(First(t).prompt, t)

\* A question is answered before HistoryLimit messages have come after it.
Timely ==
  \A t \in Turns : turn[t].pc = "asked" /\ turn[t].mode = "chat" /\ There(turn[t].session) =>
    \A q \in Questions(t) : Len(messages[turn[t].session]) - q < HistoryLimit

\* The newest messages hold those that fewer than HistoryLimit came after.
LEMMA NewestHolds ==
  ASSUME NEW s \in Sessions, Listed(messages[s]), NEW q \in DOMAIN messages[s],
         Len(messages[s]) - q < HistoryLimit
  PROVE  \E i \in DOMAIN list_session_messages(s) : list_session_messages(s)[i] = messages[s][q]
<1> DEFINE all == messages[s]
           n == Len(all)
           from == IF n > HistoryLimit THEN n - HistoryLimit + 1 ELSE 1
           i == q - from + 1
<1>1. PICK X : all \in Seq(X)
  BY DEF Listed
<1>2. n \in Nat /\ q \in 1..n /\ HistoryLimit \in Nat \ {0} /\ n - q < HistoryLimit
  BY <1>1, ChatAssumption
<1>3. list_session_messages(s) = SubSeq(all, from, n)
  BY DEF list_session_messages
<1> HIDE DEF all, n
<1>4. from \in 1..q /\ from \in Nat /\ i \in 1..(n - from + 1) /\ from + i - 1 = q
  BY <1>2
<1> HIDE DEF from, i
<1>5. n = Len(all)
  BY DEF n
<1>6. DOMAIN SubSeq(all, from, n) = 1..(n - from + 1) /\ SubSeq(all, from, n)[i] = all[q]
  BY <1>1, <1>2, <1>4, <1>5
<1>q. QED  BY <1>3, <1>4, <1>6 DEF all

\* What a step may do with the first pass of a turn, but for the start of a stream.
FirstMoves(u) ==
  \/ MovesOn(<<u, "first">>)
  \/ call'[<<u, "first">>].mode = "complete" /\ call'[<<u, "first">>].pc # "idle"

LEMMA SentMoves ==
  ASSUME CallInv, NEW t \in Turns, NEW leg \in Legs, NEW prompt, SendFor(t, leg, "complete", prompt)
  PROVE  \A u \in Turns : FirstMoves(u)
<1> SUFFICES ASSUME NEW u \in Turns PROVE FirstMoves(u)
  OBVIOUS
<1> DEFINE c == <<t, leg>>
           d == <<u, "first">>
<1>1. /\ \A e \in Calls : e # c => call'[e] = call[e]
      /\ call'[c].pc \in {"waiting", "raised"} /\ call'[c].mode = "complete"
  BY Sends
<1>2. d \in Calls
  BY LegIsCall DEF Legs
<1> HIDE DEF c, d
<1>3. (call'[d].mode = "complete" /\ call'[d].pc # "idle") \/ call'[d] = call[d]
  BY <1>1, <1>2
<1>q. QED  BY <1>3 DEF FirstMoves, MovesOn, d

LEMMA HandleMoves ==
  ASSUME ChatInv, CallInv, NEW t \in Turns, Handle(t), ~StartStream(t)
  PROVE  \A u \in Turns : FirstMoves(u)
<1>1. CASE call' = call
  BY <1>1 DEF FirstMoves, MovesOn
<1>2. CASE Route(t) \/ Retrieve(t) \/ FirstAnswer(t)
  <2>1. call' = call \/ \E leg \in Legs : \E prompt : SendFor(t, leg, "complete", prompt)
    BY <1>2 DEF Route, Retrieve, FirstAnswer, llmVars, Legs
  <2>q. QED  BY <1>1, <2>1, SentMoves
<1>3. CASE Decided(t)
  <2> DEFINE r == [call[<<t, "route">>] EXCEPT !.answer = NoAnswer]
  <2>1. call' = [call EXCEPT ![<<t, "route">>] = r]
    BY <1>3, LegIsCall DEF Decided, CallInv
  <2> HIDE DEF r
  <2>2. PassesMoveOn
    BY <2>1, PassMoves DEF Legs
  <2>q. QED  BY <2>2 DEF PassesMoveOn, FirstMoves
<1>q. QED
  BY <1>1, <1>2, <1>3
  DEF Handle, SetTitle, RecordQuestion, SendTask, CreateSubmission, HandOver, SecondAnswer, RagReply,
      StreamReply, CallRaised, llmVars

\* No turn of a session that is there lost it, nor does a session come back.
SessionsKept ==
  /\ \A u \in Turns : turn[u].pc # "idle" => turn'[u].session = turn[u].session
  /\ \A s \in Sessions : sessions[s].state # "unborn" /\ There(s)' => There(s)

LEMMA HandleKeeps ==
  ASSUME ChatInv, NEW t \in Turns, Handle(t)
  PROVE  \A u \in Turns : TurnKept(u)
<1>1. CASE SetTitle(t) \/ RecordQuestion(t) \/ SendTask(t) \/ CreateSubmission(t) \/ StartStream(t)
  <2>1. \E pc \in {"titled", "asked", "sent", "listed", "streaming"} : Goes(t, pc)
    BY <1>1 DEF SetTitle, RecordQuestion, SendTask, CreateSubmission, StartStream
  <2>q. QED  BY <2>1, GoesKeeps
<1>2. CASE HandOver(t) \/ RagReply(t) \/ StreamReply(t) \/ CallRaised(t)
  <2>1. Done(t) \/ ErrorFrame(t)
    BY <1>2 DEF HandOver, RagReply, StreamReply, CallRaised
  <2>q. QED  BY <2>1, EndKeeps
<1>3. CASE SecondAnswer(t) \/ FirstAnswer(t)
  <2>1. ErrorFrame(t) \/ \E pc \in {"rag_reply", "second"} : Goes(t, pc)
    BY <1>3 DEF SecondAnswer, FirstAnswer
  <2>q. QED  BY <2>1, EndKeeps, GoesKeeps
<1>4. CASE Retrieve(t)
  <2>1. PICK hits \in Retrievals :
          Goes(t, "refusing") \/ turn' = [turn EXCEPT ![t].pc = "first", ![t].hits = hits]
    BY <1>4 DEF Retrieve, Goes
  <2> DEFINE k == [turn[t] EXCEPT !.pc = "first", !.hits = hits]
  <2>2. turn' = [turn EXCEPT ![t].pc = "first", ![t].hits = hits] => turn' = [turn EXCEPT ![t] = k]
    BY DEF ChatInv
  <2>3. k.model = turn[t].model /\ k.session = turn[t].session /\ k.pc = "first"
    BY DEF ChatInv, TurnShape, TurnFields
  <2> HIDE DEF k
  <2>q. QED  BY <2>1, <2>2, <2>3, GoesKeeps, TurnKeeps
<1>5. CASE Route(t)
  <2>1. Goes(t, "routing") \/ turn' = [turn EXCEPT ![t].pc = "decided", ![t].mode = "chat"]
    BY <1>5 DEF Route
  <2> DEFINE k == [turn[t] EXCEPT !.pc = "decided", !.mode = "chat"]
  <2>2. turn' = [turn EXCEPT ![t].pc = "decided", ![t].mode = "chat"] => turn' = [turn EXCEPT ![t] = k]
    BY DEF ChatInv
  <2>3. k.model = turn[t].model /\ k.session = turn[t].session /\ k.pc = "decided"
    BY DEF ChatInv, TurnShape, TurnFields
  <2> HIDE DEF k
  <2>q. QED  BY <2>1, <2>2, <2>3, GoesKeeps, TurnKeeps
<1>6. CASE Decided(t)
  <2>1. PICK mode, agent : turn' = [turn EXCEPT ![t].pc = "decided", ![t].mode = mode, ![t].agent = agent]
    BY <1>6 DEF Decided
  <2> DEFINE k == [turn[t] EXCEPT !.pc = "decided", !.mode = mode, !.agent = agent]
  <2>2. turn' = [turn EXCEPT ![t] = k]
    BY <2>1 DEF ChatInv
  <2>3. k.model = turn[t].model /\ k.session = turn[t].session /\ k.pc = "decided"
    BY DEF ChatInv, TurnShape, TurnFields
  <2> HIDE DEF k
  <2>q. QED  BY <2>2, <2>3, TurnKeeps
<1>q. QED  BY <1>1, <1>2, <1>3, <1>4, <1>5, <1>6 DEF Handle

LEMMA ChatKeeps == ASSUME ChatInv, ChatNext PROVE SessionsKept
<1>1. \A u \in Turns : turn[u].pc # "idle" => turn'[u].session = turn[u].session
  <2>1. CASE turn' = turn
    BY <2>1
  <2>2. ASSUME NEW t \in Turns, Fault(t) \/ Leave(t) PROVE \A u \in Turns : TurnKept(u)
    <3>1. ErrorFrame(t) \/ Goes(t, "gone")
      BY <2>2 DEF Fault, Leave
    <3>q. QED  BY <3>1, EndKeeps, GoesKeeps
  <2>3. ASSUME NEW t \in Turns, NEW s \in Sessions, NEW choice, Ask(t, s, choice)
        PROVE  \A u \in Turns : turn[u].pc # "idle" => turn'[u] = turn[u]
    BY <2>3 DEF Ask, ChatInv
  <2>q. QED
    BY <2>1, <2>2, <2>3, HandleKeeps DEF TurnKept, ChatNext, WorkerAnswers, ProviderStep, delete_session
<1>2. \A s \in Sessions : sessions[s].state # "unborn" /\ There(s)' => There(s)
  <2>1. CASE sessions' = sessions
    BY <2>1 DEF There
  <2>2. ASSUME NEW t \in Turns, SetTitle(t)
        PROVE  \A s \in Sessions : sessions'[s].state = sessions[s].state
    <3>1. PICK s : \/ sessions' = sessions
                   \/ sessions' = [sessions EXCEPT ![s].title = t]
      BY <2>2 DEF SetTitle
    <3> SUFFICES ASSUME NEW r \in Sessions PROVE sessions'[r].state = sessions[r].state
      OBVIOUS
    <3> DEFINE k == [sessions[s] EXCEPT !.title = t]
    <3>2. \/ sessions' = sessions
          \/ sessions' = [sessions EXCEPT ![s] = k]
      BY <3>1
    <3>3. r = s => k.state = sessions[r].state
      BY DEF ChatInv
    <3> HIDE DEF k
    <3>q. QED  BY <3>2, <3>3 DEF ChatInv
  <2>3. ASSUME NEW t \in Turns, NEW r \in Sessions, NEW choice, Ask(t, r, choice)
        PROVE  \A s \in Sessions : sessions[s].state # "unborn" => sessions'[s] = sessions[s]
    BY <2>3 DEF Ask, ChatInv
  <2>4. ASSUME NEW r \in Sessions, delete_session(r)
        PROVE  \A s \in Sessions : sessions'[s].state \in {"gone", sessions[s].state}
    BY <2>4 DEF delete_session, ChatInv
  <2>q. QED
    BY <2>1, <2>2, <2>3, <2>4
    DEF There, ChatNext, Handle, Route, Decided, RecordQuestion, SendTask, CreateSubmission, HandOver,
        Retrieve, FirstAnswer, SecondAnswer, RagReply, StartStream, StreamReply, CallRaised,
        WorkerAnswers, ProviderStep, Fault, Leave
<1>q. QED  BY <1>1, <1>2 DEF SessionsKept

LEMMA ChatMoves ==
  ASSUME ChatInv, CallInv, ChatNext, \A t \in Turns : ~StartStream(t)
  PROVE  \A u \in Turns : FirstMoves(u)
<1>1. CASE call' = call
  BY <1>1 DEF FirstMoves, MovesOn
<1>2. ASSUME NEW t \in Turns, ProviderStep(t) PROVE PassesMoveOn
  <2>1. PICK leg \in Legs : Delivers(<<t, leg>>, Answers(t, leg)) \/ Fails(<<t, leg>>)
    BY <1>2 DEF ProviderStep, Legs
  <2>q. QED  BY <2>1, ProviderMoves
<1>3. ASSUME NEW t \in Turns, Leave(t) PROVE PassesMoveOn
  BY <1>3, CancelMoves DEF Leave
<1>q. QED
  BY <1>1, <1>2, <1>3, HandleMoves
  DEF PassesMoveOn, FirstMoves, ChatNext, Ask, WorkerAnswers, Fault, delete_session, llmVars

\* A turn whose stream is under way goes on having its question.
LEMMA StaysSeen ==
  ASSUME SeenInv, ChatInv, EvidenceInv, SessionsKept, NEW u \in Turns, FirstMoves(u)
  PROVE  /\ First(u)'.pc = "idle" => First(u)'.mode = "none"
         /\ First(u)'.mode = "stream" /\ First(u)'.pc # "raised" /\ There(turn[u].session)' =>
              AsksIn(First(u)'.prompt, u)
<1> DEFINE f == First(u)
           g == call'[<<u, "first">>]
           s == turn[u].session
<1>0. g = First(u)'
  BY DEF First
<1>1. \/ g.mode = "complete" /\ g.pc # "idle"
      \/ /\ g.mode = f.mode /\ g.prompt = f.prompt /\ (g.pc = "idle" <=> f.pc = "idle")
         /\ f.pc = "raised" => g = f
  BY DEF FirstMoves, MovesOn, First
<1>2. f.pc = "idle" => f.mode = "none"
  BY DEF SeenInv
<1>3. f.pc # "idle" => turn[u].pc \notin Before
  BY DEF EvidenceInv, StageInv, Stage
<1>4. f.pc # "idle" => /\ turn'[u].session = s /\ s \in Sessions
                       /\ sessions[s].state # "unborn"
  <2>1. InOrder(u, turn[u], sessions[s], messages[s], queue, ledger)
    BY TurnFacts
  <2>q. QED  BY <1>3, <2>1 DEF InOrder, SessionsKept, Before
<1>5. f.pc # "idle" /\ There(turn[u].session)' => There(s)
  <2>1. There(turn[u].session)' <=> sessions'[turn'[u].session].state = "there"
    BY DEF There
  <2>2. f.pc # "idle" /\ sessions'[s].state = "there" => There(s)
    BY <1>4 DEF SessionsKept, There
  <2>q. QED  BY <1>4, <2>1, <2>2
<1>6. f.mode = "stream" /\ f.pc # "raised" /\ There(s) => AsksIn(f.prompt, u)
  BY DEF SeenInv
<1> HIDE DEF f, g, s
<1>7. /\ g.pc = "idle" => g.mode = "none"
      /\ g.mode = "stream" /\ g.pc # "raised" /\ There(turn[u].session)' => AsksIn(g.prompt, u)
  BY <1>1, <1>2, <1>5, <1>6
<1>q. QED  BY <1>0, <1>7

\* The start of a stream.
LEMMA StreamSees ==
  ASSUME SeenInv, ChatInv, CallInv, EvidenceInv, SessionsKept, Timely, NEW t \in Turns, StartStream(t)
  PROVE  SeenInv'
<1> DEFINE s == turn[t].session
           p == list_session_messages(s)
           c == <<t, "first">>
<1>1. /\ turn[t].pc = "asked" /\ turn[t].mode = "chat"
      /\ SendFor(t, "first", "stream", p) /\ messages' = messages
      /\ sessions' = sessions
  BY DEF StartStream
<1>2. /\ \A d \in Calls : d # c => call'[d] = call[d]
      /\ call'[c].pc \in {"waiting", "raised"} /\ call'[c].mode = "stream"
      /\ call'[c].prompt = p \/ call'[c].pc = "raised"
  <2>1. SendFor(t, "first", "stream", p) /\ "first" \in Legs
    BY <1>1 DEF Legs
  <2> HIDE DEF p
  <2>q. QED  BY <2>1, Sends
<1>3. There(s) => AsksIn(p, t)
  <2> SUFFICES ASSUME There(s) PROVE AsksIn(p, t)
    OBVIOUS
  <2>1. s \in Sessions /\ Listed(messages[s]) /\ RecordedIn(messages[s], t)
    BY <1>1, TurnFacts DEF InOrder, ChatInv, Past, There
  <2>2. PICK q \in QuestionsIn(messages[s], t) : TRUE
    BY <2>1 DEF RecordedIn
  <2>3. q \in DOMAIN messages[s] /\ messages[s][q].turn = t /\ Asked(messages[s][q]) /\ q \in Questions(t)
    BY <2>2 DEF QuestionsIn, OwnIn, Questions, Own
  <2>4. Len(messages[s]) - q < HistoryLimit
    BY <1>1, <2>3 DEF Timely
  <2>5. \E i \in DOMAIN p : p[i] = messages[s][q]
    BY <2>1, <2>3, <2>4, NewestHolds
  <2>q. QED  BY <2>3, <2>5 DEF AsksIn
<1>4. turn'[t].session = s
  BY <1>1 DEF SessionsKept
<1>5. ASSUME NEW u \in Turns, u # t
      PROVE  FirstMoves(u)
  <2>1. <<u, "first">> \in Calls /\ <<u, "first">> # c
    BY <1>5, LegIsCall DEF Legs
  <2> HIDE DEF c
  <2>q. QED  BY <1>2, <2>1 DEF FirstMoves, MovesOn
<1>6. First(t)' = call'[c] /\ (There(turn[t].session)' <=> There(s))
  BY <1>1, <1>4 DEF First, There
<1> HIDE DEF s, p, c
<1>7. /\ First(t)'.pc = "idle" => First(t)'.mode = "none"
      /\ First(t)'.mode = "stream" /\ First(t)'.pc # "raised" /\ There(turn[t].session)' =>
           AsksIn(First(t)'.prompt, t)
  BY <1>2, <1>3, <1>6
<1>8. ASSUME NEW u \in Turns
      PROVE  /\ First(u)'.pc = "idle" => First(u)'.mode = "none"
             /\ First(u)'.mode = "stream" /\ First(u)'.pc # "raised" /\ There(turn[u].session)' =>
                  AsksIn(First(u)'.prompt, u)
  BY <1>5, <1>7, StaysSeen
<1>q. QED  BY <1>8 DEF SeenInv, AsksIn

LEMMA SeenStays ==
  ASSUME SeenInv, ChatInv, CallInv, EvidenceInv, Timely, [Next]_vars
  PROVE  SeenInv'
<1>1. CASE UNCHANGED <<turn, call, sessions>>
  BY <1>1 DEF SeenInv, First, There
<1>2. CASE ChatNext
  <2>1. SessionsKept
    BY <1>2, ChatKeeps
  <2>2. CASE \E t \in Turns : StartStream(t)
    BY <2>1, <2>2, StreamSees
  <2>3. CASE \A t \in Turns : ~StartStream(t)
    <3>1. ASSUME NEW u \in Turns
          PROVE  /\ First(u)'.pc = "idle" => First(u)'.mode = "none"
                 /\ First(u)'.mode = "stream" /\ First(u)'.pc # "raised" /\ There(turn[u].session)' =>
                      AsksIn(First(u)'.prompt, u)
      BY <1>2, <2>1, <2>3, ChatMoves, StaysSeen
    <3>q. QED  BY <3>1 DEF SeenInv, AsksIn
  <2>q. QED  BY <2>2, <2>3
<1>q. QED  BY <1>1, <1>2 DEF Next, AdminStep, vars, chatVars, llmVars

(* A streamed reply is written from a history that holds the question it     *)
(* answers, as long as fewer than HistoryLimit messages come between the     *)
(* question and the start of its reply: neither the other turns of the       *)
(* session nor the workers that write to it can displace it otherwise        *)
(* (chat_service.py:436-475).                                                *)
THEOREM QuestionSeen == Spec /\ []Timely => []SeesQuestion
<1>1. Init => SeenInv
  <2> SUFFICES ASSUME Init, NEW t \in Turns PROVE First(t).pc = "idle" /\ First(t).mode = "none"
    BY DEF SeenInv
  <2>q. QED  BY LegIsCall DEF Init, LLMInit, NoCall, First, Legs
<1>2. SeenInv /\ ChatInv /\ CallInv /\ EvidenceInv /\ Timely /\ [Next]_vars => SeenInv'
  BY SeenStays
<1>3. SeenInv => SeesQuestion
  BY DEF SeenInv, SeesQuestion, AsksIn, First, CallOf
<1>4. Spec => []CallInv
  BY CallInvStarts, CallInvStays, PTL DEF Spec
<1>q. QED  BY <1>1, <1>2, <1>3, <1>4, ChatInvariance, EvidenceInvariance, PTL DEF Spec

=============================================================================
