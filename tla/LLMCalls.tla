------------------------------ MODULE LLMCalls ------------------------------
(***************************************************************************)
(* LLMService: completions with retries, streams without, and one audit    *)
(* row per call.  A step is what happens between two awaits: the request   *)
(* is sent, the provider answers or fails, a piece of a stream arrives, or *)
(* the task that waits is cancelled because the client left.               *)
(***************************************************************************)
EXTENDS Naturals, Sequences, FiniteSets, SequencesExt

CONSTANTS
  Calls,             \* identities of calls
  MaxRetries,        \* llm.max_retries
  MaxPieces,         \* bound: pieces of a stream
  Usable,            \* providers with a key (llm.providers)
  ProviderModel,     \* provider |-> the model its block declares, or NoModel
  NoModel

ASSUME RetryAssumption == MaxRetries \in Nat /\ MaxPieces \in Nat

VARIABLES
  call,              \* what each call is doing
  audits             \* rows of llm_call_logs, in order, per call

llmVars == <<call, audits>>

\* What a completion contains, as far as callers tell it apart.
NoAnswer == [kind |-> "none"]
NoCall == [pc |-> "idle", mode |-> "none", model |-> NoModel, attempts |-> 0, pieces |-> 0,
           prompt |-> <<>>, answer |-> NoAnswer]

LLMInit ==
  /\ call = [c \in Calls |-> NoCall]
  /\ audits = [c \in Calls |-> <<>>]

\* _record_audit
Audit(c, model, status) == audits' = [audits EXCEPT ![c] = Append(@, [model |-> model, status |-> status])]

\* _resolve_provider: the model a provider declares wins over the one asked for.
ResolvedModel(provider, model) ==
  IF ProviderModel[provider] # NoModel THEN ProviderModel[provider] ELSE model

\* complete and stream_complete up to the first await.
Send(c, mode, provider, model, prompt) ==
  /\ call[c].pc = "idle"
  /\ IF provider \in Usable
     THEN /\ call' = [call EXCEPT ![c] =
               [NoCall EXCEPT !.pc = "waiting", !.mode = mode, !.attempts = 1, !.prompt = prompt,
                              !.model = ResolvedModel(provider, model)]]
          /\ UNCHANGED audits
     ELSE /\ call' = [call EXCEPT ![c] = [NoCall EXCEPT !.pc = "raised", !.mode = mode, !.model = model]]
          /\ Audit(c, model, "failed")

Fail(c) ==
  /\ call' = [call EXCEPT ![c].pc = "raised"]
  /\ Audit(c, call[c].model, "failed")

\* _is_retryable holds of the failure; another attempt is made if there is one.
Transient_StreamToo(c) ==        \* Wrong on purpose: a broken stream is opened again
  /\ call[c].pc \in {"waiting", "streaming"}
  /\ IF call[c].attempts <= MaxRetries
     THEN call' = [call EXCEPT ![c].attempts = @ + 1, ![c].pc = "waiting"] /\ UNCHANGED audits
     ELSE Fail(c)

Transient(c) ==
  /\ call[c].pc = "waiting"
  /\ IF call[c].mode = "complete" /\ call[c].attempts <= MaxRetries
     THEN call' = [call EXCEPT ![c].attempts = @ + 1] /\ UNCHANGED audits
     ELSE Fail(c)

Permanent(c) == call[c].pc = "waiting" /\ Fail(c)

\* A completion arrives.  One that does not parse raises after the try block.
Complete(c, answer) ==
  /\ call[c].pc = "waiting" /\ call[c].mode = "complete"
  /\ IF answer.kind = "malformed"
     THEN call' = [call EXCEPT ![c].pc = "raised"] /\ UNCHANGED audits
     ELSE /\ call' = [call EXCEPT ![c].pc = "returned", ![c].answer = answer]
          /\ Audit(c, call[c].model, "success")

\* A stream: opened, its pieces, its end.
Piece(c) ==
  /\ call[c].mode = "stream" /\ call[c].pc \in {"waiting", "streaming"}
  /\ call[c].pieces < MaxPieces
  /\ call' = [call EXCEPT ![c].pc = "streaming", ![c].pieces = @ + 1]
  /\ UNCHANGED audits

Break(c) == call[c].pc = "streaming" /\ Fail(c)

StreamEnd(c) ==
  /\ call[c].mode = "stream" /\ call[c].pc \in {"waiting", "streaming"}
  /\ call' = [call EXCEPT ![c].pc = "returned"]
  /\ Audit(c, call[c].model, "success")

\* CancelledError and GeneratorExit are no Exception: nothing is recorded.
Cancelled(c) == call[c].pc \in {"waiting", "streaming"}
Cancel(cs) ==
  call' = [c \in Calls |-> IF c \in cs /\ Cancelled(c) THEN [call[c] EXCEPT !.pc = "cancelled"] ELSE call[c]]

Delivers(c, answers) == (\E answer \in answers : Complete(c, answer)) \/ Piece(c) \/ StreamEnd(c)
Fails(c) == Transient(c) \/ Permanent(c) \/ Break(c)

-----------------------------------------------------------------------------
\* Properties

\* One row at most per call, with the model that ran: a success exactly when
\* the call returned, a failure only when it raised.  Retries leave no row of
\* their own, are at most max_retries, and stop once the caller has received a
\* piece of the answer (service.py:186 "replaying the call would duplicate it").
AuditsMatchCalls ==
  \A c \in Calls :
    /\ Len(audits[c]) <= 1
    /\ audits[c] # <<>> => audits[c][1].model = call[c].model
    /\ call[c].pc = "returned" <=> audits[c] # <<>> /\ audits[c][1].status = "success"
    /\ audits[c] # <<>> /\ audits[c][1].status = "failed" => call[c].pc = "raised"
    /\ call[c].attempts <= 1 + MaxRetries
    /\ call[c].pieces > 0 => call[c].attempts = 1

=============================================================================
