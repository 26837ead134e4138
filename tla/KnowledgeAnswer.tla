--------------------------- MODULE KnowledgeAnswer ---------------------------
(***************************************************************************)
(* KnowledgeAnswerer: what goes into the prompt of a grounded answer and   *)
(* what its completion makes of it.  A hit is known by its size and by     *)
(* whether it is extra, handed back although the per-document quota        *)
(* rejected it (QUOTA_OVERFLOW_KEY).                                       *)
(***************************************************************************)
EXTENDS Naturals, Sequences

CONSTANTS
  MaxContext,       \* max_context_chars
  Retrievals        \* hit lists the retriever may return

KnowledgeHit == [size : Nat, extra : BOOLEAN]

ASSUME ContextAssumption ==
  /\ MaxContext \in Nat
  /\ \A hits \in Retrievals : hits \in Seq(KnowledgeHit)

Nothing == [taken |-> <<>>, used |-> 0, full |-> FALSE]

\* _take: the first hit always gets in; the list ends at the first one too long.
Take(acc, h) ==
  IF acc.full \/ (acc.taken # <<>> /\ acc.used + h.size > MaxContext)
  THEN [acc EXCEPT !.full = TRUE]
  ELSE [acc EXCEPT !.taken = Append(@, h), !.used = @ + h.size]

\* What is taken, beyond start, of each prefix: the extra hits of it or the others.
taking(start, hits, extra) ==
  LET acc[n \in 0..Len(hits)] ==
        IF n = 0 THEN start
        ELSE IF hits[n].extra = extra THEN Take(acc[n - 1], hits[n]) ELSE acc[n - 1]
  IN  acc

\* build_prompt: the hits that made it in, primary ones first.
build_prompt(hits, with_supplementary) ==
  LET primary == taking(Nothing, hits, FALSE)[Len(hits)]
      both == taking([primary EXCEPT !.full = FALSE], hits, TRUE)[Len(hits)]
  IN  IF with_supplementary THEN both.taken ELSE primary.taken

\* What a completion says: an answer, a refusal, no text, half a sentence.
AnswerKinds == {"text", "refusal", "empty", "truncated"}
Unusable == {"empty", "truncated"}      \* IncompleteAnswerError

Supplementary(hits) == {i \in DOMAIN hits : hits[i].extra}

AskAgain_Always(hits, kind) == Supplementary(hits) # {}      \* Wrong on purpose: whatever was said

\* The refusal brings the extra hits into play, when there are any.
AskAgain(hits, kind) == kind = "refusal" /\ Supplementary(hits) # {}

=============================================================================
