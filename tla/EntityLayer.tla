------------------------------ MODULE EntityLayer ------------------------------
(* scripts/build_entities.py with the extractor of                            *)
(* app/knowledge/graph/entity_client.py: the documents of the keyword         *)
(* snapshot go to a model, a few at a time, each answer is appended to        *)
(* entities.jsonl, and the file is then replayed into Neo4j.                  *)
(*                                                                            *)
(* An entity is the clause text that names it.  A prompt of several clauses   *)
(* whose answer is cut off or unreadable is sent again in two halves; a       *)
(* primary provider that fails is replaced by the fallback, for one call or,  *)
(* once the circuit is open, for the rest of the run.                         *)
EXTENDS KnowledgeStores

CONSTANTS Concurrency,      \* documents extracted at a time
          MaxClauses,       \* clauses of one call (max_clauses_per_call)
          MaxSplit,         \* max_split_depth
          Threshold,        \* failures in a row that open the circuit
          HasFallback

ASSUME LimitsAssumption ==
    /\ {Concurrency, MaxClauses, Threshold} \subseteq Nat \ {0}
    /\ HasFallback \in BOOLEAN

entityVars == <<corpus, progress, snapshot, rows, wiped>>
InPhase(pc) == script.kind = "entities" /\ script.pc = pc

(* The clauses of a document in the order of the snapshot. *)
ClausesOf(d) ==
    LET own == {c \in snapshot.chunks : c.doc = d} IN
    [i \in 1..Cardinality(own) |-> CHOOSE c \in own : c.index = i]

split_batch(clauses) ==
    LET n == Len(clauses)
        last(b) == IF b * MaxClauses < n THEN b * MaxClauses ELSE n IN
    [b \in 1..((n + MaxClauses - 1) \div MaxClauses) |->
        [depth |-> 0, clauses |-> SubSeq(clauses, (b - 1) * MaxClauses + 1, last(b))]]

(* Mutant: the clause in the middle belongs to neither half. *)
Halves_Skip(batch) ==
    LET middle == Len(batch.clauses) \div 2
        half(from, to) == [depth |-> batch.depth + 1,
                           clauses |-> SubSeq(batch.clauses, from, to)] IN
    <<half(1, middle), half(middle + 2, Len(batch.clauses))>>

Halves(batch) ==
    LET middle == Len(batch.clauses) \div 2
        half(from, to) == [depth |-> batch.depth + 1,
                           clauses |-> SubSeq(batch.clauses, from, to)] IN
    <<half(1, middle), half(middle + 1, Len(batch.clauses))>>

OkDocs == {d \in Docs : ledger.last[d].status = "ok"}

(* Nothing runs without a readable snapshot. *)
StartEntities(o) ==
    /\ script.kind = "idle" /\ spent.runs < MaxRuns
    /\ snapshot.there /\ ~snapshot.torn
    /\ script' = [kind |-> "entities", pc |-> "extract", opts |-> o,
                  pending |-> DocsOf(snapshot.chunks) \ (IF o.no_resume THEN {} ELSE OkDocs),
                  jobs |-> <<>>, failures |-> 0, open |-> FALSE]
    /\ Launched
    /\ UNCHANGED <<entityVars, ledger, graph>>

(***************************************************************************)
(* Extraction: one job per document in flight.                             *)
(***************************************************************************)
Job(d) == script.jobs[d]
Calling(d, leg) == InPhase("extract") /\ d \in DOMAIN script.jobs /\ Job(d).leg = leg
WithJob(s, d, job) ==
    [s EXCEPT !.jobs = [e \in DOMAIN s.jobs \cup {d} |-> IF e = d THEN job ELSE s.jobs[e]]]

Leg == IF script.open THEN "fallback" ELSE "primary"
Recording(job, line) == [job EXCEPT !.leg = "record", !.line = line]
Failed == [status |-> "error"]

BeginDocument(d) ==
    /\ InPhase("extract") /\ d \in script.pending
    /\ Cardinality(DOMAIN script.jobs) < Concurrency
    /\ script' = WithJob([script EXCEPT !.pending = @ \ {d}], d,
                    [leg |-> Leg, todo |-> split_batch(ClausesOf(d)), line |-> NoLine,
                     asked |-> {}, mentions |-> {}])
    /\ UNCHANGED <<entityVars, ledger, graph, spent>>

(* Mutant: one failure in a row too many. *)
OpensCircuit_Late(quota, failures) == quota \/ failures > Threshold

(* A quota failure, or too many failures in a row, opens the circuit; the     *)
(* same call goes to the fallback.                                            *)
OpensCircuit(quota, failures) == quota \/ failures >= Threshold

PrimaryFails(d, quota) ==
    /\ Calling(d, "primary")
    /\ LET failures == script.failures + 1
           s == [script EXCEPT !.failures = failures,
                    !.open = @ \/ (HasFallback /\ OpensCircuit(quota, failures))] IN
       script' = WithJob(s, d, IF HasFallback THEN [Job(d) EXCEPT !.leg = "fallback"]
                                              ELSE Recording(Job(d), Failed))
    /\ UNCHANGED <<entityVars, ledger, graph, spent>>

FallbackFails(d) ==
    /\ Calling(d, "fallback")
    /\ Fault
    /\ script' = WithJob(script, d, Recording(Job(d), Failed))
    /\ UNCHANGED <<entityVars, ledger, graph>>

(* The counter of failures in a row is cleared by an answer of the primary. *)
Answered(d) == IF Job(d).leg = "primary" THEN [script EXCEPT !.failures = 0] ELSE script
Batch(d) == Head(Job(d).todo)

(* The model names entities in some of the batch's clauses; entries for other *)
(* refs, unknown types and repeated names are dropped.                        *)
AnswerRead(d, named) ==
    /\ Calling(d, "primary") \/ Calling(d, "fallback")
    /\ named \subseteq Range(Batch(d).clauses)
    /\ LET job == [Job(d) EXCEPT
                     !.todo = Tail(@), !.asked = @ \cup Range(Batch(d).clauses),
                     !.mentions = @ \cup {[clause |-> _parent_id(c), entity |-> c.text] :
                                            c \in named}] IN
       script' = WithJob(Answered(d), d,
                    IF job.todo # <<>> THEN [job EXCEPT !.leg = Leg]
                    ELSE Recording(job, [status |-> "ok", asked |-> job.asked,
                                         mentions |-> job.mentions,
                                         clauses |-> Range(ClausesOf(d))]))
    /\ UNCHANGED <<entityVars, ledger, graph, spent>>

(* The answer is cut off by max_tokens or is not the JSON asked for. *)
AnswerUnusable(d) ==
    /\ Calling(d, "primary") \/ Calling(d, "fallback")
    /\ Fault
    /\ LET batch == Batch(d)
           again == Len(batch.clauses) > 1 /\ batch.depth < MaxSplit IN
       script' = WithJob(Answered(d), d,
                    IF again THEN [Job(d) EXCEPT !.todo = Halves(batch) \o Tail(@), !.leg = Leg]
                             ELSE Recording(Job(d), Failed))
    /\ UNCHANGED <<entityVars, ledger, graph>>

(* One line is appended per document, whatever became of it.  After a torn    *)
(* line the new one has no line of its own: neither can be read.              *)
AppendLine(d) ==
    /\ Calling(d, "record")
    /\ ledger' = IF ledger.torn THEN [ledger EXCEPT !.torn = FALSE]
                 ELSE [ledger EXCEPT !.last[d] = Job(d).line]
    /\ script' = [script EXCEPT !.jobs = [e \in DOMAIN @ \ {d} |-> @[e]]]
    /\ UNCHANGED <<entityVars, graph, spent>>

(***************************************************************************)
(* Write: the file is read again and replayed.                             *)
(***************************************************************************)
Replayed == OkDocs \cap DocsOf(snapshot.chunks)

ExtractionOver ==
    /\ InPhase("extract") /\ script.pending = {} /\ script.jobs = <<>>
    /\ IF script.opts.report_only THEN Exit
       ELSE script' = [kind |-> "entities", pc |-> "reset", opts |-> script.opts]
    /\ UNCHANGED <<entityVars, ledger, graph, spent>>

ResetEntities ==
    /\ InPhase("reset")
    /\ graph' = IF script.opts.reset THEN reset_entities(graph) ELSE graph
    /\ script' = [kind |-> "entities", pc |-> "nodes", todo |-> Replayed]
    /\ UNCHANGED <<entityVars, ledger, spent>>

First(d) == d \in script.todo /\ \A o \in script.todo : d <= o

WriteEntities(d) ==
    /\ InPhase("nodes") /\ First(d)
    /\ graph' = merge_entities(graph, ledger.last[d].mentions)
    /\ script' = [script EXCEPT !.pc = "edges"]
    /\ UNCHANGED <<entityVars, ledger, spent>>

WriteMentions(d) ==
    /\ InPhase("edges") /\ First(d)
    /\ graph' = merge_mentions(graph, ledger.last[d].mentions)
    /\ script' = [script EXCEPT !.pc = "nodes", !.todo = @ \ {d}]
    /\ UNCHANGED <<entityVars, ledger, spent>>

ReplayOver ==
    /\ InPhase("nodes") /\ script.todo = {}
    /\ Exit
    /\ UNCHANGED <<entityVars, ledger, graph, spent>>

EntitiesUnwritten ==
    /\ InPhase("reset") \/ InPhase("nodes") \/ InPhase("edges")
    /\ Fault /\ Exit
    /\ UNCHANGED <<entityVars, ledger, graph>>

EntityStep ==
    \/ \E d \in Docs :
         \/ BeginDocument(d) \/ FallbackFails(d) \/ AnswerUnusable(d) \/ AppendLine(d)
         \/ \E quota \in BOOLEAN : PrimaryFails(d, quota)
         \/ \E named \in SUBSET snapshot.chunks : AnswerRead(d, named)
         \/ WriteEntities(d) \/ WriteMentions(d)
    \/ ExtractionOver \/ ResetEntities \/ ReplayOver \/ EntitiesUnwritten
=============================================================================
