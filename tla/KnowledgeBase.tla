------------------------------ MODULE KnowledgeBase ------------------------------
(* The knowledge base as its operator builds it: the ingest, structure and    *)
(* entity scripts, run one after the other in any order and with any of       *)
(* their switches, over a corpus that is edited, with stores that may not     *)
(* answer and a machine that may go down.                                     *)
EXTENDS KnowledgeIngest, StructureLayer, EntityLayer

CONSTANTS IngestOptions, StructureOptions, EntityOptions   \* switches tried

(* The machine goes down.  The marker is replaced atomically; the keyword     *)
(* snapshot and the last line of entities.jsonl may be cut in the middle.     *)
Appending(s) == s.kind = "entities" /\ s.pc = "extract"
                 /\ \E d \in DOMAIN s.jobs : s.jobs[d].leg = "record"

Crash(torn) ==
    /\ script.kind # "idle" /\ spent.crashes < MaxCrashes
    /\ torn => At("snap") \/ Appending(script)
    /\ Exit
    /\ spent' = [spent EXCEPT !.crashes = @ + 1]
    /\ snapshot' = [snapshot EXCEPT !.torn = @ \/ (torn /\ At("snap"))]
    /\ ledger' = [ledger EXCEPT !.torn = @ \/ (torn /\ Appending(script))]
    /\ UNCHANGED <<corpus, progress, rows, graph, wiped>>

Next ==
    \/ IngestStep \/ StructureStep \/ EntityStep
    \/ \E o \in IngestOptions : StartIngest(o)
    \/ \E o \in StructureOptions : StartStructure(o)
    \/ \E o \in EntityOptions : StartEntities(o)
    \/ \E d \in Docs : Edit(d)
    \/ \E torn \in BOOLEAN : Crash(torn)

Spec == Init /\ [][Next]_vars

-----------------------------------------------------------------------------
(* What the files claim is in the stores: whatever was cut, reset or failed,  *)
(* a file marked done has all the chunks of some edition in Milvus, a file    *)
(* marked graph_done in Neo4j, so a later run that skips it loses nothing,    *)
(* and the keyword leg searches no document the vector leg does not have      *)
(* (pipeline.py:76-81, 218-221).  Left out are the gap of --reset-graph,      *)
(* which clears the graph before its marker (wiped), and a file that was      *)
(* without text when it was marked: it is not indexed again, yet the snapshot *)
(* takes the text it has by then.                                             *)
Holds(chunks, d) == \E v \in 1..corpus[d] : chunk_document(d, v) \subseteq chunks
WithoutText(d) == \E v \in 1..corpus[d] : Editions[d][v] = <<>>

StoresBacked ==
    /\ \A d \in progress.done : Holds(rows, d)
    /\ ~wiped => \A d \in progress.graph_done : Holds(graph.chunks, d)
    /\ \A d \in DocsOf(snapshot.chunks) : d \in DocsOf(rows) \/ WithoutText(d)

(* A document recorded ok was asked about in full: cut answers, split         *)
(* batches and changes of provider lose no clause, and a mention is of a      *)
(* clause of that document (entity_client.py:149-220).                        *)
OkIsWhole ==
    \A d \in OkDocs : LET line == ledger.last[d] IN
        /\ line.asked = line.clauses
        /\ \A m \in line.mentions : m.clause \in {_parent_id(c) : c \in line.clauses}

(* A primary provider that keeps failing is left alone: with documents in     *)
(* flight it is called in vain at most Concurrency - 1 times more than the    *)
(* threshold (entity_client.py:10-24, 222-243).                               *)
CircuitBounds ==
    HasFallback /\ InPhase("extract") => script.failures <= Threshold + Concurrency - 1

(* Once the stores, the snapshot and the clauses agree, a mention hangs on    *)
(* the clause whose text names the entity (build_entities.py:28-32: another   *)
(* choice of text "would silently produce entities attached to a different    *)
(* clause than the structural layer's").  Violated: entities.jsonl is a cache *)
(* by document and a clause id is a position, so after an edit, a full        *)
(* rebuild and a resumed entity run the mentions of the earlier edition hang  *)
(* on the clauses that took their places.                                     *)
Rebuilt == /\ script.kind = "idle" /\ rows = snapshot.chunks
           /\ graph.clauses = extract_structure(snapshot.chunks).clauses

MentionsFit ==
    Rebuilt => \A m \in graph.mentions :
        \E c \in graph.clauses : m.clause = c.id /\ m.entity = c.text
=============================================================================
