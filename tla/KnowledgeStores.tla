--------------------------- MODULE KnowledgeStores ---------------------------
(* What the knowledge scripts share: the corpus on disk, the files under      *)
(* data/knowledge (progress.json, chunks.jsonl, entities.jsonl), the Milvus   *)
(* collection and the Neo4j graph, with the operations of                     *)
(* app/knowledge/vectorstore/milvus.py and app/knowledge/graph/neo4j.py.      *)
(*                                                                            *)
(* A document's text is a sequence of clauses and a clause is one value; the  *)
(* child windows of a clause are not told apart.  An edition is a revision of *)
(* the file.  One operator runs one script at a time.                         *)
EXTENDS Integers, Sequences, FiniteSets, Functions

CONSTANTS Editions,     \* Editions[d][v]: the clauses of document d in edition v
          Refers,       \* Refers[s]: the documents clause text s cites by title
          MaxRuns, MaxEdits, MaxCrashes, MaxFaults   \* bounds of the instance

Docs == DOMAIN Editions         \* numbered in the sorted order of their paths
Statements == UNION {UNION {Range(Editions[d][v]) : v \in DOMAIN Editions[d]} : d \in Docs}

ASSUME CorpusAssumption ==
    /\ Editions \in Seq(Seq(Seq(Statements))) \ {<<>>}
    /\ \A d \in Docs : Editions[d] # <<>>
    /\ Refers \in [Statements -> SUBSET Docs]

VARIABLES corpus,    \* [Docs -> edition on disk]
          progress,  \* progress.json: the files marked done and graph_done
          snapshot,  \* chunks.jsonl: its chunks, is it there, does a line end torn
          ledger,    \* entities.jsonl: each document's last line; torn last line
          rows,      \* the rows of the Milvus collection
          graph,     \* the nodes and edges in Neo4j
          script,    \* the script that runs and its memory
          wiped,     \* the graph was cleared, graph_done not yet
          spent      \* runs, edits, crashes and faults so far

vars == <<corpus, progress, snapshot, ledger, rows, graph, script, wiped, spent>>

(* A chunk id is a hash of the path, the position and the head of the text; a *)
(* clause id is a hash of the path and the position alone.                    *)
chunk_document(d, v) ==
    {[doc |-> d, index |-> i, text |-> Editions[d][v][i]] : i \in DOMAIN Editions[d][v]}
_parent_id(c) == <<c.doc, c.index>>
DocsOf(chunks) == {c.doc : c \in chunks}

NoLine == [status |-> "none"]
EmptyGraph == [docs |-> {}, chunks |-> {}, clauses |-> {}, cites |-> {},
               docEdges |-> {}, entities |-> {}, mentions |-> {}, next |-> {}]

Idle == [kind |-> "idle", pc |-> "idle"]

Init ==
    /\ corpus = [d \in Docs |-> 1]
    /\ progress = [done |-> {}, graph_done |-> {}]
    /\ snapshot = [there |-> FALSE, torn |-> FALSE, chunks |-> {}]
    /\ ledger = [last |-> [d \in Docs |-> NoLine], torn |-> FALSE]
    /\ rows = {}
    /\ graph = EmptyGraph
    /\ script = Idle
    /\ wiped = FALSE
    /\ spent = [runs |-> 0, edits |-> 0, crashes |-> 0, faults |-> 0]

Launched == spent' = [spent EXCEPT !.runs = @ + 1]
Fault == /\ spent.faults < MaxFaults
         /\ spent' = [spent EXCEPT !.faults = @ + 1]
Exit == script' = Idle

(* A file of the corpus is revised; any script may be running. *)
Edit(d) ==
    /\ spent.edits < MaxEdits
    /\ corpus[d] < Len(Editions[d])
    /\ corpus' = [corpus EXCEPT ![d] = @ + 1]
    /\ spent' = [spent EXCEPT !.edits = @ + 1]
    /\ UNCHANGED <<progress, snapshot, ledger, rows, graph, script, wiped>>

(* MilvusStore: the primary key is a function of the chunk id, so a chunk     *)
(* written again overwrites its row.                                          *)
upsert_chunks(table, chunks) == table \cup chunks

(* Neo4jGraphStore: every write is a MERGE on a stable id. *)
write_doc_chunk(g, c) == [g EXCEPT !.docs = @ \cup {c.doc}, !.chunks = @ \cup {c}]

link_sequence(g, order) ==
    LET pairs == {<<order[i], order[i + 1]>> : i \in 1..(Len(order) - 1)} IN
    [g EXCEPT !.next = @ \cup {p \in pairs : p[1] \in g.docs /\ p[2] \in g.docs}]

(* Dropping the clauses takes the edges that touch them, the MENTIONS of the  *)
(* entity layer included; the entity nodes stay.                              *)
reset_structure(g) ==
    [g EXCEPT !.clauses = {}, !.cites = {}, !.mentions = {}, !.docEdges = {}]

reset_entities(g) == [g EXCEPT !.entities = {}, !.mentions = {}]

write_clauses(g, clauses) ==
    LET ids == {c.id : c \in clauses} IN
    [g EXCEPT !.docs = @ \cup {c.id[1] : c \in clauses},
              !.clauses = {c \in @ : c.id \notin ids} \cup clauses]

ClauseNodes(g) == {c.id : c \in g.clauses}

write_citations(g, edges) ==
    [g EXCEPT !.cites = @ \cup {e \in edges : {e[1], e[2]} \subseteq ClauseNodes(g)}]

write_doc_edges(g, edges) ==
    [g EXCEPT !.docEdges = @ \cup {e \in edges : {e[1], e[2]} \subseteq g.docs}]

merge_entities(g, found) == [g EXCEPT !.entities = @ \cup {m.entity : m \in found}]

(* A mention whose clause is not in the graph matches nothing. *)
merge_mentions(g, found) ==
    [g EXCEPT !.mentions = @ \cup {m \in found : m.clause \in ClauseNodes(g)
                                                 /\ m.entity \in g.entities}]
=============================================================================
