--------------------------- MODULE KnowledgeIngest ---------------------------
(* scripts/ingest_knowledge.py and the pipeline it runs                       *)
(* (app/knowledge/ingest/pipeline.py): clear what --reset or --reset-graph    *)
(* names, then parse, index and graph one file after the other, then rewrite  *)
(* the keyword snapshot and link the documents.                               *)
EXTENDS KnowledgeStores

CONSTANTS PersistEvery     \* --persist-every

ingestVars == <<corpus, ledger, wiped>>

(* The order in which main() clears and connects. *)
ResetOrder == <<"marker", "snapshot", "rows">>

PhasesOf(o) == (IF o.reset THEN ResetOrder ELSE <<>>)
               \o (IF o.graph /\ (o.reset \/ o.reset_graph)
                   THEN <<"graph", "graph_marker">> ELSE <<>>)
               \o <<"load">>

At(pc) == script.kind = "ingest" /\ script.pc = pc
PhaseDone == script' = [script EXCEPT !.phases = Tail(@), !.pc = Head(Tail(script.phases))]

StartIngest(o) ==
    /\ script.kind = "idle" /\ spent.runs < MaxRuns
    /\ ~(o.reset_graph /\ ~o.graph)          \* the parser refuses the pair
    /\ script' = [kind |-> "ingest", pc |-> Head(PhasesOf(o)), opts |-> o,
                  phases |-> PhasesOf(o)]
    /\ Launched
    /\ UNCHANGED <<ingestVars, progress, snapshot, rows, graph>>

ClearMarker ==
    /\ At("marker") /\ PhaseDone
    /\ progress' = [done |-> {}, graph_done |-> {}]
    /\ wiped' = FALSE
    /\ UNCHANGED <<corpus, ledger, snapshot, rows, graph, spent>>

ClearSnapshot ==
    /\ At("snapshot") /\ PhaseDone
    /\ snapshot' = [there |-> FALSE, torn |-> FALSE, chunks |-> {}]
    /\ UNCHANGED <<ingestVars, progress, rows, graph, spent>>

DropRows ==
    /\ At("rows") /\ PhaseDone
    /\ rows' = {}
    /\ UNCHANGED <<ingestVars, progress, snapshot, graph, spent>>

ResetGraph ==
    /\ At("graph") /\ PhaseDone
    /\ graph' = EmptyGraph
    /\ wiped' = TRUE
    /\ UNCHANGED <<corpus, ledger, progress, snapshot, rows, spent>>

ClearGraphMarker ==
    /\ At("graph_marker") /\ PhaseDone
    /\ progress' = [progress EXCEPT !.graph_done = {}]
    /\ wiped' = FALSE
    /\ UNCHANGED <<corpus, ledger, snapshot, rows, graph, spent>>

(* Milvus or Neo4j does not answer: the script ends where it stands. *)
StoreUnavailable ==
    /\ At("rows") \/ At("graph") \/ At("load")
    /\ Fault /\ Exit
    /\ UNCHANGED <<ingestVars, progress, snapshot, rows, graph>>

Load ==
    /\ At("load")
    /\ script' = [kind |-> "ingest", pc |-> "file", opts |-> script.opts, doc |-> 1,
                  chunks |-> {}, done |-> progress.done, graph_done |-> progress.graph_done,
                  since |-> 0]
    /\ UNCHANGED <<ingestVars, progress, snapshot, rows, graph, spent>>

(***************************************************************************)
(* One file.                                                               *)
(***************************************************************************)
Here == script.doc
NeedVec == Here \notin script.done
NeedGraph == script.opts.graph /\ Here \notin script.graph_done
GraphNext(chunks) == IF NeedGraph /\ chunks # {} THEN "graph_file" ELSE "count"
Next1 == [script EXCEPT !.pc = IF Here = Len(Editions) THEN "finish" ELSE "file",
                        !.doc = IF Here = Len(Editions) THEN 1 ELSE Here + 1,
                        !.chunks = {}]

SkipFile ==
    /\ At("file") /\ ~NeedVec /\ ~NeedGraph
    /\ script' = Next1
    /\ UNCHANGED <<ingestVars, progress, snapshot, rows, graph, spent>>

ParseFile ==
    /\ At("file") /\ (NeedVec \/ NeedGraph)
    /\ LET chunks == chunk_document(Here, corpus[Here]) IN
       script' = [script EXCEPT !.chunks = chunks,
                                !.pc = IF NeedVec THEN "index" ELSE GraphNext(chunks)]
    /\ UNCHANGED <<ingestVars, progress, snapshot, rows, graph, spent>>

(* A file that cannot be parsed, embedded or indexed is reported and left     *)
(* unmarked; the run goes on.                                                 *)
FileFails ==
    /\ (At("file") /\ (NeedVec \/ NeedGraph)) \/ At("index")
    /\ Fault
    /\ script' = Next1
    /\ UNCHANGED <<ingestVars, progress, snapshot, rows, graph>>

(* A file without text (a scan) is marked done and has nothing to index; the  *)
(* graph skips it and leaves it unmarked.                                     *)
IndexFile ==
    /\ At("index")
    /\ rows' = upsert_chunks(rows, script.chunks)
    /\ script' = [script EXCEPT !.done = @ \cup {Here},
                                !.pc = GraphNext(script.chunks)]
    /\ UNCHANGED <<ingestVars, progress, snapshot, graph, spent>>

(* The chunks go to Neo4j one by one; the file is marked after the last. *)
GraphChunk ==
    /\ At("graph_file")
    /\ \E c \in script.chunks :
         /\ \A o \in script.chunks : c.index <= o.index
         /\ graph' = write_doc_chunk(graph, c)
         /\ script' = IF script.chunks = {c}
                      THEN [script EXCEPT !.chunks = {}, !.pc = "count",
                                          !.graph_done = @ \cup {Here}]
                      ELSE [script EXCEPT !.chunks = @ \ {c}]
    /\ UNCHANGED <<ingestVars, progress, snapshot, rows, spent>>

(* Mutant: the file is marked although its chunks failed. *)
GraphFails_Marks ==
    /\ At("graph_file")
    /\ Fault
    /\ script' = [script EXCEPT !.chunks = {}, !.pc = "count",
                               !.graph_done = @ \cup {Here}]
    /\ UNCHANGED <<ingestVars, progress, snapshot, rows, graph>>

GraphFails ==
    /\ At("graph_file")
    /\ Fault
    /\ script' = [script EXCEPT !.chunks = {}, !.pc = "count"]
    /\ UNCHANGED <<ingestVars, progress, snapshot, rows, graph>>

persist == progress' = [done |-> script.done, graph_done |-> script.graph_done]

CountFile ==
    /\ At("count")
    /\ IF script.since + 1 >= PersistEvery
       THEN persist /\ script' = [Next1 EXCEPT !.since = 0]
       ELSE UNCHANGED progress /\ script' = [Next1 EXCEPT !.since = @ + 1]
    /\ UNCHANGED <<ingestVars, snapshot, rows, graph, spent>>

(* Ctrl-C during the files: the finally block stores the marker. *)
Interrupt ==
    /\ At("file") \/ At("index") \/ At("graph_file") \/ At("count")
    /\ Fault
    /\ persist /\ Exit
    /\ UNCHANGED <<ingestVars, snapshot, rows, graph>>

(***************************************************************************)
(* The marker, the keyword snapshot and the chain of documents.            *)
(***************************************************************************)
Finish ==
    /\ At("finish")
    /\ persist
    /\ snapshot' = [there |-> TRUE, torn |-> FALSE, chunks |-> {}]   \* opened with "w"
    /\ script' = [kind |-> "ingest", pc |-> "snap", opts |-> script.opts,
                  files |-> script.done, graphed |-> script.graph_done, linked |-> <<>>]
    /\ UNCHANGED <<ingestVars, rows, graph, spent>>

(* The marked files are parsed again, in order, as they are now; one that     *)
(* does not parse is left out of the snapshot and of the chain.               *)
SnapFile ==
    /\ At("snap")
    /\ \E d \in script.files :
         /\ \A o \in script.files : d <= o
         /\ \/ /\ snapshot' = [snapshot EXCEPT !.chunks = @ \cup chunk_document(d, corpus[d])]
               /\ script' = [script EXCEPT !.files = @ \ {d},
                                !.linked = IF d \in script.graphed THEN Append(@, d) ELSE @]
               /\ UNCHANGED spent
            \/ /\ Fault
               /\ script' = [script EXCEPT !.files = @ \ {d}]
               /\ UNCHANGED snapshot
    /\ UNCHANGED <<ingestVars, progress, rows, graph>>

LinkDocuments ==
    /\ At("snap") /\ script.files = {}
    /\ Exit
    /\ \/ /\ graph' = IF script.opts.graph THEN link_sequence(graph, script.linked) ELSE graph
          /\ UNCHANGED spent
       \/ Fault /\ UNCHANGED graph
    /\ UNCHANGED <<ingestVars, progress, snapshot, rows>>

IngestStep ==
    \/ ClearMarker \/ ClearSnapshot \/ DropRows \/ ResetGraph \/ ClearGraphMarker
    \/ StoreUnavailable \/ Load \/ SkipFile \/ ParseFile \/ FileFails \/ IndexFile
    \/ GraphChunk \/ GraphFails \/ CountFile \/ Interrupt \/ Finish \/ SnapFile
    \/ LinkDocuments
=============================================================================
