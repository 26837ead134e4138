----------------------------- MODULE StructureLayer -----------------------------
(* scripts/build_graph.py: derive clauses, citations and document edges from  *)
(* the keyword snapshot (app/knowledge/graph/extract.py) and write them into  *)
(* Neo4j, one kind after the other.                                           *)
EXTENDS KnowledgeStores

structureVars == <<corpus, progress, snapshot, ledger, rows, wiped>>
Writing(pc) == script.kind = "structure" /\ script.pc = pc
NextPhase(pc) == script' = [script EXCEPT !.pc = pc]

(* A clause groups the chunks of one parent id; a law cited by its title      *)
(* resolves to that document, and the clause cited to its first article.      *)
extract_structure(chunks) ==
    LET clauses == {[id |-> _parent_id(c), text |-> c.text] : c \in chunks}
        ids == {c.id : c \in clauses}
        cited == {p \in clauses \X DocsOf(chunks) : p[2] \in Refers[p[1].text]} IN
    [clauses |-> clauses,
     cites |-> {<<p[1].id, <<p[2], 1>>>> : p \in {q \in cited : <<q[2], 1>> \in ids \ {q[1].id}}},
     docEdges |-> {<<p[1].id[1], p[2]>> : p \in {q \in cited : q[2] # q[1].id[1]}}]

(* Without a readable snapshot nothing is written. *)
StartStructure(o) ==
    /\ script.kind = "idle" /\ spent.runs < MaxRuns
    /\ snapshot.there /\ ~snapshot.torn
    /\ script' = [kind |-> "structure", pc |-> IF o.reset THEN "reset" ELSE "clauses",
                  found |-> extract_structure(snapshot.chunks)]
    /\ Launched
    /\ UNCHANGED <<structureVars, graph>>

ResetStructure ==
    /\ Writing("reset") /\ NextPhase("clauses")
    /\ graph' = reset_structure(graph)
    /\ UNCHANGED <<structureVars, spent>>

WriteClauses ==
    /\ Writing("clauses") /\ NextPhase("cites")
    /\ graph' = write_clauses(graph, script.found.clauses)
    /\ UNCHANGED <<structureVars, spent>>

WriteCitations ==
    /\ Writing("cites") /\ NextPhase("edges")
    /\ graph' = write_citations(graph, script.found.cites)
    /\ UNCHANGED <<structureVars, spent>>

WriteDocEdges ==
    /\ Writing("edges") /\ Exit
    /\ graph' = write_doc_edges(graph, script.found.docEdges)
    /\ UNCHANGED <<structureVars, spent>>

StructureUnwritten ==
    /\ script.kind = "structure"
    /\ Fault /\ Exit
    /\ UNCHANGED <<structureVars, graph>>

StructureStep ==
    \/ ResetStructure \/ WriteClauses \/ WriteCitations \/ WriteDocEdges
    \/ StructureUnwritten
=============================================================================
