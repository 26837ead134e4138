-------------------------- MODULE MCKnowledgeRetrieval --------------------------
EXTENDS KnowledgeRetrieval

(* Document 1: a clause of two chunks and two clauses of one; document 2: one *)
(* clause.  The first clause cites the last, which shares subjects with two.  *)
MCClauseOf == <<1, 1, 2, 3, 4>>
MCDocumentOf == <<1, 1, 1, 1, 2>>
MCBridge == [kind \in {"cites", "mentions"} |->
    [p \in SUBSET (1..4) |->
        IF kind = "cites" THEN (IF p = {1, 4} THEN 1 ELSE 0)
        ELSE IF p = {2, 4} THEN 2 ELSE IF p = {1, 3} THEN 1 ELSE 0]]
=============================================================================
