---------------------------- MODULE MCKnowledgeBase ----------------------------
EXTENDS KnowledgeBase

(* d1 has two clauses; its revision drops one and puts another in front.  d2  *)
(* is a scan without text at first; then it has a clause that cites d1.       *)
MCEditions == << << <<"a", "b">>, <<"n", "a">> >>, << <<>>, <<"c">> >> >>
MCRefers == [s \in {"a", "b", "c", "n"} |-> IF s = "c" THEN {1} ELSE {}]

IngestOpt(r, rg, g) == [reset |-> r, reset_graph |-> rg, graph |-> g]
MCIngestOptions == {IngestOpt(FALSE, FALSE, TRUE), IngestOpt(TRUE, FALSE, TRUE),
                    IngestOpt(FALSE, TRUE, TRUE), IngestOpt(FALSE, FALSE, FALSE)}
MCStructureOptions == {[reset |-> r] : r \in BOOLEAN}
EntityOpt(n, r, w) == [no_resume |-> n, reset |-> r, report_only |-> w]
MCEntityOptions == {EntityOpt(FALSE, FALSE, FALSE), EntityOpt(TRUE, FALSE, FALSE),
                    EntityOpt(FALSE, TRUE, FALSE), EntityOpt(FALSE, FALSE, TRUE)}

StaleIngestOptions == {IngestOpt(FALSE, FALSE, TRUE), IngestOpt(TRUE, FALSE, TRUE)}
StaleStructureOptions == {[reset |-> TRUE]}
StaleEntityOptions == {EntityOpt(FALSE, FALSE, FALSE)}
=============================================================================
