------------------------ MODULE KnowledgeBase_proofs ------------------------
(* What the markers and the snapshot promise is in the stores, for every      *)
(* corpus, every choice of switches and any number of runs, edits, crashes    *)
(* and faults.                                                                *)
EXTENDS KnowledgeBase, SequenceTheorems, FiniteSetTheorems, TLAPS

-----------------------------------------------------------------------------
(* The shapes of the script's memory.                                        *)
Form(kind, pcs, fields) ==
    /\ script = [f \in fields |-> script[f]]
    /\ script.kind = kind
    /\ script.pc \in pcs

PhaseNames == {"marker", "snapshot", "rows", "graph", "graph_marker", "load"}
FilePcs == {"file", "index", "graph_file", "count", "finish"}

Clearing == Form("ingest", PhaseNames, {"kind", "pc", "opts", "phases"})
Working == Form("ingest", FilePcs, {"kind", "pc", "opts", "doc", "chunks", "done",
                                    "graph_done", "since"})
Mirroring == Form("ingest", {"snap"}, {"kind", "pc", "opts", "files", "graphed", "linked"})
Structuring == Form("structure", {"reset", "clauses", "cites", "edges"}, {"kind", "pc", "found"})
Extracting == Form("entities", {"extract"},
                   {"kind", "pc", "opts", "pending", "jobs", "failures", "open"})
Replaying == \/ Form("entities", {"reset"}, {"kind", "pc", "opts"})
             \/ Form("entities", {"nodes", "edges"}, {"kind", "pc", "todo"})

(* Everywhere but among the calls of the extraction. *)
Elsewhere == \/ script = Idle \/ Clearing \/ Working \/ Mirroring
             \/ Structuring \/ Replaying

ScriptInv == Elsewhere \/ Extracting

CorpusInv == /\ corpus \in [Docs -> Nat \ {0}]
             /\ \A d \in Docs : corpus[d] <= Len(Editions[d])

NamesInv ==
    /\ progress.done \subseteq Docs /\ progress.graph_done \subseteq Docs
    /\ DocsOf(snapshot.chunks) \subseteq Docs

StoreFields ==
    /\ progress = [f \in {"done", "graph_done"} |-> progress[f]]
    /\ snapshot = [f \in {"there", "torn", "chunks"} |-> snapshot[f]]
    /\ graph = [f \in DOMAIN EmptyGraph |-> graph[f]]

-----------------------------------------------------------------------------
(* The phases still to come: the marker goes before the snapshot and the      *)
(* snapshot before the rows.                                                  *)
Linked(p) ==
    \A i \in 1..(Len(p) - 1) : /\ p[i + 1] = "snapshot" => p[i] = "marker"
                               /\ p[i + 1] = "rows" => p[i] = "snapshot"

Ordered(p) == p \in Seq(PhaseNames) /\ p # <<>> /\ p[Len(p)] = "load" /\ Linked(p)

Backed(chunks, docs) == \A d \in docs : Holds(chunks, d)

PhaseInv ==
    Clearing =>
      /\ Ordered(script.phases) /\ script.pc = Head(script.phases)
      /\ script.pc = "snapshot" => progress.done = {}
      /\ script.pc = "rows" => progress.done = {} /\ snapshot.chunks = {}

FileInv ==
    Working =>
      /\ script.doc \in Docs /\ script.done \subseteq Docs /\ script.graph_done \subseteq Docs
      /\ Backed(rows, script.done)
      /\ ~wiped => Backed(graph.chunks, script.graph_done)
      /\ script.pc = "index" =>
           \E v \in 1..corpus[script.doc] : script.chunks = chunk_document(script.doc, v)
      /\ script.pc = "graph_file" =>
           \E v \in 1..corpus[script.doc] :
             chunk_document(script.doc, v) \subseteq script.chunks \cup graph.chunks

MirrorInv == Mirroring => script.files \subseteq Docs /\ Backed(rows, script.files)

StoresInv == /\ ScriptInv /\ CorpusInv /\ NamesInv /\ StoreFields
             /\ PhaseInv /\ FileInv /\ MirrorInv /\ StoresBacked

-----------------------------------------------------------------------------
LEMMA OrderedTail ==
    ASSUME NEW p, Ordered(p), Head(p) # "load"
    PROVE  /\ Ordered(Tail(p))
           /\ Head(Tail(p)) \in PhaseNames
           /\ Head(Tail(p)) = "snapshot" => Head(p) = "marker"
           /\ Head(Tail(p)) = "rows" => Head(p) = "snapshot"
<1>0. p \in Seq(PhaseNames) /\ p # <<>> /\ p[Len(p)] = "load"
  BY DEF Ordered
<1>a. Len(p) \in Nat /\ Len(p) # 0 /\ Head(p) = p[1]
  BY <1>0
<1>1. /\ p \in Seq(PhaseNames) /\ Len(p) \in Nat /\ Len(p) >= 2
      /\ Head(p) = p[1]
  BY <1>0, <1>a
<1>2. /\ Tail(p) \in Seq(PhaseNames) /\ Len(Tail(p)) = Len(p) - 1
      /\ \A i \in 1..(Len(p) - 1) : Tail(p)[i] = p[i + 1]
  BY <1>1
<1>3. Tail(p) # <<>> /\ Head(Tail(p)) = p[2] /\ Tail(p)[Len(Tail(p))] = p[Len(p)]
  <2>1. Len(Tail(p)) # 0 /\ Head(Tail(p)) = Tail(p)[1]
    BY <1>1, <1>2
  <2> QED
    BY <1>1, <1>2, <2>1
<1>4. \A i \in 1..(Len(Tail(p)) - 1) : Tail(p)[i + 1] = p[i + 2] /\ Tail(p)[i] = p[i + 1]
  BY <1>1, <1>2
<1>5. \A i \in 1..(Len(p) - 1) : /\ p[i + 1] = "snapshot" => p[i] = "marker"
                                 /\ p[i + 1] = "rows" => p[i] = "snapshot"
  BY DEF Ordered, Linked
<1>6. \A i \in 1..(Len(Tail(p)) - 1) :
         /\ Tail(p)[i + 1] = "snapshot" => Tail(p)[i] = "marker"
         /\ Tail(p)[i + 1] = "rows" => Tail(p)[i] = "snapshot"
  BY <1>1, <1>2, <1>4, <1>5
<1>7. Ordered(Tail(p))
  BY <1>0, <1>2, <1>3, <1>6 DEF Ordered, Linked
<1>8. p[2] \in PhaseNames
  BY <1>1
<1> QED
  BY <1>1, <1>3, <1>5, <1>7, <1>8

LEMMA LinkedLists ==
    ASSUME NEW p \in {<<>>, ResetOrder, <<"graph", "graph_marker">>, <<"load">>}
    PROVE  /\ p \in Seq(PhaseNames) /\ Linked(p)
           /\ p # <<>> => Head(p) \in PhaseNames \ {"snapshot", "rows"}
<1>1. CASE p = <<>>
  BY <1>1 DEF Linked
<1>2. CASE p = ResetOrder
  <2>1. p = <<"marker", "snapshot", "rows">>
    BY <1>2 DEF ResetOrder
  <2>2. /\ p \in Seq(PhaseNames) /\ Len(p) = 3 /\ Head(p) = "marker"
        /\ p[1] = "marker" /\ p[2] = "snapshot" /\ p[3] = "rows"
    BY <2>1 DEF PhaseNames
  <2> QED
    BY <2>2 DEF Linked, PhaseNames
<1>3. CASE p = <<"graph", "graph_marker">>
  <2>1. /\ p \in Seq(PhaseNames) /\ Len(p) = 2 /\ Head(p) = "graph"
        /\ p[1] = "graph" /\ p[2] = "graph_marker"
    BY <1>3 DEF PhaseNames
  <2> QED
    BY <2>1 DEF Linked, PhaseNames
<1>4. CASE p = <<"load">>
  <2>1. p \in Seq(PhaseNames) /\ Len(p) = 1 /\ Head(p) = "load" /\ p[1] = "load"
    BY <1>4 DEF PhaseNames
  <2> QED
    BY <2>1 DEF Linked, PhaseNames
<1> QED
  BY <1>1, <1>2, <1>3, <1>4

LEMMA ConcatFacts ==
    ASSUME NEW S, NEW p \in Seq(S), NEW q \in Seq(S)
    PROVE  /\ p \o q \in Seq(S) /\ Len(p \o q) = Len(p) + Len(q)
           /\ \A i \in 1..(Len(p) + Len(q)) :
                (p \o q)[i] = IF i <= Len(p) THEN p[i] ELSE q[i - Len(p)]
OBVIOUS

LEMMA LinkedConcat ==
    ASSUME NEW p \in Seq(PhaseNames), NEW q \in Seq(PhaseNames), Linked(p), Linked(q),
           q # <<>>, Head(q) \notin {"snapshot", "rows"}
    PROVE  Linked(p \o q)
<1> DEFINE r == p \o q
<1>1. /\ Len(p) \in Nat /\ Len(q) \in Nat /\ Len(q) # 0 /\ Len(r) = Len(p) + Len(q)
      /\ Head(q) = q[1]
  OBVIOUS
<1>2. \A i \in 1..Len(r) : r[i] = IF i <= Len(p) THEN p[i] ELSE q[i - Len(p)]
  OBVIOUS
<1> HIDE DEF r
<1>3. SUFFICES ASSUME NEW i \in 1..(Len(r) - 1)
               PROVE  /\ r[i + 1] = "snapshot" => r[i] = "marker"
                      /\ r[i + 1] = "rows" => r[i] = "snapshot"
  BY DEF Linked, r
<1>4. /\ r[i] = IF i <= Len(p) THEN p[i] ELSE q[i - Len(p)]
      /\ r[i + 1] = IF i + 1 <= Len(p) THEN p[i + 1] ELSE q[i + 1 - Len(p)]
  BY <1>1, <1>2
<1>5. CASE i + 1 <= Len(p)
  BY <1>1, <1>4, <1>5 DEF Linked
<1>6. CASE i = Len(p)
  BY <1>1, <1>4, <1>6
<1>7. CASE i > Len(p)
  <2>1. /\ i - Len(p) \in 1..(Len(q) - 1) /\ i + 1 - Len(p) = (i - Len(p)) + 1
    BY <1>1, <1>7
  <2>2. r[i] = q[i - Len(p)] /\ r[i + 1] = q[(i - Len(p)) + 1]
    BY <1>1, <1>4, <1>7, <2>1
  <2> QED
    BY <2>1, <2>2 DEF Linked
<1> QED
  BY <1>1, <1>5, <1>6, <1>7

LEMMA PhasesOrdered ==
    ASSUME NEW o
    PROVE  /\ Ordered(PhasesOf(o))
           /\ Head(PhasesOf(o)) \in PhaseNames \ {"snapshot", "rows"}
<1> DEFINE load == <<"load">>
           resets == IF o.graph /\ (o.reset \/ o.reset_graph)
                     THEN <<"graph", "graph_marker">> ELSE <<>>
           clears == IF o.reset THEN ResetOrder ELSE <<>>
           tail == resets \o load
           both == clears \o resets
<1>1. /\ clears \in {<<>>, ResetOrder} /\ resets \in {<<>>, <<"graph", "graph_marker">>}
      /\ load \in {<<"load">>} /\ load # <<>> /\ Len(load) = 1 /\ load[1] = "load"
      /\ PhasesOf(o) = both \o load
  BY DEF PhasesOf
<1> HIDE DEF load, resets, clears
<1>2. \A p \in {clears, resets, load} :
         /\ p \in Seq(PhaseNames) /\ Linked(p)
         /\ p # <<>> => Head(p) \in PhaseNames \ {"snapshot", "rows"}
  <2>1. {clears, resets, load} \subseteq
            {<<>>, ResetOrder, <<"graph", "graph_marker">>, <<"load">>}
    BY <1>1, Zenon
  <2> QED
    BY <2>1, LinkedLists, Zenon
<1>3. both \in Seq(PhaseNames) /\ Linked(both)
  <2>1. both \in Seq(PhaseNames) /\ (resets = <<>> => both = clears)
    BY <1>2
  <2> QED
    BY <1>2, <2>1, LinkedConcat
<1>4. both # <<>> => Head(both) \in PhaseNames \ {"snapshot", "rows"}
  <2>1. CASE clears = <<>>
    <3>1. both = resets
      BY <1>2, <2>1
    <3> QED
      BY <1>2, <3>1
  <2>2. CASE clears # <<>>
    <3>1. Head(both) = Head(clears)
      BY <1>2, <2>2
    <3> QED
      BY <1>2, <2>2, <3>1
  <2> QED
    BY <2>1, <2>2
<1> HIDE DEF both
<1>5. /\ both \o load \in Seq(PhaseNames) /\ Linked(both \o load)
  BY <1>1, <1>2, <1>3, LinkedConcat
<1>6. /\ both \o load # <<>> /\ Len(both \o load) = Len(both) + 1
      /\ (both \o load)[Len(both) + 1] = load[1]
      /\ Head(both \o load) = IF both = <<>> THEN Head(load) ELSE Head(both)
  <2>1. /\ both \in Seq(PhaseNames) /\ load \in Seq(PhaseNames) /\ Len(load) = 1
        /\ Len(both) \in Nat
    BY <1>1, <1>2, <1>3
  <2>2. /\ both \o load \in Seq(PhaseNames) /\ Len(both \o load) = Len(both) + 1
        /\ \A i \in 1..(Len(both) + 1) :
             (both \o load)[i] = IF i <= Len(both) THEN both[i] ELSE load[i - Len(both)]
    BY <2>1, ConcatFacts
  <2>3. Head(both \o load) = (both \o load)[1] /\ Head(load) = load[1]
    BY <2>1, <2>2
  <2>4. both # <<>> => Len(both) # 0 /\ Head(both) = both[1]
    BY <2>1
  <2>5. both = <<>> => Len(both) = 0
    OBVIOUS
  <2> QED
    BY <2>1, <2>2, <2>3, <2>4, <2>5
<1>7. Ordered(both \o load)
  BY <1>1, <1>3, <1>5, <1>6 DEF Ordered
<1>8. Head(both \o load) \in PhaseNames \ {"snapshot", "rows"}
  BY <1>1, <1>2, <1>4, <1>6
<1> QED
  BY <1>1, <1>7, <1>8

-----------------------------------------------------------------------------
(* Which form the memory has follows from the script and its phase.           *)
LEMMA FormByPhase ==
    ASSUME ScriptInv
    PROVE  /\ At(script.pc) /\ script.pc \in PhaseNames => Clearing
           /\ At(script.pc) /\ script.pc \in FilePcs => Working
           /\ At("snap") => Mirroring
           /\ script.kind = "structure" => Structuring
           /\ InPhase("extract") => Extracting
           /\ InPhase("reset") => Form("entities", {"reset"}, {"kind", "pc", "opts"})
           /\ InPhase("nodes") \/ InPhase("edges") =>
                Form("entities", {"nodes", "edges"}, {"kind", "pc", "todo"})
BY DEF ScriptInv, Elsewhere, Idle, Clearing, Working, Mirroring, Structuring, Extracting,
       Replaying, Form, At, InPhase, PhaseNames, FilePcs

LEMMA HoldsMore ==
    ASSUME NEW X, NEW Y, X \subseteq Y, NEW d, Holds(X, d)
    PROVE  Holds(Y, d)
BY DEF Holds

(* A step that leaves the corpus, the markers and the snapshot alone and      *)
(* takes nothing out of the stores keeps what they promise.                   *)
StoresKept == /\ corpus' = corpus /\ progress' = progress /\ wiped' = wiped
              /\ rows \subseteq rows' /\ graph.chunks \subseteq graph'.chunks
              /\ snapshot'.chunks = snapshot.chunks

LEMMA BackedKept ==
    ASSUME CorpusInv, StoresBacked, StoresKept
    PROVE  CorpusInv' /\ StoresBacked'
<1>1. \A X, d : Holds(X, d)' <=> Holds(X, d)
  BY DEF Holds, StoresKept
<1>2. \A d : Holds(rows, d) => Holds(rows', d)
  BY HoldsMore DEF StoresKept
<1>3. \A d : Holds(graph.chunks, d) => Holds(graph'.chunks, d)
  BY HoldsMore DEF StoresKept
<1>4. DocsOf(rows) \subseteq DocsOf(rows')
  BY DEF DocsOf, StoresKept
<1>5. \A d : WithoutText(d) => WithoutText(d)'
  BY DEF WithoutText, StoresKept
<1>6. \A d \in progress'.done : Holds(rows, d)'
  BY <1>1, <1>2 DEF StoresBacked, StoresKept
<1>7. ~wiped' => \A d \in progress'.graph_done : Holds(graph.chunks, d)'
  BY <1>1, <1>3 DEF StoresBacked, StoresKept
<1>8. \A d \in DocsOf(snapshot'.chunks) : d \in DocsOf(rows') \/ WithoutText(d)'
  BY <1>4, <1>5 DEF StoresBacked, StoresKept
<1> QED
  BY <1>6, <1>7, <1>8 DEF StoresBacked, CorpusInv, StoresKept

LEMMA OutsideIngest ==
    ASSUME StoresInv, StoresKept, ScriptInv', StoreFields', script'.kind # "ingest"
    PROVE  StoresInv'
<1>1. CorpusInv' /\ StoresBacked' /\ NamesInv'
  BY BackedKept DEF StoresInv, NamesInv, DocsOf, StoresKept
<1>2. PhaseInv' /\ FileInv' /\ MirrorInv'
  BY DEF PhaseInv, FileInv, MirrorInv, Clearing, Working, Mirroring, Form
<1> QED
  BY <1>1, <1>2 DEF StoresInv

LEMMA ExitIsOutside ==
    ASSUME StoresInv, StoresKept, Exit, StoreFields'
    PROVE  StoresInv' /\ Elsewhere'
BY OutsideIngest DEF Exit, Idle, ScriptInv, Elsewhere

-----------------------------------------------------------------------------
(* The structure and the entity scripts.                                      *)
LEMMA StructureKeepsStores ==
    ASSUME StoresInv, StructureStep \/ \E o : StartStructure(o)
    PROVE  StoresInv' /\ Elsewhere'
<1>1. ASSUME NEW o, StartStructure(o) PROVE StoresInv' /\ Elsewhere'
  <2>1. script' = [kind |-> "structure", pc |-> script'.pc,
                   found |-> extract_structure(snapshot.chunks)]
        /\ script'.pc \in {"reset", "clauses"}
    BY <1>1 DEF StartStructure
  <2>2. Structuring'
    BY <2>1 DEF Structuring, Form
  <2> QED
    BY <1>1, <2>2, OutsideIngest
    DEF StartStructure, structureVars, StoresKept, StoresInv, StoreFields, ScriptInv,
        Elsewhere, Structuring, Form
<1>2. CASE StructureStep
  <2>1. Structuring
    BY <1>2, FormByPhase DEF StructureStep, ResetStructure, WriteClauses, WriteCitations,
       WriteDocEdges, StructureUnwritten, Writing, StoresInv
  <2>2. /\ corpus' = corpus /\ progress' = progress /\ wiped' = wiped /\ rows' = rows
        /\ snapshot' = snapshot
    BY <1>2 DEF StructureStep, ResetStructure, WriteClauses, WriteCitations,
       WriteDocEdges, StructureUnwritten, structureVars
  <2>3. /\ graph' = [f \in DOMAIN EmptyGraph |-> graph'[f]]
        /\ graph'.chunks = graph.chunks
    <3>1. graph = [f \in DOMAIN EmptyGraph |-> graph[f]]
      BY DEF StoresInv, StoreFields
    <3>2. CASE ResetStructure
      BY <3>1, <3>2 DEF ResetStructure, reset_structure, EmptyGraph
    <3>3. CASE WriteClauses
      BY <3>1, <3>3 DEF WriteClauses, write_clauses, EmptyGraph
    <3>4. CASE WriteCitations
      BY <3>1, <3>4 DEF WriteCitations, write_citations, EmptyGraph
    <3>5. CASE WriteDocEdges
      BY <3>1, <3>5 DEF WriteDocEdges, write_doc_edges, EmptyGraph
    <3>6. CASE StructureUnwritten
      BY <3>1, <3>6 DEF StructureUnwritten
    <3> QED
      BY <1>2, <3>2, <3>3, <3>4, <3>5, <3>6 DEF StructureStep
  <2>4. Structuring' \/ script' = Idle
    <3>1. CASE \E pc \in {"clauses", "cites", "edges"} : NextPhase(pc)
      BY <2>1, <3>1 DEF NextPhase, Structuring, Form
    <3>2. CASE Exit
      BY <3>2 DEF Exit
    <3> QED
      BY <1>2, <3>1, <3>2 DEF StructureStep, ResetStructure, WriteClauses, WriteCitations,
         WriteDocEdges, StructureUnwritten
  <2>5. ScriptInv' /\ Elsewhere' /\ script'.kind # "ingest"
    BY <2>4 DEF ScriptInv, Elsewhere, Structuring, Form, Idle
  <2>6. StoreFields' /\ StoresKept
    BY <2>2, <2>3 DEF StoreFields, StoresKept, StoresInv
  <2> QED
    BY <2>5, <2>6, OutsideIngest
<1> QED
  BY <1>1, <1>2

ExtractFields == {"kind", "pc", "opts", "pending", "jobs", "failures", "open"}

(* The steps of the extraction keep the shape of its memory. *)
ExtractStep ==
    \E d \in Docs : \/ BeginDocument(d) \/ FallbackFails(d) \/ AnswerUnusable(d) \/ AppendLine(d)
                    \/ \E quota \in BOOLEAN : PrimaryFails(d, quota)
                    \/ \E named \in SUBSET snapshot.chunks : AnswerRead(d, named)

ReplayStep == \/ \E d \in Docs : WriteEntities(d) \/ WriteMentions(d)
              \/ ExtractionOver \/ ResetEntities \/ ReplayOver \/ EntitiesUnwritten

LEMMA SplitEntityStep ==
    ASSUME EntityStep
    PROVE  ExtractStep \/ ReplayStep
BY Zenon DEF EntityStep, ExtractStep, ReplayStep

InForm(s) == /\ s = [f \in ExtractFields |-> s[f]]
             /\ s.kind = "entities" /\ s.pc = "extract"

LEMMA FormIsExtracting == (InForm(script) <=> Extracting) /\ (InForm(script') <=> Extracting')
BY DEF InForm, Extracting, Form, ExtractFields

LEMMA JobInForm ==
    ASSUME NEW s, InForm(s), NEW d, NEW job
    PROVE  InForm(WithJob(s, d, job))
BY DEF InForm, WithJob, ExtractFields

LEMMA ExtractKeepsForm ==
    ASSUME InForm(script), ExtractStep
    PROVE  InForm(script')
<1>1. PICK d \in Docs :
           \/ BeginDocument(d) \/ FallbackFails(d) \/ AnswerUnusable(d) \/ AppendLine(d)
           \/ \E quota \in BOOLEAN : PrimaryFails(d, quota)
           \/ \E named \in SUBSET snapshot.chunks : AnswerRead(d, named)
  BY DEF ExtractStep
<1>2. ASSUME NEW x PROVE InForm([script EXCEPT !.pending = x])
  BY DEF InForm, ExtractFields
<1>3. ASSUME NEW x, NEW y PROVE InForm([script EXCEPT !.failures = x, !.open = y])
  BY DEF InForm, ExtractFields
<1>4. ASSUME NEW x PROVE InForm([script EXCEPT !.failures = x])
  BY DEF InForm, ExtractFields
<1>5. ASSUME NEW x PROVE InForm([script EXCEPT !.jobs = x])
  BY DEF InForm, ExtractFields
<1>6. InForm(Answered(d))
  BY <1>4 DEF Answered
<1>7. CASE BeginDocument(d)
  BY <1>2, <1>7, JobInForm DEF BeginDocument
<1>8. CASE FallbackFails(d)
  BY <1>8, JobInForm DEF FallbackFails
<1>9. CASE AnswerUnusable(d)
  BY <1>6, <1>9, JobInForm DEF AnswerUnusable
<1>10. CASE AppendLine(d)
  BY <1>5, <1>10 DEF AppendLine
<1>11. CASE \E quota \in BOOLEAN : PrimaryFails(d, quota)
  <2>1. PICK quota \in BOOLEAN : PrimaryFails(d, quota)
    BY <1>11
  <2>2. \E s, job : script' = WithJob(s, d, job) /\ InForm(s)
    BY <1>3, <2>1 DEF PrimaryFails
  <2> QED
    BY <2>2, JobInForm
<1>12. CASE \E named \in SUBSET snapshot.chunks : AnswerRead(d, named)
  BY <1>6, <1>12, JobInForm DEF AnswerRead
<1> QED
  BY <1>1, <1>7, <1>8, <1>9, <1>10, <1>11, <1>12

LEMMA ReplayKeepsStores ==
    ASSUME StoresInv, ReplayStep
    PROVE  StoresInv' /\ Elsewhere'
<1>1. Extracting \/ Replaying
  BY FormByPhase
  DEF StoresInv, ReplayStep, WriteEntities, WriteMentions, ExtractionOver, ResetEntities,
      ReplayOver, EntitiesUnwritten, Replaying
<1>2. /\ corpus' = corpus /\ progress' = progress /\ wiped' = wiped /\ rows' = rows
      /\ snapshot' = snapshot
  BY DEF ReplayStep, WriteEntities, WriteMentions, ExtractionOver, ResetEntities,
      ReplayOver, EntitiesUnwritten, entityVars
<1>3. /\ graph' = [f \in DOMAIN EmptyGraph |-> graph'[f]]
      /\ graph'.chunks = graph.chunks
  <2>1. graph = [f \in DOMAIN EmptyGraph |-> graph[f]]
    BY DEF StoresInv, StoreFields
  <2>2. CASE graph' = graph
    BY <2>1, <2>2
  <2>3. CASE graph' = reset_entities(graph)
    BY <2>1, <2>3 DEF reset_entities, EmptyGraph
  <2>4. ASSUME NEW found, graph' = merge_entities(graph, found)
        PROVE  /\ graph' = [f \in DOMAIN EmptyGraph |-> graph'[f]]
               /\ graph'.chunks = graph.chunks
    BY <2>1, <2>4 DEF merge_entities, EmptyGraph
  <2>5. ASSUME NEW found, graph' = merge_mentions(graph, found)
        PROVE  /\ graph' = [f \in DOMAIN EmptyGraph |-> graph'[f]]
               /\ graph'.chunks = graph.chunks
    BY <2>1, <2>5 DEF merge_mentions, EmptyGraph
  <2> QED
    BY <2>2, <2>3, <2>4, <2>5
    DEF ReplayStep, WriteEntities, WriteMentions, ExtractionOver, ResetEntities,
        ReplayOver, EntitiesUnwritten
<1>4. Elsewhere' /\ script'.kind # "ingest"
  <2>1. CASE Exit
    BY <2>1 DEF Exit, Elsewhere, Idle
  <2>2. CASE script' = [kind |-> "entities", pc |-> "reset", opts |-> script.opts]
    BY <2>2 DEF Elsewhere, Replaying, Form
  <2>3. CASE script' = [kind |-> "entities", pc |-> "nodes", todo |-> Replayed]
    BY <2>3 DEF Elsewhere, Replaying, Form
  <2>4. ASSUME NEW d, WriteEntities(d) \/ WriteMentions(d)
        PROVE  Elsewhere' /\ script'.kind # "ingest"
    <3>1. Form("entities", {"nodes", "edges"}, {"kind", "pc", "todo"})
      BY <2>4, FormByPhase DEF WriteEntities, WriteMentions, StoresInv
    <3>2. Form("entities", {"nodes", "edges"}, {"kind", "pc", "todo"})'
      BY <2>4, <3>1 DEF WriteEntities, WriteMentions, Form
    <3> QED
      BY <3>2 DEF Elsewhere, Replaying, Form
  <2> QED
    BY <2>1, <2>2, <2>3, <2>4
    DEF ReplayStep, ExtractionOver, ResetEntities, ReplayOver, EntitiesUnwritten
<1>5. StoresKept /\ StoreFields'
  BY <1>2, <1>3 DEF StoresKept, StoresInv, StoreFields
<1> QED
  BY <1>4, <1>5, OutsideIngest DEF ScriptInv

LEMMA EntitiesKeepStores ==
    ASSUME StoresInv, EntityStep \/ \E o : StartEntities(o)
    PROVE  StoresInv'
<1>1. ASSUME NEW o, StartEntities(o) PROVE StoresInv'
  <2>1. InForm(script')
    BY <1>1 DEF StartEntities, InForm, ExtractFields
  <2>2. ScriptInv' /\ script'.kind # "ingest"
    BY <2>1, FormIsExtracting DEF ScriptInv, InForm
  <2> QED
    BY <1>1, <2>2, OutsideIngest
    DEF StartEntities, entityVars, StoresKept, StoresInv, StoreFields
<1>2. CASE ExtractStep
  <2>1. InForm(script)
    BY <1>2, FormByPhase, FormIsExtracting
    DEF StoresInv, ExtractStep, BeginDocument, FallbackFails, AnswerUnusable, AppendLine,
        PrimaryFails, AnswerRead, Calling
  <2>2. ScriptInv' /\ script'.kind # "ingest"
    BY <1>2, <2>1, ExtractKeepsForm, FormIsExtracting DEF ScriptInv, InForm
  <2>3. /\ corpus' = corpus /\ progress' = progress /\ wiped' = wiped /\ rows' = rows
        /\ snapshot' = snapshot /\ graph' = graph
    BY <1>2
    DEF ExtractStep, BeginDocument, FallbackFails, AnswerUnusable, AppendLine, PrimaryFails,
        AnswerRead, entityVars
  <2>4. StoresKept /\ StoreFields'
    BY <2>3 DEF StoresKept, StoresInv, StoreFields
  <2> QED
    BY <2>2, <2>4, OutsideIngest
<1>3. CASE ReplayStep
  BY <1>3, ReplayKeepsStores
<1> QED
  BY <1>1, <1>2, <1>3, SplitEntityStep

-----------------------------------------------------------------------------
(* An edit and a crash. *)
LEMMA EditKeepsStores ==
    ASSUME StoresInv, NEW d \in Docs, Edit(d)
    PROVE  StoresInv'
<1>1. /\ UNCHANGED <<progress, snapshot, ledger, rows, graph, script, wiped>>
      /\ corpus' = [corpus EXCEPT ![d] = @ + 1] /\ corpus \in [Docs -> Nat \ {0}]
      /\ corpus[d] < Len(Editions[d]) /\ Len(Editions[d]) \in Nat
      /\ \A e \in Docs : corpus[e] <= Len(Editions[e])
  <2>1. Editions[d] \in Seq(Seq(Statements))
    BY CorpusAssumption DEF Docs
  <2> QED
    BY <2>1 DEF Edit, StoresInv, CorpusInv
<1>2. corpus' \in [Docs -> Nat \ {0}] /\ \A e \in Docs : corpus[e] <= corpus'[e]
  BY <1>1
<1>3. \A e \in Docs : 1..corpus[e] \subseteq 1..corpus'[e]
  BY <1>1, <1>2
<1>4. \A X : \A e \in Docs : Holds(X, e) => Holds(X, e)'
  BY <1>3 DEF Holds
<1>c. CorpusInv'
  BY <1>1, <1>2 DEF CorpusInv
<1>5. CorpusInv' /\ ScriptInv' /\ StoreFields' /\ PhaseInv' /\ NamesInv'
  BY <1>1, <1>2, <1>c
  DEF StoresInv, ScriptInv, Elsewhere, StoreFields, PhaseInv, Clearing, Working, Mirroring,
      Structuring, Extracting, Replaying, Form, NamesInv, DocsOf
<1>6. \A X, S : S \subseteq Docs /\ Backed(X, S) => Backed(X, S)'
  BY <1>4 DEF Backed
<1>7. MirrorInv'
  <2>1. MirrorInv /\ script' = script /\ rows' = rows
    BY <1>1 DEF StoresInv
  <2>2. Mirroring' <=> Mirroring
    BY <2>1 DEF Mirroring, Form
  <2> QED
    BY <1>6, <2>1, <2>2 DEF MirrorInv
<1>8. FileInv'
  <2>1. FileInv /\ script' = script /\ rows' = rows /\ graph' = graph /\ wiped' = wiped
    BY <1>1 DEF StoresInv
  <2>2. Working' <=> Working
    BY <2>1 DEF Working, Form
  <2>3. SUFFICES ASSUME Working
                 PROVE  /\ script.doc \in Docs /\ script.done \subseteq Docs
                        /\ script.graph_done \subseteq Docs
                        /\ Backed(rows, script.done)'
                        /\ ~wiped => Backed(graph.chunks, script.graph_done)'
                        /\ script.pc = "index" =>
                             \E v \in 1..corpus'[script.doc] :
                               script.chunks = chunk_document(script.doc, v)
                        /\ script.pc = "graph_file" =>
                             \E v \in 1..corpus'[script.doc] :
                               chunk_document(script.doc, v) \subseteq script.chunks \cup graph.chunks
    BY <2>1, <2>2 DEF FileInv
  <2>4. script.doc \in Docs /\ script.done \subseteq Docs /\ script.graph_done \subseteq Docs
    BY <2>1, <2>3 DEF FileInv
  <2>5. Backed(rows, script.done)' /\ (~wiped => Backed(graph.chunks, script.graph_done)')
    BY <1>6, <2>1, <2>3, <2>4 DEF FileInv
  <2>6. 1..corpus[script.doc] \subseteq 1..corpus'[script.doc]
    BY <1>3, <2>4
  <2> QED
    BY <2>1, <2>3, <2>4, <2>5, <2>6 DEF FileInv
<1>9. StoresBacked'
  <2>1. StoresBacked /\ NamesInv
    BY DEF StoresInv
  <2>2. \A d2 \in progress'.done : Holds(rows, d2)'
    BY <1>1, <1>4, <2>1 DEF StoresBacked, NamesInv
  <2>3. ~wiped' => \A d2 \in progress'.graph_done : Holds(graph.chunks, d2)'
    BY <1>1, <1>4, <2>1 DEF StoresBacked, NamesInv
  <2>4. \A e \in Docs : WithoutText(e) => WithoutText(e)'
    BY <1>3 DEF WithoutText
  <2>5. \A e \in DocsOf(snapshot'.chunks) : e \in DocsOf(rows') \/ WithoutText(e)'
    BY <1>1, <2>1, <2>4 DEF StoresBacked, NamesInv, DocsOf
  <2> QED
    BY <2>2, <2>3, <2>5 DEF StoresBacked
<1> QED
  BY <1>5, <1>7, <1>8, <1>9 DEF StoresInv

LEMMA CrashKeepsStores ==
    ASSUME StoresInv, NEW torn, Crash(torn)
    PROVE  StoresInv' /\ Elsewhere'
<1>1. StoresKept /\ StoreFields' /\ Exit
  BY DEF Crash, StoresKept, StoresInv, StoreFields
<1> QED
  BY <1>1, ExitIsOutside
-----------------------------------------------------------------------------
(* The ingest script. *)
LEMMA FormsExclude ==
    /\ Clearing => ~Working /\ ~Mirroring
    /\ Working => ~Mirroring
    /\ Clearing' => ~Working' /\ ~Mirroring'
    /\ Working' => ~Clearing' /\ ~Mirroring'
    /\ Mirroring' => ~Clearing' /\ ~Working'
BY DEF Clearing, Working, Mirroring, Form, PhaseNames, FilePcs

StartFacts(o) == /\ UNCHANGED <<corpus, ledger, wiped, progress, snapshot, rows, graph>>
                 /\ script' = [kind |-> "ingest", pc |-> Head(PhasesOf(o)), opts |-> o,
                               phases |-> PhasesOf(o)]

LEMMA StartKeepsStores ==
    ASSUME StoresInv, NEW o, StartIngest(o)
    PROVE  StoresInv' /\ Elsewhere'
<1>1. StartFacts(o)
  BY DEF StartIngest, StartFacts, ingestVars
<1>2. Ordered(PhasesOf(o)) /\ Head(PhasesOf(o)) \in PhaseNames \ {"snapshot", "rows"}
  BY PhasesOrdered
<1>3. /\ Clearing' /\ script'.phases = PhasesOf(o) /\ script'.pc = Head(PhasesOf(o))
  BY <1>1, <1>2 DEF StartFacts, Clearing, Form
<1>4. PhaseInv' /\ FileInv' /\ MirrorInv'
  BY <1>2, <1>3, FormsExclude DEF PhaseInv, FileInv, MirrorInv
<1>5. StoresKept
  BY <1>1 DEF StartFacts, StoresKept
<1>6. CorpusInv' /\ StoresBacked' /\ NamesInv' /\ StoreFields'
  BY <1>1, <1>5, BackedKept DEF StoresInv, StartFacts, NamesInv, StoreFields, DocsOf
<1> QED
  BY <1>3, <1>4, <1>6 DEF StoresInv, ScriptInv, Elsewhere

LEMMA PhaseDoneStep ==
    ASSUME StoresInv, At(script.pc), script.pc \in PhaseNames \ {"load"}, PhaseDone
    PROVE  /\ Clearing'
           /\ Ordered(script'.phases) /\ script'.pc = Head(script'.phases)
           /\ script'.pc = "snapshot" => script.pc = "marker"
           /\ script'.pc = "rows" => script.pc = "snapshot"
<1>1. Clearing /\ PhaseInv
  BY FormByPhase DEF StoresInv
<1>2. Ordered(script.phases) /\ script.pc = Head(script.phases)
  BY <1>1 DEF PhaseInv
<1> DEFINE rest == Tail(script.phases)
<1>3. /\ Ordered(rest) /\ Head(rest) \in PhaseNames
      /\ Head(rest) = "snapshot" => script.pc = "marker"
      /\ Head(rest) = "rows" => script.pc = "snapshot"
  BY <1>2, OrderedTail
<1>4. script' = [script EXCEPT !.phases = rest, !.pc = Head(rest)]
  BY DEF PhaseDone
<1> HIDE DEF rest
<1>5. Clearing' /\ script'.phases = rest /\ script'.pc = Head(rest)
  BY <1>1, <1>3, <1>4 DEF Clearing, Form
<1> QED
  BY <1>3, <1>5

LEMMA ClearingKeepsStores ==
    ASSUME StoresInv,
           ClearMarker \/ ClearSnapshot \/ DropRows \/ ResetGraph \/ ClearGraphMarker
    PROVE  StoresInv' /\ Elsewhere'
<1>1. /\ At(script.pc) /\ script.pc \in PhaseNames \ {"load"} /\ PhaseDone
  BY DEF ClearMarker, ClearSnapshot, DropRows, ResetGraph, ClearGraphMarker, At, PhaseNames
<1>2. /\ Clearing'
      /\ Ordered(script'.phases) /\ script'.pc = Head(script'.phases)
      /\ script'.pc = "snapshot" => script.pc = "marker"
      /\ script'.pc = "rows" => script.pc = "snapshot"
  BY <1>1, PhaseDoneStep
<1>3. Clearing /\ PhaseInv /\ CorpusInv /\ NamesInv /\ StoreFields /\ StoresBacked
  BY <1>1, FormByPhase DEF StoresInv
<1>4. SUFFICES /\ script'.pc = "snapshot" => progress'.done = {}
               /\ script'.pc = "rows" => progress'.done = {} /\ snapshot'.chunks = {}
               /\ CorpusInv' /\ NamesInv' /\ StoreFields' /\ StoresBacked'
  BY <1>2, FormsExclude
  DEF StoresInv, PhaseInv, FileInv, MirrorInv, ScriptInv, Elsewhere
<1>5. CASE ClearMarker
  <2>1. /\ progress' = [done |-> {}, graph_done |-> {}] /\ script.pc = "marker"
        /\ UNCHANGED <<corpus, snapshot, rows, graph>>
    BY <1>5 DEF ClearMarker, At
  <2> QED
    BY <1>2, <1>3, <2>1 DEF CorpusInv, NamesInv, StoreFields, StoresBacked, DocsOf, WithoutText
<1>6. CASE ClearSnapshot
  <2>1. /\ snapshot' = [there |-> FALSE, torn |-> FALSE, chunks |-> {}]
        /\ script.pc = "snapshot" /\ UNCHANGED <<corpus, wiped, progress, rows, graph>>
    BY <1>6 DEF ClearSnapshot, ingestVars, At
  <2>2. progress.done = {} /\ \A X, d : Holds(X, d)' <=> Holds(X, d)
    BY <1>3, <2>1 DEF PhaseInv, Holds
  <2> QED
    BY <1>2, <1>3, <2>1, <2>2 DEF CorpusInv, NamesInv, StoreFields, StoresBacked, DocsOf
<1>7. CASE DropRows
  <2>1. /\ rows' = {} /\ script.pc = "rows"
        /\ UNCHANGED <<corpus, wiped, progress, snapshot, graph>>
    BY <1>7 DEF DropRows, ingestVars, At
  <2>2. /\ progress.done = {} /\ snapshot.chunks = {}
        /\ \A X, d : Holds(X, d)' <=> Holds(X, d)
    BY <1>3, <2>1 DEF PhaseInv, Holds
  <2> QED
    BY <1>2, <1>3, <2>1, <2>2 DEF CorpusInv, NamesInv, StoreFields, StoresBacked, DocsOf
<1>8. CASE ResetGraph
  <2>1. /\ graph' = EmptyGraph /\ wiped' = TRUE /\ script.pc = "graph"
        /\ UNCHANGED <<corpus, progress, snapshot, rows>>
    BY <1>8 DEF ResetGraph, At
  <2>2. \A X, d : Holds(X, d)' <=> Holds(X, d)
    BY <2>1 DEF Holds
  <2>3. graph' = [f \in DOMAIN EmptyGraph |-> graph'[f]]
    BY <2>1 DEF EmptyGraph
  <2> QED
    BY <1>2, <1>3, <2>1, <2>2, <2>3
    DEF CorpusInv, NamesInv, StoreFields, StoresBacked, DocsOf, WithoutText
<1>9. CASE ClearGraphMarker
  <2>1. /\ progress' = [progress EXCEPT !.graph_done = {}] /\ script.pc = "graph_marker"
        /\ UNCHANGED <<corpus, snapshot, rows, graph>>
    BY <1>9 DEF ClearGraphMarker, At
  <2>2. \A X, d : Holds(X, d)' <=> Holds(X, d)
    BY <2>1 DEF Holds
  <2>3. /\ progress'.done = progress.done /\ progress'.graph_done = {}
        /\ progress' = [f \in {"done", "graph_done"} |-> progress'[f]]
    BY <1>3, <2>1 DEF StoreFields
  <2> QED
    BY <1>2, <1>3, <2>1, <2>2, <2>3
    DEF CorpusInv, NamesInv, StoreFields, StoresBacked, DocsOf, WithoutText
<1> QED
  BY <1>5, <1>6, <1>7, <1>8, <1>9

-----------------------------------------------------------------------------
(* The files. *)
WorkFields == {"kind", "pc", "opts", "doc", "chunks", "done", "graph_done", "since"}

InFiles(s) == /\ s = [f \in WorkFields |-> s[f]]
              /\ s.kind = "ingest" /\ s.pc \in FilePcs

LEMMA InFilesIsWorking == (InFiles(script) <=> Working) /\ (InFiles(script') <=> Working')
BY DEF InFiles, Working, Form, WorkFields

(* What the memory of the file loop promises, of any memory s over the corpus *)
(* as it is, any rows and any graph.                                          *)
LoopOK(s, table, nodes, cleared) ==
    /\ InFiles(s)
    /\ s.doc \in Docs /\ s.done \subseteq Docs /\ s.graph_done \subseteq Docs
    /\ Backed(table, s.done)
    /\ ~cleared => Backed(nodes, s.graph_done)
    /\ s.pc = "index" => \E v \in 1..corpus[s.doc] : s.chunks = chunk_document(s.doc, v)
    /\ s.pc = "graph_file" =>
         \E v \in 1..corpus[s.doc] : chunk_document(s.doc, v) \subseteq s.chunks \cup nodes

LEMMA LoopIsFileInv ==
    ASSUME StoresInv, Working
    PROVE  LoopOK(script, rows, graph.chunks, wiped)
BY InFilesIsWorking DEF StoresInv, FileInv, LoopOK

LEMMA LoopKept ==
    ASSUME corpus' = corpus, LoopOK(script', rows', graph'.chunks, wiped'),
           CorpusInv', NamesInv', StoreFields', StoresBacked'
    PROVE  StoresInv' /\ Elsewhere'
<1>1. Working'
  BY InFilesIsWorking DEF LoopOK
<1>2. \A X, d : Holds(X, d)' <=> Holds(X, d)
  BY DEF Holds
<1>3. \A X, S : Backed(X, S) => Backed(X, S)'
  BY <1>2 DEF Backed
<1>4. FileInv'
  BY <1>3 DEF FileInv, LoopOK
<1> QED
  BY <1>1, <1>4, FormsExclude DEF StoresInv, ScriptInv, Elsewhere, PhaseInv, MirrorInv

(* The marker holds what the loop holds. *)
LEMMA PersistBacked ==
    ASSUME StoresInv, Working, persist, snapshot'.chunks \subseteq snapshot.chunks,
           UNCHANGED <<corpus, wiped, rows, graph>>
    PROVE  CorpusInv' /\ NamesInv' /\ StoresBacked'
<1>1. LoopOK(script, rows, graph.chunks, wiped)
  BY LoopIsFileInv
<1>2. \A X, d : Holds(X, d)' <=> Holds(X, d)
  BY DEF Holds
<1>3. progress'.done = script.done /\ progress'.graph_done = script.graph_done
  BY DEF persist
<1>4. DocsOf(snapshot'.chunks) \subseteq DocsOf(snapshot.chunks)
  BY DEF DocsOf
<1>5. \A d : WithoutText(d) => WithoutText(d)'
  BY DEF WithoutText
<1>6. \A d \in progress'.done : Holds(rows, d)'
  BY <1>1, <1>2, <1>3 DEF LoopOK, Backed
<1>7. ~wiped' => \A d \in progress'.graph_done : Holds(graph.chunks, d)'
  BY <1>1, <1>2, <1>3 DEF LoopOK, Backed
<1>8. \A d \in DocsOf(snapshot'.chunks) : d \in DocsOf(rows') \/ WithoutText(d)'
  BY <1>4, <1>5 DEF StoresInv, StoresBacked, DocsOf
<1>9. CorpusInv' /\ NamesInv'
  BY <1>1, <1>3, <1>4 DEF StoresInv, CorpusInv, NamesInv, LoopOK
<1> QED
  BY <1>6, <1>7, <1>8, <1>9 DEF StoresBacked

LEMMA NextFile ==
    ASSUME StoresInv, Working
    PROVE  /\ LoopOK(Next1, rows, graph.chunks, wiped)
           /\ \A n : LoopOK([Next1 EXCEPT !.since = n], rows, graph.chunks, wiped)
<1>1. LoopOK(script, rows, graph.chunks, wiped)
  BY LoopIsFileInv
<1>2. Docs = 1..Len(Editions) /\ Len(Editions) \in Nat /\ Len(Editions) # 0
  BY CorpusAssumption DEF Docs
<1> DEFINE last == Here = Len(Editions)
           pc == IF last THEN "finish" ELSE "file"
           doc == IF last THEN 1 ELSE Here + 1
<1>3. pc \in {"file", "finish"} /\ doc \in Docs
  BY <1>1, <1>2 DEF LoopOK, Here
<1>4. Next1 = [script EXCEPT !.pc = pc, !.doc = doc, !.chunks = {}]
  BY DEF Next1
<1> HIDE DEF pc, doc
<1>5. /\ InFiles(Next1) /\ Next1.pc = pc /\ Next1.doc = doc /\ Next1.done = script.done
      /\ Next1.graph_done = script.graph_done
  BY <1>1, <1>3, <1>4 DEF LoopOK, InFiles, WorkFields, FilePcs
<1>6. LoopOK(Next1, rows, graph.chunks, wiped)
  BY <1>1, <1>3, <1>5 DEF LoopOK
<1>7. ASSUME NEW n PROVE LoopOK([Next1 EXCEPT !.since = n], rows, graph.chunks, wiped)
  <2> DEFINE s == [Next1 EXCEPT !.since = n]
  <2>1. /\ InFiles(s) /\ s.pc = pc /\ s.doc = doc /\ s.done = script.done
        /\ s.graph_done = script.graph_done
    BY <1>5 DEF InFiles, WorkFields
  <2> HIDE DEF s
  <2>2. LoopOK(s, rows, graph.chunks, wiped)
    BY <1>1, <1>3, <2>1 DEF LoopOK
  <2> QED
    BY <2>2 DEF s
<1> QED
  BY <1>6, <1>7

LEMMA FileStepsKeepStores ==
    ASSUME StoresInv,
           \/ Load \/ SkipFile \/ ParseFile \/ FileFails \/ IndexFile
           \/ GraphChunk \/ GraphFails \/ CountFile
    PROVE  StoresInv' /\ Elsewhere'
<1>1. corpus' = corpus /\ wiped' = wiped
  BY DEF Load, SkipFile, ParseFile, FileFails, IndexFile, GraphChunk, GraphFails, CountFile,
         ingestVars
<1>2. \A X, d : Holds(X, d)' <=> Holds(X, d)
  BY <1>1 DEF Holds
<1>3. CASE Load
  <2>1. /\ script' = [kind |-> "ingest", pc |-> "file", opts |-> script.opts, doc |-> 1,
                      chunks |-> {}, done |-> progress.done,
                      graph_done |-> progress.graph_done, since |-> 0]
        /\ UNCHANGED <<progress, snapshot, rows, graph>>
    BY <1>3 DEF Load
  <2>2. 1 \in Docs
    BY CorpusAssumption DEF Docs
  <2>3. LoopOK(script', rows', graph'.chunks, wiped')
    BY <1>1, <2>1, <2>2
    DEF LoopOK, InFiles, WorkFields, FilePcs, StoresInv, NamesInv, StoresBacked, Backed
  <2>4. StoresKept
    BY <1>1, <2>1 DEF StoresKept
  <2>5. CorpusInv' /\ NamesInv' /\ StoreFields' /\ StoresBacked'
    BY <1>1, <2>1, <2>4, BackedKept DEF StoresInv, NamesInv, StoreFields, DocsOf
  <2> QED
    BY <1>1, <2>3, <2>5, LoopKept
<1>4. CASE CountFile
  <2>1. /\ Working /\ UNCHANGED <<snapshot, rows, graph>>
        /\ progress' = progress \/ persist
        /\ \E n : script' = [Next1 EXCEPT !.since = n]
    BY <1>4, FormByPhase DEF CountFile, StoresInv, At, FilePcs
  <2>2. LoopOK(script', rows', graph'.chunks, wiped')
    BY <1>1, <2>1, NextFile
  <2>3. CorpusInv' /\ NamesInv' /\ StoresBacked'
    <3>1. CASE persist
      BY <1>1, <2>1, <3>1, PersistBacked
    <3>2. CASE progress' = progress
      <4>1. StoresKept
        BY <1>1, <2>1, <3>2 DEF StoresKept
      <4> QED
        BY <2>1, <3>2, <4>1, BackedKept DEF StoresInv, NamesInv, DocsOf
    <3> QED
      BY <2>1, <3>1, <3>2
  <2>4. StoreFields'
    BY <2>1 DEF persist, StoreFields, StoresInv
  <2> QED
    BY <1>1, <2>2, <2>3, <2>4, LoopKept
<1>5. CASE SkipFile \/ ParseFile \/ FileFails \/ IndexFile \/ GraphChunk \/ GraphFails
  <2>1. Working /\ progress' = progress /\ snapshot' = snapshot
    BY <1>5, FormByPhase
    DEF SkipFile, ParseFile, FileFails, IndexFile, GraphChunk, GraphFails, StoresInv, At,
        FilePcs
  <2>2. LoopOK(script, rows, graph.chunks, wiped) /\ LoopOK(Next1, rows, graph.chunks, wiped)
    BY <2>1, LoopIsFileInv, NextFile
  <2>3. corpus \in [Docs -> Nat \ {0}] /\ graph = [f \in DOMAIN EmptyGraph |-> graph[f]]
    BY DEF StoresInv, CorpusInv, StoreFields
  <2>4. SUFFICES /\ LoopOK(script', rows', graph'.chunks, wiped)
                 /\ rows \subseteq rows' /\ graph.chunks \subseteq graph'.chunks
                 /\ graph' = [f \in DOMAIN EmptyGraph |-> graph'[f]]
    <3>1. ASSUME rows \subseteq rows', graph.chunks \subseteq graph'.chunks
          PROVE  StoresKept
      BY <1>1, <2>1, <3>1 DEF StoresKept
    <3>2. ASSUME StoresKept, graph' = [f \in DOMAIN EmptyGraph |-> graph'[f]]
          PROVE  CorpusInv' /\ NamesInv' /\ StoreFields' /\ StoresBacked'
      BY <2>1, <3>2, BackedKept DEF StoresInv, NamesInv, StoreFields, DocsOf
    <3> QED
      BY <1>1, <3>1, <3>2, LoopKept
  <2>5. CASE SkipFile \/ FileFails
    BY <2>2, <2>3, <2>5 DEF SkipFile, FileFails
  <2>6. CASE ParseFile
    <3> DEFINE chunks == chunk_document(Here, corpus[Here])
    <3>1. PICK pc \in {"index", "graph_file", "count"} :
              script' = [script EXCEPT !.chunks = chunks, !.pc = pc]
      BY <2>6 DEF ParseFile, GraphNext
    <3>2. corpus[Here] \in 1..corpus[Here]
      BY <2>2, <2>3 DEF LoopOK, Here
    <3> HIDE DEF chunks
    <3>3. /\ InFiles(script') /\ script'.pc = pc /\ script'.chunks = chunks
          /\ script'.doc = script.doc /\ script'.done = script.done
          /\ script'.graph_done = script.graph_done
      BY <2>2, <3>1 DEF LoopOK, InFiles, WorkFields, FilePcs
    <3>4. LoopOK(script', rows, graph.chunks, wiped)
      BY <2>2, <3>2, <3>3 DEF LoopOK, Here, chunks
    <3> QED
      BY <2>3, <2>6, <3>4 DEF ParseFile
  <2>7. CASE IndexFile
    <3>1. PICK pc \in {"graph_file", "count"} :
              script' = [script EXCEPT !.done = @ \cup {Here}, !.pc = pc]
      BY <2>7 DEF IndexFile, GraphNext
    <3>2. /\ InFiles(script') /\ script'.pc = pc /\ script'.chunks = script.chunks
          /\ script'.doc = script.doc /\ script'.done = script.done \cup {script.doc}
          /\ script'.graph_done = script.graph_done
      BY <2>2, <3>1 DEF LoopOK, InFiles, WorkFields, FilePcs, Here
    <3>3. /\ rows' = rows \cup script.chunks /\ graph' = graph
          /\ \E v \in 1..corpus[script.doc] : script.chunks = chunk_document(script.doc, v)
      BY <2>2, <2>7 DEF IndexFile, upsert_chunks, LoopOK, At
    <3>4. Holds(rows', script.doc)
      BY <3>3 DEF Holds
    <3>5. Backed(rows', script'.done)
      BY <2>2, <3>2, <3>3, <3>4, HoldsMore DEF Backed, LoopOK
    <3>6. LoopOK(script', rows', graph.chunks, wiped)
      BY <2>2, <3>2, <3>3, <3>5 DEF LoopOK
    <3> QED
      BY <2>3, <3>3, <3>6
  <2>8. CASE GraphChunk
    <3>1. PICK c \in script.chunks :
            /\ graph' = write_doc_chunk(graph, c)
            /\ script' = IF script.chunks = {c}
                         THEN [script EXCEPT !.chunks = {}, !.pc = "count",
                                             !.graph_done = @ \cup {Here}]
                         ELSE [script EXCEPT !.chunks = @ \ {c}]
      BY <2>8 DEF GraphChunk
    <3>2. /\ graph'.chunks = graph.chunks \cup {c} /\ rows' = rows
          /\ graph' = [f \in DOMAIN EmptyGraph |-> graph'[f]]
      BY <2>3, <2>8, <3>1 DEF GraphChunk, write_doc_chunk, EmptyGraph
    <3>3. PICK v \in 1..corpus[script.doc] :
            chunk_document(script.doc, v) \subseteq script.chunks \cup graph.chunks
      BY <2>2, <2>8 DEF GraphChunk, At, LoopOK
    <3>4. ~wiped => Backed(graph'.chunks, script.graph_done)
      BY <2>2, <3>2, HoldsMore DEF LoopOK, Backed
    <3>5. CASE script.chunks = {c}
      <4>1. script' = [script EXCEPT !.chunks = {}, !.pc = "count", !.graph_done = @ \cup {Here}]
        BY <3>1, <3>5
      <4>2. /\ InFiles(script') /\ script'.pc = "count"
            /\ script'.doc = script.doc /\ script'.done = script.done
            /\ script'.graph_done = script.graph_done \cup {script.doc}
        BY <2>2, <4>1 DEF LoopOK, InFiles, WorkFields, FilePcs, Here
      <4>3. Holds(graph'.chunks, script.doc)
        BY <3>2, <3>3, <3>5 DEF Holds
      <4>4. LoopOK(script', rows, graph'.chunks, wiped)
        BY <2>2, <3>4, <4>2, <4>3 DEF LoopOK, Backed
      <4> QED
        BY <3>2, <4>4
    <3>6. CASE script.chunks # {c}
      <4>1. script' = [script EXCEPT !.chunks = @ \ {c}]
        BY <3>1, <3>6
      <4>2. /\ InFiles(script') /\ script'.pc = script.pc
            /\ script'.chunks = script.chunks \ {c}
            /\ script'.doc = script.doc /\ script'.done = script.done
            /\ script'.graph_done = script.graph_done
        BY <2>2, <4>1 DEF LoopOK, InFiles, WorkFields
      <4>3. chunk_document(script.doc, v) \subseteq script'.chunks \cup graph'.chunks
        BY <3>2, <3>3, <4>2
      <4>4. LoopOK(script', rows, graph'.chunks, wiped)
        BY <2>2, <2>8, <3>4, <4>2, <4>3 DEF LoopOK, GraphChunk, At
      <4> QED
        BY <3>2, <4>4
    <3> QED
      BY <3>5, <3>6
  <2>9. CASE GraphFails
    <3>1. script' = [script EXCEPT !.chunks = {}, !.pc = "count"] /\ rows' = rows /\ graph' = graph
      BY <2>9 DEF GraphFails
    <3>2. /\ InFiles(script') /\ script'.pc = "count" /\ script'.doc = script.doc
          /\ script'.done = script.done /\ script'.graph_done = script.graph_done
      BY <2>2, <3>1 DEF LoopOK, InFiles, WorkFields, FilePcs
    <3>3. LoopOK(script', rows, graph.chunks, wiped)
      BY <2>2, <3>2 DEF LoopOK
    <3> QED
      BY <2>3, <3>1, <3>3
  <2> QED
    BY <1>5, <2>5, <2>6, <2>7, <2>8, <2>9
<1> QED
  BY <1>3, <1>4, <1>5

(* Once marked done, a file is searched by both legs: its rows are there, or  *)
(* it was without text when they should have been written.                    *)
LEMMA HeldIsSearched ==
    ASSUME CorpusInv, NEW d \in Docs, Holds(rows, d)
    PROVE  d \in DocsOf(rows) \/ WithoutText(d)
<1>1. PICK v \in 1..corpus[d] : chunk_document(d, v) \subseteq rows
  BY DEF Holds
<1>2. /\ Editions[d] \in Seq(Seq(Statements)) /\ corpus[d] \in Nat
      /\ corpus[d] <= Len(Editions[d])
  BY CorpusAssumption DEF Docs, CorpusInv
<1>3. Editions[d][v] \in Seq(Statements)
  BY <1>2
<1>4. CASE Editions[d][v] = <<>>
  BY <1>4 DEF WithoutText
<1>5. CASE Editions[d][v] # <<>>
  <2>1. 1 \in DOMAIN Editions[d][v]
    BY <1>3, <1>5
  <2>2. [doc |-> d, index |-> 1, text |-> Editions[d][v][1]] \in rows
    BY <1>1, <2>1 DEF chunk_document
  <2> QED
    BY <2>2 DEF DocsOf
<1> QED
  BY <1>4, <1>5

LEMMA EndKeepsStores ==
    ASSUME StoresInv,
           StoreUnavailable \/ Interrupt \/ Finish \/ SnapFile \/ LinkDocuments
    PROVE  StoresInv' /\ Elsewhere'
<1>1. corpus' = corpus /\ wiped' = wiped /\ rows' = rows
  BY DEF StoreUnavailable, Interrupt, Finish, SnapFile, LinkDocuments, ingestVars
<1>2. CASE StoreUnavailable
  <2>1. StoresKept /\ StoreFields' /\ Exit
    BY <1>2 DEF StoreUnavailable, ingestVars, StoresKept, StoresInv, StoreFields
  <2> QED
    BY <2>1, ExitIsOutside
<1>3. CASE LinkDocuments
  <2>1. Exit /\ UNCHANGED <<progress, snapshot>>
        /\ \/ graph' = graph
           \/ \E order : graph' = link_sequence(graph, order)
    BY <1>3 DEF LinkDocuments
  <2>2. graph = [f \in DOMAIN EmptyGraph |-> graph[f]]
    BY DEF StoresInv, StoreFields
  <2>3. graph' = [f \in DOMAIN EmptyGraph |-> graph'[f]] /\ graph'.chunks = graph.chunks
    BY <2>1, <2>2 DEF link_sequence, EmptyGraph
  <2>4. StoresKept /\ StoreFields'
    BY <1>1, <2>1, <2>3 DEF StoresKept, StoresInv, StoreFields
  <2> QED
    BY <2>1, <2>4, ExitIsOutside
<1>4. CASE Interrupt
  <2>1. Working /\ persist /\ Exit /\ UNCHANGED <<snapshot, graph>>
    BY <1>4, FormByPhase DEF Interrupt, StoresInv, At, FilePcs
  <2>2. CorpusInv' /\ NamesInv' /\ StoresBacked'
    BY <1>1, <2>1, PersistBacked
  <2>3. StoreFields'
    BY <2>1 DEF persist, StoreFields, StoresInv
  <2>4. Elsewhere' /\ ScriptInv' /\ PhaseInv' /\ FileInv' /\ MirrorInv'
    BY <2>1 DEF Exit, Idle, ScriptInv, Elsewhere, PhaseInv, FileInv, MirrorInv, Clearing,
                Working, Mirroring, Form
  <2> QED
    BY <2>2, <2>3, <2>4 DEF StoresInv
<1>5. CASE Finish
  <2>1. /\ Working /\ persist /\ graph' = graph
        /\ snapshot' = [there |-> TRUE, torn |-> FALSE, chunks |-> {}]
        /\ script' = [kind |-> "ingest", pc |-> "snap", opts |-> script.opts,
                      files |-> script.done, graphed |-> script.graph_done, linked |-> <<>>]
    BY <1>5, FormByPhase DEF Finish, StoresInv, At, FilePcs
  <2>2. CorpusInv' /\ NamesInv' /\ StoresBacked'
    <3>1. snapshot'.chunks \subseteq snapshot.chunks
      BY <2>1
    <3> QED
      BY <1>1, <2>1, <3>1, PersistBacked
  <2>3. StoreFields'
    BY <2>1 DEF persist, StoreFields, StoresInv
  <2>4. Mirroring' /\ script'.files = script.done
    BY <2>1 DEF Mirroring, Form
  <2>5. script.done \subseteq Docs /\ Backed(rows, script.done)
    BY <2>1, LoopIsFileInv DEF LoopOK
  <2>6. Backed(rows, script.files)'
    BY <1>1, <2>4, <2>5 DEF Backed, Holds
  <2> QED
    BY <2>2, <2>3, <2>4, <2>5, <2>6, FormsExclude
    DEF StoresInv, ScriptInv, Elsewhere, PhaseInv, FileInv, MirrorInv
<1>6. CASE SnapFile
  <2>1. Mirroring /\ UNCHANGED <<progress, graph>>
    BY <1>6, FormByPhase DEF SnapFile, StoresInv, At
  <2>2. PICK d \in script.files :
            \/ /\ snapshot' = [snapshot EXCEPT !.chunks = @ \cup chunk_document(d, corpus[d])]
               /\ script' = [script EXCEPT !.files = @ \ {d},
                                !.linked = IF d \in script.graphed THEN Append(@, d) ELSE @]
            \/ script' = [script EXCEPT !.files = @ \ {d}] /\ snapshot' = snapshot
    BY <1>6 DEF SnapFile
  <2>3. script.files \subseteq Docs /\ Backed(rows, script.files) /\ d \in Docs
    BY <2>1 DEF StoresInv, MirrorInv
  <2>4. Mirroring' /\ script'.files = script.files \ {d}
    BY <2>1, <2>2 DEF Mirroring, Form
  <2>5. /\ snapshot' = [f \in {"there", "torn", "chunks"} |-> snapshot'[f]]
        /\ snapshot'.chunks \subseteq snapshot.chunks \cup chunk_document(d, corpus[d])
    BY <2>2 DEF StoresInv, StoreFields
  <2>6. DocsOf(snapshot'.chunks) \subseteq DocsOf(snapshot.chunks) \cup {d}
    BY <2>5 DEF DocsOf, chunk_document
  <2>7. d \in DocsOf(rows) \/ WithoutText(d)
    BY <2>2, <2>3, HeldIsSearched DEF Backed, StoresInv
  <2>8. \A X, e : Holds(X, e)' <=> Holds(X, e)
    BY <1>1 DEF Holds
  <2>9. \A e : WithoutText(e)' <=> WithoutText(e)
    BY <1>1 DEF WithoutText
  <2>10. StoresBacked /\ NamesInv /\ StoreFields /\ CorpusInv
    BY DEF StoresInv
  <2>11. \A e \in DocsOf(snapshot'.chunks) : e \in DocsOf(rows) \/ WithoutText(e)
    BY <2>6, <2>7, <2>10 DEF StoresBacked
  <2>12. StoresBacked'
    BY <1>1, <2>1, <2>8, <2>9, <2>10, <2>11 DEF StoresBacked, DocsOf
  <2>13. NamesInv' /\ StoreFields' /\ CorpusInv'
    BY <1>1, <2>1, <2>3, <2>5, <2>6, <2>10 DEF NamesInv, StoreFields, CorpusInv, DocsOf
  <2>14. MirrorInv'
    BY <1>1, <2>3, <2>4, <2>8 DEF MirrorInv, Backed
  <2> QED
    BY <2>4, <2>12, <2>13, <2>14, FormsExclude
    DEF StoresInv, ScriptInv, Elsewhere, PhaseInv, FileInv
<1> QED
  BY <1>2, <1>3, <1>4, <1>5, <1>6

-----------------------------------------------------------------------------
LEMMA StoresInitially ==
    ASSUME Init
    PROVE  StoresInv
<1>1. CorpusInv
  <2>1. \A d \in Docs : Editions[d] \in Seq(Seq(Statements)) /\ Editions[d] # <<>>
    BY CorpusAssumption DEF Docs
  <2>2. \A d \in Docs : 1 <= Len(Editions[d])
    BY <2>1
  <2> QED
    BY <2>2 DEF Init, CorpusInv
<1>2. StoreFields
  BY DEF Init, StoreFields, EmptyGraph
<1>3. StoresBacked /\ NamesInv
  BY DEF Init, StoresBacked, NamesInv, DocsOf
<1>4. PhaseInv /\ FileInv /\ MirrorInv /\ ScriptInv
  BY DEF Init, Idle, PhaseInv, FileInv, MirrorInv, ScriptInv, Elsewhere, Clearing,
         Working, Mirroring, Form
<1> QED
  BY <1>1, <1>2, <1>3, <1>4 DEF StoresInv

LEMMA StoresStutter ==
    ASSUME StoresInv, UNCHANGED vars
    PROVE  StoresInv'
<1>1. UNCHANGED <<corpus, progress, snapshot, rows, graph, script, wiped>>
  BY DEF vars
<1>2. StoresKept /\ StoreFields'
  BY <1>1 DEF StoresKept, StoreFields, StoresInv
<1>3. CorpusInv' /\ StoresBacked' /\ NamesInv' /\ ScriptInv' /\ PhaseInv'
  BY <1>1, <1>2, BackedKept
  DEF StoresInv, NamesInv, DocsOf, ScriptInv, Elsewhere, PhaseInv, Clearing, Working, Mirroring,
      Structuring, Extracting, Replaying, Form
<1>4. \A X, S : Backed(X, S)' <=> Backed(X, S)
  BY <1>1 DEF Backed, Holds
<1>5. FileInv' /\ MirrorInv'
  BY <1>1, <1>4 DEF StoresInv, FileInv, MirrorInv, Working, Mirroring, Form
<1> QED
  BY <1>2, <1>3, <1>5 DEF StoresInv

THEOREM StoresInvariance == Spec => []StoresInv
<1>1. Init => StoresInv
  BY StoresInitially
<1>2. StoresInv /\ [Next]_vars => StoresInv'
  <2> SUFFICES ASSUME StoresInv, [Next]_vars
               PROVE  StoresInv'
    OBVIOUS
  <2>1. CASE IngestStep
    BY <2>1, ClearingKeepsStores, FileStepsKeepStores, EndKeepsStores DEF IngestStep
  <2>2. CASE StructureStep \/ \E o \in StructureOptions : StartStructure(o)
    BY <2>2, StructureKeepsStores
  <2>3. CASE EntityStep \/ \E o \in EntityOptions : StartEntities(o)
    BY <2>3, EntitiesKeepStores
  <2>4. CASE \E o \in IngestOptions : StartIngest(o)
    BY <2>4, StartKeepsStores
  <2>5. CASE \E d \in Docs : Edit(d)
    BY <2>5, EditKeepsStores
  <2>6. CASE \E torn \in BOOLEAN : Crash(torn)
    BY <2>6, CrashKeepsStores
  <2>7. CASE UNCHANGED vars
    BY <2>7, StoresStutter
  <2> QED
    BY <2>1, <2>2, <2>3, <2>4, <2>5, <2>6, <2>7 DEF Next
<1> QED
  BY <1>1, <1>2, PTL DEF Spec

(* Whatever is cut, reset, edited or fails, a file that a marker names is in  *)
(* the store the marker speaks of, and the keyword leg searches no document   *)
(* the vector leg does not have, but for one that was marked without text.    *)
THEOREM MarkersBacked == Spec => []StoresBacked
<1>1. StoresInv => StoresBacked
  BY DEF StoresInv
<1> QED
  BY <1>1, StoresInvariance, PTL

-----------------------------------------------------------------------------
(* The extraction of entities, for every corpus, number of documents in       *)
(* flight, size of batch, depth of splitting and threshold: a document        *)
(* recorded ok was asked about in full, and a primary provider that fails is  *)
(* called in vain a bounded number of times.                                  *)

-----------------------------------------------------------------------------
(* Batches. *)
Batches(R) == [depth : Nat, clauses : Seq(R)]
InBatches(todo) == UNION {Range(todo[i].clauses) : i \in DOMAIN todo}

(* What is true of a document in flight whose clauses are whole, and of the   *)
(* line that is written of it.                                                *)
LineOK(line) ==
    line.status = "ok" =>
      /\ line.asked = line.clauses
      /\ \A m \in line.mentions : m.clause \in {_parent_id(c) : c \in line.clauses}

JobFields == {"leg", "todo", "line", "asked", "mentions"}

JobOK(job, whole) ==
    /\ job = [f \in JobFields |-> job[f]]
    /\ job.leg # "record" =>
         /\ job.todo \in Seq(Batches(whole)) /\ job.todo # <<>>
         /\ job.asked \cup InBatches(job.todo) = whole
         /\ \A m \in job.mentions : m.clause \in {_parent_id(c) : c \in job.asked}
    /\ job.leg = "record" => LineOK(job.line)

Primaries(s) == {d \in DOMAIN s.jobs : s.jobs[d].leg = "primary"}

(* While the circuit is closed the failures are below the threshold; once it  *)
(* is open only the calls already with the primary can add to them.           *)
CircuitOK(s) ==
    /\ s.failures \in Nat /\ s.open \in BOOLEAN
    /\ DOMAIN s.jobs \subseteq Docs /\ Cardinality(DOMAIN s.jobs) <= Concurrency
    /\ HasFallback =>
         /\ ~s.open => s.failures < Threshold
         /\ s.open => s.failures + Cardinality(Primaries(s)) <= Threshold + Concurrency - 1

LedgerFields == /\ ledger = [f \in {"last", "torn"} |-> ledger[f]]
                /\ ledger.last = [d \in Docs |-> ledger.last[d]]

JobsInv ==
    InForm(script) =>
      /\ script.pending \subseteq DocsOf(snapshot.chunks)
      /\ \A d \in DOMAIN script.jobs : JobOK(script.jobs[d], Range(ClausesOf(d)))
      /\ CircuitOK(script)

EntityInv == IsFiniteSet(snapshot.chunks) /\ LedgerFields /\ OkIsWhole /\ JobsInv

-----------------------------------------------------------------------------
(* Arithmetic and ranges. *)
LEMMA Division ==
    ASSUME NEW n \in Nat, NEW m \in Nat, m # 0
    PROVE  n \div m \in Nat /\ m * (n \div m) <= n /\ n < m * (n \div m) + m
OBVIOUS

LEMMA Halving ==
    ASSUME NEW n \in Nat, n > 1
    PROVE  n \div 2 \in Nat /\ 1 <= n \div 2 /\ n \div 2 < n
OBVIOUS

LEMMA DivisionAtLeast ==
    ASSUME NEW n \in Nat, NEW m \in Nat, m # 0, NEW q \in Nat, q * m <= n
    PROVE  q <= n \div m
OBVIOUS

LEMMA RangeOfSubSeq ==
    ASSUME NEW S, NEW s \in Seq(S), NEW a \in Nat, NEW b \in Nat,
           a >= 1, b <= Len(s), a <= b + 1
    PROVE  /\ SubSeq(s, a, b) \in Seq(S)
           /\ Range(SubSeq(s, a, b)) = {s[i] : i \in a..b}
<1> DEFINE t == SubSeq(s, a, b)
<1>1. /\ t \in Seq(S) /\ Len(t) = b + 1 - a
      /\ \A i \in 1..(b + 1 - a) : t[i] = s[a + i - 1]
  BY SubSeqProperties
<1>2. DOMAIN t = 1..(b + 1 - a)
  BY <1>1
<1> HIDE DEF t
<1>3. \A i \in a..b : i - a + 1 \in DOMAIN t /\ t[i - a + 1] = s[i]
  <2>1. \A i \in a..b : i - a + 1 \in 1..(b + 1 - a) /\ a + (i - a + 1) - 1 = i
    OBVIOUS
  <2> QED
    BY <1>1, <1>2, <2>1
<1>4. \A i \in DOMAIN t : a + i - 1 \in a..b /\ t[i] = s[a + i - 1]
  BY <1>1, <1>2
<1>5. Range(t) = {t[j] : j \in DOMAIN t}
  BY DEF Range
<1>6. ASSUME NEW x \in {t[j] : j \in DOMAIN t} PROVE x \in {s[i] : i \in a..b}
  BY <1>4
<1>7. ASSUME NEW x \in {s[i] : i \in a..b} PROVE x \in {t[j] : j \in DOMAIN t}
  BY <1>3
<1> QED
  BY <1>1, <1>5, <1>6, <1>7 DEF t

LEMMA ElementsOfSeq ==
    ASSUME NEW S, NEW s \in Seq(S)
    PROVE  Range(s) = {s[i] : i \in 1..Len(s)} /\ Range(s) \subseteq S
<1>1. DOMAIN s = 1..Len(s) /\ \A i \in 1..Len(s) : s[i] \in S
  OBVIOUS
<1>2. Range(s) = {s[i] : i \in DOMAIN s}
  BY Zenon DEF Range
<1>3. Range(s) = {s[i] : i \in 1..Len(s)}
  BY <1>1, <1>2, Zenon
<1>4. Range(s) \subseteq S
  BY <1>1, <1>3
<1> QED
  BY <1>3, <1>4

(* The clauses of a call that is split again are those of its halves. *)
LEMMA HalvesCover ==
    ASSUME NEW R, NEW batch \in Batches(R), Len(batch.clauses) > 1
    PROVE  /\ Halves(batch) \in Seq(Batches(R)) /\ Halves(batch) # <<>>
           /\ InBatches(Halves(batch)) = Range(batch.clauses)
<1> DEFINE clauses == batch.clauses
           n == Len(clauses)
           middle == n \div 2
           first == [depth |-> batch.depth + 1, clauses |-> SubSeq(clauses, 1, middle)]
           second == [depth |-> batch.depth + 1, clauses |-> SubSeq(clauses, middle + 1, n)]
<1>1. clauses \in Seq(R) /\ n \in Nat /\ n > 1 /\ batch.depth \in Nat
  BY DEF Batches
<1>2. middle \in Nat /\ 1 <= middle /\ middle < n
  BY <1>1, Halving
<1> HIDE DEF middle
<1>3. /\ SubSeq(clauses, 1, middle) \in Seq(R) /\ SubSeq(clauses, middle + 1, n) \in Seq(R)
      /\ Range(SubSeq(clauses, 1, middle)) = {clauses[i] : i \in 1..middle}
      /\ Range(SubSeq(clauses, middle + 1, n)) = {clauses[i] : i \in (middle + 1)..n}
  <2>1. /\ 1 \in Nat /\ 1 >= 1 /\ middle \in Nat /\ middle <= n /\ 1 <= middle + 1
        /\ middle + 1 \in Nat /\ middle + 1 >= 1 /\ n \in Nat /\ n <= n /\ middle + 1 <= n + 1
        /\ clauses \in Seq(R)
    BY <1>1, <1>2
  <2>2. /\ SubSeq(clauses, 1, middle) \in Seq(R)
        /\ Range(SubSeq(clauses, 1, middle)) = {clauses[i] : i \in 1..middle}
    BY ONLY <2>1, RangeOfSubSeq
  <2>3. /\ SubSeq(clauses, middle + 1, n) \in Seq(R)
        /\ Range(SubSeq(clauses, middle + 1, n)) = {clauses[i] : i \in (middle + 1)..n}
    BY ONLY <2>1, RangeOfSubSeq
  <2> QED BY <2>2, <2>3
<1>4. Range(clauses) = {clauses[i] : i \in 1..middle} \cup {clauses[i] : i \in (middle + 1)..n}
  <2>1. 1..n = (1..middle) \cup ((middle + 1)..n)
    BY <1>1, <1>2
  <2>2. Range(clauses) = {clauses[i] : i \in 1..n}
    BY <1>1, ElementsOfSeq, Zenon
  <2> QED
    BY <2>1, <2>2
<1>5. Halves(batch) = <<first, second>>
  BY DEF Halves, middle
<1>6. first \in Batches(R) /\ second \in Batches(R)
  BY <1>1, <1>3 DEF Batches
<1>7. first.clauses = SubSeq(clauses, 1, middle) /\ second.clauses = SubSeq(clauses, middle + 1, n)
  OBVIOUS
<1> HIDE DEF first, second, clauses
<1>8. /\ <<first, second>> \in Seq(Batches(R)) /\ <<first, second>> # <<>>
      /\ InBatches(<<first, second>>) = Range(first.clauses) \cup Range(second.clauses)
  <2>1. DOMAIN <<first, second>> = {1, 2}
    OBVIOUS
  <2> QED
    BY <1>6, <2>1 DEF InBatches
<1> QED
  BY <1>3, <1>4, <1>5, <1>7, <1>8 DEF clauses

(* Cutting a document into calls of at most MaxClauses loses no clause. *)
LEMMA SplitCovers ==
    ASSUME NEW R, NEW clauses \in Seq(R), clauses # <<>>
    PROVE  /\ split_batch(clauses) \in Seq(Batches(R)) /\ split_batch(clauses) # <<>>
           /\ InBatches(split_batch(clauses)) = Range(clauses)
<1> DEFINE n == Len(clauses)
           M == MaxClauses
           k == (n + M - 1) \div M
           last(b) == IF b * M < n THEN b * M ELSE n
           part(b) == SubSeq(clauses, (b - 1) * M + 1, last(b))
<1>1. M \in Nat /\ M # 0 /\ n \in Nat /\ n # 0
  BY LimitsAssumption
<1>2. /\ split_batch(clauses) = [b \in 1..k |-> [depth |-> 0, clauses |-> part(b)]]
  BY DEF split_batch
<1>3. k \in Nat /\ k # 0 /\ M * k <= n + M - 1
  <2>1. n + M - 1 \in Nat /\ 1 * M <= n + M - 1
    BY <1>1
  <2>2. k \in Nat /\ M * k <= n + M - 1
    BY <1>1, <2>1, Division
  <2>3. 1 <= k
    BY <1>1, <2>1, DivisionAtLeast
  <2> QED
    BY <2>2, <2>3
<1> HIDE DEF k
<1>4. ASSUME NEW b \in 1..k
      PROVE  /\ (b - 1) * M + 1 \in Nat /\ last(b) \in Nat
             /\ (b - 1) * M + 1 >= 1 /\ last(b) <= n /\ (b - 1) * M + 1 <= last(b) + 1
  <2>1. (b - 1) * M \in Nat /\ b * M \in Nat /\ b * M = (b - 1) * M + M
    BY <1>1, <1>3
  <2>2. b * M <= M * k
    BY <1>1, <1>3
  <2>3. (b - 1) * M <= n - 1
    BY <1>1, <1>3, <2>1, <2>2
  <2> QED
    BY <1>1, <2>1, <2>3
<1>5. \A b \in 1..k : /\ part(b) \in Seq(R)
                      /\ Range(part(b)) = {clauses[i] : i \in ((b - 1) * M + 1)..last(b)}
  <2> SUFFICES ASSUME NEW b \in 1..k
               PROVE  /\ part(b) \in Seq(R)
                      /\ Range(part(b)) = {clauses[i] : i \in ((b - 1) * M + 1)..last(b)}
    OBVIOUS
  <2> DEFINE a == (b - 1) * M + 1
             c == last(b)
  <2>1. a \in Nat /\ c \in Nat /\ a >= 1 /\ c <= Len(clauses) /\ a <= c + 1
    BY <1>4
  <2>2. part(b) = SubSeq(clauses, a, c)
    OBVIOUS
  <2> HIDE DEF a, c, part
  <2>3. /\ SubSeq(clauses, a, c) \in Seq(R)
        /\ Range(SubSeq(clauses, a, c)) = {clauses[i] : i \in a..c}
    BY <2>1, RangeOfSubSeq
  <2>4. part(b) \in Seq(R) /\ Range(part(b)) = {clauses[i] : i \in a..c}
    BY <2>2, <2>3
  <2> QED
    BY <2>4 DEF a, c
<1>6. \A b \in 1..k : ((b - 1) * M + 1)..last(b) \subseteq 1..n
  BY <1>1, <1>4
<1>7. ASSUME NEW i \in 1..n
      PROVE  \E b \in 1..k : i \in ((b - 1) * M + 1)..last(b)
  <2> DEFINE q == (i - 1) \div M
  <2>1. q \in Nat /\ M * q <= i - 1 /\ i - 1 < M * q + M
    BY <1>1, Division
  <2> HIDE DEF q
  <2>2. (q + 1) * M = M * q + M /\ ((q + 1) - 1) * M = M * q
    BY <1>1, <2>1
  <2>3. (q + 1) * M <= n + M - 1
    BY <1>1, <2>1, <2>2
  <2>4. q + 1 <= k
    <3>1. q + 1 \in Nat /\ n + M - 1 \in Nat
      BY <1>1, <2>1
    <3> QED
      BY <1>1, <2>3, <3>1, DivisionAtLeast DEF k
  <2>5. i \in (((q + 1) - 1) * M + 1)..last(q + 1)
    BY <1>1, <2>1, <2>2
  <2> QED
    BY <1>3, <2>1, <2>4, <2>5
<1> HIDE DEF part, last
<1> DEFINE split == [b \in 1..k |-> [depth |-> 0, clauses |-> part(b)]]
<1>8. split \in Seq(Batches(R)) /\ split # <<>> /\ DOMAIN split = 1..k
  <2>1. \A b \in 1..k : [depth |-> 0, clauses |-> part(b)] \in Batches(R)
    BY <1>5 DEF Batches
  <2>2. split \in [1..k -> Batches(R)]
    BY <2>1
  <2>3. split \in Seq(Batches(R))
    BY <1>3, <2>2
  <2>4. Len(split) = k
    BY <1>3, <2>3
  <2> QED
    BY <1>3, <2>3, <2>4
<1>9. \A b \in 1..k : split[b].clauses = part(b)
  OBVIOUS
<1> HIDE DEF split
<1>10. InBatches(split) = UNION {Range(part(b)) : b \in 1..k}
  BY <1>8, <1>9 DEF InBatches
<1>11. UNION {Range(part(b)) : b \in 1..k} = {clauses[i] : i \in 1..n}
  <2>1. ASSUME NEW x \in UNION {Range(part(b)) : b \in 1..k} PROVE x \in {clauses[i] : i \in 1..n}
    BY <1>5, <1>6
  <2>2. ASSUME NEW i \in 1..n PROVE clauses[i] \in UNION {Range(part(b)) : b \in 1..k}
    BY <1>5, <1>7
  <2> QED
    BY <2>1, <2>2
<1>12. Range(clauses) = {clauses[i] : i \in 1..n}
  BY ElementsOfSeq, Zenon
<1> QED
  BY <1>2, <1>8, <1>10, <1>11, <1>12 DEF split

LEMMA HeadAndTail ==
    ASSUME NEW R, NEW todo \in Seq(Batches(R)), todo # <<>>
    PROVE  /\ Head(todo) \in Batches(R) /\ Tail(todo) \in Seq(Batches(R))
           /\ InBatches(todo) = Range(Head(todo).clauses) \cup InBatches(Tail(todo))
<1>1. /\ Len(todo) \in Nat /\ Len(todo) # 0 /\ Head(todo) = todo[1] /\ todo[1] \in Batches(R)
      /\ Tail(todo) \in Seq(Batches(R)) /\ DOMAIN todo = 1..Len(todo)
  OBVIOUS
<1>2. /\ DOMAIN Tail(todo) = 1..(Len(todo) - 1)
      /\ \A i \in 1..(Len(todo) - 1) : Tail(todo)[i] = todo[i + 1]
  BY <1>1
<1>3. \A i \in DOMAIN todo : i = 1 \/ (i - 1 \in DOMAIN Tail(todo) /\ todo[i] = Tail(todo)[i - 1])
  BY <1>1, <1>2
<1>4. \A i \in DOMAIN Tail(todo) : i + 1 \in DOMAIN todo /\ Tail(todo)[i] = todo[i + 1]
  BY <1>1, <1>2
<1>5. InBatches(todo) \subseteq Range(Head(todo).clauses) \cup InBatches(Tail(todo))
  BY <1>1, <1>3 DEF InBatches
<1>6. InBatches(Tail(todo)) \subseteq InBatches(todo)
  BY <1>4 DEF InBatches
<1>7. Range(Head(todo).clauses) \subseteq InBatches(todo)
  BY <1>1 DEF InBatches
<1> QED
  BY <1>1, <1>5, <1>6, <1>7

LEMMA InBatchesConcat ==
    ASSUME NEW R, NEW p \in Seq(Batches(R)), NEW q \in Seq(Batches(R))
    PROVE  /\ p \o q \in Seq(Batches(R)) /\ (p # <<>> => p \o q # <<>>)
           /\ InBatches(p \o q) = InBatches(p) \cup InBatches(q)
<1> DEFINE r == p \o q
<1>1. /\ r \in Seq(Batches(R)) /\ Len(r) = Len(p) + Len(q)
      /\ \A i \in 1..(Len(p) + Len(q)) : r[i] = IF i <= Len(p) THEN p[i] ELSE q[i - Len(p)]
  BY ConcatFacts
<1>2. /\ Len(p) \in Nat /\ Len(q) \in Nat /\ DOMAIN p = 1..Len(p) /\ DOMAIN q = 1..Len(q)
      /\ DOMAIN r = 1..(Len(p) + Len(q)) /\ (p # <<>> => Len(p) # 0)
  BY <1>1
<1> HIDE DEF r
<1>3. \A i \in DOMAIN r : \/ i \in DOMAIN p /\ r[i] = p[i]
                          \/ i - Len(p) \in DOMAIN q /\ r[i] = q[i - Len(p)]
  BY <1>1, <1>2
<1>4. \A i \in DOMAIN p : i \in DOMAIN r /\ r[i] = p[i]
  BY <1>1, <1>2
<1>5. \A i \in DOMAIN q : i + Len(p) \in DOMAIN r /\ r[i + Len(p)] = q[i]
  BY <1>1, <1>2
<1>6. InBatches(r) \subseteq InBatches(p) \cup InBatches(q)
  BY <1>3 DEF InBatches
<1>7. InBatches(p) \subseteq InBatches(r) /\ InBatches(q) \subseteq InBatches(r)
  BY <1>4, <1>5 DEF InBatches
<1>8. p # <<>> => r # <<>>
  <2>1. p # <<>> => Len(r) # 0
    BY <1>1, <1>2
  <2> QED
    BY <2>1
<1> QED
  BY <1>1, <1>6, <1>7, <1>8 DEF r


-----------------------------------------------------------------------------
(* The clauses of a document.                                                *)
LEMMA ChunksFinite ==
    ASSUME NEW s, NEW chunks, s \in Seq(Statements), NEW d,
           chunks = {[doc |-> d, index |-> i, text |-> s[i]] : i \in DOMAIN s}
    PROVE  IsFiniteSet(chunks)
<1> DEFINE chunk == [i \in DOMAIN s |-> [doc |-> d, index |-> i, text |-> s[i]]]
<1>1. DOMAIN s = 1..Len(s) /\ Len(s) \in Nat
  OBVIOUS
<1>2. IsFiniteSet(DOMAIN s)
  BY <1>1, FS_Interval
<1>3. chunks = {chunk[i] : i \in DOMAIN s}
  OBVIOUS
<1>4. DOMAIN chunk = DOMAIN s /\ chunk = [i \in DOMAIN s |-> chunk[i]]
  OBVIOUS
<1> HIDE DEF chunk
<1>5. chunk \in [DOMAIN s -> chunks] /\ \A x \in chunks : \E i \in DOMAIN s : chunk[i] = x
  BY <1>3, <1>4
<1>6. chunk \in Surjection(DOMAIN s, chunks)
  BY <1>5 DEF Surjection
<1> QED
  BY <1>2, <1>6, FS_Surjection

LEMMA EditionFinite ==
    ASSUME CorpusInv, NEW d \in Docs
    PROVE  IsFiniteSet(chunk_document(d, corpus[d]))
<1>1. /\ Editions[d] \in Seq(Seq(Statements)) /\ corpus[d] \in Nat \ {0}
      /\ corpus[d] <= Len(Editions[d])
  BY CorpusAssumption DEF Docs, CorpusInv
<1>2. Editions[d][corpus[d]] \in Seq(Statements)
  BY <1>1
<1> QED
  BY <1>2, ChunksFinite DEF chunk_document

LEMMA ClausesOfDocument ==
    ASSUME IsFiniteSet(snapshot.chunks), NEW d
    PROVE  /\ ClausesOf(d) \in Seq(Range(ClausesOf(d)))
           /\ d \in DocsOf(snapshot.chunks) => ClausesOf(d) # <<>>
<1> DEFINE own == {c \in snapshot.chunks : c.doc = d}
           n == Cardinality(own)
           f == [i \in 1..n |-> CHOOSE c \in own : c.index = i]
<1>1. IsFiniteSet(own)
  BY FS_Subset
<1>2. n \in Nat /\ (own # {} => n # 0)
  BY <1>1, FS_CardinalityType, FS_EmptySet
<1>3. ClausesOf(d) = f
  BY DEF ClausesOf
<1>4. d \in DocsOf(snapshot.chunks) => own # {}
  BY DEF DocsOf
<1> HIDE DEF n
<1>5. DOMAIN f = 1..n
  OBVIOUS
<1> HIDE DEF f, own
<1>6. f = [i \in 1..n |-> f[i]]
  BY DEF f
<1>7. \A i \in 1..n : f[i] \in Range(f)
  BY <1>5 DEF Range
<1>8. f \in [1..n -> Range(f)]
  BY <1>6, <1>7
<1>9. f \in Seq(Range(f)) /\ (n # 0 => f # <<>>)
  <2>1. f \in Seq(Range(f))
    BY <1>2, <1>8
  <2>2. f = <<>> => DOMAIN f = {}
    OBVIOUS
  <2>3. n # 0 => 1 \in 1..n
    BY <1>2
  <2> QED
    BY <1>5, <2>1, <2>2, <2>3
<1> QED
  BY <1>2, <1>3, <1>4, <1>9

LEMMA DocsFinite == IsFiniteSet(Docs)
<1>1. Docs = 1..Len(Editions) /\ Len(Editions) \in Nat
  BY CorpusAssumption DEF Docs
<1> QED
  BY <1>1, FS_Interval

-----------------------------------------------------------------------------
(* One document: what a call or its answer makes of its job. *)
LEMMA JobRerouted ==
    ASSUME NEW job, NEW whole, JobOK(job, whole), job.leg # "record",
           NEW leg \in {"primary", "fallback"}
    PROVE  JobOK([job EXCEPT !.leg = leg], whole)
BY DEF JobOK, JobFields

LEMMA JobRecorded ==
    ASSUME NEW job, NEW whole, job = [f \in JobFields |-> job[f]], NEW line, LineOK(line)
    PROVE  JobOK(Recording(job, line), whole)
<1> DEFINE t == Recording(job, line)
<1>1. t = [f \in JobFields |-> t[f]] /\ t.leg = "record" /\ t.line = line
  BY DEF Recording, JobFields
<1> HIDE DEF t
<1>2. JobOK(t, whole)
  BY <1>1 DEF JobOK
<1> QED
  BY <1>2 DEF t

LEMMA FailedLine == LineOK(Failed)
BY DEF LineOK, Failed

LEMMA JobBegins ==
    ASSUME NEW clauses, clauses \in Seq(Range(clauses)), clauses # <<>>,
           NEW leg \in {"primary", "fallback"}
    PROVE  JobOK([leg |-> leg, todo |-> split_batch(clauses), line |-> NoLine, asked |-> {},
                  mentions |-> {}], Range(clauses))
<1> DEFINE todo == split_batch(clauses)
           R == Range(clauses)
           job == [leg |-> leg, todo |-> todo, line |-> NoLine, asked |-> {}, mentions |-> {}]
<1>1. todo \in Seq(Batches(R)) /\ todo # <<>> /\ InBatches(todo) = R
  BY SplitCovers
<1> HIDE DEF todo, R
<1>2. JobOK(job, R)
  BY <1>1 DEF JobOK, JobFields
<1> QED
  BY <1>2 DEF todo, R

LEMMA JobAnswered ==
    ASSUME NEW job, NEW whole, JobOK(job, whole), job.leg # "record", NEW named,
           named \subseteq Range(Head(job.todo).clauses), NEW t,
           t = [job EXCEPT !.todo = Tail(@), !.asked = @ \cup Range(Head(job.todo).clauses),
                           !.mentions = @ \cup {[clause |-> _parent_id(c), entity |-> c.text] :
                                                  c \in named}]
    PROVE  /\ t = [f \in JobFields |-> t[f]] /\ t.leg = job.leg
           /\ t.todo # <<>> => JobOK(t, whole)
           /\ t.todo = <<>> => LineOK([status |-> "ok", asked |-> t.asked,
                                       mentions |-> t.mentions, clauses |-> whole])
<1> DEFINE batch == Head(job.todo)
           new == {[clause |-> _parent_id(c), entity |-> c.text] : c \in named}
<1>1. /\ t = [f \in JobFields |-> t[f]] /\ t.leg = job.leg /\ t.todo = Tail(job.todo)
      /\ t.asked = job.asked \cup Range(batch.clauses) /\ t.mentions = job.mentions \cup new
  BY DEF JobOK, JobFields
<1>2. /\ job.todo \in Seq(Batches(whole)) /\ job.todo # <<>>
      /\ job.asked \cup InBatches(job.todo) = whole
      /\ \A m \in job.mentions : m.clause \in {_parent_id(c) : c \in job.asked}
  BY DEF JobOK
<1>3. /\ t.todo \in Seq(Batches(whole))
      /\ InBatches(job.todo) = Range(batch.clauses) \cup InBatches(t.todo)
  BY <1>1, <1>2, HeadAndTail
<1>4. t.asked \cup InBatches(t.todo) = whole
  BY <1>1, <1>2, <1>3
<1>5. \A m \in new : m.clause \in {_parent_id(c) : c \in Range(batch.clauses)}
  OBVIOUS
<1> HIDE DEF new, batch
<1>6. \A m \in t.mentions : m.clause \in {_parent_id(c) : c \in t.asked}
  BY <1>1, <1>2, <1>5
<1>7. ASSUME t.todo # <<>> PROVE JobOK(t, whole)
  BY <1>1, <1>3, <1>4, <1>6, <1>7 DEF JobOK
<1>8. ASSUME t.todo = <<>>
      PROVE  LineOK([status |-> "ok", asked |-> t.asked, mentions |-> t.mentions,
                     clauses |-> whole])
  <2>1. InBatches(t.todo) = {}
    BY <1>8 DEF InBatches
  <2>2. t.asked = whole
    BY <1>4, <2>1
  <2> QED
    BY <1>6, <2>2 DEF LineOK
<1> QED
  BY <1>1, <1>7, <1>8

LEMMA JobSplit ==
    ASSUME NEW job, NEW whole, JobOK(job, whole), job.leg # "record",
           Len(Head(job.todo).clauses) > 1, NEW leg \in {"primary", "fallback"}
    PROVE  JobOK([job EXCEPT !.todo = Halves(Head(job.todo)) \o Tail(@), !.leg = leg], whole)
<1> DEFINE batch == Head(job.todo)
           halves == Halves(batch)
           rest == Tail(job.todo)
           todo == halves \o rest
           t == [job EXCEPT !.todo = todo, !.leg = leg]
<1>1. /\ job.todo \in Seq(Batches(whole)) /\ job.todo # <<>>
      /\ job.asked \cup InBatches(job.todo) = whole
  BY DEF JobOK
<1>2. /\ batch \in Batches(whole) /\ rest \in Seq(Batches(whole))
      /\ InBatches(job.todo) = Range(batch.clauses) \cup InBatches(rest)
  BY <1>1, HeadAndTail
<1>3. /\ halves \in Seq(Batches(whole)) /\ halves # <<>>
      /\ InBatches(halves) = Range(batch.clauses)
  BY <1>2, HalvesCover
<1> HIDE DEF batch, halves, rest
<1>4. /\ todo \in Seq(Batches(whole)) /\ todo # <<>>
      /\ InBatches(todo) = InBatches(halves) \cup InBatches(rest)
  BY <1>2, <1>3, InBatchesConcat
<1> HIDE DEF todo
<1>5. /\ t = [f \in JobFields |-> t[f]] /\ t.leg = leg /\ t.todo = todo
      /\ t.asked = job.asked /\ t.mentions = job.mentions
  BY DEF JobOK, JobFields
<1> HIDE DEF t
<1>6. job.asked \cup InBatches(todo) = whole
  BY <1>1, <1>2, <1>3, <1>4
<1>7. \A m \in job.mentions : m.clause \in {_parent_id(c) : c \in job.asked}
  BY DEF JobOK
<1>8. JobOK(t, whole)
  BY <1>4, <1>5, <1>6, <1>7 DEF JobOK
<1> QED
  BY <1>8 DEF t, todo, halves, rest, batch

-----------------------------------------------------------------------------
(* All documents in flight.                                                  *)
LEMMA OneJobChanges ==
    ASSUME NEW s, InForm(s), NEW d, NEW job
    PROVE  LET t == WithJob(s, d, job) IN
           /\ DOMAIN t.jobs = DOMAIN s.jobs \cup {d} /\ t.jobs[d] = job
           /\ \A e \in DOMAIN s.jobs \ {d} : t.jobs[e] = s.jobs[e]
           /\ t.pending = s.pending /\ t.failures = s.failures /\ t.open = s.open
<1> DEFINE t == WithJob(s, d, job)
           jobs == [e \in DOMAIN s.jobs \cup {d} |-> IF e = d THEN job ELSE s.jobs[e]]
<1>1. t.jobs = jobs /\ t.pending = s.pending /\ t.failures = s.failures /\ t.open = s.open
  BY DEF WithJob, InForm, ExtractFields
<1>2. DOMAIN jobs = DOMAIN s.jobs \cup {d}
  OBVIOUS
<1>3. jobs[d] = job /\ \A e \in DOMAIN s.jobs \ {d} : jobs[e] = s.jobs[e]
  OBVIOUS
<1> QED
  BY <1>1, <1>2, <1>3

JobsOK(s) == \A d \in DOMAIN s.jobs : JobOK(s.jobs[d], Range(ClausesOf(d)))

LEMMA JobsStayOK ==
    ASSUME NEW s, InForm(s), JobsOK(s), NEW d, NEW job, JobOK(job, Range(ClausesOf(d)))
    PROVE  JobsOK(WithJob(s, d, job))
<1> DEFINE t == WithJob(s, d, job)
<1>1. /\ DOMAIN t.jobs = DOMAIN s.jobs \cup {d} /\ t.jobs[d] = job
      /\ \A e \in DOMAIN s.jobs \ {d} : t.jobs[e] = s.jobs[e]
  BY OneJobChanges
<1> HIDE DEF t
<1>2. \A e \in DOMAIN t.jobs : JobOK(t.jobs[e], Range(ClausesOf(e)))
  BY <1>1 DEF JobsOK
<1> QED
  BY <1>2 DEF JobsOK, t

(* Who is with the primary after one job changed. *)
LEMMA PrimariesAfter ==
    ASSUME NEW s, InForm(s), NEW d, NEW job
    PROVE  Primaries(WithJob(s, d, job)) =
             (Primaries(s) \ {d}) \cup (IF job.leg = "primary" THEN {d} ELSE {})
<1> DEFINE t == WithJob(s, d, job)
<1>1. /\ DOMAIN t.jobs = DOMAIN s.jobs \cup {d} /\ t.jobs[d] = job
      /\ \A e \in DOMAIN s.jobs \ {d} : t.jobs[e] = s.jobs[e]
  BY OneJobChanges
<1> HIDE DEF t
<1>2. Primaries(t) = (Primaries(s) \ {d}) \cup (IF job.leg = "primary" THEN {d} ELSE {})
  BY <1>1 DEF Primaries
<1> QED
  BY <1>2 DEF t

-----------------------------------------------------------------------------
(* The circuit. *)
JobsBound(s) == DOMAIN s.jobs \subseteq Docs /\ Cardinality(DOMAIN s.jobs) <= Concurrency

LEMMA PrimariesFew ==
    ASSUME NEW s, JobsBound(s)
    PROVE  /\ IsFiniteSet(Primaries(s)) /\ Cardinality(Primaries(s)) \in Nat
           /\ Cardinality(Primaries(s)) <= Concurrency
<1>1. IsFiniteSet(DOMAIN s.jobs) /\ Cardinality(DOMAIN s.jobs) \in Nat
  BY DocsFinite, FS_Subset, FS_CardinalityType DEF JobsBound
<1>2. Primaries(s) \subseteq DOMAIN s.jobs
  BY DEF Primaries
<1>3. IsFiniteSet(Primaries(s)) /\ Cardinality(Primaries(s)) <= Cardinality(DOMAIN s.jobs)
  BY <1>1, <1>2, FS_Subset
<1>4. Cardinality(Primaries(s)) \in Nat
  BY <1>3, FS_CardinalityType
<1> QED
  BY <1>1, <1>3, <1>4, LimitsAssumption DEF JobsBound

(* Whatever adds no failure: no call joins the primary once it is open. *)
LEMMA CircuitCalm ==
    ASSUME NEW s, CircuitOK(s), NEW t, JobsBound(t), t.open = s.open,
           t.failures \in {0, s.failures}, s.open => Primaries(t) \subseteq Primaries(s)
    PROVE  CircuitOK(t)
<1>1. /\ s.failures \in Nat /\ s.open \in BOOLEAN /\ t.failures \in Nat
      /\ t.failures <= s.failures
  BY DEF CircuitOK
<1>2. Concurrency \in Nat \ {0} /\ Threshold \in Nat \ {0}
  BY LimitsAssumption
<1>3. IsFiniteSet(Primaries(s)) /\ Cardinality(Primaries(s)) \in Nat
  BY PrimariesFew DEF CircuitOK, JobsBound
<1>4. Cardinality(Primaries(t)) \in Nat
  BY PrimariesFew
<1>5. s.open => Cardinality(Primaries(t)) <= Cardinality(Primaries(s))
  BY <1>3, FS_Subset
<1>6. HasFallback /\ ~t.open => t.failures < Threshold
  BY <1>1, <1>2 DEF CircuitOK
<1>7. HasFallback /\ t.open =>
        t.failures + Cardinality(Primaries(t)) <= Threshold + Concurrency - 1
  BY <1>1, <1>2, <1>3, <1>4, <1>5 DEF CircuitOK
<1> QED
  BY <1>1, <1>6, <1>7 DEF CircuitOK, JobsBound

(* A failure of the primary takes one call away from it. *)
LEMMA CircuitTakesAFailure ==
    ASSUME NEW s, CircuitOK(s), HasFallback, NEW d \in Primaries(s), NEW quota \in BOOLEAN,
           NEW t, JobsBound(t), t.failures = s.failures + 1,
           t.open = (s.open \/ OpensCircuit(quota, s.failures + 1)),
           Primaries(t) = Primaries(s) \ {d}
    PROVE  CircuitOK(t)
<1>1. s.failures \in Nat /\ s.open \in BOOLEAN
  BY DEF CircuitOK
<1>2. Concurrency \in Nat \ {0} /\ Threshold \in Nat \ {0}
  BY LimitsAssumption
<1>3. /\ IsFiniteSet(Primaries(s)) /\ Cardinality(Primaries(s)) \in Nat
      /\ Cardinality(Primaries(s)) <= Concurrency
  BY PrimariesFew DEF CircuitOK, JobsBound
<1>4. Cardinality(Primaries(t)) = Cardinality(Primaries(s)) - 1
  BY <1>3, FS_RemoveElement
<1>5. t.failures \in Nat /\ t.open \in BOOLEAN
  BY <1>1 DEF OpensCircuit
<1>6. ~t.open => ~s.open /\ t.failures < Threshold
  <2>1. ~t.open => ~s.open /\ ~OpensCircuit(quota, s.failures + 1)
    BY Zenon
  <2>2. ~OpensCircuit(quota, s.failures + 1) => ~(s.failures + 1 >= Threshold)
    BY Zenon DEF OpensCircuit
  <2>3. ~(s.failures + 1 >= Threshold) => s.failures + 1 < Threshold
    BY <1>1, <1>2
  <2> QED
    BY <2>1, <2>2, <2>3
<1>7. CASE s.open
  <2>1. s.failures + Cardinality(Primaries(s)) <= Threshold + Concurrency - 1
    BY <1>7 DEF CircuitOK
  <2>2. t.failures + Cardinality(Primaries(t)) = s.failures + Cardinality(Primaries(s))
    BY <1>1, <1>3, <1>4
  <2>3. t.failures + Cardinality(Primaries(t)) <= Threshold + Concurrency - 1
    BY <2>1, <2>2
  <2> QED
    BY <1>5, <1>6, <2>3 DEF CircuitOK, JobsBound
<1>8. CASE ~s.open
  <2>1. s.failures < Threshold
    BY <1>8 DEF CircuitOK
  <2>2. t.failures + Cardinality(Primaries(t)) <= Threshold + Concurrency - 1
    BY <1>1, <1>2, <1>3, <1>4, <2>1
  <2> QED
    BY <1>5, <1>6, <2>2 DEF CircuitOK, JobsBound
<1> QED
  BY <1>7, <1>8

-----------------------------------------------------------------------------
(* The steps of the extraction.  A step gives one document another job and    *)
(* leaves the others; the clauses asked about are those of the snapshot.      *)
InvOf(s) == /\ InForm(s) /\ s.pending \subseteq DocsOf(snapshot.chunks)
            /\ JobsOK(s) /\ CircuitOK(s)

LEMMA JobsInvIsInvOf == JobsInv <=> (InForm(script) => InvOf(script))
BY DEF JobsInv, InvOf, JobsOK

(* The state after a step that calls or answers for d. *)
LEMMA JobStep ==
    ASSUME NEW s, InForm(s), s.pending \subseteq DocsOf(snapshot.chunks), JobsOK(s),
           CircuitOK(script), NEW d \in Docs, NEW job, JobOK(job, Range(ClausesOf(d))),
           script.open \in BOOLEAN, s.open = script.open, s.jobs = script.jobs,
           s.failures \in {0, script.failures}, JobsBound(WithJob(s, d, job)),
           script.open /\ job.leg = "primary" => d \in Primaries(script)
    PROVE  InvOf(WithJob(s, d, job))
<1> DEFINE t == WithJob(s, d, job)
<1>1. InForm(t)
  BY JobInForm
<1>2. t.pending = s.pending /\ t.failures = s.failures /\ t.open = s.open
  BY OneJobChanges
<1>3. JobsOK(t)
  BY JobsStayOK
<1>4. Primaries(t) = (Primaries(s) \ {d}) \cup (IF job.leg = "primary" THEN {d} ELSE {})
  BY PrimariesAfter
<1>5. Primaries(s) = Primaries(script)
  BY DEF Primaries
<1> HIDE DEF t
<1>6. script.open => Primaries(t) \subseteq Primaries(script)
  BY <1>4, <1>5
<1>7. CircuitOK(t)
  BY <1>2, <1>6, CircuitCalm DEF t
<1>8. InvOf(t)
  BY <1>1, <1>2, <1>3, <1>7 DEF InvOf
<1> QED
  BY <1>8 DEF t

(* A document already in flight takes no place of another. *)
LEMMA SameDocuments ==
    ASSUME NEW s, InForm(s), JobsBound(s), NEW d \in DOMAIN s.jobs, NEW job
    PROVE  JobsBound(WithJob(s, d, job))
<1>1. DOMAIN WithJob(s, d, job).jobs = DOMAIN s.jobs \cup {d}
  BY OneJobChanges
<1>2. DOMAIN WithJob(s, d, job).jobs = DOMAIN s.jobs
  BY <1>1
<1> QED
  BY <1>2 DEF JobsBound

LEMMA BeginKeepsJobs ==
    ASSUME NEW d \in Docs, IsFiniteSet(snapshot.chunks), InvOf(script), BeginDocument(d)
    PROVE  InvOf(script')
<1> DEFINE s == [script EXCEPT !.pending = @ \ {d}]
           job == [leg |-> Leg, todo |-> split_batch(ClausesOf(d)), line |-> NoLine,
                   asked |-> {}, mentions |-> {}]
<1>1. script' = WithJob(s, d, job) /\ d \in script.pending
      /\ Cardinality(DOMAIN script.jobs) < Concurrency
  BY DEF BeginDocument
<1>2. /\ InForm(s) /\ s.pending = script.pending \ {d} /\ s.jobs = script.jobs
      /\ s.failures = script.failures /\ s.open = script.open
  BY DEF InvOf, InForm, ExtractFields
<1>3. /\ s.pending \subseteq DocsOf(snapshot.chunks) /\ JobsOK(s)
      /\ CircuitOK(script) /\ script.open \in BOOLEAN
  BY <1>2 DEF InvOf, JobsOK, CircuitOK
<1>4. Leg \in {"primary", "fallback"} /\ job.leg = Leg /\ (script.open => Leg = "fallback")
  BY DEF Leg
<1>5. JobOK(job, Range(ClausesOf(d)))
  <2>1. /\ ClausesOf(d) \in Seq(Range(ClausesOf(d))) /\ ClausesOf(d) # <<>>
    BY <1>1, ClausesOfDocument DEF InvOf
  <2> QED
    BY <1>4, <2>1, JobBegins
<1> HIDE DEF s, job
<1>6. JobsBound(WithJob(s, d, job))
  <2>1. DOMAIN WithJob(s, d, job).jobs = DOMAIN script.jobs \cup {d}
    BY <1>2, OneJobChanges
  <2>2. DOMAIN script.jobs \subseteq Docs
    BY <1>3 DEF CircuitOK
  <2>3. IsFiniteSet(DOMAIN script.jobs)
    BY <2>2, DocsFinite, FS_Subset
  <2>4. Cardinality(DOMAIN script.jobs) \in Nat
    BY <2>3, FS_CardinalityType
  <2>5. Cardinality(DOMAIN script.jobs \cup {d}) <= Cardinality(DOMAIN script.jobs) + 1
    <3>1. \/ Cardinality(DOMAIN script.jobs \cup {d}) = Cardinality(DOMAIN script.jobs)
          \/ Cardinality(DOMAIN script.jobs \cup {d}) = Cardinality(DOMAIN script.jobs) + 1
      BY <2>3, FS_AddElement, Zenon
    <3> QED
      BY <2>4, <3>1
  <2>6. Cardinality(DOMAIN script.jobs \cup {d}) \in Nat
    BY <2>3, FS_AddElement, FS_CardinalityType
  <2> QED
    BY <1>1, <2>1, <2>2, <2>4, <2>5, <2>6, LimitsAssumption DEF JobsBound
<1> QED
  BY <1>1, <1>2, <1>3, <1>4, <1>5, <1>6, JobStep

(* A call's document is in flight and its job is whole. *)
LEMMA JobOfCall ==
    ASSUME InvOf(script), NEW d, NEW leg, Calling(d, leg)
    PROVE  /\ d \in DOMAIN script.jobs /\ d \in Docs /\ Job(d) = script.jobs[d]
           /\ Job(d).leg = leg /\ JobOK(Job(d), Range(ClausesOf(d)))
           /\ leg = "primary" => d \in Primaries(script)
           /\ JobsBound(script) /\ script.open \in BOOLEAN /\ script.failures \in Nat
BY DEF InvOf, Calling, Job, JobsOK, CircuitOK, JobsBound, Primaries

(* A job that changes while the counters do not rise. *)
LEMMA CalmStep ==
    ASSUME InvOf(script), NEW d \in DOMAIN script.jobs, NEW s,
           s = script \/ s = [script EXCEPT !.failures = 0],
           NEW job, JobOK(job, Range(ClausesOf(d))), script' = WithJob(s, d, job),
           script.open => job.leg # "primary"
    PROVE  InvOf(script')
<1>1. /\ InForm(s) /\ s.pending = script.pending /\ s.jobs = script.jobs
      /\ s.failures \in {0, script.failures} /\ s.open = script.open
  BY DEF InvOf, InForm, ExtractFields
<1>2. /\ s.pending \subseteq DocsOf(snapshot.chunks) /\ JobsOK(s)
      /\ CircuitOK(script) /\ script.open \in BOOLEAN /\ JobsBound(s) /\ d \in Docs
  BY <1>1 DEF InvOf, JobsOK, CircuitOK, JobsBound
<1>3. JobsBound(WithJob(s, d, job))
  BY <1>1, <1>2, SameDocuments
<1> QED
  BY <1>1, <1>2, <1>3, JobStep

LEMMA FallbackKeepsJobs ==
    ASSUME NEW d \in Docs, InvOf(script), FallbackFails(d)
    PROVE  InvOf(script')
<1>1. Calling(d, "fallback") /\ script' = WithJob(script, d, Recording(Job(d), Failed))
  BY DEF FallbackFails
<1>2. /\ d \in DOMAIN script.jobs /\ Job(d) = [f \in JobFields |-> Job(d)[f]]
  BY <1>1, JobOfCall DEF JobOK
<1>3. JobOK(Recording(Job(d), Failed), Range(ClausesOf(d)))
  BY <1>2, JobRecorded, FailedLine
<1>4. Recording(Job(d), Failed).leg = "record"
  BY <1>2 DEF Recording, JobFields
<1> QED
  BY <1>1, <1>2, <1>3, <1>4, CalmStep

LEMMA PrimaryKeepsJobs ==
    ASSUME NEW d \in Docs, NEW quota \in BOOLEAN, InvOf(script), PrimaryFails(d, quota)
    PROVE  InvOf(script')
<1> DEFINE n == script.failures + 1
           open == script.open \/ (HasFallback /\ OpensCircuit(quota, n))
           s == [script EXCEPT !.failures = n, !.open = open]
           job == IF HasFallback THEN [Job(d) EXCEPT !.leg = "fallback"]
                                 ELSE Recording(Job(d), Failed)
           t == WithJob(s, d, job)
<1>1. Calling(d, "primary") /\ script' = t
  BY DEF PrimaryFails
<1>2. /\ d \in DOMAIN script.jobs /\ Job(d).leg = "primary"
      /\ JobOK(Job(d), Range(ClausesOf(d))) /\ d \in Primaries(script)
      /\ JobsBound(script) /\ script.open \in BOOLEAN /\ script.failures \in Nat
  BY <1>1, JobOfCall
<1>3. JobOK(job, Range(ClausesOf(d))) /\ job.leg # "primary"
  <2>1. CASE HasFallback
    <3>1. JobOK([Job(d) EXCEPT !.leg = "fallback"], Range(ClausesOf(d)))
      BY <1>2, JobRerouted
    <3>2. [Job(d) EXCEPT !.leg = "fallback"].leg = "fallback"
      BY <1>2 DEF JobOK, JobFields
    <3> QED
      BY <2>1, <3>1, <3>2
  <2>2. CASE ~HasFallback
    <3>1. Job(d) = [f \in JobFields |-> Job(d)[f]]
      BY <1>2 DEF JobOK
    <3>2. JobOK(Recording(Job(d), Failed), Range(ClausesOf(d)))
      BY <3>1, JobRecorded, FailedLine
    <3>3. Recording(Job(d), Failed).leg = "record"
      BY <3>1 DEF Recording, JobFields
    <3> QED
      BY <2>2, <3>2, <3>3
  <2> QED
    BY <2>1, <2>2
<1>4. open \in BOOLEAN /\ n \in Nat
  BY <1>2 DEF OpensCircuit
<1>5. /\ InForm(s) /\ s.pending = script.pending /\ s.jobs = script.jobs
      /\ s.failures = n /\ s.open = open
  BY DEF InvOf, InForm, ExtractFields
<1> HIDE DEF job, n, open, s
<1>6. /\ s.pending \subseteq DocsOf(snapshot.chunks) /\ JobsOK(s) /\ CircuitOK(script)
      /\ JobsBound(s)
  BY <1>2, <1>5 DEF InvOf, JobsOK, JobsBound
<1>7. InForm(t) /\ JobsOK(t) /\ JobsBound(t)
  BY <1>2, <1>3, <1>5, <1>6, JobInForm, JobsStayOK, SameDocuments
<1>8. t.pending = s.pending /\ t.failures = n /\ t.open = open
  BY <1>5, OneJobChanges
<1>9. Primaries(t) = Primaries(script) \ {d}
  <2>1. Primaries(t) = (Primaries(s) \ {d}) \cup (IF job.leg = "primary" THEN {d} ELSE {})
    BY <1>5, PrimariesAfter
  <2>2. Primaries(s) = Primaries(script)
    BY <1>5 DEF Primaries
  <2> QED
    BY <1>3, <2>1, <2>2
<1> HIDE DEF t
<1>10. CircuitOK(t)
  <2>1. CASE HasFallback
    <3>1. t.open = (script.open \/ OpensCircuit(quota, script.failures + 1))
      BY <1>8, <2>1, LimitsAssumption DEF open, n, OpensCircuit
    <3>2. t.failures = script.failures + 1
      BY <1>8 DEF n
    <3> QED
      BY <1>2, <1>6, <1>7, <1>9, <2>1, <3>1, <3>2, CircuitTakesAFailure
  <2>2. CASE ~HasFallback
    BY <1>4, <1>7, <1>8, <2>2 DEF CircuitOK, JobsBound
  <2> QED
    BY <2>1, <2>2
<1> QED
  BY <1>1, <1>5, <1>6, <1>7, <1>8, <1>10 DEF InvOf

(* An answer clears the counter if the primary gave it; the next call goes    *)
(* where the circuit says.                                                    *)
LEMMA AfterAnswer ==
    ASSUME NEW d
    PROVE  /\ Answered(d) = script \/ Answered(d) = [script EXCEPT !.failures = 0]
           /\ Leg \in {"primary", "fallback"} /\ (script.open => Leg # "primary")
BY DEF Answered, Leg

LEMMA AnswerKeepsJobs ==
    ASSUME NEW d \in Docs, NEW named, InvOf(script), AnswerRead(d, named)
    PROVE  InvOf(script')
<1> DEFINE whole == Range(ClausesOf(d))
           batch == Head(Job(d).todo)
           job == [Job(d) EXCEPT
                     !.todo = Tail(@), !.asked = @ \cup Range(batch.clauses),
                     !.mentions = @ \cup {[clause |-> _parent_id(c), entity |-> c.text] :
                                            c \in named}]
           line == [status |-> "ok", asked |-> job.asked, mentions |-> job.mentions,
                    clauses |-> whole]
           next == IF job.todo # <<>> THEN [job EXCEPT !.leg = Leg] ELSE Recording(job, line)
<1>1. /\ Calling(d, "primary") \/ Calling(d, "fallback")
      /\ named \subseteq Range(batch.clauses) /\ script' = WithJob(Answered(d), d, next)
  BY Zenon DEF AnswerRead, Batch
<1>2. /\ d \in DOMAIN script.jobs /\ Job(d).leg # "record" /\ JobOK(Job(d), whole)
  BY <1>1, JobOfCall
<1>3. /\ job = [f \in JobFields |-> job[f]] /\ job.leg = Job(d).leg
      /\ job.todo # <<>> => JobOK(job, whole)
      /\ job.todo = <<>> => LineOK(line)
  <2>1. \A t : t = job => /\ t = [f \in JobFields |-> t[f]] /\ t.leg = Job(d).leg
                          /\ t.todo # <<>> => JobOK(t, whole)
                          /\ t.todo = <<>> => LineOK([status |-> "ok", asked |-> t.asked,
                                                mentions |-> t.mentions, clauses |-> whole])
    BY <1>1, <1>2, JobAnswered, Zenon
  <2> QED
    BY <2>1, Zenon
<1> HIDE DEF job, line
<1>4. Leg \in {"primary", "fallback"}
  BY AfterAnswer
<1>5. JobOK(next, whole) /\ (script.open => next.leg # "primary")
  <2>1. CASE job.todo # <<>>
    <3>1. JobOK([job EXCEPT !.leg = Leg], whole)
      BY <1>2, <1>3, <1>4, <2>1, JobRerouted
    <3>2. [job EXCEPT !.leg = Leg].leg = Leg
      BY <1>3 DEF JobFields
    <3> QED
      BY <2>1, <3>1, <3>2, AfterAnswer
  <2>2. CASE job.todo = <<>>
    <3>1. JobOK(Recording(job, line), whole)
      BY <1>3, <2>2, JobRecorded
    <3>2. Recording(job, line).leg = "record"
      BY <1>3 DEF Recording, JobFields
    <3> QED
      BY <2>2, <3>1, <3>2
  <2> QED
    BY <2>1, <2>2
<1> HIDE DEF next
<1> QED
  BY <1>1, <1>2, <1>5, AfterAnswer, CalmStep

LEMMA UnusableKeepsJobs ==
    ASSUME NEW d \in Docs, InvOf(script), AnswerUnusable(d)
    PROVE  InvOf(script')
<1> DEFINE whole == Range(ClausesOf(d))
           batch == Head(Job(d).todo)
           again == Len(batch.clauses) > 1 /\ batch.depth < MaxSplit
           split == [Job(d) EXCEPT !.todo = Halves(batch) \o Tail(@), !.leg = Leg]
           next == IF again THEN split ELSE Recording(Job(d), Failed)
<1>1. /\ Calling(d, "primary") \/ Calling(d, "fallback")
      /\ script' = WithJob(Answered(d), d, next)
  BY Zenon DEF AnswerUnusable, Batch
<1>2. /\ d \in DOMAIN script.jobs /\ Job(d).leg # "record" /\ JobOK(Job(d), whole)
      /\ Job(d) = [f \in JobFields |-> Job(d)[f]]
  BY <1>1, JobOfCall DEF JobOK
<1>3. Leg \in {"primary", "fallback"}
  BY AfterAnswer
<1>4. again => JobOK(split, whole)
  <2>1. again => Len(batch.clauses) > 1
    OBVIOUS
  <2> QED
    BY <1>2, <1>3, <2>1, JobSplit
<1>5. split.leg = Leg
  BY <1>2 DEF JobFields
<1>6. JobOK(Recording(Job(d), Failed), whole)
  BY <1>2, JobRecorded, FailedLine
<1>7. Recording(Job(d), Failed).leg = "record"
  BY <1>2 DEF Recording, JobFields
<1> HIDE DEF split, again
<1>8. JobOK(next, whole) /\ (script.open => next.leg # "primary")
  BY <1>4, <1>5, <1>6, <1>7, AfterAnswer
<1> HIDE DEF next
<1> QED
  BY <1>1, <1>2, <1>8, AfterAnswer, CalmStep

(* The line of a document is appended and the document is done with. *)
LEMMA AppendKeepsJobs ==
    ASSUME NEW d \in Docs, InvOf(script), LedgerFields, OkIsWhole, AppendLine(d)
    PROVE  InvOf(script') /\ LedgerFields' /\ OkIsWhole'
<1>1. /\ Calling(d, "record")
      /\ ledger' = IF ledger.torn THEN [ledger EXCEPT !.torn = FALSE]
                   ELSE [ledger EXCEPT !.last[d] = Job(d).line]
      /\ script' = [script EXCEPT !.jobs = [e \in DOMAIN @ \ {d} |-> @[e]]]
  BY DEF AppendLine
<1>2. /\ d \in DOMAIN script.jobs /\ JobsBound(script) /\ LineOK(Job(d).line)
  BY <1>1, JobOfCall DEF JobOK
<1>3. /\ InForm(script') /\ DOMAIN script'.jobs = DOMAIN script.jobs \ {d}
      /\ \A e \in DOMAIN script.jobs \ {d} : script'.jobs[e] = script.jobs[e]
      /\ script'.pending = script.pending /\ script'.failures = script.failures
      /\ script'.open = script.open
  BY <1>1 DEF InvOf, InForm, ExtractFields
<1>4. JobsOK(script')
  BY <1>3 DEF InvOf, JobsOK
<1>5. CircuitOK(script')
  <2>1. IsFiniteSet(DOMAIN script.jobs) /\ Cardinality(DOMAIN script.jobs) \in Nat
    BY <1>2, DocsFinite, FS_Subset, FS_CardinalityType DEF JobsBound
  <2>2. /\ Cardinality(DOMAIN script'.jobs) <= Cardinality(DOMAIN script.jobs)
        /\ Cardinality(DOMAIN script'.jobs) \in Nat
    BY <1>3, <2>1, FS_Subset, FS_CardinalityType
  <2>3. JobsBound(script')
    BY <1>2, <1>3, <2>1, <2>2, LimitsAssumption DEF JobsBound
  <2>4. Primaries(script') \subseteq Primaries(script)
    BY <1>3 DEF Primaries
  <2>5. CircuitOK(script)
    BY DEF InvOf
  <2> QED
    BY <1>3, <2>3, <2>4, <2>5, CircuitCalm
<1>6. InvOf(script')
  BY <1>3, <1>4, <1>5 DEF InvOf
<1>7. /\ LedgerFields'
      /\ \A e \in Docs : ledger'.last[e] \in {ledger.last[e], Job(d).line}
      /\ \A e \in Docs \ {d} : ledger'.last[e] = ledger.last[e]
  <2>1. CASE ledger.torn
    BY <1>1, <2>1 DEF LedgerFields
  <2>2. CASE ~ledger.torn
    BY <1>1, <2>2 DEF LedgerFields
  <2> QED
    BY <2>1, <2>2
<1>8. \A e \in Docs : LineOK(ledger.last[e])
  BY DEF OkIsWhole, OkDocs, LineOK
<1>9. \A e \in Docs : LineOK(ledger'.last[e])
  BY <1>2, <1>7, <1>8
<1>10. OkIsWhole'
  BY <1>9 DEF OkIsWhole, OkDocs, LineOK
<1> QED
  BY <1>6, <1>7, <1>10

LEMMA ExtractKeepsEntities ==
    ASSUME EntityInv, InForm(script), ExtractStep
    PROVE  EntityInv'
<1>1. /\ InvOf(script) /\ IsFiniteSet(snapshot.chunks) /\ LedgerFields /\ OkIsWhole
  BY JobsInvIsInvOf DEF EntityInv
<1>2. snapshot' = snapshot
  BY DEF ExtractStep, BeginDocument, FallbackFails, AnswerUnusable, AppendLine, PrimaryFails,
         AnswerRead, entityVars
<1>3. PICK d \in Docs :
           \/ BeginDocument(d) \/ FallbackFails(d) \/ AnswerUnusable(d) \/ AppendLine(d)
           \/ \E quota \in BOOLEAN : PrimaryFails(d, quota)
           \/ \E named \in SUBSET snapshot.chunks : AnswerRead(d, named)
  BY DEF ExtractStep
<1>4. InvOf(script') /\ LedgerFields' /\ OkIsWhole'
  <2>1. CASE AppendLine(d)
    BY <1>1, <2>1, AppendKeepsJobs
  <2>2. CASE ~AppendLine(d)
    <3>1. ledger' = ledger
      BY <1>3, <2>2
      DEF BeginDocument, FallbackFails, AnswerUnusable, PrimaryFails, AnswerRead
    <3>2. LedgerFields' /\ OkIsWhole'
      BY <1>1, <3>1 DEF LedgerFields, OkIsWhole, OkDocs
    <3>3. InvOf(script')
      BY <1>1, <1>3, <2>2, BeginKeepsJobs, FallbackKeepsJobs, UnusableKeepsJobs,
         PrimaryKeepsJobs, AnswerKeepsJobs
    <3> QED
      BY <3>2, <3>3
  <2> QED
    BY <2>1, <2>2
<1>5. \A e : ClausesOf(e)' = ClausesOf(e)
  BY <1>2 DEF ClausesOf
<1>6. JobsInv'
  BY <1>2, <1>4, <1>5 DEF JobsInv, InvOf, JobsOK
<1> QED
  BY <1>1, <1>2, <1>4, <1>6 DEF EntityInv

-----------------------------------------------------------------------------
(* The other steps: none of them leads among the calls, and none rewrites a   *)
(* line of the file.                                                          *)
LEMMA ElsewhereIsNotExtracting == Elsewhere' => ~InForm(script')
BY DEF Elsewhere, InForm, Idle, Clearing, Working, Mirroring, Structuring, Replaying, Form,
       PhaseNames, FilePcs

LEMMA OtherStepKeepsEntities ==
    ASSUME EntityInv, IsFiniteSet(snapshot'.chunks), Elsewhere',
           ledger' = ledger \/ \E torn : ledger' = [ledger EXCEPT !.torn = torn]
    PROVE  EntityInv'
<1>1. LedgerFields' /\ ledger'.last = ledger.last
  BY DEF EntityInv, LedgerFields
<1>2. OkIsWhole'
  BY <1>1 DEF EntityInv, OkIsWhole, OkDocs
<1>3. JobsInv'
  BY ElsewhereIsNotExtracting DEF JobsInv
<1> QED
  BY <1>1, <1>2, <1>3 DEF EntityInv

LEMMA StartsWithNobody ==
    ASSUME EntityInv, NEW o, StartEntities(o)
    PROVE  EntityInv'
<1> DEFINE s == [kind |-> "entities", pc |-> "extract", opts |-> o,
                 pending |-> DocsOf(snapshot.chunks) \ (IF o.no_resume THEN {} ELSE OkDocs),
                 jobs |-> <<>>, failures |-> 0, open |-> FALSE]
<1>1. script' = s /\ snapshot' = snapshot /\ ledger' = ledger
  BY DEF StartEntities, entityVars
<1>2. /\ s.pending \subseteq DocsOf(snapshot.chunks) /\ s.jobs = <<>>
      /\ s.failures = 0 /\ s.open = FALSE
  OBVIOUS
<1> HIDE DEF s
<1>3. DOMAIN s.jobs = {} /\ Cardinality(DOMAIN s.jobs) = 0
  BY <1>2, FS_EmptySet
<1>4. CircuitOK(s)
  <2>1. s.failures \in Nat /\ s.failures < Threshold /\ Concurrency \in Nat
    BY <1>2, LimitsAssumption
  <2>2. DOMAIN s.jobs \subseteq Docs /\ Cardinality(DOMAIN s.jobs) <= Concurrency
    BY <1>3, <2>1
  <2> QED
    BY <1>2, <2>1, <2>2 DEF CircuitOK
<1>5. JobsInv'
  BY <1>1, <1>2, <1>3, <1>4 DEF JobsInv
<1>6. LedgerFields' /\ OkIsWhole'
  BY <1>1 DEF EntityInv, LedgerFields, OkIsWhole, OkDocs
<1> QED
  BY <1>1, <1>5, <1>6 DEF EntityInv

LEMMA FrameKeepsEntities ==
    ASSUME EntityInv, UNCHANGED <<script, snapshot, ledger>>
    PROVE  EntityInv'
<1>1. \A d : ClausesOf(d)' = ClausesOf(d)
  BY DEF ClausesOf
<1>2. JobsInv'
  BY <1>1 DEF EntityInv, JobsInv
<1> QED
  BY <1>2 DEF EntityInv, LedgerFields, OkIsWhole, OkDocs

(* The snapshot grows by one parsed file at a time. *)
LEMMA IngestKeepsEntities ==
    ASSUME StoresInv, EntityInv, IngestStep
    PROVE  EntityInv'
<1>1. ledger' = ledger
  BY DEF IngestStep, ClearMarker, ClearSnapshot, DropRows, ResetGraph, ClearGraphMarker,
         StoreUnavailable, Load, SkipFile, ParseFile, FileFails, IndexFile, GraphChunk,
         GraphFails, CountFile, Interrupt, Finish, SnapFile, LinkDocuments, ingestVars
<1>2. Elsewhere'
  BY ClearingKeepsStores, FileStepsKeepStores, EndKeepsStores DEF IngestStep
<1>3. IsFiniteSet(snapshot'.chunks)
  <2>1. IsFiniteSet(snapshot.chunks) /\ IsFiniteSet({})
    BY FS_EmptySet DEF EntityInv
  <2>2. CASE SnapFile
    <3>1. PICK d \in script.files :
              \/ snapshot' = [snapshot EXCEPT !.chunks = @ \cup chunk_document(d, corpus[d])]
              \/ snapshot' = snapshot
      BY <2>2 DEF SnapFile
    <3>2. d \in Docs
      BY <2>2, <3>1, FormByPhase DEF SnapFile, StoresInv, MirrorInv
    <3>3. IsFiniteSet(chunk_document(d, corpus[d]))
      BY <3>2, EditionFinite DEF StoresInv
    <3>4. IsFiniteSet(snapshot.chunks \cup chunk_document(d, corpus[d]))
      BY <2>1, <3>3, FS_Union
    <3>5. snapshot'.chunks \in {snapshot.chunks, snapshot.chunks \cup chunk_document(d, corpus[d])}
      BY <3>1 DEF StoresInv, StoreFields
    <3> QED
      BY <2>1, <3>4, <3>5
  <2>3. CASE ClearSnapshot \/ Finish
    <3>1. snapshot'.chunks = {}
      BY <2>3 DEF ClearSnapshot, Finish
    <3> QED
      BY <2>1, <3>1
  <2>4. CASE ~(SnapFile \/ ClearSnapshot \/ Finish)
    <3>1. snapshot' = snapshot
      BY <2>4 DEF IngestStep, ClearMarker, DropRows, ResetGraph, ClearGraphMarker,
         StoreUnavailable, Load, SkipFile, ParseFile, FileFails, IndexFile, GraphChunk,
         GraphFails, CountFile, Interrupt, LinkDocuments
    <3> QED
      BY <2>1, <3>1
  <2> QED
    BY <2>2, <2>3, <2>4
<1> QED
  BY <1>1, <1>2, <1>3, OtherStepKeepsEntities

LEMMA CrashKeepsEntities ==
    ASSUME StoresInv, EntityInv, NEW torn \in BOOLEAN, Crash(torn)
    PROVE  EntityInv'
<1>1. Elsewhere'
  BY CrashKeepsStores
<1>2. \E t : ledger' = [ledger EXCEPT !.torn = t]
  BY Zenon DEF Crash
<1>3. snapshot'.chunks = snapshot.chunks
  BY DEF Crash, StoresInv, StoreFields
<1>4. IsFiniteSet(snapshot'.chunks)
  BY <1>3 DEF EntityInv
<1> QED
  BY <1>1, <1>2, <1>4, OtherStepKeepsEntities

THEOREM EntityInvariance == Spec => []EntityInv
<1>1. Init => EntityInv
  <2> SUFFICES ASSUME Init PROVE EntityInv
    OBVIOUS
  <2>1. snapshot.chunks = {} /\ script = Idle
        /\ ledger = [last |-> [d \in Docs |-> NoLine], torn |-> FALSE]
    BY DEF Init
  <2>2. LedgerFields /\ OkIsWhole
    BY <2>1 DEF LedgerFields, OkIsWhole, OkDocs, NoLine
  <2>3. JobsInv
    BY <2>1 DEF JobsInv, InForm, Idle
  <2> QED
    BY <2>1, <2>2, <2>3, FS_EmptySet DEF EntityInv
<1>2. StoresInv /\ EntityInv /\ [Next]_vars => EntityInv'
  <2> SUFFICES ASSUME StoresInv, EntityInv, [Next]_vars
               PROVE  EntityInv'
    OBVIOUS
  <2>1. CASE IngestStep
    BY <2>1, IngestKeepsEntities
  <2>2. CASE StructureStep \/ \E o \in StructureOptions : StartStructure(o)
    <3>1. Elsewhere' /\ snapshot' = snapshot /\ ledger' = ledger
      <4>1. Elsewhere'
        BY <2>2, StructureKeepsStores
      <4> QED
        BY <2>2, <4>1
        DEF StructureStep, StartStructure, ResetStructure, WriteClauses, WriteCitations,
            WriteDocEdges, StructureUnwritten, structureVars
    <3> QED
      BY <3>1, OtherStepKeepsEntities DEF EntityInv
  <2>3. CASE EntityStep
    <3>1. CASE ExtractStep
      <4>1. InPhase("extract")
        BY <3>1
        DEF ExtractStep, BeginDocument, FallbackFails, AnswerUnusable, AppendLine,
            PrimaryFails, AnswerRead, Calling
      <4>2. InForm(script)
        BY <4>1, FormByPhase, FormIsExtracting DEF StoresInv
      <4> QED
        BY <3>1, <4>2, ExtractKeepsEntities
    <3>2. CASE ReplayStep
      <4>1. Elsewhere'
        BY <3>2, ReplayKeepsStores
      <4>2. snapshot' = snapshot /\ ledger' = ledger
        BY <3>2 DEF ReplayStep, WriteEntities, WriteMentions, ExtractionOver, ResetEntities,
                    ReplayOver, EntitiesUnwritten, entityVars
      <4> QED
        BY <4>1, <4>2, OtherStepKeepsEntities DEF EntityInv
    <3> QED
      BY <2>3, <3>1, <3>2, SplitEntityStep
  <2>4. CASE \E o \in EntityOptions : StartEntities(o)
    BY <2>4, StartsWithNobody
  <2>5. CASE \E o \in IngestOptions : StartIngest(o)
    <3>1. PICK o : StartIngest(o)
      BY <2>5
    <3>2. Elsewhere'
      BY <3>1, StartKeepsStores
    <3> QED
      BY <3>1, <3>2, OtherStepKeepsEntities DEF EntityInv, StartIngest, ingestVars
  <2>6. CASE \E d \in Docs : Edit(d)
    BY <2>6, FrameKeepsEntities DEF Edit
  <2>7. CASE \E torn \in BOOLEAN : Crash(torn)
    BY <2>7, CrashKeepsEntities
  <2>8. CASE UNCHANGED vars
    BY <2>8, FrameKeepsEntities DEF vars
  <2> QED
    BY <2>1, <2>2, <2>3, <2>4, <2>5, <2>6, <2>7, <2>8 DEF Next
<1> QED
  BY <1>1, <1>2, StoresInvariance, PTL DEF Spec

(* A document recorded ok was asked about in full, for every size of batch,   *)
(* depth of splitting and order of failures, and its mentions are of its own  *)
(* clauses.                                                                   *)
THEOREM WholeExtraction == Spec => []OkIsWhole
<1>1. EntityInv => OkIsWhole
  BY DEF EntityInv
<1> QED
  BY <1>1, EntityInvariance, PTL

(* A primary provider that keeps failing is called in vain at most            *)
(* Concurrency - 1 times beyond the threshold.                                *)
THEOREM CircuitOpensInTime == Spec => []CircuitBounds
<1>1. StoresInv /\ EntityInv => CircuitBounds
  <2> SUFFICES ASSUME StoresInv, EntityInv, HasFallback, InPhase("extract")
               PROVE  script.failures <= Threshold + Concurrency - 1
    BY DEF CircuitBounds
  <2>1. InForm(script)
    BY FormByPhase, FormIsExtracting DEF StoresInv
  <2>2. CircuitOK(script)
    BY <2>1 DEF EntityInv, JobsInv
  <2>3. JobsBound(script) /\ script.failures \in Nat
    BY <2>2 DEF CircuitOK, JobsBound
  <2>4. Cardinality(Primaries(script)) \in Nat
    BY <2>3, PrimariesFew
  <2>5. Concurrency \in Nat \ {0} /\ Threshold \in Nat \ {0}
    BY LimitsAssumption
  <2> QED
    BY <2>2, <2>3, <2>4, <2>5 DEF CircuitOK
<1> QED
  BY <1>1, StoresInvariance, EntityInvariance, PTL

=============================================================================
