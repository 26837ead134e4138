--------------------------- MODULE KnowledgeRetrieval ---------------------------
(* One query of the hybrid retriever (app/knowledge/hybrid.py): a vector leg, *)
(* a keyword leg and a graph leg each rank chunks on their own; the lists are *)
(* fused by reciprocal rank, thinned to one chunk per clause and a quota per  *)
(* document, reordered by a cross-encoder and cut to the answer.              *)
(*                                                                            *)
(* What a leg ranks is any list of chunks.  A chunk is a number, in the order *)
(* of the ids; scores are compared exactly, as multiples of 1/Scale.          *)
EXTENDS Integers, Sequences, FiniteSets, SequencesExt

CONSTANTS Chunks,           \* 1..n
          ClauseOf,         \* the parent clause of a chunk
          DocumentOf,       \* the source document of a chunk
          Bridge,           \* Bridge[kind][{x, y}]: how strongly two clauses are linked
          Candidates, SeedTop, NeighborsPerSeed, MaxNeighbors,
          PrefusionTop, MaxPerDocument, OverflowTop, TopK, RrfK

Clauses == {ClauseOf[c] : c \in Chunks}
Kinds == {"cites", "mentions"}

ASSUME RetrievalAssumption ==
    /\ IsFiniteSet(Chunks) /\ Chunks = 1..Cardinality(Chunks)
    /\ ClauseOf \in [Chunks -> Nat] /\ DOMAIN DocumentOf = Chunks
    /\ \A c, e \in Chunks : ClauseOf[c] = ClauseOf[e] => DocumentOf[c] = DocumentOf[e]
    /\ \A kind \in Kinds, x, y \in Clauses : Bridge[kind][{x, y}] \in Nat
    /\ {Candidates, PrefusionTop, MaxPerDocument, TopK, RrfK} \subseteq Nat \ {0}
    /\ {SeedTop, NeighborsPerSeed, MaxNeighbors, OverflowTop} \subseteq Nat

VARIABLES pc, runtime, vec_hits, bm_hits, graph_hits, pool, overflow, answer
vars == <<pc, runtime, vec_hits, bm_hits, graph_hits, pool, overflow, answer>>

First(s, n) == SubSeq(s, 1, Min({n, Len(s)}))
Rankings == {s \in UNION {[1..n -> Chunks] : n \in 0..Candidates} : IsInjective(s)}

(* A total order puts each member after as many others as precede it. *)
Sorted(S, before(_, _)) ==
    LET Place(c) == Cardinality({e \in S : before(e, c)}) IN
    [i \in 1..Cardinality(S) |-> CHOOSE c \in S : Place(c) = i - 1]

(***************************************************************************)
(* Fusion (app/knowledge/fusion.py).                                       *)
(***************************************************************************)
Depth == Candidates + MaxNeighbors
Scale ==
    LET product[r \in 0..Depth] == IF r = 0 THEN 1 ELSE product[r - 1] * (RrfK + r)
    IN product[Depth]
RankIn(s, c) == CHOOSE i \in DOMAIN s : s[i] = c

(* A hit outranks another by its score, its best rank in a leg and its id. *)
Outranks(x, y) ==
    \/ x.score > y.score
    \/ x.score = y.score /\ x.best < y.best
    \/ x.score = y.score /\ x.best = y.best /\ x.chunk < y.chunk

(* The retriever fuses three legs: vector, keyword and graph. *)
reciprocal_rank_fusion(legs) ==
    LET found == UNION {Range(legs[l]) : l \in 1..3}
        in(c) == {l \in 1..3 : c \in Range(legs[l])}
        share(c, l) == IF l \in in(c) THEN Scale \div (RrfK + RankIn(legs[l], c)) ELSE 0
        ordered == Sorted({[chunk |-> c, score |-> share(c, 1) + share(c, 2) + share(c, 3),
                            best |-> Min({RankIn(legs[l], c) : l \in in(c)})] : c \in found},
                          Outranks) IN
    [i \in DOMAIN ordered |-> ordered[i].chunk]

(***************************************************************************)
(* Diversity (app/knowledge/diversity.py).                                 *)
(***************************************************************************)
ClausesIn(s) == {ClauseOf[s[i]] : i \in DOMAIN s}

(* Mutant: the fused hits lost their parent, so that only ids are compared. *)
collapse_by_parent_ById(s) == s

Keep(kept, c) == IF ClauseOf[c] \in ClausesIn(kept) THEN kept ELSE Append(kept, c)

(* What is kept of each prefix of the hits. *)
collapsing(s) ==
    LET kept[n \in 0..Len(s)] == IF n = 0 THEN <<>> ELSE Keep(kept[n - 1], s[n])
    IN kept

collapse_by_parent(s) == collapsing(s)[Len(s)]

OfDocument(s, c) == Cardinality({i \in DOMAIN s : DocumentOf[s[i]] = DocumentOf[c]})

(* A hit within the quota of its document is taken while the pool has room.   *)
Walk(acc, c, limit) ==
    IF Len(acc.kept) >= limit THEN acc
    ELSE IF OfDocument(acc.kept, c) < MaxPerDocument
         THEN [acc EXCEPT !.kept = Append(@, c)]
         ELSE [acc EXCEPT !.skipped = Append(@, c)]

walking(s, limit) ==
    LET at[n \in 0..Len(s)] ==
            IF n = 0 THEN [kept |-> <<>>, skipped |-> <<>>] ELSE Walk(at[n - 1], s[n], limit)
    IN at

(* Mutant: what the quota turned away never fills the pool. *)
cap_per_document_NoBackfill(s, limit) ==
    LET walked == walking(s, limit)[Len(s)] IN
    [kept |-> walked.kept, overflow |-> First(walked.skipped, OverflowTop)]

cap_per_document(s, limit) ==
    LET walked == walking(s, limit)[Len(s)]
        room == limit - Len(walked.kept)
        rest == SubSeq(walked.skipped, room + 1, Len(walked.skipped)) IN
    [kept |-> walked.kept \o First(walked.skipped, room),
     overflow |-> First(rest, OverflowTop)]

(***************************************************************************)
(* The graph leg (app/knowledge/graph/expand.py).                          *)
(***************************************************************************)
Visit(seeds, leg, depth) ==
    IF \/ Len(seeds) >= SeedTop
       \/ depth > Len(leg)
       \/ ClauseOf[leg[depth]] \in Range(seeds)
    THEN seeds ELSE Append(seeds, ClauseOf[leg[depth]])

(* The two legs are read in turn, rank by rank. *)
seeding(legs) ==
    LET seeds[i \in 0..(2 * Candidates)] ==
            IF i = 0 THEN <<>>
            ELSE Visit(seeds[i - 1], legs[((i - 1) % 2) + 1], ((i - 1) \div 2) + 1)
    IN seeds

seed_clause_ids(legs) == seeding(legs)[2 * Candidates]

(* Cypher keeps the strongest neighbours of each seed, seeds excluded; a pair
   below expand.min_shared has Bridge 0. *)
NeighborsOf(kind, seed, seeds) ==
    LET linked == {n \in Clauses \ Range(seeds) : Bridge[kind][{seed, n}] > 0}
        stronger(x, y) == \/ Bridge[kind][{seed, x}] > Bridge[kind][{seed, y}]
                          \/ Bridge[kind][{seed, x}] = Bridge[kind][{seed, y}] /\ x < y IN
    {n \in linked : Cardinality({m \in linked : stronger(m, n)}) < NeighborsPerSeed}

MaxResults == Min({MaxNeighbors, PrefusionTop})

Ahead(x, y) ==
    \/ x.weight > y.weight
    \/ x.weight = y.weight /\ x.seeds > y.seeds
    \/ x.weight = y.weight /\ x.seeds = y.seeds /\ "cites" \in x.kinds \ y.kinds
    \/ x.weight = y.weight /\ x.seeds = y.seeds
       /\ ("cites" \in x.kinds <=> "cites" \in y.kinds) /\ x.clause < y.clause

(* The weights of the rows in which a seed reached clause n. *)
WeightFrom(kind, seeds, n) ==
    LET sum[i \in 0..Len(seeds)] ==
            IF i = 0 THEN 0
            ELSE sum[i - 1] + IF n \in NeighborsOf(kind, seeds[i], seeds)
                              THEN Bridge[kind][{seeds[i], n}] ELSE 0
    IN sum[Len(seeds)]

rank_neighbors(kind, seeds) ==
    LET from(n) == {s \in Range(seeds) : n \in NeighborsOf(kind, s, seeds)}
        found == {[clause |-> n, kinds |-> {kind}, seeds |-> Cardinality(from(n)),
                   weight |-> WeightFrom(kind, seeds, n)] :
                     n \in {m \in Clauses : from(m) # {}}} IN
    {x \in found : Cardinality({y \in found : Ahead(y, x)}) < MaxResults}

(* What was found of a clause, nothing when it was not found. *)
Of(found, n) ==
    IF \E x \in found : x.clause = n THEN CHOOSE x \in found : x.clause = n
    ELSE [clause |-> n, kinds |-> {}, seeds |-> 0, weight |-> 0]

Merge(x, y) ==
    [clause |-> x.clause, kinds |-> x.kinds \cup y.kinds,
     seeds |-> IF x.seeds > y.seeds THEN x.seeds ELSE y.seeds,
     weight |-> x.weight + y.weight]

merge_kinds(cited, mentioned) ==
    {Merge(Of(cited, n), Of(mentioned, n)) : n \in {x.clause : x \in cited \cup mentioned}}

(* A clause is shown by its first chunk in the snapshot. *)
FirstChunk(n) == CHOOSE c \in Chunks : ClauseOf[c] = n /\ \A e \in Chunks : ClauseOf[e] = n => c <= e

expand(seeds) ==
    LET merged == merge_kinds(rank_neighbors("cites", seeds), rank_neighbors("mentions", seeds))
        best == First(Sorted(merged, Ahead), MaxResults) IN
    [i \in DOMAIN best |-> FirstChunk(best[i].clause)]

-----------------------------------------------------------------------------
(***************************************************************************)
(* The query.                                                              *)
(***************************************************************************)
Init ==
    /\ pc = "vector" /\ runtime \in BOOLEAN   \* built for the application?
    /\ vec_hits = <<>> /\ bm_hits = <<>> /\ graph_hits = <<>>
    /\ pool = <<>> /\ overflow = <<>> /\ answer = <<>>

VectorLeg ==
    /\ pc = "vector" /\ pc' = "keyword"
    /\ vec_hits' \in Rankings
    /\ UNCHANGED <<runtime, bm_hits, graph_hits, pool, overflow, answer>>

(* Milvus or the embedding model fails: the retriever the application builds  *)
(* raises (strict_vector), one built without that goes on without the leg.    *)
VectorFails ==
    /\ pc = "vector" /\ pc' = IF runtime THEN "raised" ELSE "keyword"
    /\ UNCHANGED <<runtime, vec_hits, bm_hits, graph_hits, pool, overflow, answer>>

KeywordLeg ==
    /\ pc = "keyword" /\ pc' = "graph"
    /\ bm_hits' \in Rankings
    /\ UNCHANGED <<runtime, vec_hits, graph_hits, pool, overflow, answer>>

(* The graph leg runs where an expander is wired in; the runtime wires none.  *)
GraphLeg ==
    /\ pc = "graph" /\ pc' = "screen"
    /\ graph_hits' = IF runtime THEN <<>> ELSE expand(seed_clause_ids(<<vec_hits, bm_hits>>))
    /\ UNCHANGED <<runtime, vec_hits, bm_hits, pool, overflow, answer>>

(* Neo4j fails: nothing catches it. *)
GraphFails ==
    /\ pc = "graph" /\ ~runtime /\ pc' = "raised"
    /\ UNCHANGED <<runtime, vec_hits, bm_hits, graph_hits, pool, overflow, answer>>

Fused == reciprocal_rank_fusion(<<vec_hits, bm_hits, graph_hits>>)
Limit == IF PrefusionTop > TopK THEN PrefusionTop ELSE TopK

Screen ==
    /\ pc = "screen"
    /\ LET screened == cap_per_document(collapse_by_parent(Fused), Limit) IN
       /\ pool' = screened.kept
       /\ overflow' = screened.overflow
    /\ pc' = IF Fused = <<>> THEN "answered" ELSE "rerank"
    /\ UNCHANGED <<runtime, vec_hits, bm_hits, graph_hits, answer>>

(* The cross-encoder may order the pool in any way; what the quota turned     *)
(* away follows, in the order of the fusion.                                  *)
Rerank ==
    /\ pc = "rerank" /\ pc' = "answered"
    /\ \E order \in SetToSeqs(Range(pool)) : answer' = First(order, TopK) \o overflow
    /\ UNCHANGED <<runtime, vec_hits, bm_hits, graph_hits, pool, overflow>>

RerankFails ==
    /\ pc = "rerank" /\ pc' = "raised"
    /\ UNCHANGED <<runtime, vec_hits, bm_hits, graph_hits, pool, overflow, answer>>

Next == \/ VectorLeg \/ VectorFails \/ KeywordLeg \/ GraphLeg \/ GraphFails
        \/ Screen \/ Rerank \/ RerankFails

Spec == Init /\ [][Next]_vars

-----------------------------------------------------------------------------
(* No clause is evidence twice: three legs, two chunks of one clause, a       *)
(* neighbour the lexical legs also found and the hits the quota turned away   *)
(* never show the reader the same text in two places (hybrid.py:140-179).     *)
EvidenceDistinct ==
    \A i, j \in DOMAIN answer : i # j => ClauseOf[answer[i]] # ClauseOf[answer[j]]

(* The pool the cross-encoder sees is as large as it would be without the     *)
(* quota, holds a document beyond its quota only when no clause of another    *)
(* document is left out for it, keeps the best fused chunk, and the hits set  *)
(* aside lost to the quota alone (diversity.py:70-98).                        *)
PoolDiverse ==
    pc = "rerank" =>
        LET thinned == collapse_by_parent(Fused)
            out == {c \in Range(thinned) : c \notin Range(pool)}
            full(c) == OfDocument(pool, c) >= MaxPerDocument IN
        /\ Len(pool) = Min({Limit, Len(thinned)})
        /\ pool[1] = Fused[1]
        /\ (\E c \in Range(pool) : OfDocument(pool, c) > MaxPerDocument) => \A c \in out : full(c)
        /\ Range(overflow) \subseteq {c \in out : full(c)}
=============================================================================
