------------------------- MODULE MemoryStore_proofs -------------------------
(***************************************************************************)
(* That a stored statement stays recallable, and that rows saying the same *)
(* never outnumber the processes, whatever is redelivered, edited or       *)
(* deleted: for every set of processes, requests and answers.              *)
(***************************************************************************)
EXTENDS MemoryStore, FiniteSetTheorems, WellFoundedInduction, TLAPS

-----------------------------------------------------------------------------
\* The inductive invariant.

Places == {e.place : e \in Stated}
Contents == {e.content : e \in Stated}
Rows == [id : Nat, place : Places, content : Contents, importance : Int,
         requests : SUBSET Requests, edited : BOOLEAN]
Plans == {NoPlan} \cup [kind : {"insert"}, entry : Stated]
         \cup [kind : {"merge"}, entry : Stated, old : Rows, new : Rows]

\* The types, and what a process is doing: it has a plan for the entry at the
\* head of what it has to add.
TypeOK ==
  /\ rows \subseteq Rows /\ IsFiniteSet(rows)
  /\ born \in Nat
  /\ work \in [Processes -> [pc : {"idle", "adding", "broken"}, request : Requests \cup {NoRequest},
                             todo : Seq(Entries), plan : Plans]]
  /\ owed \subseteq Places \X Contents

Planned ==
  \A p \in Processes :
    work[p].plan # NoPlan => /\ work[p].pc = "adding" /\ work[p].todo # <<>>

\* The ids are in the order of the inserts, and none is used twice.
Numbered ==
  /\ \A m \in rows : m.id \in 1..born
  /\ \A m, n \in rows : m.id = n.id => m = n

\* A merge that is planned says what the row says that it is planned into, as
\* long as no administrator rewrites the row.
Meant ==
  \A p \in Processes :
    work[p].plan.kind = "merge" =>
      LET plan == work[p].plan
      IN  /\ plan.old.id \in 1..born
          /\ plan.old.place = plan.entry.place
          /\ Same(plan.old.content, plan.entry.content)
          /\ plan.new.content \in {plan.old.content, plan.entry.content}
          /\ \A m \in rows : m.id = plan.old.id =>
               m.place = plan.old.place /\ (m.edited \/ Same(m.content, plan.old.content))

\* Rows nobody rewrote and inserts under way that say c, place by place.
Told(place, c) == {m.id : m \in {k \in rows : k.place = place /\ ~k.edited /\ Same(k.content, c)}}
Telling(place, c) ==
  {p \in Processes : /\ work[p].plan.kind = "insert"
                     /\ work[p].plan.entry.place = place /\ Same(work[p].plan.entry.content, c)}
Shared ==
  \A place \in Places, c \in Contents :
    Cardinality(Told(place, c)) + Cardinality(Telling(place, c)) <= Cardinality(Processes)

\* The similarity of wordings is an equivalence: so it is when only equal
\* normalized texts merge (merge_similarity_threshold = 0), and whenever the
\* wordings fall into groups.
SimilarityIsEquivalence ==
  \A s, t, u \in Contents : /\ Same(s, t) => Same(t, s)
                            /\ Same(s, t) /\ Same(t, u) => Same(s, u)

\* No place holds more rows than a lookup reads.
WithinLimit == \A m \in rows : Cardinality({n \in rows : n.place = m.place}) <= CandidateLimit

\* What every behaviour keeps, whatever the similarity.
Inv == TypeOK /\ Planned /\ Numbered

-----------------------------------------------------------------------------
\* What a lookup finds.

\* Every set of numbers that is not empty has a least one.
LEMMA LeastNumber ==
  ASSUME NEW T, T \subseteq Nat, T # {}
  PROVE  \E m \in T : \A k \in T : m <= k
<1> DEFINE R == {ss \in Nat \X Nat : ss[1] < ss[2]}
<1>1. IsWellFoundedOn(R, Nat)
  BY NatLessThanWellFounded DEF OpToRel
<1>2. \E x \in T : \A y \in T : ~ (<<y, x>> \in R)
  <2> HIDE DEF R
  <2> QED BY <1>1, WFMin
<1>3. PICK x \in T : \A y \in T : ~ (<<y, x>> \in R)
  BY <1>2
<1>4. ASSUME NEW y \in T PROVE x <= y
  <2>1. x \in Nat /\ y \in Nat
    OBVIOUS
  <2>2. <<y, x>> \in Nat \X Nat /\ <<y, x>>[1] = y /\ <<y, x>>[2] = x
    BY <2>1
  <2>3. ~(<<y, x>>[1] < <<y, x>>[2])
    <3>1. <<y, x>> \notin R
      BY <1>3
    <3> QED BY <2>2, <3>1, Zenon
  <2> QED BY <2>1, <2>2, <2>3
<1> QED BY <1>4

\* Among rows with different ids one comes first in the order of a lookup.
LEMMA FirstRow ==
  ASSUME NEW S, S \subseteq Rows, IsFiniteSet(S), S # {},
         \A m, n \in S : m.id = n.id => m = n
  PROVE  \E m \in S : \A n \in S : n = m \/ Before(m, n)
<1> DEFINE Ahead(m) == {n \in S : Before(n, m)}
           Depths == {Cardinality(Ahead(m)) : m \in S}
<1>1. \A m \in S : IsFiniteSet(Ahead(m)) /\ Cardinality(Ahead(m)) \in Nat
  BY FS_Subset, FS_CardinalityType
<1>2. Depths \subseteq Nat /\ Depths # {}
  <2> HIDE DEF Ahead
  <2> QED BY <1>1
<1>3. \E d \in Depths : \A k \in Depths : d <= k
  <2> HIDE DEF Depths
  <2> QED BY <1>2, LeastNumber
<1>4. PICK m \in S : \A n \in S : Cardinality(Ahead(m)) <= Cardinality(Ahead(n))
  <2> HIDE DEF Ahead
  <2> QED BY <1>3
<1>5. ASSUME NEW n \in S PROVE n = m \/ Before(m, n)
  <2>1. /\ m.id \in Nat /\ n.id \in Nat /\ m.importance \in Int /\ n.importance \in Int
    BY DEF Rows
  <2>2. CASE n # m /\ ~Before(m, n)
    <3>1. Before(n, m)
      BY <2>1, <2>2 DEF Before
    <3>2. Ahead(n) \subseteq Ahead(m)
      <4> SUFFICES ASSUME NEW k \in S, Before(k, n) PROVE Before(k, m)
        OBVIOUS
      <4>1. k.id \in Nat /\ k.importance \in Int
        BY DEF Rows
      <4> QED BY <2>1, <3>1, <4>1 DEF Before
    <3>3. n \in Ahead(m) /\ n \notin Ahead(n)
      BY <2>1, <3>1 DEF Before
    <3>4. Cardinality(Ahead(n)) < Cardinality(Ahead(m))
      <4> HIDE DEF Ahead
      <4>1. Ahead(n) # Ahead(m)
        BY <3>3
      <4>2. /\ Cardinality(Ahead(n)) <= Cardinality(Ahead(m))
            /\ Cardinality(Ahead(n)) = Cardinality(Ahead(m)) => Ahead(n) = Ahead(m)
        BY <1>1, <3>2, FS_Subset
      <4> QED BY <1>1, <4>1, <4>2
    <3> HIDE DEF Ahead
    <3> QED BY <1>1, <1>4, <3>4
  <2> QED BY <2>2
<1> QED BY <1>5

\* What is planned is an insert, and then the lookup found nothing, or a merge
\* into a row of the place that says the same.
LEMMA PlanMade ==
  ASSUME TypeOK, Numbered, NEW entry \in Stated, NEW request \in Requests \cup {NoRequest}
  PROVE  \/ /\ Plan(entry, request) = [kind |-> "insert", entry |-> entry]
            /\ MergeDuplicates => _find_duplicate(entry) = {}
         \/ \E old \in rows :
              /\ old.place = entry.place /\ Same(old.content, entry.content)
              /\ Plan(entry, request) =
                   [kind |-> "merge", entry |-> entry, old |-> old, new |-> Merged(old, entry, request)]
<1> DEFINE twins == IF MergeDuplicates THEN _find_duplicate(entry) ELSE {}
<1>1. Plan(entry, request) = Added(twins, entry, request)
  BY DEF Plan
<1>2. CASE twins = {}
  BY <1>1, <1>2 DEF Added
<1>3. CASE twins # {}
  <2> DEFINE first == CHOOSE m \in twins : \A n \in twins : n = m \/ Before(m, n)
  <2>1. twins \subseteq rows /\ \A m \in twins : m.place = entry.place /\ Same(m.content, entry.content)
    BY DEF _find_duplicate, list_memories
  <2>2. IsFiniteSet(twins) /\ twins \subseteq Rows /\ \A m, n \in twins : m.id = n.id => m = n
    <3> HIDE DEF twins
    <3> QED BY <2>1, FS_Subset DEF TypeOK, Numbered
  <2>3. \E m \in twins : \A n \in twins : n = m \/ Before(m, n)
    <3> HIDE DEF twins
    <3> QED BY <1>3, <2>2, FirstRow
  <2> HIDE DEF twins
  <2>4. first \in twins
    BY <2>3
  <2>5. Plan(entry, request) =
          [kind |-> "merge", entry |-> entry, old |-> first, new |-> Merged(first, entry, request)]
    BY <1>1, <1>3 DEF Added
  <2> HIDE DEF first
  <2> QED BY <2>1, <2>4, <2>5
<1> QED BY <1>2, <1>3

\* A merged row is a row with one of the two wordings.
LEMMA MergedRow ==
  ASSUME NEW m \in Rows, NEW entry \in Stated, NEW request \in Requests \cup {NoRequest}
  PROVE  /\ Merged(m, entry, request) \in Rows
         /\ Merged(m, entry, request).content \in {m.content, entry.content}
<1>1. entry.importance \in Int /\ entry.content \in Contents
  BY MemoryAssumption DEF Contents
<1> QED BY <1>1 DEF Merged, Rows

\* An update keeps the id, the place and the mark of the administrator.
LEMMA UpdatedRow ==
  ASSUME NEW m \in Rows, NEW old \in Rows, NEW new \in Rows
  PROVE  /\ Update(m, old, new) \in Rows
         /\ Update(m, old, new).id = m.id /\ Update(m, old, new).place = m.place
         /\ Update(m, old, new).edited = m.edited
         /\ Update(m, old, new).content \in {m.content, new.content}
BY DEF Update, Rows

\* An inserted row says what its entry says.
LEMMA InsertedRow ==
  ASSUME NEW entry \in Stated, NEW request \in Requests \cup {NoRequest}, born \in Nat
  PROVE  /\ Row(entry, request) \in Rows
         /\ Row(entry, request).id = born + 1 /\ ~Row(entry, request).edited
         /\ Row(entry, request).place = entry.place /\ Row(entry, request).content = entry.content
<1>1. entry.importance \in Int /\ entry.content \in Contents /\ entry.place \in Places
  BY MemoryAssumption DEF Contents, Places
<1> QED BY <1>1 DEF Row, Rows

-----------------------------------------------------------------------------
\* The types, the numbering and the plans.

Work == [pc : {"idle", "adding", "broken"}, request : Requests \cup {NoRequest},
         todo : Seq(Entries), plan : Plans]

\* The memory starts empty, with every process idle.
LEMMA InvInit == Init => Inv
<1> SUFFICES ASSUME Init PROVE Inv
  OBVIOUS
<1>1. IsFiniteSet({})
  BY FS_EmptySet
<1>2. Idle \in Work /\ Idle.plan = NoPlan
  BY DEF Idle, Work, Plans
<1> QED BY <1>1, <1>2 DEF Init, Inv, TypeOK, Planned, Numbered, Work

\* An entry that is neither blank nor malformed is a statement.
LEMMA HeadStated ==
  ASSUME TypeOK, NEW p \in Processes, work[p].todo # <<>>,
         Head(work[p].todo).kind \notin {"blank", "malformed"}
  PROVE  Head(work[p].todo) \in Stated
<1>1. work[p].todo \in Seq(Entries)
  BY DEF TypeOK
<1>2. Head(work[p].todo) \in Entries
  BY <1>1
<1> QED BY <1>2 DEF Stated

\* What is planned is typed.
LEMMA PlanTyped ==
  ASSUME TypeOK, Numbered, NEW entry \in Stated, NEW request \in Requests \cup {NoRequest}
  PROVE  Plan(entry, request) \in Plans
<1>1. CASE Plan(entry, request) = [kind |-> "insert", entry |-> entry]
  BY <1>1 DEF Plans
<1>2. ASSUME NEW old \in rows,
             Plan(entry, request) =
               [kind |-> "merge", entry |-> entry, old |-> old, new |-> Merged(old, entry, request)]
      PROVE  Plan(entry, request) \in Plans
  <2>1. old \in Rows
    BY DEF TypeOK
  <2>2. Merged(old, entry, request) \in Rows
    BY <2>1, MergedRow
  <2> QED BY <1>2, <2>1, <2>2 DEF Plans
<1> QED BY <1>1, <1>2, PlanMade

\* A process that changes what it does, and no row.
LEMMA WorkStep ==
  ASSUME Inv, NEW p \in Processes, NEW w \in Work, w.plan # NoPlan => w.pc = "adding" /\ w.todo # <<>>,
         work' = [work EXCEPT ![p] = w], rows' = rows, born' = born, owed' \in SUBSET (Places \X Contents)
  PROVE  Inv'
<1>1. work' \in [Processes -> Work]
  BY DEF Inv, TypeOK, Work
<1>2. \A q \in Processes : work'[q] = IF q = p THEN w ELSE work[q]
  BY DEF Inv, TypeOK
<1> QED BY <1>1, <1>2 DEF Inv, TypeOK, Planned, Numbered, Work

\* A lookup only adds a plan to what a process is doing.
LEMMA InvLook ==
  ASSUME Inv, NEW p \in Processes, Look(p) PROVE Inv'
<1> DEFINE entry == Head(work[p].todo)
<1>0. work[p] \in Work /\ owed \in SUBSET (Places \X Contents) /\ Processes # {}
  BY DEF Inv, TypeOK, Work
<1>1. /\ work[p].pc = "adding" /\ work[p].plan = NoPlan /\ work[p].todo # <<>>
      /\ rows' = rows /\ born' = born /\ owed' = owed
  BY DEF Look
<1>2. Tail(work[p].todo) \in Seq(Entries)
  BY <1>0, <1>1 DEF Work
<1>3. CASE entry.kind = "blank"
  <2> DEFINE w == [work[p] EXCEPT !.todo = Tail(work[p].todo)]
  <2>1. work' = [work EXCEPT ![p] = w]
    BY <1>3, Zenon DEF Look
  <2>2. w \in Work /\ w.plan = NoPlan
    BY <1>0, <1>1, <1>2 DEF Work
  <2> HIDE DEF w
  <2> QED BY <1>0, <1>1, <2>1, <2>2, WorkStep
<1>4. CASE entry.kind = "malformed"
  <2>1. work' = [work EXCEPT ![p] = Idle]
    BY <1>4 DEF Look
  <2>2. Idle \in Work /\ Idle.plan = NoPlan
    BY DEF Idle, Work, Plans
  <2> QED BY <1>0, <1>1, <2>1, <2>2, WorkStep
<1>5. CASE entry.kind \notin {"blank", "malformed"}
  <2> DEFINE w == [work[p] EXCEPT !.plan = Plan(entry, work[p].request)]
  <2>1. work' = [work EXCEPT ![p] = w]
    <3>1. work' = [work EXCEPT ![p].plan = Plan(entry, work[p].request)]
      BY <1>5 DEF Look
    <3> QED BY <3>1, Zenon
  <2>2. entry \in Stated /\ work[p].request \in Requests \cup {NoRequest}
    BY <1>0, <1>1, <1>5, HeadStated DEF Inv, Work
  <2>3. Plan(entry, work[p].request) \in Plans
    BY <2>2, PlanTyped DEF Inv
  <2>4. w \in Work /\ w.pc = "adding" /\ w.todo # <<>>
    BY <1>0, <1>1, <2>3 DEF Work
  <2> HIDE DEF w
  <2> QED BY <1>0, <1>1, <2>1, <2>4, WorkStep
<1> QED BY <1>3, <1>4, <1>5

\* The commit leaves the process with the rest of its list.
LEMMA CommittedWork ==
  ASSUME Inv, NEW p \in Processes, work[p].plan # NoPlan, Committed(p)
  PROVE  \E w \in Work : work' = [work EXCEPT ![p] = w] /\ w.plan = NoPlan
<1> DEFINE w == [work[p] EXCEPT !.plan = NoPlan, !.todo = Tail(work[p].todo)]
<1>0. work[p] \in Work /\ work[p].todo # <<>>
  BY DEF Inv, TypeOK, Work, Planned
<1>1. Tail(work[p].todo) \in Seq(Entries)
  BY <1>0 DEF Work
<1>2. w \in Work /\ w.plan = NoPlan
  BY <1>0, <1>1 DEF Work, Plans
<1>3. work' = [work EXCEPT ![p] = w]
  <2>1. work' = [work EXCEPT ![p].plan = NoPlan, ![p].todo = Tail(@)]
    BY DEF Committed
  <2>2. work \in [Processes -> Work] /\ work' \in [Processes -> Work] /\ DOMAIN work' = Processes
    BY <2>1, <1>0, <1>1 DEF Inv, TypeOK, Work, Plans
  <2>3. \A q \in Processes : work'[q] = [work EXCEPT ![p] = w][q]
    BY <2>1, <2>2, <1>0 DEF Work
  <2> QED BY <2>2, <2>3
<1> HIDE DEF w
<1> QED BY <1>2, <1>3

\* A step that changes rows and at most one process.
LEMMA RowsStep ==
  ASSUME Inv, NEW p \in Processes, NEW w \in Work, w.plan = NoPlan,
         work' = [work EXCEPT ![p] = w],
         rows' \subseteq Rows, IsFiniteSet(rows'), born' \in Nat, owed' \in SUBSET (Places \X Contents),
         \A m \in rows' : m.id \in 1..born', \A m, n \in rows' : m.id = n.id => m = n
  PROVE  Inv'
<1>1. work' \in [Processes -> Work]
  BY DEF Inv, TypeOK, Work
<1>2. \A q \in Processes : work'[q] = IF q = p THEN w ELSE work[q]
  BY DEF Inv, TypeOK
<1>3. TypeOK'
  BY <1>1 DEF TypeOK, Work
<1>4. Planned'
  BY <1>2 DEF Inv, Planned
<1> QED BY <1>3, <1>4 DEF Inv, Numbered

\* An insert takes the next id.
LEMMA InvInsert ==
  ASSUME Inv, NEW p \in Processes, Insert(p) PROVE Inv'
<1> DEFINE plan == work[p].plan
           row == Row(plan.entry, work[p].request)
<1>1. plan.kind = "insert" /\ work[p] \in Work /\ born \in Nat
  BY DEF Insert, Inv, TypeOK, Work
<1>2. plan # NoPlan /\ plan.entry \in Stated
  BY <1>1 DEF Work, Plans, NoPlan
<1>3. PICK w \in Work : work' = [work EXCEPT ![p] = w] /\ w.plan = NoPlan
  BY <1>2, CommittedWork DEF Insert
<1>4. /\ row \in Rows /\ row.id = born + 1
  BY <1>1, <1>2, InsertedRow DEF Work
<1>5. /\ rows' = rows \cup {row} /\ born' = born + 1
      /\ owed' = owed \cup {<<plan.entry.place, plan.entry.content>>}
  BY DEF Insert
<1> HIDE DEF row
<1>6. rows' \subseteq Rows /\ IsFiniteSet(rows') /\ born' \in Nat
  <2>1. IsFiniteSet(rows \cup {row})
    BY FS_AddElement DEF Inv, TypeOK
  <2> QED BY <1>1, <1>4, <1>5, <2>1 DEF Inv, TypeOK
<1>7. owed' \in SUBSET (Places \X Contents)
  BY <1>2, <1>5 DEF Inv, TypeOK, Places, Contents
<1>8. \A m \in rows : m.id \in 1..born
  BY DEF Inv, Numbered
<1>9. /\ \A m \in rows' : m.id \in 1..born'
      /\ \A m, n \in rows' : m.id = n.id => m = n
  BY <1>1, <1>4, <1>5, <1>8 DEF Inv, Numbered
<1> QED BY <1>3, <1>6, <1>7, <1>9, RowsStep

\* What a merge writes into a row, whichever row it is.
LEMMA MergedRows ==
  ASSUME Inv, NEW old \in Rows, NEW new \in Rows,
         rows' = Written(old, new)
  PROVE  /\ rows' \subseteq Rows /\ IsFiniteSet(rows')
         /\ \A n \in rows' : n.id \in 1..born
         /\ \A m, n \in rows' : m.id = n.id => m = n
         /\ \A n \in rows' : \E m \in rows :
              /\ n.id = m.id /\ n.place = m.place /\ n.edited = m.edited
              /\ n.content = m.content \/ (m.id = old.id /\ n.content = new.content)
         /\ \A m \in rows : \E n \in rows' :
              /\ n.id = m.id /\ n.place = m.place /\ n.edited = m.edited
              /\ n.content = m.content \/ (m.id = old.id /\ n.content = new.content)
<1> DEFINE u(m) == IF m.id = old.id THEN Update(m, old, new) ELSE m
<1>1. ASSUME NEW m \in rows
      PROVE  /\ u(m) \in Rows /\ u(m).id = m.id /\ u(m).place = m.place /\ u(m).edited = m.edited
             /\ u(m).content = m.content \/ (m.id = old.id /\ u(m).content = new.content)
  <2>1. m \in Rows
    BY DEF Inv, TypeOK
  <2> QED BY <2>1, UpdatedRow
<1>2. rows' = {u(m) : m \in rows}
  BY DEF Written
<1>3. IsFiniteSet({u(m) : m \in rows})
  <2> DEFINE f == [m \in rows |-> u(m)]
             T == {u(m) : m \in rows}
  <2> HIDE DEF u
  <2>1. IsFiniteSet(rows)
    BY DEF Inv, TypeOK
  <2>2. f \in Surjection(rows, T)
    BY DEF Surjection
  <2> HIDE DEF f, T
  <2>3. IsFiniteSet(T)
    BY <2>1, <2>2, FS_Surjection
  <2> QED BY <2>3 DEF T
<1> HIDE DEF u
<1>4. ASSUME NEW n \in rows'
      PROVE  \E m \in rows : /\ n.id = m.id /\ n.place = m.place /\ n.edited = m.edited
                             /\ n.content = m.content \/ (m.id = old.id /\ n.content = new.content)
  BY <1>1, <1>2
<1>5. \A m \in rows : m.id \in 1..born
  BY DEF Inv, Numbered
<1>6. \A m, n \in rows : m.id = n.id => m = n
  BY DEF Inv, Numbered
<1>7. rows' \subseteq Rows /\ \A n \in rows' : n.id \in 1..born
  BY <1>1, <1>2, <1>5
<1>8. ASSUME NEW m \in rows', NEW n \in rows', m.id = n.id PROVE m = n
  <2>1. PICK k \in rows, l \in rows : m = u(k) /\ n = u(l)
    BY <1>2
  <2> QED BY <1>1, <1>6, <1>8, <2>1
<1>9. ASSUME NEW m \in rows
      PROVE  \E n \in rows' : /\ n.id = m.id /\ n.place = m.place /\ n.edited = m.edited
                              /\ n.content = m.content \/ (m.id = old.id /\ n.content = new.content)
  BY <1>1, <1>2
<1> QED BY <1>2, <1>3, <1>4, <1>7, <1>8, <1>9

\* A merge writes into rows that are there, or into none and breaks the session.
LEMMA InvMerge ==
  ASSUME Inv, NEW p \in Processes, Merge(p) PROVE Inv'
<1> DEFINE plan == work[p].plan
<1>1. plan.kind = "merge" /\ work[p] \in Work /\ born \in Nat /\ born' = born
  BY DEF Merge, Inv, TypeOK, Work
<1>2. plan # NoPlan /\ plan.entry \in Stated /\ plan.old \in Rows /\ plan.new \in Rows
  BY <1>1 DEF Work, Plans, NoPlan
<1>3. CASE At(plan.old.id) = {}
  <2> DEFINE w == [Idle EXCEPT !.pc = "broken"]
  <2>1. work' = [work EXCEPT ![p] = w] /\ rows' = rows /\ owed' = owed
    BY <1>3 DEF Merge, Broken
  <2>2. w \in Work /\ w.plan = NoPlan
    <3>1. << >> \in Seq(Entries)
      OBVIOUS
    <3> QED BY <3>1 DEF Idle, Work, Plans
  <2> HIDE DEF w
  <2>3. owed' \in SUBSET (Places \X Contents)
    BY <2>1 DEF Inv, TypeOK
  <2> QED BY <1>1, <2>1, <2>2, <2>3, WorkStep
<1>4. CASE At(plan.old.id) # {}
  <2>1. /\ rows' = Written(plan.old, plan.new)
        /\ owed' = owed \cup {<<plan.entry.place, plan.entry.content>>}
        /\ Committed(p)
    BY <1>4 DEF Merge
  <2>2. PICK w \in Work : work' = [work EXCEPT ![p] = w] /\ w.plan = NoPlan
    BY <1>2, <2>1, CommittedWork
  <2>3. owed' \in SUBSET (Places \X Contents)
    BY <1>2, <2>1 DEF Inv, TypeOK, Places, Contents
  <2>4. /\ rows' \subseteq Rows /\ IsFiniteSet(rows')
        /\ \A n \in rows' : n.id \in 1..born
        /\ \A m, n \in rows' : m.id = n.id => m = n
    BY <1>2, <2>1, MergedRows
  <2> QED BY <1>1, <2>2, <2>3, <2>4, RowsStep
<1> QED BY <1>3, <1>4

\* A run starts with what the curator answered, or raises on a broken session.
LEMMA InvRun ==
  ASSUME Inv, NEW p \in Workers, NEW r \in Requests, Run(p, r) PROVE Inv'
<1>0. p \in Processes /\ work[p] \in Work /\ owed \in SUBSET (Places \X Contents)
  BY DEF Inv, TypeOK, Work, Processes
<1>1. rows' = rows /\ born' = born /\ owed' = owed
  BY DEF Run
<1>2. CASE work' = work
  BY <1>1, <1>2 DEF Inv, TypeOK, Planned, Numbered
<1>3. ASSUME NEW payload \in Payloads[r],
             work' = [work EXCEPT ![p] = [Idle EXCEPT !.pc = "adding", !.request = r, !.todo = payload]]
      PROVE  Inv'
  <2> DEFINE w == [Idle EXCEPT !.pc = "adding", !.request = r, !.todo = payload]
  <2>1. payload \in Seq(Entries)
    BY MemoryAssumption
  <2>2. w \in Work /\ w.plan = NoPlan
    BY <2>1 DEF Idle, Work, Plans
  <2> HIDE DEF w
  <2> QED BY <1>0, <1>1, <1>3, <2>2, WorkStep DEF w
<1> QED BY <1>2, <1>3 DEF Run

\* A process that starts afresh.
LEMMA InvIdle ==
  ASSUME Inv, NEW p \in Processes, work' = [work EXCEPT ![p] = Idle],
         rows' = rows, born' = born, owed' = owed
  PROVE  Inv'
<1>1. Idle \in Work /\ Idle.plan = NoPlan /\ owed \in SUBSET (Places \X Contents)
  BY DEF Idle, Work, Plans, Inv, TypeOK
<1> QED BY <1>1, WorkStep

\* An administrator's addition is a list of one entry.
LEMMA InvAdminAdd ==
  ASSUME Inv, AdminAdd PROVE Inv'
<1>1. PICK entry \in AdminEntries :
        work' = [work EXCEPT ![Api] = [Idle EXCEPT !.pc = "adding", !.todo = <<entry>>]]
  BY DEF AdminAdd
<1> DEFINE w == [Idle EXCEPT !.pc = "adding", !.todo = <<entry>>]
<1>2. w \in Work /\ w.plan = NoPlan
  <2>1. <<entry>> \in Seq(Entries)
    BY DEF Entries
  <2> QED BY <2>1 DEF Idle, Work, Plans
<1>3. Api \in Processes /\ rows' = rows /\ born' = born /\ owed' = owed
  BY DEF AdminAdd, Processes
<1>4. owed \in SUBSET (Places \X Contents)
  BY DEF Inv, TypeOK
<1> HIDE DEF w
<1> QED BY <1>1, <1>2, <1>3, <1>4, WorkStep DEF w

\* Processes that go on undisturbed while an administrator works on a row.
LEMMA InvAdmin ==
  ASSUME Inv, work' = work, born' = born, owed' \subseteq owed,
         rows' \subseteq Rows, IsFiniteSet(rows'),
         \A n \in rows' : \E m \in rows : n.id = m.id,
         \A m, n \in rows' : m.id = n.id => m = n
  PROVE  Inv'
BY DEF Inv, TypeOK, Planned, Numbered

\* A row that is rewritten keeps its id.
LEMMA InvUpdate ==
  ASSUME Inv, NEW m \in rows, NEW entry \in AdminEntries,
         update_memory(m, entry.content, entry.importance)
  PROVE  Inv'
<1> DEFINE new == [m EXCEPT !.content = entry.content, !.importance = entry.importance, !.edited = TRUE]
<1>1. m \in Rows /\ entry.importance \in Int /\ entry.content \in Contents
  BY MemoryAssumption DEF Inv, TypeOK, Contents, Stated
<1>2. new \in Rows /\ new.id = m.id
  BY <1>1 DEF Rows
<1>3. rows' = (rows \ {m}) \cup {new} /\ work' = work /\ born' = born /\ owed' \subseteq owed
  BY DEF update_memory, TakesBack
<1> HIDE DEF new
<1>4. IsFiniteSet((rows \ {m}) \cup {new})
  BY FS_RemoveElement, FS_AddElement DEF Inv, TypeOK
<1>5. rows' \subseteq Rows
  BY <1>2, <1>3 DEF Inv, TypeOK
<1>6. /\ \A n \in rows' : \E k \in rows : n.id = k.id
      /\ \A k, n \in rows' : k.id = n.id => k = n
  BY <1>2, <1>3 DEF Inv, Numbered
<1> QED BY <1>3, <1>4, <1>5, <1>6, InvAdmin

\* A row that is deleted leaves the others as they are.
LEMMA InvDelete ==
  ASSUME Inv, NEW m \in rows, delete_memory(m) PROVE Inv'
<1>1. rows' = rows \ {m} /\ work' = work /\ born' = born /\ owed' \subseteq owed
  BY DEF delete_memory, TakesBack
<1>2. IsFiniteSet(rows \ {m})
  BY FS_RemoveElement DEF Inv, TypeOK
<1> QED BY <1>1, <1>2, InvAdmin DEF Inv, TypeOK, Numbered

\* Every step keeps the invariant.
LEMMA InvStep == Inv /\ [Next]_vars => Inv'
<1> SUFFICES ASSUME Inv, [Next]_vars PROVE Inv'
  OBVIOUS
<1>1. ASSUME NEW p \in Processes, Look(p) PROVE Inv'
  BY <1>1, InvLook
<1>2. ASSUME NEW p \in Processes, Insert(p) PROVE Inv'
  BY <1>2, InvInsert
<1>3. ASSUME NEW p \in Processes, Merge(p) PROVE Inv'
  BY <1>3, InvMerge
<1>4. ASSUME NEW p \in Processes, Finish(p) PROVE Inv'
  BY <1>4, InvIdle DEF Finish
<1>5. ASSUME NEW p \in Workers, Crash(p) PROVE Inv'
  BY <1>5, InvIdle DEF Crash, Processes
<1>6. ASSUME NEW p \in Workers, NEW r \in Requests, Run(p, r) PROVE Inv'
  BY <1>6, InvRun
<1>7. CASE AdminAdd
  BY <1>7, InvAdminAdd
<1>8. ASSUME NEW m \in rows, delete_memory(m) PROVE Inv'
  BY <1>8, InvDelete
<1>9. ASSUME NEW m \in rows, NEW entry \in AdminEntries,
             update_memory(m, entry.content, entry.importance)
      PROVE  Inv'
  BY <1>9, InvUpdate
<1>10. CASE UNCHANGED vars
  BY <1>10 DEF vars, Inv, TypeOK, Planned, Numbered
<1> QED BY <1>1, <1>2, <1>3, <1>4, <1>5, <1>6, <1>7, <1>8, <1>9, <1>10 DEF Next

\* The memory keeps its types, and a row keeps its id for itself.
THEOREM MemoryTyped == Spec => []Inv
<1> QED BY InvInit, InvStep, PTL DEF Spec

-----------------------------------------------------------------------------
\* A stored statement stays recallable.

\* What a plan is made of.
LEMMA PlanParts ==
  ASSUME Inv, NEW p \in Processes
  PROVE  /\ work[p].plan.kind = "insert" => work[p].plan.entry \in Stated
         /\ work[p].plan.kind = "merge" => /\ work[p].plan.entry \in Stated
                                           /\ work[p].plan.old \in Rows /\ work[p].plan.new \in Rows
         /\ work[p].request \in Requests \cup {NoRequest}
BY DEF Inv, TypeOK, Plans, NoPlan

\* A row a step leaves is new, rewritten by an administrator, or one that was
\* there and still says the same.
StillSaid ==
  \A n \in rows' : \/ (n.id \notin 1..born /\ \E p \in Processes : Insert(p))
                   \/ \E m \in rows : /\ n.id = m.id /\ n.place = m.place
                                      /\ n.edited \/ (~m.edited /\ Same(n.content, m.content))

\* Rows that still say the same stay the rows the plans mean.
LEMMA MeantStep ==
  ASSUME SimilarityIsEquivalence, Inv, Inv', Meant, StillSaid, born' \in Nat, born <= born',
         \A p \in Processes : work'[p].plan = work[p].plan \/ work'[p].plan.kind # "merge"
  PROVE  Meant'
<1> SUFFICES ASSUME NEW p \in Processes, work'[p].plan.kind = "merge"
             PROVE  LET plan == work'[p].plan
                    IN  /\ plan.old.id \in 1..born'
                        /\ plan.old.place = plan.entry.place
                        /\ Same(plan.old.content, plan.entry.content)
                        /\ plan.new.content \in {plan.old.content, plan.entry.content}
                        /\ \A m \in rows' : m.id = plan.old.id =>
                             m.place = plan.old.place /\ (m.edited \/ Same(m.content, plan.old.content))
  BY DEF Meant
<1> DEFINE plan == work[p].plan
<1>1. work'[p].plan = plan /\ plan.kind = "merge"
  OBVIOUS
<1>2. /\ plan.old.id \in 1..born
      /\ plan.old.place = plan.entry.place
      /\ Same(plan.old.content, plan.entry.content)
      /\ plan.new.content \in {plan.old.content, plan.entry.content}
      /\ \A m \in rows : m.id = plan.old.id =>
           m.place = plan.old.place /\ (m.edited \/ Same(m.content, plan.old.content))
  BY <1>1 DEF Meant
<1>3. plan.old \in Rows
  BY <1>1, PlanParts
<1> HIDE DEF plan
<1>4. ASSUME NEW n \in rows', n.id = plan.old.id
      PROVE  n.place = plan.old.place /\ (n.edited \/ Same(n.content, plan.old.content))
  <2>1. PICK m \in rows : /\ n.id = m.id /\ n.place = m.place
                          /\ n.edited \/ (~m.edited /\ Same(n.content, m.content))
    BY <1>2, <1>4 DEF StillSaid
  <2>2. m.place = plan.old.place /\ (m.edited \/ Same(m.content, plan.old.content))
    BY <1>2, <1>4, <2>1
  <2>3. n.content \in Contents /\ m.content \in Contents /\ plan.old.content \in Contents
    BY <1>3 DEF Inv, TypeOK, Rows
  <2> QED BY <2>1, <2>2, <2>3 DEF SimilarityIsEquivalence
<1>5. plan.old.id \in 1..born'
  BY <1>2 DEF Inv, TypeOK
<1> QED BY <1>1, <1>2, <1>4, <1>5

\* A merge goes into a row that says the same, or that was rewritten.
LEMMA MergeSaid ==
  ASSUME SimilarityIsEquivalence, Inv, Meant, NEW p \in Processes, Merge(p), At(work[p].plan.old.id) # {}
  PROVE  /\ \A n \in rows' : \E m \in rows :
              /\ n.id = m.id /\ n.place = m.place /\ n.edited = m.edited
              /\ n.edited \/ Same(n.content, m.content)
         /\ \A m \in rows : \E n \in rows' :
              /\ n.id = m.id /\ n.place = m.place /\ n.edited = m.edited
              /\ n.edited \/ Same(n.content, m.content)
         /\ \E n \in rows' : /\ n.place = work[p].plan.entry.place
                             /\ n.edited \/ Same(n.content, work[p].plan.entry.content)
<1> DEFINE plan == work[p].plan
<1>1. plan.kind = "merge"
  BY DEF Merge
<1>2. plan.entry \in Stated /\ plan.old \in Rows /\ plan.new \in Rows
  BY <1>1, PlanParts
<1>3. /\ plan.old.place = plan.entry.place
      /\ Same(plan.old.content, plan.entry.content)
      /\ plan.new.content \in {plan.old.content, plan.entry.content}
      /\ \A m \in rows : m.id = plan.old.id =>
           m.place = plan.old.place /\ (m.edited \/ Same(m.content, plan.old.content))
  BY <1>1 DEF Meant
<1>4. rows' = Written(plan.old, plan.new)
  BY DEF Merge
<1>5. /\ \A n \in rows' : \E m \in rows :
           /\ n.id = m.id /\ n.place = m.place /\ n.edited = m.edited
           /\ n.content = m.content \/ (m.id = plan.old.id /\ n.content = plan.new.content)
      /\ \A m \in rows : \E n \in rows' :
           /\ n.id = m.id /\ n.place = m.place /\ n.edited = m.edited
           /\ n.content = m.content \/ (m.id = plan.old.id /\ n.content = plan.new.content)
  BY <1>2, <1>4, MergedRows
<1>6. /\ plan.old.content \in Contents /\ plan.entry.content \in Contents
      /\ \A m \in rows : m.content \in Contents
  BY <1>2 DEF Inv, TypeOK, Rows, Contents
<1>7. PICK t \in rows : t.id = plan.old.id
  BY DEF At
<1> HIDE DEF plan
<1>8. ASSUME NEW m \in rows, m.id = plan.old.id, ~m.edited
      PROVE  Same(plan.new.content, m.content) /\ Same(plan.new.content, plan.entry.content)
  BY <1>3, <1>6, <1>8 DEF SimilarityIsEquivalence
<1>9. \A m \in rows : Same(m.content, m.content)
  BY DEF Same
<1>10. ASSUME NEW n \in rows'
       PROVE  \E m \in rows : /\ n.id = m.id /\ n.place = m.place /\ n.edited = m.edited
                              /\ n.edited \/ Same(n.content, m.content)
  BY <1>5, <1>8, <1>9
<1>11. ASSUME NEW m \in rows
       PROVE  \E n \in rows' : /\ n.id = m.id /\ n.place = m.place /\ n.edited = m.edited
                               /\ n.edited \/ Same(n.content, m.content)
  BY <1>5, <1>8, <1>9
<1>12. \E n \in rows' : /\ n.place = plan.entry.place
                        /\ n.edited \/ Same(n.content, plan.entry.content)
  <2>1. PICK n \in rows' :
          /\ n.id = t.id /\ n.place = t.place /\ n.edited = t.edited
          /\ n.content = t.content \/ n.content = plan.new.content
    BY <1>5
  <2>2. t.place = plan.entry.place /\ (t.edited \/ Same(t.content, plan.old.content))
    BY <1>3, <1>7
  <2>3. ~t.edited => Same(t.content, plan.entry.content)
    BY <1>3, <1>6, <2>2 DEF SimilarityIsEquivalence
  <2> QED BY <1>7, <1>8, <2>1, <2>2, <2>3
<1> QED BY <1>10, <1>11, <1>12 DEF plan

\* Only an administrator's step leaves a row that says something else.
LEMMA StillSaidStep ==
  ASSUME SimilarityIsEquivalence, Inv, Meant, [Next]_vars
  PROVE  StillSaid
<1>0. \A m \in rows : Same(m.content, m.content)
  BY DEF Same
<1>1. CASE rows' = rows
  BY <1>0, <1>1 DEF StillSaid
<1>2. ASSUME NEW p \in Processes, Insert(p) PROVE StillSaid
  <2>1. PICK row : rows' = rows \cup {row} /\ row.id = born + 1
    <3>1. work[p].plan.entry \in Stated /\ work[p].request \in Requests \cup {NoRequest} /\ born \in Nat
      BY <1>2, PlanParts DEF Insert, Inv, TypeOK
    <3>2. Row(work[p].plan.entry, work[p].request).id = born + 1
      BY <3>1, InsertedRow
    <3> QED BY <1>2, <3>2 DEF Insert
  <2>2. \A n \in rows' : n \in rows \/ n.id = born + 1
    BY <2>1
  <2>3. born + 1 \notin 1..born
    BY DEF Inv, TypeOK
  <2> QED BY <1>0, <1>2, <2>2, <2>3 DEF StillSaid
<1>3. ASSUME NEW p \in Processes, Merge(p) PROVE StillSaid
  <2>1. CASE At(work[p].plan.old.id) = {}
    BY <1>1, <1>3, <2>1 DEF Merge
  <2>2. CASE At(work[p].plan.old.id) # {}
    <3>1. \A n \in rows' : \E m \in rows :
            /\ n.id = m.id /\ n.place = m.place /\ n.edited = m.edited
            /\ n.edited \/ Same(n.content, m.content)
      BY <1>3, <2>2, MergeSaid
    <3> QED BY <3>1 DEF StillSaid
  <2> QED BY <2>1, <2>2
<1>4. ASSUME NEW m \in rows, delete_memory(m) PROVE StillSaid
  BY <1>0, <1>4 DEF delete_memory, StillSaid
<1>5. ASSUME NEW m \in rows, NEW entry \in AdminEntries,
             update_memory(m, entry.content, entry.importance)
      PROVE  StillSaid
  <2> DEFINE new == [m EXCEPT !.content = entry.content, !.importance = entry.importance, !.edited = TRUE]
  <2>1. new.id = m.id /\ new.place = m.place /\ new.edited
    BY DEF Inv, TypeOK, Rows
  <2>2. rows' = (rows \ {m}) \cup {new}
    BY <1>5 DEF update_memory
  <2> HIDE DEF new
  <2> QED BY <1>0, <2>1, <2>2 DEF StillSaid
<1>6. CASE Next
  <2>1. ASSUME NEW p \in Processes, Look(p) \/ Finish(p) PROVE StillSaid
    BY <1>1, <2>1 DEF Look, Finish
  <2>2. ASSUME NEW p \in Workers, Crash(p) \/ \E r \in Requests : Run(p, r) PROVE StillSaid
    BY <1>1, <2>2 DEF Crash, Run
  <2>3. CASE AdminAdd
    BY <1>1, <2>3 DEF AdminAdd
  <2> QED BY <1>2, <1>3, <1>4, <1>5, <1>6, <2>1, <2>2, <2>3 DEF Next
<1> QED BY <1>1, <1>6 DEF vars

\* A plan is as it was, gone, or just made.
LEMMA PlanStep ==
  ASSUME Inv, [Next]_vars, NEW q \in Processes
  PROVE  \/ work'[q].plan = work[q].plan
         \/ work'[q].plan = NoPlan
         \/ /\ Look(q) /\ work[q].plan = NoPlan
            /\ work'[q].plan = Plan(Head(work[q].todo), work[q].request)
            /\ Head(work[q].todo) \in Stated
<1> DEFINE goal == \/ work'[q].plan = work[q].plan
                   \/ work'[q].plan = NoPlan
                   \/ /\ Look(q) /\ work[q].plan = NoPlan
                      /\ work'[q].plan = Plan(Head(work[q].todo), work[q].request)
                      /\ Head(work[q].todo) \in Stated
<1>0. work \in [Processes -> Work] /\ Idle.plan = NoPlan
  BY DEF Inv, TypeOK, Work, Idle
<1>1. ASSUME NEW p \in Processes, Look(p) PROVE goal
  <2>1. CASE Head(work[p].todo).kind = "blank"
    BY <1>0, <1>1, <2>1 DEF Look, Work
  <2>2. CASE Head(work[p].todo).kind = "malformed"
    BY <1>0, <1>1, <2>2 DEF Look, Work
  <2>3. CASE Head(work[p].todo).kind \notin {"blank", "malformed"}
    <3>1. work' = [work EXCEPT ![p].plan = Plan(Head(work[p].todo), work[p].request)] /\ work[p].plan = NoPlan
      BY <1>1, <2>3 DEF Look
    <3>2. Head(work[p].todo) \in Stated
      BY <1>1, <2>3, HeadStated DEF Look, Inv
    <3>3. CASE p = q
      BY <1>0, <1>1, <3>1, <3>2, <3>3 DEF Work
    <3>4. CASE p # q
      BY <1>0, <3>1, <3>4
    <3> QED BY <3>3, <3>4
  <2> QED BY <2>1, <2>2, <2>3
<1>2. ASSUME NEW p \in Processes, Committed(p), work[p].plan # NoPlan PROVE goal
  <2>1. PICK w \in Work : work' = [work EXCEPT ![p] = w] /\ w.plan = NoPlan
    BY <1>2, CommittedWork
  <2> QED BY <1>0, <2>1
<1>3. ASSUME NEW p \in Processes, NEW w, work' = [work EXCEPT ![p] = w], w.plan = NoPlan PROVE goal
  BY <1>0, <1>3
<1>4. [Idle EXCEPT !.pc = "broken"].plan = NoPlan
  BY DEF Idle
<1>5. ASSUME NEW p \in Processes, Insert(p) PROVE goal
  BY <1>2, <1>5 DEF Insert, NoPlan
<1>6. ASSUME NEW p \in Processes, Merge(p) PROVE goal
  <2>1. CASE Committed(p)
    BY <1>2, <1>6, <2>1 DEF Merge, NoPlan
  <2>2. CASE Broken(p)
    <3> DEFINE w == [Idle EXCEPT !.pc = "broken"]
    <3>1. work' = [work EXCEPT ![p] = w]
      BY <2>2 DEF Broken
    <3> HIDE DEF w
    <3> QED BY <1>3, <1>4, <3>1 DEF w
  <2> QED BY <1>6, <2>1, <2>2 DEF Merge
<1>7. ASSUME NEW p \in Processes, Finish(p) \/ Crash(p) PROVE goal
  BY <1>0, <1>3, <1>7 DEF Finish, Crash
<1>8. ASSUME NEW p \in Workers, NEW r \in Requests, Run(p, r) PROVE goal
  <2>1. CASE work' = work
    BY <2>1
  <2>2. ASSUME NEW payload,
               work' = [work EXCEPT ![p] = [Idle EXCEPT !.pc = "adding", !.request = r, !.todo = payload]]
        PROVE  goal
    <3> DEFINE w == [Idle EXCEPT !.pc = "adding", !.request = r, !.todo = payload]
    <3>1. w.plan = NoPlan /\ p \in Processes
      BY DEF Idle, Processes
    <3>2. work' = [work EXCEPT ![p] = w]
      BY <2>2
    <3> HIDE DEF w
    <3> QED BY <1>3, <3>1, <3>2
  <2> QED BY <1>8, <2>1, <2>2 DEF Run
<1>9. CASE AdminAdd
  <2>1. PICK entry : work' = [work EXCEPT ![Api] = [Idle EXCEPT !.pc = "adding", !.todo = <<entry>>]]
    BY <1>9 DEF AdminAdd
  <2> DEFINE w == [Idle EXCEPT !.pc = "adding", !.todo = <<entry>>]
  <2>2. w.plan = NoPlan /\ Api \in Processes
    BY DEF Idle, Processes
  <2>3. work' = [work EXCEPT ![Api] = w]
    BY <2>1
  <2> HIDE DEF w
  <2> QED BY <1>3, <2>2, <2>3
<1>10. CASE UNCHANGED vars
  BY <1>10 DEF vars
<1>11. ASSUME NEW m \in rows, delete_memory(m) PROVE goal
  BY <1>11 DEF delete_memory
<1>12. ASSUME NEW m \in rows, NEW entry \in AdminEntries,
              update_memory(m, entry.content, entry.importance)
       PROVE  goal
  BY <1>12 DEF update_memory
<1>13. \A p \in Workers : p \in Processes
  BY DEF Processes
<1>14. CASE \E p \in Processes : Look(p) \/ Insert(p) \/ Merge(p) \/ Finish(p)
  BY <1>1, <1>5, <1>6, <1>7, <1>14
<1>15. CASE \E p \in Workers : Crash(p) \/ \E r \in Requests : Run(p, r)
  BY <1>7, <1>8, <1>13, <1>15
<1>16. CASE \E m \in rows :
              \/ delete_memory(m)
              \/ \E entry \in AdminEntries : update_memory(m, entry.content, entry.importance)
  BY <1>11, <1>12, <1>16
<1>17. goal
  BY <1>9, <1>10, <1>14, <1>15, <1>16 DEF Next
<1> QED BY <1>17 DEF goal

\* Rows are only ever added to the count of the inserts.
LEMMA BornGrows ==
  ASSUME Inv, [Next]_vars PROVE born <= born'
<1>0. born \in Nat
  BY DEF Inv, TypeOK
<1>1. ASSUME NEW p \in Processes, Look(p) \/ Insert(p) \/ Merge(p) \/ Finish(p) \/ Crash(p) PROVE born <= born'
  BY <1>0, <1>1 DEF Look, Insert, Merge, Finish, Crash
<1>2. ASSUME NEW p \in Workers, NEW r \in Requests, Run(p, r) PROVE born <= born'
  <2>1. born' = born
    BY <1>2 DEF Run
  <2> QED BY <1>0, <2>1
<1>3. CASE AdminAdd \/ \E m \in rows : delete_memory(m)
  <2>1. born' = born
    BY <1>3 DEF AdminAdd, delete_memory
  <2> QED BY <1>0, <2>1
<1>4. ASSUME NEW m \in rows, NEW entry \in AdminEntries,
             update_memory(m, entry.content, entry.importance)
      PROVE  born <= born'
  BY <1>0, <1>4 DEF update_memory
<1>5. CASE UNCHANGED vars
  BY <1>0, <1>5 DEF vars
<1> QED BY <1>1, <1>2, <1>3, <1>4, <1>5 DEF Next, Processes

\* Every step keeps what the plans mean: one just made means the row it read.
LEMMA MeantKept ==
  ASSUME SimilarityIsEquivalence, Inv, Inv', Meant, [Next]_vars
  PROVE  Meant'
<1>1. StillSaid /\ born' \in Nat /\ born <= born'
  BY StillSaidStep, BornGrows DEF Inv, TypeOK
<1>2. CASE \A p \in Processes : work'[p].plan = work[p].plan \/ work'[p].plan.kind # "merge"
  BY <1>1, <1>2, MeantStep
<1>3. ASSUME NEW q \in Processes, work'[q].plan # work[q].plan, work'[q].plan.kind = "merge"
      PROVE  Meant'
  <2> DEFINE entry == Head(work[q].todo)
  <2>1. Look(q) /\ work'[q].plan = Plan(entry, work[q].request) /\ entry \in Stated
    BY <1>3, PlanStep DEF NoPlan
  <2>2. rows' = rows /\ born' = born
    BY <2>1 DEF Look
  <2>3. work[q].request \in Requests \cup {NoRequest}
    BY DEF Inv, TypeOK
  <2>4. PICK old \in rows :
          /\ old.place = entry.place /\ Same(old.content, entry.content)
          /\ Plan(entry, work[q].request) =
               [kind |-> "merge", entry |-> entry, old |-> old, new |-> Merged(old, entry, work[q].request)]
    <3> HIDE DEF entry
    <3> QED BY <1>3, <2>1, <2>3, PlanMade DEF Inv
  <2>5. old \in Rows /\ Merged(old, entry, work[q].request).content \in {old.content, entry.content}
    <3>1. old \in Rows
      BY DEF Inv, TypeOK
    <3> QED BY <3>1, <2>1, <2>3, MergedRow
  <2>6. \A p \in Processes : p # q => work'[p].plan = work[p].plan
    BY <2>1 DEF Look, Inv, TypeOK
  <2>7. ASSUME NEW p \in Processes, work'[p].plan.kind = "merge"
        PROVE  LET plan == work'[p].plan
               IN  /\ plan.old.id \in 1..born'
                   /\ plan.old.place = plan.entry.place
                   /\ Same(plan.old.content, plan.entry.content)
                   /\ plan.new.content \in {plan.old.content, plan.entry.content}
                   /\ \A m \in rows' : m.id = plan.old.id =>
                        m.place = plan.old.place /\ (m.edited \/ Same(m.content, plan.old.content))
    <3>1. CASE p # q
      BY <2>2, <2>6, <2>7, <3>1 DEF Meant
    <3>2. CASE p = q
      <4> HIDE DEF entry
      <4>1. /\ work'[q].plan.old = old /\ work'[q].plan.entry = entry
            /\ work'[q].plan.new = Merged(old, entry, work[q].request)
        BY <2>1, <2>4
      <4>2. old.id \in 1..born /\ \A m \in rows : m.id = old.id => m = old
        BY DEF Inv, Numbered
      <4> QED BY <2>2, <2>4, <2>5, <3>2, <4>1, <4>2 DEF Same
    <3> QED BY <3>1, <3>2
  <2> QED BY <2>7 DEF Meant
<1> QED BY <1>2, <1>3

\* Rows that keep their place and what they say keep what is owed.
LEMMA OwedStep ==
  ASSUME SimilarityIsEquivalence, Inv, Inv', StatementKept, NEW o \in owed, NEW gone,
         \A m \in rows : m # gone =>
           \E n \in rows' : n.place = m.place /\ (n.edited \/ (~m.edited /\ Same(n.content, m.content))),
         gone \in rows => o[1] # gone.place \/ ~(gone.edited \/ Same(o[2], gone.content))
  PROVE  \E n \in rows' : n.place = o[1] /\ (Same(n.content, o[2]) \/ n.edited)
<1>1. PICK m \in rows : m.place = o[1] /\ (Same(m.content, o[2]) \/ m.edited)
  BY DEF StatementKept
<1>2. m.content \in Contents /\ o[2] \in Contents
  BY DEF Inv, TypeOK, Rows
<1>3. m # gone
  BY <1>1, <1>2 DEF SimilarityIsEquivalence
<1>4. PICK n \in rows' : n.place = m.place /\ (n.edited \/ (~m.edited /\ Same(n.content, m.content)))
  BY <1>3
<1>5. n.content \in Contents
  BY DEF Inv, TypeOK, Rows
<1> QED BY <1>1, <1>2, <1>4, <1>5 DEF SimilarityIsEquivalence

\* Every step keeps what is owed recallable.
LEMMA KeptStep ==
  ASSUME SimilarityIsEquivalence, Inv, Inv', Meant, StatementKept, [Next]_vars
  PROVE  StatementKept'
<1>0. \A m \in rows : Same(m.content, m.content)
  BY DEF Same
<1>1. CASE rows' = rows /\ owed' = owed
  BY <1>1 DEF StatementKept
<1>2. ASSUME NEW p \in Processes, Insert(p) PROVE StatementKept'
  <2> DEFINE entry == work[p].plan.entry
             row == Row(entry, work[p].request)
  <2>1. entry \in Stated /\ work[p].request \in Requests \cup {NoRequest} /\ born \in Nat
    BY <1>2, PlanParts DEF Insert, Inv, TypeOK
  <2>2. row.place = entry.place /\ row.content = entry.content
    BY <2>1, InsertedRow
  <2>3. rows' = rows \cup {row} /\ owed' = owed \cup {<<entry.place, entry.content>>}
    BY <1>2 DEF Insert
  <2> HIDE DEF entry, row
  <2> QED BY <2>2, <2>3 DEF StatementKept, Same
<1>3. ASSUME NEW p \in Processes, Merge(p) PROVE StatementKept'
  <2>1. CASE At(work[p].plan.old.id) = {}
    BY <1>1, <1>3, <2>1 DEF Merge
  <2>2. CASE At(work[p].plan.old.id) # {}
    <3> DEFINE entry == work[p].plan.entry
    <3>1. /\ \A m \in rows : \E n \in rows' :
               /\ n.id = m.id /\ n.place = m.place /\ n.edited = m.edited
               /\ n.edited \/ Same(n.content, m.content)
          /\ \E n \in rows' : /\ n.place = entry.place
                              /\ n.edited \/ Same(n.content, entry.content)
      BY <1>3, <2>2, MergeSaid
    <3>2. owed' = owed \cup {<<entry.place, entry.content>>}
      BY <1>3, <2>2 DEF Merge
    <3> HIDE DEF entry
    <3>3. \A m \in rows :
            \E n \in rows' : n.place = m.place /\ (n.edited \/ (~m.edited /\ Same(n.content, m.content)))
      BY <3>1
    <3>4. ASSUME NEW o \in owed
          PROVE  \E n \in rows' : n.place = o[1] /\ (Same(n.content, o[2]) \/ n.edited)
      <4>1. PICK gone : gone \notin rows
        <5>1. {x \in rows : x \notin x} \notin rows
          OBVIOUS
        <5> QED BY <5>1
      <4> QED BY <3>3, <4>1, OwedStep
    <3> QED BY <3>1, <3>2, <3>4 DEF StatementKept
  <2> QED BY <2>1, <2>2
<1>4. ASSUME NEW m \in rows, delete_memory(m) PROVE StatementKept'
  <2>1. rows' = rows \ {m}
    BY <1>4 DEF delete_memory
  <2>2. owed' = {o \in owed : o[1] # m.place \/ ~(m.edited \/ Same(o[2], m.content))}
    BY <1>4 DEF delete_memory, TakesBack
  <2>3. \A k \in rows : k # m =>
          \E n \in rows' : n.place = k.place /\ (n.edited \/ (~k.edited /\ Same(n.content, k.content)))
    <3>1. \A k \in rows : k.edited \in BOOLEAN
      BY DEF Inv, TypeOK, Rows
    <3> QED BY <1>0, <2>1, <3>1
  <2>4. ASSUME NEW o \in owed'
        PROVE  \E n \in rows' : n.place = o[1] /\ (Same(n.content, o[2]) \/ n.edited)
    <3>1. o \in owed /\ (o[1] # m.place \/ ~(m.edited \/ Same(o[2], m.content)))
      BY <2>2
    <3> QED BY <2>3, <3>1, OwedStep
  <2> QED BY <2>4 DEF StatementKept
<1>5. ASSUME NEW m \in rows, NEW entry \in AdminEntries,
             update_memory(m, entry.content, entry.importance)
      PROVE  StatementKept'
  <2> DEFINE new == [m EXCEPT !.content = entry.content, !.importance = entry.importance, !.edited = TRUE]
  <2>1. new.place = m.place /\ new.edited
    BY DEF Inv, TypeOK, Rows
  <2>2. rows' = (rows \ {m}) \cup {new}
    BY <1>5 DEF update_memory
  <2>3. owed' = {o \in owed : o[1] # m.place \/ ~(m.edited \/ Same(o[2], m.content))}
    BY <1>5 DEF update_memory, TakesBack
  <2> HIDE DEF new
  <2>4. \A k \in rows : k # m =>
          \E n \in rows' : n.place = k.place /\ (n.edited \/ (~k.edited /\ Same(n.content, k.content)))
    <3>1. \A k \in rows : k.edited \in BOOLEAN
      BY DEF Inv, TypeOK, Rows
    <3> QED BY <1>0, <2>2, <3>1
  <2>5. ASSUME NEW o \in owed'
        PROVE  \E n \in rows' : n.place = o[1] /\ (Same(n.content, o[2]) \/ n.edited)
    <3>1. o \in owed /\ (o[1] # m.place \/ ~(m.edited \/ Same(o[2], m.content)))
      BY <2>3
    <3> QED BY <2>4, <3>1, OwedStep
  <2> QED BY <2>5 DEF StatementKept
<1>6. CASE Next
  <2>1. ASSUME NEW p \in Processes, Look(p) \/ Finish(p) PROVE StatementKept'
    BY <1>1, <2>1 DEF Look, Finish
  <2>2. ASSUME NEW p \in Workers, Crash(p) \/ \E r \in Requests : Run(p, r) PROVE StatementKept'
    BY <1>1, <2>2 DEF Crash, Run
  <2>3. CASE AdminAdd
    BY <1>1, <2>3 DEF AdminAdd
  <2> QED BY <1>2, <1>3, <1>4, <1>5, <1>6, <2>1, <2>2, <2>3 DEF Next
<1> QED BY <1>1, <1>6 DEF vars

\* What was stored stays recallable until an administrator takes it back, where
\* the similarity of wordings is an equivalence.
THEOREM StatementStaysRecallable ==
  SimilarityIsEquivalence /\ Spec => []StatementKept
<1> SUFFICES ASSUME SimilarityIsEquivalence PROVE Spec => []StatementKept
  OBVIOUS
<1>1. Init => Inv /\ Meant /\ StatementKept
  BY InvInit DEF Init, Meant, StatementKept, Idle, NoPlan
<1>2. Inv /\ Meant /\ StatementKept /\ [Next]_vars => (Inv /\ Meant /\ StatementKept)'
  BY InvStep, MeantKept, KeptStep
<1> QED BY <1>1, <1>2, PTL DEF Spec

-----------------------------------------------------------------------------
\* Rows that say the same.

\* Every row of a place is a candidate while the place is within the limit.
LEMMA AllCandidates ==
  ASSUME Inv, WithinLimit, NEW m \in rows
  PROVE  m \in list_memories(m.place)
<1> DEFINE there == {n \in rows : n.place = m.place}
           ahead == {n \in there : Before(n, m)}
<1>1. IsFiniteSet(there) /\ m \in there /\ Cardinality(there) <= CandidateLimit
  <2>1. there \subseteq rows /\ IsFiniteSet(rows)
    BY DEF Inv, TypeOK
  <2> QED BY <2>1, FS_Subset DEF WithinLimit
<1>2. m \notin ahead
  <2>1. m.id \in Nat /\ m.importance \in Int
    BY DEF Inv, TypeOK, Rows
  <2> QED BY <2>1 DEF Before
<1>3. ahead \subseteq there
  OBVIOUS
<1>4. Cardinality(ahead) < CandidateLimit
  <2> HIDE DEF ahead, there
  <2>1. Cardinality(ahead) <= Cardinality(there) /\ Cardinality(ahead) # Cardinality(there)
    BY <1>1, <1>2, <1>3, FS_Subset
  <2>2. Cardinality(ahead) \in Nat /\ Cardinality(there) \in Nat
    BY <1>1, <1>3, FS_Subset, FS_CardinalityType
  <2> QED BY <1>1, <2>1, <2>2, MemoryAssumption
<1> QED BY <1>1, <1>4 DEF list_memories

\* The sets that are counted are finite.
LEMMA Counted ==
  ASSUME Inv, NEW place, NEW c
  PROVE  /\ IsFiniteSet(Processes) /\ IsFiniteSet(Told(place, c)) /\ IsFiniteSet(Telling(place, c))
         /\ Cardinality(Processes) \in Nat
         /\ Cardinality(Told(place, c)) \in Nat /\ Cardinality(Telling(place, c)) \in Nat
         /\ Cardinality(Telling(place, c)) <= Cardinality(Processes)
         /\ Told(place, c) \subseteq 1..born
<1>1. IsFiniteSet(Processes)
  BY MemoryAssumption, FS_AddElement DEF Processes
<1>2. Told(place, c) \subseteq 1..born /\ born \in Nat
  BY DEF Told, Inv, Numbered, TypeOK
<1>3. IsFiniteSet(1..born)
  BY <1>2, FS_Interval
<1>4. Telling(place, c) \subseteq Processes
  BY DEF Telling
<1> QED BY <1>1, <1>2, <1>3, <1>4, FS_Subset, FS_CardinalityType

\* A look that plans an insert saw no row that says the same.
LEMMA LookedForTwins ==
  ASSUME SimilarityIsEquivalence, MergeDuplicates, Inv, WithinLimit,
         NEW entry \in Stated, NEW request \in Requests \cup {NoRequest},
         Plan(entry, request).kind = "insert",
         NEW c \in Contents, Same(entry.content, c)
  PROVE  Told(entry.place, c) = {}
<1>1. _find_duplicate(entry) = {}
  BY PlanMade DEF Inv
<1>2. SUFFICES ASSUME NEW m \in rows, m.place = entry.place, Same(m.content, c)
               PROVE  FALSE
  BY DEF Told
<1>3. m.content \in Contents /\ entry.content \in Contents
  BY DEF Inv, TypeOK, Rows, Contents
<1>4. Same(m.content, entry.content)
  BY <1>2, <1>3 DEF SimilarityIsEquivalence
<1>5. m \in list_memories(entry.place)
  BY <1>2, AllCandidates
<1> QED BY <1>1, <1>4, <1>5 DEF _find_duplicate

\* The rows of a kind are those of before, and the one inserted.
LEMMA ToldStep ==
  ASSUME SimilarityIsEquivalence, Inv, Inv', Meant, [Next]_vars, NEW place \in Places, NEW c \in Contents
  PROVE  \A id \in Told(place, c)' : \/ id \in Told(place, c)
                                    \/ (id \notin 1..born /\ \E p \in Processes : Insert(p))
<1>1. ASSUME NEW n \in rows', n.place = place, ~n.edited, Same(n.content, c)
      PROVE  \/ n.id \in Told(place, c)
             \/ (n.id \notin 1..born /\ \E p \in Processes : Insert(p))
  <2>1. CASE n.id \notin 1..born /\ \E p \in Processes : Insert(p)
    BY <2>1
  <2>2. ASSUME NEW m \in rows, n.id = m.id, n.place = m.place, ~m.edited, Same(n.content, m.content)
        PROVE  n.id \in Told(place, c)
    <3>1. n.content \in Contents /\ m.content \in Contents
      BY DEF Inv, TypeOK, Rows
    <3>2. Same(m.content, c)
      BY <1>1, <2>2, <3>1 DEF SimilarityIsEquivalence
    <3> QED BY <1>1, <2>2, <3>2 DEF Told
  <2> QED BY <1>1, <2>1, <2>2, StillSaidStep DEF StillSaid
<1>2. ASSUME NEW id \in Told(place, c)'
      PROVE  \E n \in rows' : n.place = place /\ ~n.edited /\ Same(n.content, c) /\ id = n.id
  BY DEF Told
<1> QED BY <1>1, <1>2

\* One insert turns a process that is about to say it into a row that says it.
LEMMA InsertShared ==
  ASSUME SimilarityIsEquivalence, Inv, Inv', Meant, Shared, [Next]_vars,
         NEW p \in Processes, Insert(p), NEW place \in Places, NEW c \in Contents
  PROVE  Cardinality(Told(place, c)') + Cardinality(Telling(place, c)') <= Cardinality(Processes)
<1> DEFINE entry == work[p].plan.entry
           row == Row(entry, work[p].request)
<1>1. /\ work[p].plan.kind = "insert" /\ entry \in Stated
      /\ work[p].request \in Requests \cup {NoRequest} /\ born \in Nat
  BY PlanParts DEF Insert, Inv, TypeOK
<1>2. rows' = rows \cup {row} /\ row.id = born + 1 /\ row.place = entry.place /\ row.content = entry.content
  BY <1>1, InsertedRow DEF Insert
<1>3. \A q \in Processes : q # p => work'[q] = work[q]
  BY DEF Insert, Committed, Inv, TypeOK
<1>4. work'[p].plan = NoPlan
  <2>1. PICK w \in Work : work' = [work EXCEPT ![p] = w] /\ w.plan = NoPlan
    BY <1>1, CommittedWork DEF Insert, NoPlan
  <2> QED BY <2>1 DEF Inv, TypeOK
<1>5. Telling(place, c)' \subseteq Telling(place, c) \ {p}
  BY <1>3, <1>4 DEF Telling, NoPlan, Same
<1>6. Cardinality(Told(place, c)) + Cardinality(Telling(place, c)) <= Cardinality(Processes)
  BY DEF Shared
<1>7. CASE entry.place = place /\ Same(entry.content, c)
  <2>1. p \in Telling(place, c)
    BY <1>1, <1>7 DEF Telling
  <2>2. Told(place, c)' \subseteq Told(place, c) \cup {born + 1}
    BY <1>2 DEF Told, Same
  <2>3. Cardinality(Telling(place, c) \ {p}) = Cardinality(Telling(place, c)) - 1
    BY <2>1, Counted, FS_RemoveElement
  <2>4. Cardinality(Told(place, c) \cup {born + 1}) <= Cardinality(Told(place, c)) + 1
    <3>1. IsFiniteSet(Told(place, c)) /\ Cardinality(Told(place, c)) \in Nat
      BY Counted
    <3>2. Cardinality(Told(place, c) \cup {born + 1}) =
            IF born + 1 \in Told(place, c) THEN Cardinality(Told(place, c)) ELSE Cardinality(Told(place, c)) + 1
      BY <3>1, FS_AddElement
    <3> QED BY <3>1, <3>2
  <2>5. IsFiniteSet(Told(place, c) \cup {born + 1}) /\ IsFiniteSet(Telling(place, c) \ {p})
    BY Counted, FS_AddElement, FS_RemoveElement
  <2>6. /\ Cardinality(Told(place, c)') <= Cardinality(Told(place, c) \cup {born + 1})
        /\ Cardinality(Telling(place, c)') <= Cardinality(Telling(place, c) \ {p})
    BY <1>5, <2>2, <2>5, FS_Subset
  <2>7. /\ Cardinality(Told(place, c)') \in Nat /\ Cardinality(Telling(place, c)') \in Nat
        /\ Cardinality(Told(place, c) \cup {born + 1}) \in Nat
        /\ Cardinality(Telling(place, c) \ {p}) \in Nat
    BY <1>5, <2>2, <2>5, FS_Subset, FS_CardinalityType
  <2> QED BY <1>6, <2>3, <2>4, <2>6, <2>7, Counted
<1>8. CASE ~(entry.place = place /\ Same(entry.content, c))
  <2>1. Told(place, c)' \subseteq Told(place, c)
    BY <1>2, <1>8 DEF Told, Same
  <2>2. Telling(place, c)' \subseteq Telling(place, c)
    BY <1>5
  <2>3. /\ Cardinality(Told(place, c)') <= Cardinality(Told(place, c))
        /\ Cardinality(Telling(place, c)') <= Cardinality(Telling(place, c))
        /\ Cardinality(Told(place, c)') \in Nat /\ Cardinality(Telling(place, c)') \in Nat
    BY <2>1, <2>2, Counted, FS_Subset, FS_CardinalityType
  <2> QED BY <1>6, <2>3, Counted
<1> QED BY <1>7, <1>8

\* Every step keeps the count: a process only plans an insert when no row says it.
LEMMA SharedStep ==
  ASSUME SimilarityIsEquivalence, MergeDuplicates, WithinLimit, Inv, Inv', Meant, Shared, [Next]_vars
  PROVE  Shared'
<1> SUFFICES ASSUME NEW place \in Places, NEW c \in Contents
             PROVE  Cardinality(Told(place, c)') + Cardinality(Telling(place, c)') <= Cardinality(Processes)
  BY DEF Shared
<1>1. CASE \E p \in Processes : Insert(p)
  BY <1>1, InsertShared
<1>2. CASE ~\E p \in Processes : Insert(p)
  <2>1. Told(place, c)' \subseteq Told(place, c)
    BY <1>2, ToldStep
  <2>2. CASE Telling(place, c)' \subseteq Telling(place, c)
    <3>1. /\ Cardinality(Told(place, c)') <= Cardinality(Told(place, c))
          /\ Cardinality(Telling(place, c)') <= Cardinality(Telling(place, c))
          /\ Cardinality(Told(place, c)') \in Nat /\ Cardinality(Telling(place, c)') \in Nat
      BY <2>1, <2>2, Counted, FS_Subset, FS_CardinalityType
    <3>2. Cardinality(Told(place, c)) + Cardinality(Telling(place, c)) <= Cardinality(Processes)
      BY DEF Shared
    <3> QED BY <3>1, <3>2, Counted
  <2>3. ASSUME NEW q \in Telling(place, c)', q \notin Telling(place, c)
        PROVE  Cardinality(Told(place, c)') + Cardinality(Telling(place, c)') <= Cardinality(Processes)
    <3>1. /\ q \in Processes /\ work'[q].plan.kind = "insert"
          /\ work'[q].plan.entry.place = place /\ Same(work'[q].plan.entry.content, c)
      BY DEF Telling, Same
    <3>2. work'[q].plan # work[q].plan /\ work'[q].plan # NoPlan
      BY <2>3, <3>1 DEF Telling, NoPlan
    <3>3. PICK entry \in Stated : work'[q].plan = Plan(entry, work[q].request)
      BY <3>1, <3>2, PlanStep
    <3>4. work[q].request \in Requests \cup {NoRequest}
      BY <3>1, PlanParts
    <3>5. Plan(entry, work[q].request).kind = "insert" /\ Plan(entry, work[q].request).entry = entry
      BY <3>1, <3>3, <3>4, PlanMade DEF Inv
    <3>6. Told(place, c) = {}
      BY <3>1, <3>3, <3>4, <3>5, LookedForTwins
    <3>7. Told(place, c)' = {} /\ Telling(place, c)' \subseteq Processes
      BY <2>1, <3>6 DEF Telling
    <3>8. Cardinality(Told(place, c)') = 0
      BY <3>7, FS_EmptySet
    <3>9. Cardinality(Telling(place, c)') <= Cardinality(Processes) /\ Cardinality(Telling(place, c)') \in Nat
      BY <3>7, Counted, FS_Subset, FS_CardinalityType
    <3> QED BY <3>8, <3>9, Counted
  <2> QED BY <2>2, <2>3
<1> QED BY <1>1, <1>2

\* Different rows have different ids.
LEMMA TwinsCounted == ASSUME Inv, Shared PROVE TwinsBounded
<1> SUFFICES ASSUME NEW m \in rows
             PROVE  Cardinality({n \in rows : n.place = m.place /\ ~n.edited /\ Same(n.content, m.content)})
                      <= Cardinality(Processes)
  BY DEF TwinsBounded
<1> DEFINE T == {n \in rows : n.place = m.place /\ ~n.edited /\ Same(n.content, m.content)}
           f == [n \in T |-> n.id]
<1>1. m.place \in Places /\ m.content \in Contents
  BY DEF Inv, TypeOK, Rows
<1>2. T \subseteq rows /\ Told(m.place, m.content) = {n.id : n \in T}
  BY DEF Told
<1>3. f \in Injection(T, Told(m.place, m.content))
  <2> HIDE DEF T
  <2>1. \A k, n \in T : k.id = n.id => k = n
    BY <1>2 DEF Inv, Numbered
  <2> QED BY <1>2, <2>1 DEF Injection, IsInjective
<1> HIDE DEF T, f
<1>4. Cardinality(T) <= Cardinality(Told(m.place, m.content)) /\ IsFiniteSet(T)
  BY <1>3, Counted, FS_Injection
<1>5. Cardinality(T) \in Nat
  BY <1>4, FS_CardinalityType
<1>6. Cardinality(Told(m.place, m.content)) + Cardinality(Telling(m.place, m.content)) <= Cardinality(Processes)
  BY <1>1 DEF Shared
<1>7. Cardinality(T) <= Cardinality(Processes)
  BY <1>4, <1>5, <1>6, Counted
<1> QED BY <1>7 DEF T

\* Nothing is stored or planned at first.
LEMMA SharedInit == ASSUME Init PROVE Shared
<1> SUFFICES ASSUME NEW place \in Places, NEW c \in Contents
             PROVE  Cardinality(Told(place, c)) + Cardinality(Telling(place, c)) <= Cardinality(Processes)
  BY DEF Shared
<1>1. Told(place, c) = {} /\ Telling(place, c) = {}
  BY DEF Init, Told, Telling, Idle, NoPlan
<1>2. Cardinality({}) = 0 /\ Cardinality(Processes) \in Nat
  BY InvInit, Counted, FS_EmptySet
<1> QED BY <1>1, <1>2

\* As long as a lookup reads every row of its place, rows that say the same never
\* outnumber the processes, where the similarity of wordings is an equivalence.
THEOREM TwinsStayBounded ==
  SimilarityIsEquivalence /\ MergeDuplicates /\ Spec /\ []WithinLimit => []TwinsBounded
<1> SUFFICES ASSUME SimilarityIsEquivalence, MergeDuplicates
             PROVE  Spec /\ []WithinLimit => []TwinsBounded
  OBVIOUS
<1>1. Init => Inv /\ Meant /\ Shared
  BY InvInit, SharedInit DEF Init, Meant, Idle, NoPlan
<1>2. WithinLimit /\ Inv /\ Meant /\ Shared /\ [Next]_vars => (Inv /\ Meant /\ Shared)'
  BY InvStep, MeantKept, SharedStep
<1>3. Inv /\ Shared => TwinsBounded
  BY TwinsCounted
<1> QED BY <1>1, <1>2, <1>3, PTL DEF Spec

=============================================================================
