---------------------------- MODULE MemoryStore ----------------------------
(***************************************************************************)
(* MemoryService and MemoryRepository: the durable memories that runs      *)
(* extract and administrators keep.  Every process holds one database      *)
(* session for its lifetime; a memory is added in two steps, the lookup of *)
(* a duplicate and the commit of an insert or a merge, and processes work  *)
(* beside each other.  A request whose worker dies is run again.           *)
(*                                                                         *)
(* A statement stands for every wording with one normalized text; Alike    *)
(* says which normalized texts the similarity threshold puts together, and *)
(* Length how long a wording is.                                           *)
(***************************************************************************)
EXTENDS Integers, Sequences, FiniteSets

CONSTANTS
  Workers,           \* processes that run workflows
  Api,               \* the process administrators talk to
  Requests,          \* workflow requests
  NoRequest,         \* an administrator adds without one
  Payloads,          \* request |-> what the curator may answer, lists of entries
  AdminEntries,      \* what administrators add
  Alike,             \* pairs of statements that merge, similar wording included
  Length,            \* statement |-> its length
  MergeDuplicates,   \* memory.merge_duplicates
  CandidateLimit,    \* MERGE_CANDIDATE_LIMIT
  MaxEdits,          \* bound: additions, changes and deletions by administrators
  MaxCrashes         \* bound: worker crashes

\* What a curator or an administrator may say; only a statement is stored.
Entries == AdminEntries \cup
           UNION {{payload[i] : i \in DOMAIN payload} : payload \in UNION {Payloads[r] : r \in Requests}}
Stated == AdminEntries \cup {e \in Entries : e.kind \notin {"blank", "malformed"}}

ASSUME MemoryAssumption ==
  /\ IsFiniteSet(Workers) /\ Api \notin Workers
  /\ NoRequest \notin Requests
  /\ \A r \in Requests : Payloads[r] \subseteq Seq(Entries)
  /\ \A e \in Stated : e.importance \in Int
  /\ CandidateLimit \in Nat \ {0}
  /\ MaxEdits \in Nat /\ MaxCrashes \in Nat

VARIABLES
  rows,              \* memory_entries, numbered in the order of created_at
  born,              \* rows ever inserted
  work,              \* what each process is doing with the memory
  result,            \* what became of each request's extraction
  owed,              \* statements that are committed and that nobody took back
  edits, crashes

vars == <<rows, born, work, result, owed, edits, crashes>>

Processes == Workers \cup {Api}
NoPlan == [kind |-> "none"]
Idle == [pc |-> "idle", request |-> NoRequest, todo |-> <<>>, plan |-> NoPlan]

Init ==
  /\ rows = {}
  /\ born = 0
  /\ work = [p \in Processes |-> Idle]
  /\ result = [r \in Requests |-> "none"]
  /\ owed = {}
  /\ edits = 0
  /\ crashes = 0

\* ------------------------------------------------------------------- reading

\* order_by importance desc, created_at desc, up to a limit
Before(m, n) == m.importance > n.importance \/ (m.importance = n.importance /\ m.id > n.id)

list_memories(place) ==
  LET there == {m \in rows : m.place = place}
  IN  {m \in there : Cardinality({n \in there : Before(n, m)}) < CandidateLimit}

\* _find_duplicate: the candidates that say the same; the first of them counts.
Same(s, t) == s = t \/ <<s, t>> \in Alike
_find_duplicate(entry) == {m \in list_memories(entry.place) : Same(m.content, entry.content)}

\* ------------------------------------------------------------------- writing

\* add_memory up to the commit: what is going to be written.  A merge keeps the
\* longer wording, the higher importance and every request, and is computed
\* from the row as it was read.
Merged(m, entry, request) ==
  [m EXCEPT !.content = IF Length[entry.content] > Length[@] THEN entry.content ELSE @,
            !.importance = IF entry.importance > @ THEN entry.importance ELSE @,
            !.requests = (@ \cup {request}) \ {NoRequest}]

Row(entry, request) ==
  [id |-> born + 1, place |-> entry.place, content |-> entry.content, importance |-> entry.importance,
   requests |-> {request} \ {NoRequest}, edited |-> FALSE]

Added(twins, entry, request) ==
  IF twins = {} THEN [kind |-> "insert", entry |-> entry]
  ELSE LET first == CHOOSE m \in twins : \A n \in twins : n = m \/ Before(m, n)
       IN  [kind |-> "merge", entry |-> entry, old |-> first, new |-> Merged(first, entry, request)]

Plan_Inverted(entry, request) ==      \* Wrong on purpose: the setting is read the wrong way round
  Added(IF MergeDuplicates THEN {} ELSE _find_duplicate(entry), entry, request)

Plan(entry, request) ==
  Added(IF MergeDuplicates THEN _find_duplicate(entry) ELSE {}, entry, request)

\* An UPDATE names the columns that changed since the row was read; the
\* requests share the metadata column with the merge count, which always does.
Update(m, old, new) ==
  [m EXCEPT !.content = IF new.content # old.content THEN new.content ELSE @,
            !.importance = IF new.importance # old.importance THEN new.importance ELSE @,
            !.requests = new.requests]

Written(old, new) == {IF m.id = old.id THEN Update(m, old, new) ELSE m : m \in rows}

At(id) == {m \in rows : m.id = id}

Look(p) ==
  /\ work[p].pc = "adding" /\ work[p].plan = NoPlan
  /\ work[p].todo # <<>>
  /\ LET entry == Head(work[p].todo)
     IN  CASE entry.kind = "blank" -> work' = [work EXCEPT ![p].todo = Tail(@)] /\ UNCHANGED result
           \* entry.get and int() are outside the try block
           [] entry.kind = "malformed" ->
                /\ work' = [work EXCEPT ![p] = Idle]
                /\ result' = [result EXCEPT ![work[p].request] = "raised"]
           [] OTHER ->
                /\ work' = [work EXCEPT ![p].plan = Plan(entry, work[p].request)]
                /\ UNCHANGED result
  /\ UNCHANGED <<rows, born, owed, edits, crashes>>

\* The commit.  A merge into a row that is gone fails (no row matched), and a
\* session that failed is never rolled back.
Committed(p) ==
  work' = [work EXCEPT ![p].plan = NoPlan, ![p].todo = Tail(@)]
Broken(p) ==
  /\ work' = [work EXCEPT ![p] = [Idle EXCEPT !.pc = "broken"]]
  /\ result' = IF work[p].request = NoRequest THEN result ELSE [result EXCEPT ![work[p].request] = "raised"]

Insert(p) ==
  LET plan == work[p].plan
  IN  /\ plan.kind = "insert"
      /\ rows' = rows \cup {Row(plan.entry, work[p].request)}
      /\ born' = born + 1
      /\ owed' = owed \cup {<<plan.entry.place, plan.entry.content>>}
      /\ Committed(p)
      /\ UNCHANGED <<result, edits, crashes>>

Merge_Unmatched(p) ==        \* Wrong on purpose: an update of no row passes for a success
  LET plan == work[p].plan
  IN  /\ plan.kind = "merge"
      /\ rows' = Written(plan.old, plan.new)
      /\ owed' = owed \cup {<<plan.entry.place, plan.entry.content>>}
      /\ Committed(p)
      /\ UNCHANGED <<born, result, edits, crashes>>

Merge(p) ==
  LET plan == work[p].plan
  IN  /\ plan.kind = "merge"
      /\ IF At(plan.old.id) = {}
         THEN Broken(p) /\ UNCHANGED <<rows, owed>>
         ELSE /\ rows' = Written(plan.old, plan.new)
              /\ owed' = owed \cup {<<plan.entry.place, plan.entry.content>>}
              /\ Committed(p)
              /\ UNCHANGED result
      /\ UNCHANGED <<born, edits, crashes>>

\* --------------------------------------------------------------- extraction

\* The run loads its context first; a broken session raises there.
Run(p, r) ==
  /\ result[r] = "none" /\ \A q \in Workers : work[q].request # r
  /\ \/ /\ work[p].pc = "broken"
        /\ result' = [result EXCEPT ![r] = "raised"]
        /\ UNCHANGED work
     \/ /\ work[p].pc = "idle"
        /\ \E payload \in Payloads[r] :
             work' = [work EXCEPT ![p] = [Idle EXCEPT !.pc = "adding", !.request = r, !.todo = payload]]
        /\ UNCHANGED result
  /\ UNCHANGED <<rows, born, owed, edits, crashes>>

Finish(p) ==
  /\ work[p].pc = "adding" /\ work[p].todo = <<>>
  /\ work' = [work EXCEPT ![p] = Idle]
  /\ result' = IF work[p].request = NoRequest THEN result ELSE [result EXCEPT ![work[p].request] = "stored"]
  /\ UNCHANGED <<rows, born, owed, edits, crashes>>

\* The worker dies; its request is delivered again to a process that starts
\* with a session of its own.
Crash(p) ==
  /\ work[p].pc # "idle"
  /\ crashes < MaxCrashes /\ crashes' = crashes + 1
  /\ work' = [work EXCEPT ![p] = Idle]
  /\ UNCHANGED <<rows, born, result, owed, edits>>

\* ------------------------------------------------------------ administrators

Edit == edits < MaxEdits /\ edits' = edits + 1

\* POST /runtime/memories
AdminAdd ==
  /\ work[Api].pc = "idle" /\ Edit
  /\ \E entry \in AdminEntries :
       work' = [work EXCEPT ![Api] = [Idle EXCEPT !.pc = "adding", !.todo = <<entry>>]]
  /\ UNCHANGED <<rows, born, result, owed, crashes>>

\* PATCH and DELETE of a row: what it said, or took in after it was
\* rewritten, is not owed any longer.
TakesBack(m) == owed' = {o \in owed : o[1] # m.place \/ ~(m.edited \/ Same(o[2], m.content))}

update_memory(m, content, importance) ==
  /\ work[Api].pc = "idle" /\ Edit
  /\ rows' = (rows \ {m}) \cup
              {[m EXCEPT !.content = content, !.importance = importance, !.edited = TRUE]}
  /\ TakesBack(m)
  /\ UNCHANGED <<born, work, result, crashes>>

delete_memory(m) ==
  /\ work[Api].pc = "idle" /\ Edit
  /\ rows' = rows \ {m}
  /\ TakesBack(m)
  /\ UNCHANGED <<born, work, result, crashes>>

\* ---------------------------------------------------------------- behaviours

Next ==
  \/ \E p \in Processes : Look(p) \/ Insert(p) \/ Merge(p) \/ Finish(p)
  \/ \E p \in Workers : Crash(p) \/ \E r \in Requests : Run(p, r)
  \/ AdminAdd
  \/ \E m \in rows :
       \/ delete_memory(m)
       \/ \E entry \in AdminEntries : update_memory(m, entry.content, entry.importance)

Spec == Init /\ [][Next]_vars

-----------------------------------------------------------------------------
\* Properties

\* Rows that say the same in one place never outnumber the processes that can
\* look before the others commit, whatever is redelivered or deleted; rows an
\* administrator rewrote come on top (settings.py:724 "instead of appending
\* duplicates").
TwinsBounded ==
  \A m \in rows :
    Cardinality({n \in rows : n.place = m.place /\ ~n.edited /\ Same(n.content, m.content)})
      <= Cardinality(Processes)

\* A statement that was stored stays recallable in its place, in some wording,
\* until an administrator rewrites or deletes a row that says it, even between
\* the lookup and the merge: a merge never goes into a row that is not there.
StatementKept ==
  \A o \in owed : \E m \in rows : m.place = o[1] /\ (Same(m.content, o[2]) \/ m.edited)

=============================================================================
