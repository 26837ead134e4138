----------------------------- MODULE ModelPool -----------------------------
(***************************************************************************)
(* The pool of models an administrator keeps and a user chooses from:      *)
(* ModelPoolService over ModelPoolRepository.  Each change is one          *)
(* transaction; the ones that make an entry the default read the other     *)
(* defaults before they commit.                                            *)
(***************************************************************************)
EXTENDS Naturals, FiniteSets

CONSTANTS
  Entries,           \* entry ids
  Admins,            \* administrators at work at the same time
  EntryModels,       \* models an entry may name
  NoEntry,
  FirstEntry, FirstModel,
  MaxChanges         \* bound: changes of the pool (and of whatever else is counted with them)

ASSUME PoolAssumption ==
  NoEntry \notin Entries /\ FirstEntry \in Entries /\ MaxChanges \in Nat

VARIABLES
  pool,              \* rows of model_pool_entries
  demoted,           \* per administrator, the transaction that makes a default
  changes

poolVars == <<pool, demoted, changes>>

Absent == [there |-> FALSE, enabled |-> FALSE, default |-> FALSE, model |-> NoEntry]
NoTx == [entry |-> NoEntry, others |-> {}, create |-> Absent]

\* The pool starts with the entry an administrator made first.
PoolInit ==
  /\ pool = [e \in Entries |->
               IF e = FirstEntry THEN [there |-> TRUE, enabled |-> TRUE, default |-> TRUE, model |-> FirstModel]
               ELSE Absent]
  /\ demoted = [a \in Admins |-> NoTx]
  /\ changes = 0

Change == changes < MaxChanges /\ changes' = changes + 1

\* clear_default: the defaults that are to be demoted.
clear_default(e) == {o \in Entries \ {e} : pool[o].default}

\* create_entry and update_entry with is_default: what is read ...
ReadDefaults(a, e, create) ==
  /\ demoted[a] = NoTx
  /\ Change
  /\ demoted' = [demoted EXCEPT ![a] = [entry |-> e, others |-> clear_default(e), create |-> create]]
  /\ UNCHANGED pool

\* ... and the commit, which fails as a whole when a row it updates is gone.
CommitDefault(a) ==
  LET tx == demoted[a]
      made == IF tx.create # Absent THEN tx.create ELSE pool[tx.entry]
  IN  /\ tx # NoTx
      /\ demoted' = [demoted EXCEPT ![a] = NoTx]
      /\ UNCHANGED changes
      /\ IF made.there /\ \A o \in tx.others : pool[o].there
         THEN pool' = [o \in Entries |-> IF o = tx.entry THEN [made EXCEPT !.default = TRUE]
                                         ELSE IF o \in tx.others THEN [pool[o] EXCEPT !.default = FALSE]
                                         ELSE pool[o]]
         ELSE UNCHANGED pool

\* Everything else an administrator commits in one go: create_entry and
\* update_entry without is_default, delete_entry.
Write(e, row) ==
  /\ Change
  /\ pool' = [pool EXCEPT ![e] = row]
  /\ UNCHANGED demoted

Created == [there : {TRUE}, enabled : BOOLEAN, default : {FALSE}, model : EntryModels]
Updated(row) ==
  {[row EXCEPT !.enabled = b] : b \in BOOLEAN} \cup {[row EXCEPT !.model = m] : m \in EntryModels}
  \cup {[row EXCEPT !.default = FALSE]}

Create(e) ==
  /\ ~pool[e].there
  /\ \A a \in Admins : demoted[a].entry # e
  /\ \E row \in Created : Write(e, row) \/ \E a \in Admins : ReadDefaults(a, e, row)

Update(e) ==
  /\ pool[e].there
  /\ \/ \E row \in Updated(pool[e]) \ {pool[e]} : Write(e, row)
     \/ \E a \in Admins : ReadDefaults(a, e, Absent)

Delete(e) == pool[e].there /\ Write(e, Absent)

PoolNext ==
  \/ \E e \in Entries : Create(e) \/ Update(e) \/ Delete(e)
  \/ \E a \in Admins : CommitDefault(a)

\* resolve_entry without a choice: an enabled default, or a 404.
Default == {e \in Entries : pool[e].default /\ pool[e].enabled}
Resolvable(choice) == IF choice = NoEntry THEN Default ELSE {e \in {choice} : pool[e].enabled}

=============================================================================
