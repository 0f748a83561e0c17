------------------------------- MODULE Migration -------------------------------
(***************************************************************************)
(* Store.Migrate (store.go, schema.go): several stores, each configured    *)
(* with its own embedding dimensions, bring one database schema to the     *)
(* current version while clients write documents and `make doctor' looks.  *)
(*                                                                         *)
(* All that Migrate does is one transaction, under one advisory lock.  The *)
(* catalog of tables, indexes and recorded versions is shared; what a      *)
(* transaction did to it is in its `view' until it commits.  External, and *)
(* modelled from the SQL that is sent: the advisory lock, the table locks  *)
(* taken by CREATE INDEX (share), by DROP INDEX (exclusive) and by the     *)
(* statements of a document write (row), the primary key of                *)
(* kb_schema_migrations, and the detection of deadlocks.                   *)
(***************************************************************************)
EXTENDS Integers

CONSTANTS
  Stores,      \* one call of Migrate each
  Writers,     \* transactions that write documents
  Nobody,
  ConfigDims,  \* Config.EmbeddingDimensions of each store
  Starts,      \* the catalogs a run may start from
  Failing      \* the stores whose client may fail

BaseTables == 1
Indexes == 2
DropRedundantIndex == 3
MetadataFilterIndex == 4
Versions == BaseTables .. MetadataFilterIndex

NoTable == 0
Procs == Stores \cup Writers
Tables == {"kb_documents", "kb_chunks"}
Modes == {"none", "row", "share", "exclusive"}

\* kb_schema_migrations is there; the versions in it; N of the type vector(N)
\* of kb_chunks.embedding; the indexes ("old" are those that version 3 drops).
Catalogs == [bootstrapped: BOOLEAN, applied: SUBSET Versions, dims: Nat,
             indexes: SUBSET {"search", "old", "metadata"}]

\* The catalog is that of some version: what is recorded is a prefix of the
\* versions, and their effects are there.
Consistent(cat) ==
  /\ \A v, w \in Versions : v < w /\ w \in cat.applied => v \in cat.applied
  /\ cat.applied # {} => cat.bootstrapped
  /\ BaseTables \in cat.applied <=> cat.dims # NoTable
  /\ Indexes \in cat.applied <=> "search" \in cat.indexes
  /\ DropRedundantIndex \in cat.applied => "old" \notin cat.indexes
  /\ MetadataFilterIndex \in cat.applied <=> "metadata" \in cat.indexes

ASSUME StoreAssumption ==
  /\ ConfigDims \in [Stores -> Nat \ {0}]
  /\ Failing \subseteq Stores
  /\ Nobody \notin Stores
  /\ Stores \cap Writers = {}

ASSUME StartAssumption ==
  /\ Starts \subseteq Catalogs
  /\ \A cat \in Starts : Consistent(cat)

VARIABLES
  catalog,    \* the committed catalog
  available,  \* whether the server offers pg_search and vector
  migrator,   \* who holds the advisory lock 73120410
  tableLock,  \* the lock each process holds on each table
  view,       \* the catalog as the store's transaction sees it
  pc,
  outcome,    \* what Migrate returned
  doctor      \* the diagnosis: where it is, and what it has read

vars == <<catalog, available, migrator, tableLock, view, pc, outcome, doctor>>

MigratePcs == {"idle", "extensions", "lock", "load", "apply", "commit",
               "abandoned", "landed", "aborted"}
WriterPcs == {"idle", "documents", "chunks", "ended"}
Outcomes == {"pending", "ok", "unsupported", "mismatch", "duplicate",
             "deadlock", "lost"}

TypeOK ==
  /\ catalog \in Catalogs
  /\ available \in BOOLEAN
  /\ migrator \in Stores \cup {Nobody}
  /\ tableLock \in [Tables -> [Procs -> Modes]]
  /\ view \in [Stores -> Catalogs]
  /\ pc \in [Procs -> MigratePcs \cup WriterPcs]
  /\ outcome \in [Stores -> Outcomes]
  /\ doctor \in [at: {"start", "versions", "done"}, latest: 0 .. MetadataFilterIndex,
                 status: {"none", "failed", "unmigrated", "behind", "ready"}]

Init ==
  /\ catalog \in Starts
  /\ available \in BOOLEAN
  /\ (catalog.applied # {} => available)
  /\ migrator = Nobody
  /\ tableLock = [t \in Tables |-> [p \in Procs |-> "none"]]
  /\ view = [s \in Stores |-> catalog]
  /\ pc = [p \in Procs |-> "idle"]
  /\ outcome = [s \in Stores |-> "pending"]
  /\ doctor = [at |-> "start", latest |-> 0, status |-> "none"]

-----------------------------------------------------------------------------
Goto(p, step) == pc' = [pc EXCEPT ![p] = step]

Compatible(m, n) == "none" \in {m, n} \/ (m = n /\ m # "exclusive")

TableFree(p, t, mode) ==
  \A q \in Procs \ {p} : Compatible(mode, tableLock[t][q])

Unlock(p) == tableLock' = [t \in Tables |-> [tableLock[t] EXCEPT ![p] = "none"]]

\* mutant: the error paths leave the transaction open
LeaveOpen(s) == UNCHANGED <<migrator, tableLock>>

\* COMMIT, or the deferred Rollback: the transaction's locks are released.
EndTransaction(s) ==
  /\ migrator' = IF migrator = s THEN Nobody ELSE migrator
  /\ Unlock(s)

\* Migrate returns an error and its transaction is rolled back.
Stop(s, error) ==
  /\ EndTransaction(s)
  /\ outcome' = [outcome EXCEPT ![s] = IF @ = "pending" THEN error ELSE @]
  /\ Goto(s, "aborted")

Begin(s) ==
  /\ pc[s] = "idle"
  /\ Goto(s, "extensions")
  /\ UNCHANGED <<catalog, available, migrator, tableLock, view, outcome, doctor>>

\* ensureRequiredExtensions, before the lock is taken.
EnsureRequiredExtensions(s) ==
  /\ pc[s] = "extensions"
  /\ IF available
       THEN /\ Goto(s, "lock")
            /\ UNCHANGED <<migrator, tableLock, outcome>>
       ELSE Stop(s, "unsupported")
  /\ UNCHANGED <<catalog, available, view, doctor>>

\* pg_advisory_xact_lock(73120410) waits until nobody holds the lock.
LockIgnored == TRUE  \* mutant: pg_try_advisory_xact_lock, its result ignored
LockFree == migrator = Nobody

AcquireMigrationLock(s) ==
  /\ pc[s] = "lock"
  /\ LockFree
  /\ migrator' = s
  /\ Goto(s, "load")
  /\ UNCHANGED <<catalog, available, tableLock, view, outcome, doctor>>

\* The migrations table is created if it is missing, and the applied versions
\* are read.  (Nobody else can change the catalog while the lock is held.)
LoadApplied(s) ==
  /\ pc[s] = "load"
  /\ view' = [view EXCEPT ![s] = [catalog EXCEPT !.bootstrapped = TRUE]]
  /\ Goto(s, "apply")
  /\ UNCHANGED <<catalog, available, migrator, tableLock, outcome, doctor>>

-----------------------------------------------------------------------------
Missing(s) == Versions \ view[s].applied

NewestFirst(s) == CHOOSE v \in Missing(s) : \A w \in Missing(s) : w <= v  \* mutant
NextVersion(s) == CHOOSE v \in Missing(s) : \A w \in Missing(s) : v <= w

\* mutants: the version recorded is off by one; the old indexes are left
RecordedOffByOne(cat, v, dims) == [cat EXCEPT !.applied = @ \cup {v + 1}]
OldIndexesLeft(cat, v, dims) ==
  [cat EXCEPT
     !.applied = @ \cup {v},
     !.dims = IF v = BaseTables /\ @ = NoTable THEN dims ELSE @,
     !.indexes = CASE v = Indexes -> @ \cup {"search"}
                   [] v = MetadataFilterIndex -> @ \cup {"metadata"}
                   [] OTHER -> @]

\* The catalog once version v is applied, by a store of these dimensions, and
\* recorded.  CREATE TABLE IF NOT EXISTS leaves a table that exists alone.
Migrated(cat, v, dims) ==
  [cat EXCEPT
     !.applied = @ \cup {v},
     !.dims = IF v = BaseTables /\ @ = NoTable THEN dims ELSE @,
     !.indexes = IF v = Indexes THEN @ \cup {"search"}
                 ELSE IF v = DropRedundantIndex THEN @ \ {"old"}
                 ELSE IF v = MetadataFilterIndex THEN @ \cup {"metadata"}
                 ELSE @]

\* The locks the statements of version v take on tables that exist.
TableLocks(cat, v) ==
  CASE v \in {Indexes, MetadataFilterIndex} -> {<<"kb_chunks", "share">>}
    [] v = DropRedundantIndex /\ "old" \in cat.indexes ->
         {<<"kb_documents", "exclusive">>, <<"kb_chunks", "exclusive">>}
    [] OTHER -> {}

\* Those still to take, the documents first.
Unlocked(s) ==
  {need \in TableLocks(view[s], NextVersion(s)) :
     tableLock[need[1]][s] \notin {need[2], "exclusive"}}
Turn(s) ==
  {need \in Unlocked(s) :
     need[1] = "kb_documents" \/ \A other \in Unlocked(s) : other[1] # "kb_documents"}

LockTable(s) ==
  /\ pc[s] = "apply"
  /\ Missing(s) # {}
  /\ \E need \in Turn(s) :
       /\ TableFree(s, need[1], need[2])
       /\ tableLock' = [tableLock EXCEPT ![need[1]][s] = need[2]]
  /\ UNCHANGED <<catalog, available, migrator, view, pc, outcome, doctor>>

\* mutant: every version is a transaction of its own
ApplyAndCommit(s) ==
  /\ pc[s] = "apply"
  /\ Missing(s) # {}
  /\ Unlocked(s) = {}
  /\ view' = [view EXCEPT ![s] = Migrated(@, NextVersion(s), ConfigDims[s])]
  /\ catalog' = view'[s]
  /\ UNCHANGED <<available, migrator, tableLock, pc, outcome, doctor>>

\* One migration is applied and recorded.  Its INSERT waits for a transaction
\* that has recorded the same version, and fails if that one has committed.
ApplyMigration(s) ==
  /\ pc[s] = "apply"
  /\ Missing(s) # {}
  /\ Unlocked(s) = {}
  /\ \A r \in Stores \ {s} :
       pc[r] \in {"apply", "commit", "abandoned"} =>
         NextVersion(s) \notin view[r].applied \ catalog.applied
  /\ IF NextVersion(s) \in catalog.applied
       THEN /\ Stop(s, "duplicate")
            /\ UNCHANGED view
       ELSE /\ view' = [view EXCEPT ![s] = Migrated(@, NextVersion(s), ConfigDims[s])]
            /\ UNCHANGED <<migrator, tableLock, pc, outcome>>
  /\ UNCHANGED <<catalog, available, doctor>>

\* mutant: an old schema is not checked
TrustTable(s) == catalog.dims # NoTable \/ view[s].dims = ConfigDims[s]
DimsMatch(s) == view[s].dims = ConfigDims[s]

\* ensureEmbeddingDimensions, after the last migration.
EnsureEmbeddingDimensions(s) ==
  /\ pc[s] = "apply"
  /\ Missing(s) = {}
  /\ IF DimsMatch(s)
       THEN /\ Goto(s, "commit")
            /\ UNCHANGED <<migrator, tableLock, outcome>>
       ELSE Stop(s, "mismatch")
  /\ UNCHANGED <<catalog, available, view, doctor>>

\* COMMIT takes effect; the client is told, if it is still there.
Commit(s) ==
  /\ pc[s] = "commit"
  /\ catalog' = view[s]
  /\ EndTransaction(s)
  /\ outcome' = [outcome EXCEPT ![s] = IF @ = "pending" THEN "ok" ELSE @]
  /\ Goto(s, "landed")
  /\ UNCHANGED <<available, view, doctor>>

\* The client is cancelled, killed or cut off.  A COMMIT that was sent may
\* still take effect; any other transaction is open until its backend exits.
Fail(s) ==
  /\ s \in Failing
  /\ outcome[s] = "pending"
  /\ pc[s] \in {"extensions", "lock", "load", "apply", "commit"}
  /\ outcome' = [outcome EXCEPT ![s] = "lost"]
  /\ Goto(s, IF pc[s] = "commit" THEN "commit" ELSE "abandoned")
  /\ UNCHANGED <<catalog, available, migrator, tableLock, view, doctor>>

BackendExit(s) ==
  /\ outcome[s] = "lost"
  /\ pc[s] \in {"abandoned", "commit"}
  /\ Stop(s, "lost")
  /\ UNCHANGED <<catalog, available, view, doctor>>

-----------------------------------------------------------------------------
\* A document write locks kb_documents, then kb_chunks, until it ends.
WriteDocument(w) ==
  /\ pc[w] = "idle"
  /\ catalog.dims # NoTable
  /\ TableFree(w, "kb_documents", "row")
  /\ tableLock' = [tableLock EXCEPT !["kb_documents"][w] = "row"]
  /\ Goto(w, "documents")
  /\ UNCHANGED <<catalog, available, migrator, view, outcome, doctor>>

WriteChunks(w) ==
  /\ pc[w] = "documents"
  /\ TableFree(w, "kb_chunks", "row")
  /\ tableLock' = [tableLock EXCEPT !["kb_chunks"][w] = "row"]
  /\ Goto(w, "chunks")
  /\ UNCHANGED <<catalog, available, migrator, view, outcome, doctor>>

EndWrite(w) ==
  /\ pc[w] = "chunks"
  /\ Unlock(w)
  /\ Goto(w, "ended")
  /\ UNCHANGED <<catalog, available, migrator, view, outcome, doctor>>

\* A migration and a write wait for each other.
Deadlocked(s, w) ==
  /\ pc[s] = "apply" /\ Missing(s) # {}
  /\ \E need \in Turn(s) : ~Compatible(need[2], tableLock[need[1]][w])
  /\ pc[w] = "documents"
  /\ ~Compatible("row", tableLock["kb_chunks"][s])

\* PostgreSQL makes either of them fail.
MigrationIsVictim(s) ==
  /\ \E w \in Writers : Deadlocked(s, w)
  /\ Stop(s, "deadlock")
  /\ UNCHANGED <<catalog, available, view, doctor>>

WriteIsVictim(w) ==
  /\ \E s \in Stores : Deadlocked(s, w)
  /\ Unlock(w)
  /\ Goto(w, "ended")
  /\ UNCHANGED <<catalog, available, migrator, view, outcome, doctor>>

-----------------------------------------------------------------------------
\* DatabaseDiagnostics.Status; mutant: only the table is looked for
StatusOfTable(latest) == "ready"
StatusOf(latest) == IF latest < MetadataFilterIndex THEN "behind" ELSE "ready"

\* CollectDatabaseDiagnostics looks for the migrations table, ...
DoctorLooks ==
  /\ doctor.at = "start"
  /\ doctor' = IF ~available
                 THEN [doctor EXCEPT !.at = "done", !.status = "failed"]
               ELSE IF ~catalog.bootstrapped
                 THEN [doctor EXCEPT !.at = "done", !.status = "unmigrated"]
               ELSE [doctor EXCEPT !.at = "versions"]
  /\ UNCHANGED <<catalog, available, migrator, tableLock, view, pc, outcome>>

\* ... and then, in another statement, reads the versions in it.
DoctorReadsVersions ==
  /\ doctor.at = "versions"
  /\ \E latest \in 0 .. MetadataFilterIndex :
       /\ latest \in catalog.applied \cup {0}
       /\ \A v \in catalog.applied : v <= latest
       /\ doctor' = [at |-> "done", latest |-> latest, status |-> StatusOf(latest)]
  /\ UNCHANGED <<catalog, available, migrator, tableLock, view, pc, outcome>>

Step(s) ==
  \/ EnsureRequiredExtensions(s)
  \/ AcquireMigrationLock(s)
  \/ LoadApplied(s)
  \/ LockTable(s)
  \/ ApplyMigration(s)
  \/ EnsureEmbeddingDimensions(s)
  \/ Commit(s)
  \/ BackendExit(s)
  \/ MigrationIsVictim(s)

Write(w) == WriteDocument(w) \/ WriteChunks(w) \/ EndWrite(w) \/ WriteIsVictim(w)

Next ==
  \/ \E s \in Stores : Begin(s) \/ Step(s) \/ Fail(s)
  \/ \E w \in Writers : Write(w)
  \/ DoctorLooks
  \/ DoctorReadsVersions

Spec == Init /\ [][Next]_vars

\* A Migrate that was called goes on, and so do the writes: statements end,
\* deadlocks are detected, backends without a client exit.
FairSpec == Spec /\ (\A s \in Stores : WF_vars(Step(s)))
                 /\ (\A w \in Writers : WF_vars(Write(w)))

-----------------------------------------------------------------------------
(***************************************************************************)
(* Properties.                                                             *)
(***************************************************************************)

\* Nobody ever sees a schema between two versions, whoever failed on the way.
CatalogConsistent == Consistent(catalog)

\* A commit takes the schema from any version to the current one, and never
\* changes the dimensions of a table that is there.
AllOrNothing ==
  [][catalog' # catalog =>
       /\ catalog'.applied = Versions
       /\ \E s \in Stores : catalog'.dims = ConfigDims[s]
       /\ catalog.dims # NoTable => catalog'.dims = catalog.dims]_vars

\* Once Migrate returned nil to a store the schema is the current one and has
\* the dimensions of this store, whatever other stores try afterwards.
OkMeansUsable ==
  \A s \in Stores : outcome[s] = "ok" =>
    catalog.applied = Versions /\ catalog.dims = ConfigDims[s]

\* Migrate fails only for a reason: a server without the extensions, a table
\* of other dimensions, a client that went away, or a deadlock with a write on
\* the way from version 1.  Stores that start together never make each other fail.
FailureHasReason ==
  \A s \in Stores :
    /\ outcome[s] = "unsupported" => ~available
    /\ outcome[s] = "mismatch" => catalog.dims \notin {NoTable, ConfigDims[s]}
    /\ outcome[s] # "duplicate"

\* A migration is a deadlock victim only while it drops the old indexes of a
\* schema whose search indexes it has created in the same transaction.
DeadlockOnlyFromBase ==
  [][\A s \in Stores : outcome[s] # "deadlock" /\ outcome'[s] = "deadlock" =>
       catalog.applied = {BaseTables} /\ "old" \in catalog.indexes]_vars

\* If the doctor says the schema is ready, all of it is there.
ReadyMeansMigrated ==
  doctor.status = "ready" => catalog.applied = Versions

\* Every Migrate ends.
MigrateEnds ==
  \A s \in Stores : pc[s] # "idle" ~>
    outcome[s] # "pending" /\ pc[s] \in {"landed", "aborted"}
==============================================================================
