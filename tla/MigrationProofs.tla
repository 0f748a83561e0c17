---------------------------- MODULE MigrationProofs ----------------------------
(***************************************************************************)
(* Proofs about Migrate, for any stores, dimensions, writes and starting   *)
(* catalogs.                                                               *)
(*                                                                         *)
(* The invariant says what the advisory lock buys: only the store that     *)
(* holds it has read the catalog and not yet ended, so what its            *)
(* transaction sees (`view') is the committed catalog with some further    *)
(* versions applied.                                                       *)
(***************************************************************************)
EXTENDS Migration, TLAPS

\* What a transaction sees is some version of the schema, no older than the
\* committed one; the dimensions of a table that is there are never changed.
ViewOK(s) ==
  /\ view[s].bootstrapped
  /\ Consistent(view[s])
  /\ catalog.applied \subseteq view[s].applied
  /\ IF catalog.dims = NoTable THEN view[s].dims \in {NoTable, ConfigDims[s]}
                               ELSE view[s].dims = catalog.dims

StoreOK(s) ==
  /\ pc[s] \in {"load", "apply", "commit"} => migrator = s
  /\ pc[s] \in {"apply", "commit"} => ViewOK(s)
  /\ pc[s] = "commit" => view[s].applied = Versions /\ view[s].dims = ConfigDims[s]

Migrating ==
  /\ CatalogConsistent
  /\ \A s \in Stores : StoreOK(s)
  /\ OkMeansUsable
  /\ FailureHasReason

IInv == TypeOK /\ Migrating

-----------------------------------------------------------------------------
\* NextVersion is the least of the versions that are missing.
LEMMA LeastMissing ==
  ASSUME NEW s \in Stores, Missing(s) # {}
  PROVE  /\ NextVersion(s) \in Missing(s)
         /\ \A w \in Missing(s) : NextVersion(s) <= w
<1>1. Missing(s) \subseteq {1, 2, 3, 4}
  BY SMT DEF Missing, Versions, BaseTables, MetadataFilterIndex
<1>2. \E v \in Missing(s) : \A w \in Missing(s) : v <= w
  <2>1. CASE 1 \in Missing(s)  BY <1>1, <2>1
  <2>2. CASE 1 \notin Missing(s) /\ 2 \in Missing(s)  BY <1>1, <2>2
  <2>3. CASE 1 \notin Missing(s) /\ 2 \notin Missing(s) /\ 3 \in Missing(s)
    BY <1>1, <2>3
  <2>4. CASE 1 \notin Missing(s) /\ 2 \notin Missing(s) /\ 3 \notin Missing(s)
    BY <1>1, <2>4
  <2>5. QED  BY <2>1, <2>2, <2>3, <2>4
<1>3. QED  BY <1>2 DEF NextVersion

\* Applying the least missing version to a consistent catalog gives a
\* consistent one; a table that is there keeps its dimensions, and a new one
\* gets those of the store.
LEMMA MigratedConsistent ==
  ASSUME NEW cat \in Catalogs, Consistent(cat), cat.bootstrapped,
         NEW v \in Versions \ cat.applied,
         \A w \in Versions \ cat.applied : v <= w,
         NEW dims \in Nat \ {0}
  PROVE  LET new == Migrated(cat, v, dims)
         IN  /\ new \in Catalogs
             /\ Consistent(new)
             /\ new.bootstrapped
             /\ cat.applied \subseteq new.applied
             /\ new.dims = IF cat.dims = NoTable THEN dims ELSE cat.dims
<1> DEFINE new == Migrated(cat, v, dims)
<1> USE DEF Versions, BaseTables, Indexes, DropRedundantIndex, MetadataFilterIndex,
            NoTable
<1>1. /\ cat.applied \subseteq Versions /\ cat.dims \in Nat
      /\ cat.indexes \subseteq {"search", "old", "metadata"}
      /\ cat.bootstrapped \in BOOLEAN
  BY DEF Catalogs
<1>2. v \in {1, 2, 3, 4}
  OBVIOUS
<1>3. cat.dims = NoTable <=> v = BaseTables
  BY <1>1, <1>2 DEF Consistent
<1>4. /\ new.applied = cat.applied \cup {v}
      /\ new.bootstrapped = cat.bootstrapped
      /\ new.dims = IF cat.dims = NoTable THEN dims ELSE cat.dims
      /\ new.indexes = IF v = Indexes THEN cat.indexes \cup {"search"}
                       ELSE IF v = DropRedundantIndex THEN cat.indexes \ {"old"}
                       ELSE IF v = MetadataFilterIndex
                         THEN cat.indexes \cup {"metadata"}
                       ELSE cat.indexes
  BY <1>3 DEF Migrated, Catalogs
<1>5. new \in Catalogs
  BY <1>1, <1>2, <1>3 DEF Migrated, Catalogs
<1>6. Consistent(new)
  <2>1. \A x, y \in Versions : x < y /\ y \in new.applied => x \in new.applied
    BY <1>1, <1>4 DEF Consistent
  <2>2. BaseTables \in new.applied <=> new.dims # NoTable
    BY <1>1, <1>2, <1>3, <1>4 DEF Consistent
  <2>3. CASE v = 1  BY <1>4, <2>1, <2>2, <2>3 DEF Consistent
  <2>4. CASE v = 2  BY <1>4, <2>1, <2>2, <2>4 DEF Consistent
  <2>5. CASE v = 3  BY <1>4, <2>1, <2>2, <2>5 DEF Consistent
  <2>6. CASE v = 4  BY <1>4, <2>1, <2>2, <2>6 DEF Consistent
  <2>7. QED  BY <1>2, <2>3, <2>4, <2>5, <2>6
<1>7. QED  BY <1>4, <1>5, <1>6

-----------------------------------------------------------------------------
(* Type correctness.                                                       *)

\* The steps and the outcomes of the processes, as the provers want them.
LEMMA Types ==
  ASSUME TypeOK
  PROVE  /\ catalog \in Catalogs
         /\ migrator \in Stores \cup {Nobody}
         /\ tableLock \in [Tables -> [Procs -> Modes]]
         /\ view \in [Stores -> Catalogs]
         /\ pc \in [Procs -> MigratePcs \cup WriterPcs]
         /\ outcome \in [Stores -> Outcomes]
         /\ Stores \subseteq Procs /\ Writers \subseteq Procs
  BY DEF TypeOK, Procs

\* Unlock keeps the types.
LEMMA UnlockType ==
  ASSUME TypeOK, NEW p \in Procs, Unlock(p)
  PROVE  tableLock' \in [Tables -> [Procs -> Modes]]
  BY Types DEF Unlock, Modes

\* Stop keeps the types.
LEMMA StopType ==
  ASSUME TypeOK, NEW s \in Stores, NEW error \in Outcomes, Stop(s, error),
         UNCHANGED <<catalog, available, doctor>>,
         view' \in [Stores -> Catalogs]
  PROVE  TypeOK'
<1>1. migrator' \in Stores \cup {Nobody}
  BY Types DEF Stop, EndTransaction
<1>2. tableLock' \in [Tables -> [Procs -> Modes]]
  BY Types, UnlockType DEF Stop, EndTransaction
<1>3. /\ pc' \in [Procs -> MigratePcs \cup WriterPcs]
      /\ outcome' \in [Stores -> Outcomes]
  BY Types DEF Stop, Goto, MigratePcs
<1>4. QED  BY <1>1, <1>2, <1>3 DEF TypeOK

\* Any step of a process leaves its own type of steps.
LEMMA GotoType ==
  ASSUME TypeOK, NEW p \in Procs, NEW step \in MigratePcs \cup WriterPcs,
         Goto(p, step)
  PROVE  pc' \in [Procs -> MigratePcs \cup WriterPcs]
  BY Types DEF Goto

\* Initially every variable has its type.
LEMMA InitType == Init => TypeOK
<1> SUFFICES ASSUME Init PROVE TypeOK
  OBVIOUS
<1>1. catalog \in Catalogs
  BY StartAssumption DEF Init
<1>2. QED
  BY <1>1 DEF Init, TypeOK, Modes, MigratePcs, Outcomes, MetadataFilterIndex

\* Apply keeps the types.
LEMMA ApplyType ==
  ASSUME IInv, NEW s \in Stores, ApplyMigration(s)
  PROVE  TypeOK' /\ outcome'[s] # "duplicate" /\ UNCHANGED <<pc, outcome, migrator>>
         /\ view' = [view EXCEPT ![s] = Migrated(view[s], NextVersion(s), ConfigDims[s])]
         /\ view'[s] \in Catalogs /\ Consistent(view'[s]) /\ view'[s].bootstrapped
         /\ view[s].applied \subseteq view'[s].applied
         /\ view'[s].dims = IF view[s].dims = NoTable THEN ConfigDims[s] ELSE view[s].dims
<1> DEFINE v == NextVersion(s)
<1>1. TypeOK /\ StoreOK(s) /\ pc[s] = "apply" /\ Missing(s) # {} /\ ViewOK(s)
  BY DEF IInv, Migrating, ApplyMigration, StoreOK
<1>2. /\ v \in Versions \ view[s].applied
      /\ \A w \in Versions \ view[s].applied : v <= w
  BY <1>1, LeastMissing DEF Missing
<1>3. v \notin catalog.applied
  BY <1>1, <1>2 DEF ViewOK
<1>4. /\ view' = [view EXCEPT ![s] = Migrated(view[s], v, ConfigDims[s])]
      /\ UNCHANGED <<migrator, tableLock, pc, outcome, catalog, available, doctor>>
  BY <1>3 DEF ApplyMigration
<1>5. view[s] \in Catalogs /\ ConfigDims[s] \in Nat \ {0}
  BY <1>1, Types, StoreAssumption
<1>6. LET new == Migrated(view[s], v, ConfigDims[s])
      IN  /\ new \in Catalogs
          /\ Consistent(new)
          /\ new.bootstrapped
          /\ view[s].applied \subseteq new.applied
          /\ new.dims = IF view[s].dims = NoTable THEN ConfigDims[s] ELSE view[s].dims
  BY <1>1, <1>2, <1>5, MigratedConsistent DEF ViewOK
<1>7. view'[s] = Migrated(view[s], v, ConfigDims[s])
  BY <1>1, <1>4, Types
<1>8. view' \in [Stores -> Catalogs]
  BY <1>1, <1>4, <1>6, Types
<1>9. TypeOK'
  BY <1>1, <1>4, <1>8 DEF TypeOK
<1>10. outcome[s] # "duplicate"
  BY DEF IInv, Migrating, FailureHasReason
<1>11. QED  BY <1>4, <1>6, <1>7, <1>9, <1>10

\* One step per action.
LEMMA NextType == IInv /\ [Next]_vars => TypeOK'
<1> SUFFICES ASSUME IInv, [Next]_vars PROVE TypeOK'
  OBVIOUS
<1>0. TypeOK
  BY DEF IInv
<1> USE <1>0, Types
<1>1. ASSUME NEW s \in Stores, Begin(s) PROVE TypeOK'
  BY <1>1, GotoType DEF Begin, TypeOK, MigratePcs
<1>2. ASSUME NEW s \in Stores, EnsureRequiredExtensions(s) PROVE TypeOK'
  <2>1. CASE available
    BY <1>2, <2>1, GotoType DEF EnsureRequiredExtensions, TypeOK, MigratePcs
  <2>2. CASE ~available
    BY <1>2, <2>2, StopType DEF EnsureRequiredExtensions, Outcomes
  <2>3. QED  BY <2>1, <2>2
<1>3. ASSUME NEW s \in Stores, AcquireMigrationLock(s) PROVE TypeOK'
  BY <1>3, GotoType DEF AcquireMigrationLock, TypeOK, MigratePcs
<1>4. ASSUME NEW s \in Stores, LoadApplied(s) PROVE TypeOK'
  <2>1. [catalog EXCEPT !.bootstrapped = TRUE] \in Catalogs
    BY DEF Catalogs
  <2>2. QED  BY <1>4, <2>1, GotoType DEF LoadApplied, TypeOK, MigratePcs
<1>5. ASSUME NEW s \in Stores, LockTable(s) PROVE TypeOK'
  <2>1. PICK need \in Turn(s) :
          tableLock' = [tableLock EXCEPT ![need[1]][s] = need[2]]
    BY <1>5 DEF LockTable
  <2>2. need[2] \in Modes
    BY <2>1 DEF Turn, Unlocked, TableLocks, Modes
  <2>3. tableLock' \in [Tables -> [Procs -> Modes]]
    BY <2>1, <2>2
  <2>4. QED  BY <1>5, <2>3 DEF LockTable, TypeOK
<1>6. ASSUME NEW s \in Stores, ApplyMigration(s) PROVE TypeOK'
  BY <1>6, ApplyType
<1>7. ASSUME NEW s \in Stores, EnsureEmbeddingDimensions(s) PROVE TypeOK'
  <2>1. CASE DimsMatch(s)
    BY <1>7, <2>1, GotoType DEF EnsureEmbeddingDimensions, TypeOK, MigratePcs
  <2>2. CASE ~DimsMatch(s)
    BY <1>7, <2>2, StopType DEF EnsureEmbeddingDimensions, Outcomes
  <2>3. QED  BY <2>1, <2>2
<1>8. ASSUME NEW s \in Stores, Commit(s) PROVE TypeOK'
  <2>1. /\ migrator' \in Stores \cup {Nobody}
        /\ tableLock' \in [Tables -> [Procs -> Modes]]
    BY <1>8, UnlockType DEF Commit, EndTransaction
  <2>2. catalog' \in Catalogs /\ outcome' \in [Stores -> Outcomes]
    BY <1>8 DEF Commit, Outcomes
  <2>3. QED  BY <1>8, <2>1, <2>2, GotoType DEF Commit, TypeOK, MigratePcs
<1>9. ASSUME NEW s \in Stores, BackendExit(s) PROVE TypeOK'
  BY <1>9, StopType DEF BackendExit, Outcomes
<1>10. ASSUME NEW s \in Stores, MigrationIsVictim(s) PROVE TypeOK'
  BY <1>10, StopType DEF MigrationIsVictim, Outcomes
<1>11. ASSUME NEW s \in Stores, Fail(s) PROVE TypeOK'
  BY <1>11, GotoType DEF Fail, TypeOK, MigratePcs, Outcomes
<1>12. ASSUME NEW w \in Writers, Write(w) PROVE TypeOK'
  <2>1. CASE WriteDocument(w) \/ WriteChunks(w)
    <3>1. tableLock' \in [Tables -> [Procs -> Modes]]
      BY <2>1 DEF WriteDocument, WriteChunks, Modes
    <3>2. QED
      BY <2>1, <3>1, GotoType DEF WriteDocument, WriteChunks, TypeOK, WriterPcs
  <2>2. CASE EndWrite(w) \/ WriteIsVictim(w)
    BY <2>2, UnlockType, GotoType DEF EndWrite, WriteIsVictim, TypeOK, WriterPcs
  <2>3. QED  BY <1>12, <2>1, <2>2 DEF Write
<1>13. CASE DoctorLooks
  BY <1>13 DEF DoctorLooks, TypeOK
<1>14. CASE DoctorReadsVersions
  BY <1>14 DEF DoctorReadsVersions, StatusOf, TypeOK
<1>15. CASE UNCHANGED vars
  BY <1>15 DEF vars, TypeOK
<1>16. QED
  BY <1>1, <1>2, <1>3, <1>4, <1>5, <1>6, <1>7, <1>8, <1>9, <1>10, <1>11, <1>12,
     <1>13, <1>14, <1>15 DEF Next, Step

-----------------------------------------------------------------------------
(* The invariant.                                                          *)

\* Other processes keep their place.
LEMMA GotoOthers ==
  ASSUME TypeOK, NEW p \in Procs, NEW step, Goto(p, step)
  PROVE  pc'[p] = step /\ \A q \in Procs : q # p => pc'[q] = pc[q]
  BY Types DEF Goto

\* Initially nobody migrates, and the catalog is of one version.
LEMMA InitMigrating == Init => Migrating
<1> SUFFICES ASSUME Init PROVE Migrating
  OBVIOUS
<1>1. CatalogConsistent
  BY StartAssumption DEF Init, CatalogConsistent
<1>2. \A s \in Stores : pc[s] = "idle" /\ outcome[s] = "pending"
  BY DEF Init, Procs
<1>3. QED
  BY <1>1, <1>2 DEF Migrating, StoreOK, OkMeansUsable, FailureHasReason

\* A store that gives up takes nothing from the others.
LEMMA StopMigrating ==
  ASSUME IInv, NEW s \in Stores, NEW error \in Outcomes \ {"ok", "duplicate"},
         Stop(s, error), UNCHANGED <<catalog, available, view>>,
         error = "unsupported" => ~available,
         error = "mismatch" => catalog.dims \notin {NoTable, ConfigDims[s]}
  PROVE  Migrating'
<1>1. TypeOK /\ Goto(s, "aborted") /\ s \in Procs
  BY DEF IInv, Stop, Procs
<1>2. pc'[s] = "aborted" /\ \A r \in Stores : r # s => pc'[r] = pc[r]
  BY <1>1, GotoOthers, Types
<1>3. \A r \in Stores : r # s /\ migrator = r => migrator' = r
  BY DEF Stop, EndTransaction
<1>4. \A r \in Stores : StoreOK(r)'
  BY <1>2, <1>3 DEF IInv, Migrating, StoreOK, ViewOK
<1>5. /\ \A r \in Stores : r # s => outcome'[r] = outcome[r]
      /\ outcome'[s] \in {outcome[s], error}
  BY <1>1, Types DEF Stop
<1>6. OkMeansUsable'
  BY <1>5 DEF IInv, Migrating, OkMeansUsable
<1>7. FailureHasReason'
  BY <1>5 DEF IInv, Migrating, FailureHasReason
<1>8. QED
  BY <1>4, <1>6, <1>7 DEF IInv, Migrating, CatalogConsistent

\* Steps that change neither the catalog nor what a store sees of it, and
\* bring no store under the lock or to its COMMIT.
LEMMA QuietStep ==
  ASSUME IInv, UNCHANGED <<catalog, available, migrator, view>>,
         \A r \in Stores :
           \/ pc'[r] = pc[r]
           \/ pc'[r] \notin {"load", "apply", "commit"},
         \A r \in Stores : outcome'[r] \in {outcome[r], "lost"}
  PROVE  Migrating'
<1>1. \A r \in Stores : StoreOK(r)'
  BY DEF IInv, Migrating, StoreOK, ViewOK
<1>2. OkMeansUsable' /\ FailureHasReason'
  BY DEF IInv, Migrating, OkMeansUsable, FailureHasReason
<1>3. QED  BY <1>1, <1>2 DEF IInv, Migrating, CatalogConsistent

\* Acquire leaves the view of the migrating store a catalog on its way.
LEMMA AcquireMigrating ==
  ASSUME IInv, NEW s \in Stores, AcquireMigrationLock(s)
  PROVE  Migrating'
<1>1. TypeOK /\ Goto(s, "load") /\ s \in Procs
  BY DEF IInv, AcquireMigrationLock, Procs
<1>2. pc'[s] = "load" /\ \A r \in Stores : r # s => pc'[r] = pc[r]
  BY <1>1, GotoOthers, Types
<1>3. \A r \in Stores : pc[r] \notin {"load", "apply", "commit"}
  BY StoreAssumption DEF AcquireMigrationLock, LockFree, IInv, Migrating, StoreOK
<1>4. \A r \in Stores : StoreOK(r)'
  BY <1>2, <1>3 DEF AcquireMigrationLock, StoreOK
<1>5. QED
  BY <1>4 DEF AcquireMigrationLock, IInv, Migrating, CatalogConsistent,
              OkMeansUsable, FailureHasReason

\* Load leaves the view of the migrating store a catalog on its way.
LEMMA LoadMigrating ==
  ASSUME IInv, NEW s \in Stores, LoadApplied(s)
  PROVE  Migrating'
<1>1. TypeOK /\ Goto(s, "apply") /\ s \in Procs /\ pc[s] = "load"
  BY DEF IInv, LoadApplied, Procs
<1>2. pc'[s] = "apply" /\ \A r \in Stores : r # s => pc'[r] = pc[r]
  BY <1>1, GotoOthers, Types
<1>3. /\ view'[s] = [catalog EXCEPT !.bootstrapped = TRUE]
      /\ \A r \in Stores : r # s => view'[r] = view[r]
  BY <1>1, Types DEF LoadApplied
<1>4. UNCHANGED <<catalog, available, migrator, outcome>>
  BY DEF LoadApplied
<1>5. ViewOK(s)'
  <2>1. /\ view'[s].bootstrapped
        /\ view'[s].applied = catalog.applied
        /\ view'[s].dims = catalog.dims
        /\ view'[s].indexes = catalog.indexes
    BY <1>1, <1>3, Types DEF Catalogs
  <2>2. Consistent(catalog)
    BY DEF IInv, Migrating, CatalogConsistent
  <2>3. QED  BY <1>4, <2>1, <2>2 DEF ViewOK, Consistent
<1>6. migrator = s
  BY <1>1 DEF IInv, Migrating, StoreOK
<1>7. \A r \in Stores : StoreOK(r)'
  BY <1>2, <1>3, <1>4, <1>5, <1>6 DEF IInv, Migrating, StoreOK, ViewOK
<1>8. QED
  BY <1>4, <1>7 DEF IInv, Migrating, CatalogConsistent, OkMeansUsable, FailureHasReason

\* Apply leaves the view of the migrating store a catalog on its way.
LEMMA ApplyMigrating ==
  ASSUME IInv, NEW s \in Stores, ApplyMigration(s)
  PROVE  Migrating'
<1>1. /\ TypeOK /\ pc[s] = "apply" /\ ViewOK(s)
      /\ UNCHANGED <<catalog, available, migrator, pc, outcome>>
  BY ApplyType DEF IInv, Migrating, ApplyMigration, StoreOK
<1>2. \A r \in Stores : r # s => view'[r] = view[r]
  BY <1>1, ApplyType, Types
<1>3. ViewOK(s)'
  BY <1>1, ApplyType DEF ViewOK
<1>4. \A r \in Stores : StoreOK(r)'
  BY <1>1, <1>2, <1>3 DEF IInv, Migrating, StoreOK, ViewOK
<1>5. QED
  BY <1>1, <1>4 DEF IInv, Migrating, CatalogConsistent, OkMeansUsable, FailureHasReason

\* EnsureDimensions leaves the view of the migrating store a catalog on its way.
LEMMA EnsureDimensionsMigrating ==
  ASSUME IInv, NEW s \in Stores, EnsureEmbeddingDimensions(s)
  PROVE  Migrating'
<1>1. TypeOK /\ s \in Procs /\ pc[s] = "apply" /\ ViewOK(s) /\ migrator = s
  BY DEF EnsureEmbeddingDimensions, IInv, Migrating, StoreOK, Procs
<1>2. view[s].applied = Versions
  BY <1>1, Types DEF EnsureEmbeddingDimensions, Missing, Catalogs
<1>3. CASE DimsMatch(s)
  <2>1. /\ Goto(s, "commit")
        /\ UNCHANGED <<catalog, available, migrator, view, outcome>>
    BY <1>3 DEF EnsureEmbeddingDimensions
  <2>2. pc'[s] = "commit" /\ \A r \in Stores : r # s => pc'[r] = pc[r]
    BY <1>1, <2>1, GotoOthers, Types
  <2>3. \A r \in Stores : StoreOK(r)'
    BY <1>1, <1>2, <1>3, <2>1, <2>2 DEF DimsMatch, IInv, Migrating, StoreOK, ViewOK
  <2>4. QED
    BY <2>1, <2>3 DEF IInv, Migrating, CatalogConsistent, OkMeansUsable,
                      FailureHasReason
<1>4. CASE ~DimsMatch(s)
  <2>1. Stop(s, "mismatch") /\ UNCHANGED <<catalog, available, view>>
    BY <1>4 DEF EnsureEmbeddingDimensions
  <2>2. view[s].dims # NoTable
    BY <1>1, <1>2 DEF ViewOK, Consistent, Versions, BaseTables, MetadataFilterIndex
  <2>3. catalog.dims \notin {NoTable, ConfigDims[s]}
    BY <1>1, <1>4, <2>2 DEF ViewOK, DimsMatch
  <2>4. QED  BY <2>1, <2>3, StopMigrating DEF Outcomes
<1>5. QED  BY <1>3, <1>4

\* The one step that changes the catalog: nobody else holds the lock, and the
\* stores that have returned keep what they were promised.
LEMMA CommitMigrating ==
  ASSUME IInv, NEW s \in Stores, Commit(s)
  PROVE  Migrating' /\ (catalog.dims # NoTable => catalog'.dims = catalog.dims)
         /\ catalog'.applied = Versions /\ catalog'.dims = ConfigDims[s]
<1>1. /\ TypeOK /\ s \in Procs /\ pc[s] = "commit" /\ Goto(s, "landed")
      /\ ViewOK(s) /\ migrator = s /\ catalog' = view[s]
      /\ UNCHANGED <<available, view>>
  BY DEF Commit, IInv, Migrating, StoreOK, Procs
<1>2. pc'[s] = "landed" /\ \A r \in Stores : r # s => pc'[r] = pc[r]
  BY <1>1, GotoOthers, Types
<1>3. \A r \in Stores : pc'[r] \notin {"load", "apply", "commit"}
  BY <1>1, <1>2 DEF IInv, Migrating, StoreOK
<1>4. catalog'.applied = Versions /\ catalog'.dims = ConfigDims[s]
  BY <1>1 DEF IInv, Migrating, StoreOK
<1>5. catalog.dims # NoTable => catalog'.dims = catalog.dims
  BY <1>1 DEF ViewOK
<1>6. CatalogConsistent'
  BY <1>1 DEF CatalogConsistent, ViewOK
<1>7. /\ outcome'[s] \in {outcome[s], "ok"}
      /\ \A r \in Stores : r # s => outcome'[r] = outcome[r]
  BY <1>1, Types DEF Commit
<1>8. \A r \in Stores : outcome[r] = "ok" => catalog.dims = ConfigDims[r]
                                             /\ catalog.dims # NoTable
  BY StoreAssumption DEF IInv, Migrating, OkMeansUsable, NoTable
<1>9. OkMeansUsable'
  <2>1. ASSUME NEW r \in Stores, outcome'[r] = "ok"
        PROVE  catalog'.dims = ConfigDims[r]
    <3>1. CASE r = s  BY <1>4, <3>1
    <3>2. CASE r # s  BY <1>5, <1>7, <1>8, <2>1, <3>2
    <3>3. QED  BY <3>1, <3>2
  <2>2. QED  BY <1>4, <2>1 DEF OkMeansUsable
<1>10. FailureHasReason'
  BY <1>1, <1>5, <1>7 DEF IInv, Migrating, FailureHasReason
<1>11. \A r \in Stores : StoreOK(r)'
  BY <1>3 DEF StoreOK
<1>12. QED  BY <1>4, <1>5, <1>6, <1>9, <1>10, <1>11 DEF Migrating

\* One step per action.
LEMMA NextMigrating == IInv /\ [Next]_vars => Migrating'
<1> SUFFICES ASSUME IInv, [Next]_vars PROVE Migrating'
  OBVIOUS
<1>0. TypeOK
  BY DEF IInv
<1>1. ASSUME NEW s \in Stores, Begin(s) PROVE Migrating'
  <2>1. pc'[s] = "extensions" /\ \A r \in Stores : r # s => pc'[r] = pc[r]
    BY <1>0, <1>1, GotoOthers, Types DEF Begin
  <2>2. QED  BY <1>1, <2>1, QuietStep DEF Begin
<1>2. ASSUME NEW s \in Stores, EnsureRequiredExtensions(s) PROVE Migrating'
  <2>1. CASE available
    <3>1. pc'[s] = "lock" /\ \A r \in Stores : r # s => pc'[r] = pc[r]
      BY <1>0, <1>2, <2>1, GotoOthers, Types DEF EnsureRequiredExtensions
    <3>2. QED  BY <1>2, <2>1, <3>1, QuietStep DEF EnsureRequiredExtensions
  <2>2. CASE ~available
    BY <1>2, <2>2, StopMigrating DEF EnsureRequiredExtensions, Outcomes
  <2>3. QED  BY <2>1, <2>2
<1>3. ASSUME NEW s \in Stores, AcquireMigrationLock(s) PROVE Migrating'
  BY <1>3, AcquireMigrating
<1>4. ASSUME NEW s \in Stores, LoadApplied(s) PROVE Migrating'
  BY <1>4, LoadMigrating
<1>5. ASSUME NEW s \in Stores, LockTable(s) PROVE Migrating'
  BY <1>5, QuietStep DEF LockTable
<1>6. ASSUME NEW s \in Stores, ApplyMigration(s) PROVE Migrating'
  BY <1>6, ApplyMigrating
<1>7. ASSUME NEW s \in Stores, EnsureEmbeddingDimensions(s) PROVE Migrating'
  BY <1>7, EnsureDimensionsMigrating
<1>8. ASSUME NEW s \in Stores, Commit(s) PROVE Migrating'
  BY <1>8, CommitMigrating
<1>9. ASSUME NEW s \in Stores, BackendExit(s) PROVE Migrating'
  BY <1>9, StopMigrating DEF BackendExit, Outcomes
<1>10. ASSUME NEW s \in Stores, MigrationIsVictim(s) PROVE Migrating'
  BY <1>10, StopMigrating DEF MigrationIsVictim, Outcomes
<1>11. ASSUME NEW s \in Stores, Fail(s) PROVE Migrating'
  <2>1. /\ pc'[s] = pc[s] \/ pc'[s] = "abandoned"
        /\ \A r \in Stores : r # s => pc'[r] = pc[r]
    BY <1>0, <1>11, GotoOthers, Types DEF Fail
  <2>2. \A r \in Stores : outcome'[r] \in {outcome[r], "lost"}
    BY <1>0, <1>11, Types DEF Fail
  <2>3. QED  BY <1>11, <2>1, <2>2, QuietStep DEF Fail
<1>12. ASSUME NEW w \in Writers, Write(w) PROVE Migrating'
  <2>1. \E step : Goto(w, step)
    BY <1>12 DEF Write, WriteDocument, WriteChunks, EndWrite, WriteIsVictim
  <2>2. \A r \in Stores : pc'[r] = pc[r]
    BY <1>0, <2>1, GotoOthers, Types, StoreAssumption
  <2>3. UNCHANGED <<catalog, available, migrator, view, outcome>>
    BY <1>12 DEF Write, WriteDocument, WriteChunks, EndWrite, WriteIsVictim
  <2>4. QED  BY <2>2, <2>3, QuietStep
<1>13. CASE DoctorLooks \/ DoctorReadsVersions \/ UNCHANGED vars
  BY <1>13, QuietStep DEF DoctorLooks, DoctorReadsVersions, vars
<1>14. QED
  BY <1>1, <1>2, <1>3, <1>4, <1>5, <1>6, <1>7, <1>8, <1>9, <1>10, <1>11, <1>12,
     <1>13 DEF Next, Step

-----------------------------------------------------------------------------
(* The theorems.                                                           *)

\* The inductive invariant holds in every state.
THEOREM Invariance == Spec => []IInv
<1>1. Init => IInv
  BY InitType, InitMigrating DEF IInv
<1>2. IInv /\ [Next]_vars => IInv'
  BY NextType, NextMigrating DEF IInv
<1>3. QED  BY <1>1, <1>2, PTL DEF Spec

\* Every reachable state is well typed.
THEOREM MigrationTypeCorrect == Spec => []TypeOK
<1>1. IInv => TypeOK
  BY DEF IInv
<1>2. QED  BY <1>1, Invariance, PTL

\* The committed catalog is always that of one version, whichever stores
\* failed on the way (the single transaction of Migrate).
THEOREM SchemaIsOfOneVersion == Spec => []CatalogConsistent
<1>1. IInv => CatalogConsistent
  BY DEF IInv, Migrating
<1>2. QED  BY <1>1, Invariance, PTL

\* After Migrate returned nil the store can work with the schema for good.
THEOREM MigratedStaysUsable == Spec => []OkMeansUsable
<1>1. IInv => OkMeansUsable
  BY DEF IInv, Migrating
<1>2. QED  BY <1>1, Invariance, PTL

\* Migrate fails only for one of its reasons, never because another store
\* migrates at the same time (the advisory lock of Migrate).
THEOREM NoFailureWithoutReason == Spec => []FailureHasReason
<1>1. IInv => FailureHasReason
  BY DEF IInv, Migrating
<1>2. QED  BY <1>1, Invariance, PTL

\* A step that changes the committed catalog takes it to the current version
\* and changes no dimensions of a table that is there.
THEOREM MigrationIsAllOrNothing == Spec => AllOrNothing
<1> DEFINE Whole ==
      catalog' # catalog =>
        /\ catalog'.applied = Versions
        /\ \E s \in Stores : catalog'.dims = ConfigDims[s]
        /\ catalog.dims # NoTable => catalog'.dims = catalog.dims
<1>1. IInv /\ [Next]_vars => [Whole]_vars
  <2> SUFFICES ASSUME IInv, Next, catalog' # catalog
               PROVE  Whole
    OBVIOUS
  <2>1. PICK s \in Stores : Commit(s)
    <3>1. ASSUME NEW s \in Stores, Step(s), ~Commit(s) PROVE catalog' = catalog
      BY <3>1 DEF Step, EnsureRequiredExtensions, AcquireMigrationLock, LoadApplied,
                  LockTable, ApplyMigration, EnsureEmbeddingDimensions, BackendExit,
                  MigrationIsVictim
    <3>2. ASSUME NEW w \in Writers, Write(w) PROVE catalog' = catalog
      BY <3>2 DEF Write, WriteDocument, WriteChunks, EndWrite, WriteIsVictim
    <3>3. QED
      BY <3>1, <3>2 DEF Next, Begin, Fail, DoctorLooks, DoctorReadsVersions
  <2>2. QED  BY <2>1, CommitMigrating
<1>2. QED  BY <1>1, Invariance, PTL DEF Spec, AllOrNothing

-----------------------------------------------------------------------------
(* Deadlocks with document writes, and what the doctor reports.            *)

\* The locks of a write: kb_chunks comes after kb_documents, and there is a
\* table to write to.
WriterLocksOK(w) ==
  /\ pc[w] \in {"idle", "documents"} => tableLock["kb_chunks"][w] = "none"
  /\ pc[w] = "documents" => catalog.dims # NoTable

\* The locks of a migration.  It locks kb_chunks exclusively only after
\* kb_documents; a share lock on kb_chunks means that it creates the search
\* indexes itself, or that it is past dropping the old ones; and it never
\* brings old indexes back.
StoreLocksOK(s) ==
  /\ \A t \in Tables : tableLock[t][s] # "row"
  /\ pc[s] \in {"idle", "extensions", "lock", "load"} =>
       \A t \in Tables : tableLock[t][s] = "none"
  /\ pc[s] = "apply" =>
       /\ "old" \in view[s].indexes => "old" \in catalog.indexes
       /\ tableLock["kb_chunks"][s] = "exclusive" =>
            tableLock["kb_documents"][s] = "exclusive"
       /\ tableLock["kb_chunks"][s] = "share" =>
            Indexes \notin catalog.applied \/ DropRedundantIndex \in view[s].applied

LockOrder ==
  /\ \A w \in Writers : WriterLocksOK(w)
  /\ \A s \in Stores : StoreLocksOK(s)

\* A process that gives all its locks back takes none from the others.
LEMMA UnlockLocks ==
  ASSUME TypeOK, NEW p \in Procs, Unlock(p), NEW t \in Tables
  PROVE  /\ tableLock'[t][p] = "none"
         /\ \A q \in Procs : q # p => tableLock'[t][q] = tableLock[t][q]
BY Types DEF Unlock

\* Processes that keep their place and their locks keep the order of them, as
\* long as the catalog does not change and what they see of it neither.
LEMMA UntouchedStore ==
  ASSUME NEW r \in Stores, StoreLocksOK(r), UNCHANGED catalog,
         pc'[r] = pc[r], view'[r] = view[r],
         \A t \in Tables : tableLock'[t][r] = tableLock[t][r]
  PROVE  StoreLocksOK(r)'
BY DEF StoreLocksOK, Tables

\* A write that does not move, and keeps its lock, stays where that lock puts it.
LEMMA UntouchedWriter ==
  ASSUME NEW w \in Writers, WriterLocksOK(w), UNCHANGED catalog,
         pc'[w] = pc[w], tableLock'["kb_chunks"][w] = tableLock["kb_chunks"][w]
  PROVE  WriterLocksOK(w)'
BY DEF WriterLocksOK

\* A migration that ends, or a write that does, has no lock left.
LEMMA StopLocks ==
  ASSUME IInv, LockOrder, NEW s \in Stores, Unlock(s),
         pc'[s] \in {"landed", "aborted"},
         \A p \in Procs : p # s => pc'[p] = pc[p],
         UNCHANGED <<catalog, view>>
  PROVE  LockOrder'
<1>1. /\ s \in Procs /\ TypeOK
      /\ \A t \in Tables : tableLock'[t][s] = "none"
      /\ \A t \in Tables, q \in Procs : q # s => tableLock'[t][q] = tableLock[t][q]
  BY UnlockLocks, Types DEF IInv
<1>2. StoreLocksOK(s)'
  BY <1>1 DEF StoreLocksOK, Tables
<1>3. ASSUME NEW r \in Stores, r # s PROVE StoreLocksOK(r)'
  BY <1>1, <1>3, Types, UntouchedStore DEF LockOrder
<1>4. ASSUME NEW w \in Writers PROVE WriterLocksOK(w)'
  <2>1. w # s /\ w \in Procs
    BY StoreAssumption DEF Procs
  <2>2. QED  BY <1>1, <2>1, UntouchedWriter DEF LockOrder, Tables
<1>5. QED  BY <1>2, <1>3, <1>4 DEF LockOrder

\* Steps of a store that take no lock and leave the catalog and its view.
LEMMA LocklessStep ==
  ASSUME IInv, LockOrder, NEW s \in Stores, UNCHANGED <<catalog, view, tableLock>>,
         pc'[s] \in {pc[s], "extensions", "lock", "load", "commit", "abandoned"},
         pc'[s] \in {"extensions", "lock", "load"} =>
           pc[s] \in {"idle", "extensions", "lock", "load"},
         \A p \in Procs : p # s => pc'[p] = pc[p]
  PROVE  LockOrder'
<1>1. StoreLocksOK(s)'
  BY DEF LockOrder, StoreLocksOK
<1>2. ASSUME NEW r \in Stores, r # s PROVE StoreLocksOK(r)'
  BY <1>2, UntouchedStore DEF LockOrder, Procs
<1>3. ASSUME NEW w \in Writers PROVE WriterLocksOK(w)'
  BY UntouchedWriter, StoreAssumption DEF LockOrder, Procs
<1>4. QED  BY <1>1, <1>2, <1>3 DEF LockOrder

\* The lock a migration takes next keeps the order.
LEMMA LockTableLocks ==
  ASSUME IInv, LockOrder, NEW s \in Stores, LockTable(s)
  PROVE  LockOrder'
<1> DEFINE v == NextVersion(s)
<1>1. PICK need \in Turn(s) : tableLock' = [tableLock EXCEPT ![need[1]][s] = need[2]]
  BY DEF LockTable
<1>2. /\ TypeOK /\ s \in Procs /\ pc[s] = "apply" /\ ViewOK(s) /\ Missing(s) # {}
      /\ UNCHANGED <<catalog, view, pc>>
  BY DEF LockTable, IInv, Migrating, StoreOK, Procs
<1>3. /\ v \in Versions \ view[s].applied
      /\ \A w \in Versions \ view[s].applied : v <= w
  BY <1>2, LeastMissing DEF Missing
<1>4. \/ /\ v \in {Indexes, MetadataFilterIndex}
         /\ need[1] = "kb_chunks" /\ need[2] = "share"
      \/ /\ v = DropRedundantIndex /\ "old" \in view[s].indexes
         /\ need[1] \in Tables /\ need[2] = "exclusive"
         /\ need[1] = "kb_documents" \/
            tableLock["kb_documents"][s] = "exclusive"
  <2>1. need \in TableLocks(view[s], v)
    BY <1>1 DEF Turn, Unlocked
  <2>2. CASE v \in {Indexes, MetadataFilterIndex}
    <3>1. TableLocks(view[s], v) = {<<"kb_chunks", "share">>}
      BY <2>2 DEF TableLocks, DropRedundantIndex, Indexes, MetadataFilterIndex
    <3>2. QED  BY <2>1, <2>2, <3>1
  <2>3. CASE v = DropRedundantIndex /\ "old" \in view[s].indexes
    <3>1. TableLocks(view[s], v) =
            {<<"kb_documents", "exclusive">>, <<"kb_chunks", "exclusive">>}
      BY <2>3 DEF TableLocks, DropRedundantIndex, Indexes, MetadataFilterIndex
    <3>2. tableLock["kb_documents"][s] # "exclusive" =>
            <<"kb_documents", "exclusive">> \in Unlocked(s)
      BY <3>1 DEF Unlocked
    <3>3. need[1] = "kb_documents" \/ tableLock["kb_documents"][s] = "exclusive"
      BY <1>1, <3>2 DEF Turn
    <3>4. QED  BY <2>1, <2>3, <3>1, <3>3 DEF Tables
  <2>4. CASE v \notin {Indexes, MetadataFilterIndex}
             /\ ~(v = DropRedundantIndex /\ "old" \in view[s].indexes)
    BY <2>1, <2>4 DEF TableLocks
  <2>5. QED  BY <2>2, <2>3, <2>4
<1>5. /\ tableLock'[need[1]][s] = need[2]
      /\ \A t \in Tables : t # need[1] => tableLock'[t][s] = tableLock[t][s]
      /\ \A t \in Tables, q \in Procs : q # s => tableLock'[t][q] = tableLock[t][q]
  BY <1>1, <1>2, <1>4, Types DEF Tables
<1>6. v = MetadataFilterIndex => DropRedundantIndex \in view[s].applied
  BY <1>3 DEF Versions, BaseTables, DropRedundantIndex, MetadataFilterIndex
<1>7. v = Indexes => Indexes \notin catalog.applied
  BY <1>2, <1>3 DEF ViewOK
<1>8. StoreLocksOK(s)'
  BY <1>2, <1>4, <1>5, <1>6, <1>7 DEF LockOrder, StoreLocksOK, Tables
<1>9. ASSUME NEW r \in Stores, r # s PROVE StoreLocksOK(r)'
  BY <1>2, <1>5, <1>9, UntouchedStore DEF LockOrder, Procs
<1>10. ASSUME NEW w \in Writers PROVE WriterLocksOK(w)'
  BY <1>2, <1>5, UntouchedWriter, StoreAssumption DEF LockOrder, Procs, Tables
<1>11. QED  BY <1>8, <1>9, <1>10 DEF LockOrder

\* A store begins to migrate, or applies one version: its view has old indexes
\* only if the catalog has them.
LEMMA ViewLocks ==
  ASSUME IInv, LockOrder, NEW s \in Stores, LoadApplied(s) \/ ApplyMigration(s)
  PROVE  LockOrder'
<1>1. TypeOK /\ s \in Procs /\ UNCHANGED <<catalog, tableLock>>
  <2>1. CASE LoadApplied(s)
    BY <2>1 DEF IInv, LoadApplied, Procs
  <2>2. CASE ApplyMigration(s)
    <3>1. UNCHANGED pc /\ pc[s] = "apply"
      BY <2>2, ApplyType DEF ApplyMigration
    <3>2. ~Stop(s, "duplicate")
      BY <3>1, GotoOthers, Types DEF Stop, IInv, Procs
    <3>3. QED  BY <2>2, <3>2 DEF IInv, ApplyMigration, Procs
  <2>3. QED  BY <2>1, <2>2
<1>2. \A r \in Stores : r # s => view'[r] = view[r]
  BY <1>1, ApplyType, Types DEF LoadApplied
<1>3. \A p \in Procs : p # s => pc'[p] = pc[p]
  BY <1>1, ApplyType, GotoOthers DEF LoadApplied
<1>4. StoreLocksOK(s)'
  <2>1. CASE LoadApplied(s)
    <3>1. view'[s].indexes = catalog.indexes
      BY <1>1, <2>1, Types DEF LoadApplied, Catalogs
    <3>2. \A t \in Tables : tableLock'[t][s] = "none"
      BY <1>1, <2>1 DEF LoadApplied, LockOrder, StoreLocksOK
    <3>3. QED  BY <1>1, <3>1, <3>2 DEF StoreLocksOK, Tables
  <2>2. CASE ApplyMigration(s)
    <3>1. /\ UNCHANGED pc /\ pc[s] = "apply"
          /\ view[s].applied \subseteq view'[s].applied
          /\ view'[s] = Migrated(view[s], NextVersion(s), ConfigDims[s])
          /\ view[s] \in Catalogs
      BY <1>1, <2>2, ApplyType, Types DEF ApplyMigration
    <3>2. "old" \in view'[s].indexes => "old" \in view[s].indexes
      BY <3>1 DEF Migrated, Catalogs
    <3>3. QED  BY <1>1, <3>1, <3>2 DEF LockOrder, StoreLocksOK, Tables
  <2>3. QED  BY <2>1, <2>2
<1>5. ASSUME NEW r \in Stores, r # s PROVE StoreLocksOK(r)'
  BY <1>1, <1>2, <1>3, <1>5, UntouchedStore DEF LockOrder, Procs
<1>6. ASSUME NEW w \in Writers PROVE WriterLocksOK(w)'
  BY <1>1, <1>3, UntouchedWriter, StoreAssumption DEF LockOrder, Procs
<1>7. QED  BY <1>4, <1>5, <1>6 DEF LockOrder

\* A COMMIT: nobody else is between load and commit, and the table stays.
LEMMA CommitLocks ==
  ASSUME IInv, LockOrder, NEW s \in Stores, Commit(s)
  PROVE  LockOrder'
<1>1. /\ TypeOK /\ s \in Procs /\ Goto(s, "landed") /\ Unlock(s)
      /\ migrator = s
  BY DEF Commit, EndTransaction, IInv, Migrating, StoreOK, Procs
<1>2. pc'[s] = "landed" /\ \A p \in Procs : p # s => pc'[p] = pc[p]
  BY <1>1, GotoOthers
<1>3. \A t \in Tables : /\ tableLock'[t][s] = "none"
                        /\ \A q \in Procs : q # s => tableLock'[t][q] = tableLock[t][q]
  BY <1>1, UnlockLocks
<1>4. catalog.dims # NoTable => catalog'.dims # NoTable
  BY CommitMigrating
<1>5. StoreLocksOK(s)'
  BY <1>2, <1>3 DEF StoreLocksOK, Tables
<1>6. ASSUME NEW r \in Stores, r # s PROVE StoreLocksOK(r)'
  <2>1. r \in Procs /\ pc[r] # "apply"
    BY <1>1, <1>6 DEF IInv, Migrating, StoreOK, Procs
  <2>2. QED  BY <1>2, <1>3, <1>6, <2>1 DEF LockOrder, StoreLocksOK, Tables
<1>7. ASSUME NEW w \in Writers PROVE WriterLocksOK(w)'
  <2>1. w \in Procs /\ w # s
    BY StoreAssumption DEF Procs
  <2>2. QED  BY <1>2, <1>3, <1>4, <2>1 DEF LockOrder, WriterLocksOK, Tables
<1>8. QED  BY <1>5, <1>6, <1>7 DEF LockOrder

\* A step of a write keeps the order of the table locks.
LEMMA WriteLocks ==
  ASSUME IInv, LockOrder, NEW w \in Writers, Write(w)
  PROVE  LockOrder'
<1>1. TypeOK /\ w \in Procs /\ UNCHANGED <<catalog, view>>
  BY DEF IInv, Procs, Write, WriteDocument, WriteChunks, EndWrite, WriteIsVictim
<1>2. \E step \in WriterPcs : Goto(w, step)
  BY DEF Write, WriteDocument, WriteChunks, EndWrite, WriteIsVictim, WriterPcs
<1>3. \A p \in Procs : p # w => pc'[p] = pc[p]
  BY <1>1, <1>2, GotoOthers
<1>4. \A t \in Tables, q \in Procs : q # w => tableLock'[t][q] = tableLock[t][q]
  <2>1. CASE WriteDocument(w) \/ WriteChunks(w)
    BY <1>1, <2>1, Types DEF WriteDocument, WriteChunks, Tables
  <2>2. CASE EndWrite(w) \/ WriteIsVictim(w)
    BY <1>1, <2>2, UnlockLocks DEF EndWrite, WriteIsVictim
  <2>3. QED  BY <2>1, <2>2 DEF Write
<1>5. WriterLocksOK(w)'
  <2>1. CASE WriteDocument(w)
    <3>1. pc'[w] = "documents" /\ tableLock["kb_chunks"][w] = "none"
      BY <1>1, <2>1, GotoOthers DEF WriteDocument, LockOrder, WriterLocksOK
    <3>2. tableLock'["kb_chunks"][w] = "none"
      BY <1>1, <2>1, <3>1, Types DEF WriteDocument, Tables
    <3>3. QED  BY <2>1, <3>1, <3>2 DEF WriteDocument, WriterLocksOK
  <2>2. CASE WriteChunks(w)
    <3>1. pc'[w] = "chunks"
      BY <1>1, <2>2, GotoOthers DEF WriteChunks
    <3>2. QED  BY <3>1 DEF WriterLocksOK
  <2>3. CASE EndWrite(w) \/ WriteIsVictim(w)
    <3>1. pc'[w] = "ended"
      BY <1>1, <2>3, GotoOthers DEF EndWrite, WriteIsVictim
    <3>2. QED  BY <3>1 DEF WriterLocksOK
  <2>4. QED  BY <2>1, <2>2, <2>3 DEF Write
<1>6. ASSUME NEW x \in Writers, x # w PROVE WriterLocksOK(x)'
  BY <1>1, <1>3, <1>4, <1>6, UntouchedWriter DEF LockOrder, Procs, Tables
<1>7. ASSUME NEW s \in Stores PROVE StoreLocksOK(s)'
  BY <1>1, <1>3, <1>4, UntouchedStore, StoreAssumption DEF LockOrder, Procs
<1>8. QED  BY <1>5, <1>6, <1>7 DEF LockOrder

\* Initially no table is locked.
LEMMA InitLockOrder == Init => LockOrder
BY DEF Init, LockOrder, WriterLocksOK, StoreLocksOK, Procs, Tables

\* One step per action.
LEMMA NextLockOrder == IInv /\ LockOrder /\ [Next]_vars => LockOrder'
<1> SUFFICES ASSUME IInv, LockOrder, [Next]_vars PROVE LockOrder'
  OBVIOUS
<1>0. TypeOK /\ Stores \subseteq Procs
  BY DEF IInv, Procs
<1>1. ASSUME NEW s \in Stores, NEW error, Stop(s, error), UNCHANGED <<catalog, view>>
      PROVE  LockOrder'
  BY <1>0, <1>1, GotoOthers, StopLocks DEF Stop, EndTransaction
<1>2. ASSUME NEW s \in Stores,
             \/ Begin(s) \/ EnsureRequiredExtensions(s) \/ AcquireMigrationLock(s)
             \/ EnsureEmbeddingDimensions(s) \/ Fail(s),
             UNCHANGED tableLock, NEW step \in MigratePcs, Goto(s, step),
             step \in {pc[s], "extensions", "lock", "load", "commit", "abandoned"},
             step \in {"extensions", "lock", "load"} =>
               pc[s] \in {"idle", "extensions", "lock", "load"}
      PROVE  LockOrder'
  <2>1. pc'[s] = step /\ \A p \in Procs : p # s => pc'[p] = pc[p]
    BY <1>0, <1>2, GotoOthers
  <2>2. UNCHANGED <<catalog, view>>
    BY <1>2 DEF Begin, EnsureRequiredExtensions, AcquireMigrationLock,
                EnsureEmbeddingDimensions, Fail
  <2>3. QED  BY <1>2, <2>1, <2>2, LocklessStep
<1>3. ASSUME NEW s \in Stores, Begin(s) \/ AcquireMigrationLock(s) PROVE LockOrder'
  BY <1>2, <1>3 DEF Begin, AcquireMigrationLock, MigratePcs
<1>4. ASSUME NEW s \in Stores, EnsureRequiredExtensions(s) PROVE LockOrder'
  <2>1. CASE available
    BY <1>2, <1>4, <2>1 DEF EnsureRequiredExtensions, MigratePcs
  <2>2. CASE ~available
    BY <1>1, <1>4, <2>2 DEF EnsureRequiredExtensions
  <2>3. QED  BY <2>1, <2>2
<1>5. ASSUME NEW s \in Stores, EnsureEmbeddingDimensions(s) PROVE LockOrder'
  <2>1. CASE DimsMatch(s)
    BY <1>2, <1>5, <2>1 DEF EnsureEmbeddingDimensions, MigratePcs
  <2>2. CASE ~DimsMatch(s)
    BY <1>1, <1>5, <2>2 DEF EnsureEmbeddingDimensions
  <2>3. QED  BY <2>1, <2>2
<1>6. ASSUME NEW s \in Stores, Fail(s) PROVE LockOrder'
  BY <1>2, <1>6 DEF Fail, MigratePcs
<1>7. ASSUME NEW s \in Stores, BackendExit(s) \/ MigrationIsVictim(s) PROVE LockOrder'
  BY <1>1, <1>7 DEF BackendExit, MigrationIsVictim
<1>8. CASE DoctorLooks \/ DoctorReadsVersions \/ UNCHANGED vars
  BY <1>8 DEF DoctorLooks, DoctorReadsVersions, vars, LockOrder, WriterLocksOK,
              StoreLocksOK
<1>9. QED
  BY <1>3, <1>4, <1>5, <1>6, <1>7, <1>8, LockTableLocks, ViewLocks, CommitLocks,
     WriteLocks
  DEF Next, Step

\* Migrate is chosen as a deadlock victim only on the way from version 1, with
\* old indexes to drop: it waits for kb_documents, which DROP INDEX locks, with
\* a share lock on kb_chunks that CREATE INDEX took in the same transaction.
THEOREM DeadlocksOnlyFromBase == Spec => DeadlockOnlyFromBase
<1> DEFINE Excused ==
      \A s \in Stores : outcome[s] # "deadlock" /\ outcome'[s] = "deadlock" =>
        catalog.applied = {BaseTables} /\ "old" \in catalog.indexes
<1>1. IInv /\ LockOrder /\ [Next]_vars => [Excused]_vars
  <2> SUFFICES ASSUME IInv, LockOrder, Next, NEW s \in Stores,
                      outcome[s] # "deadlock", outcome'[s] = "deadlock"
               PROVE  catalog.applied = {BaseTables} /\ "old" \in catalog.indexes
    OBVIOUS
  <2>0. TypeOK
    BY DEF IInv
  <2>1. MigrationIsVictim(s)
    <3>1. ASSUME NEW r \in Stores, Step(r), ~MigrationIsVictim(r) PROVE outcome'[s] # "deadlock"
      BY <2>0, <3>1, Types
      DEF Step, EnsureRequiredExtensions, AcquireMigrationLock, LoadApplied, LockTable,
          ApplyMigration, EnsureEmbeddingDimensions, Commit, BackendExit, Stop
    <3>2. ASSUME NEW r \in Stores, Begin(r) \/ Fail(r) PROVE outcome'[s] # "deadlock"
      BY <2>0, <3>2, Types DEF Begin, Fail
    <3>3. ASSUME NEW w \in Writers, Write(w) PROVE outcome'[s] # "deadlock"
      BY <3>3 DEF Write, WriteDocument, WriteChunks, EndWrite, WriteIsVictim
    <3>4. ASSUME NEW r \in Stores, MigrationIsVictim(r), r # s PROVE FALSE
      BY <2>0, <3>4, Types DEF MigrationIsVictim, Stop
    <3>5. QED
      BY <3>1, <3>2, <3>3, <3>4 DEF Next, DoctorLooks, DoctorReadsVersions
  <2>2. PICK w \in Writers : Deadlocked(s, w)
    BY <2>1 DEF MigrationIsVictim
  <2>3. PICK need \in Turn(s) : ~Compatible(need[2], tableLock[need[1]][w])
    BY <2>2 DEF Deadlocked
  <2> DEFINE v == NextVersion(s)
  <2>4. /\ pc[s] = "apply" /\ Missing(s) # {} /\ pc[w] = "documents"
        /\ ViewOK(s) /\ StoreLocksOK(s) /\ WriterLocksOK(w)
        /\ tableLock["kb_chunks"][s] # "none"
    BY <2>2 DEF Deadlocked, Compatible, IInv, Migrating, StoreOK, LockOrder
  <2>5. /\ v \in Versions \ view[s].applied
        /\ \A x \in Versions \ view[s].applied : v <= x
    BY <2>4, LeastMissing DEF Missing
  <2>6. need[1] # "kb_chunks"
    BY <2>3, <2>4 DEF WriterLocksOK, Compatible
  <2>7. /\ v = DropRedundantIndex /\ "old" \in view[s].indexes
        /\ need = <<"kb_documents", "exclusive">>
    <3>1. need \in TableLocks(view[s], v)
      BY DEF Turn, Unlocked
    <3>2. QED  BY <2>6, <3>1 DEF TableLocks
  <2>8. tableLock["kb_chunks"][s] = "share"
    <3>1. tableLock["kb_documents"][s] # "exclusive"
      BY <2>7 DEF Turn, Unlocked
    <3>2. QED
      BY <2>0, <2>4, <3>1, Types DEF StoreLocksOK, Tables, Modes
  <2>9. Indexes \notin catalog.applied /\ "old" \in catalog.indexes
    BY <2>4, <2>5, <2>7, <2>8 DEF StoreLocksOK
  <2>10. BaseTables \in catalog.applied
    BY <2>4 DEF WriterLocksOK, IInv, Migrating, CatalogConsistent, Consistent
  <2>11. catalog.applied \subseteq Versions
    BY <2>0, Types DEF Catalogs
  <2>12. \A x \in catalog.applied : x \notin {DropRedundantIndex, MetadataFilterIndex}
    <3>1. Consistent(catalog)
      BY DEF IInv, Migrating, CatalogConsistent
    <3>2. QED
      BY <2>9, <3>1
      DEF Consistent, Versions, BaseTables, Indexes, DropRedundantIndex,
          MetadataFilterIndex
  <2>13. QED
    BY <2>9, <2>10, <2>11, <2>12
    DEF Versions, BaseTables, Indexes, DropRedundantIndex, MetadataFilterIndex
<1>2. Spec => [](IInv /\ LockOrder)
  BY Invariance, InitLockOrder, NextLockOrder, PTL DEF Spec
<1>3. QED  BY <1>1, <1>2, PTL DEF Spec, DeadlockOnlyFromBase

\* When the doctor reports the schema as ready, no version of it is missing,
\* although it concludes that from the highest version alone and a Migrate may
\* have committed since it looked for the table.
THEOREM ReadyIsMigrated == Spec => []ReadyMeansMigrated
<1>1. Init => ReadyMeansMigrated
  BY DEF Init, ReadyMeansMigrated
<1>2. IInv /\ ReadyMeansMigrated /\ [Next]_vars => ReadyMeansMigrated'
  <2> SUFFICES ASSUME IInv, ReadyMeansMigrated, [Next]_vars,
                      doctor'.status = "ready"
               PROVE  catalog'.applied = Versions
    BY DEF ReadyMeansMigrated
  <2>0. TypeOK /\ catalog.applied \subseteq Versions /\ Consistent(catalog)
    BY Types DEF IInv, Catalogs, Migrating, CatalogConsistent
  <2>1. ASSUME NEW s \in Stores, Commit(s) PROVE catalog'.applied = Versions
    BY <2>1, CommitMigrating
  <2>2. ASSUME UNCHANGED <<catalog, doctor>> PROVE catalog'.applied = Versions
    BY <2>2 DEF ReadyMeansMigrated
  <2>3. ASSUME NEW s \in Stores, Begin(s) \/ Step(s) \/ Fail(s)
        PROVE  catalog'.applied = Versions
    BY <2>1, <2>2, <2>3
    DEF Begin, Fail, Step, EnsureRequiredExtensions, AcquireMigrationLock, LoadApplied,
        LockTable, ApplyMigration, EnsureEmbeddingDimensions, BackendExit,
        MigrationIsVictim
  <2>4. ASSUME NEW w \in Writers, Write(w) PROVE catalog'.applied = Versions
    BY <2>2, <2>4 DEF Write, WriteDocument, WriteChunks, EndWrite, WriteIsVictim
  <2>5. CASE DoctorLooks
    <3>1. doctor.status = "ready" /\ UNCHANGED catalog
      BY <2>0, <2>5 DEF DoctorLooks, TypeOK
    <3>2. QED  BY <3>1 DEF ReadyMeansMigrated
  <2>6. CASE DoctorReadsVersions
    <3>1. PICK latest \in 0 .. MetadataFilterIndex :
            /\ latest \in catalog.applied \cup {0}
            /\ doctor' = [at |-> "done", latest |-> latest, status |-> StatusOf(latest)]
      BY <2>6 DEF DoctorReadsVersions
    <3>2. MetadataFilterIndex \in catalog.applied
      BY <3>1 DEF StatusOf, MetadataFilterIndex
    <3>3. catalog.applied = Versions
      BY <2>0, <3>2 DEF Consistent, Versions, BaseTables, MetadataFilterIndex
    <3>4. QED  BY <2>6, <3>3 DEF DoctorReadsVersions
  <2>7. CASE UNCHANGED vars
    BY <2>2, <2>7 DEF vars
  <2>8. QED  BY <2>3, <2>4, <2>5, <2>6, <2>7 DEF Next
<1>3. QED  BY <1>1, <1>2, Invariance, PTL DEF Spec
=============================================================================
