---------------------- MODULE DocumentWritesRefinement ----------------------
(***************************************************************************)
(* What the answers of DocumentWrites mean: ok, that the document is what  *)
(* was asked for; a conflict, that other calls overtook the write twice.   *)
(* The writes implement KnowledgeBase: every call takes effect at one      *)
(* instant or not at all, and chunks are never replaced by chunks that an  *)
(* older splitter or embedder prepared.                                    *)
(*                                                                         *)
(* A rebuild goes on only from the snapshot it was prepared for, and       *)
(* updated_at is what tells two versions of a row apart; so the last two   *)
(* hold as long as no two transactions begin in the same tick of NOW().    *)
(***************************************************************************)
EXTENDS DocumentWritesProofs, FiniteSetTheorems

BeforeRecheck == {"begin", "lock", "recheck"}

\* A write that has prepared chunks.
Rebuilding(c) == pc[c] \in BeforeRecheck \cup Rechecked /\ prepared[c] # Cheap

\* The row that the document is going to have once the call commits.
Due(c) ==
  IF pending[c].document = NoDocument THEN locked[c] ELSE pending[c].document

\* What a write does is what its readings of the document call for: an upsert
\* rebuilds only what is not there yet, a rebuild replaces the row it was
\* prepared for, a refresh changes the metadata, and what is about to be
\* committed is what was asked for.
Faithful(c) ==
  /\ req[c].op = "upsert" /\ (pc[c] = "prepare" \/ Rebuilding(c)) =>
       Classify(expected[c], req[c], FALSE) = "reindex"
  /\ pc[c] \in Rechecked /\ prepared[c] # Cheap => locked[c] = expected[c]
  /\ pc[c] = "refresh" =>
       /\ prepared[c] = Cheap
       /\ locked[c].contentHash = req[c].content
       /\ locked[c].meta # req[c].meta
  /\ pc[c] = "commit" =>
       /\ Due(c) # NoDocument
       /\ Due(c).contentHash = req[c].content
       /\ Due(c).meta = req[c].meta
       /\ Due(c).chunkCount = ReportedChunkCount(c)
       /\ pending[c].document = NoDocument => prepared[c] = Cheap
       /\ prepared[c] = Cheap /\ pending[c].document # NoDocument =>
            locked[c] # NoDocument /\ locked[c].meta # req[c].meta

AllFaithful == \A c \in Calls : Faithful(c)

\* Initially no write has anything to store.
LEMMA InitFaithful == Init => AllFaithful
  BY DEF Init, AllFaithful, Faithful, Rebuilding, BeforeRecheck, Rechecked


\* The cheap path is open only to a row that has its content.
LEMMA CheapRow ==
  ASSUME NEW found, NEW r, Classify(found, r, FALSE) # "reindex"
  PROVE  /\ found # NoDocument /\ found.contentHash = r.content
         /\ Classify(found, r, FALSE) = "refresh" <=> found.meta # r.meta
  BY DEF Classify

\* Load keeps what a write is about to store what it was asked for.
LEMMA LoadFaithful ==
  ASSUME Typing, NEW c \in Calls, LoadSnapshot(c)
  PROVE  Faithful(c)'
  <1> DEFINE found == documents[req[c].key]
  <1>1. /\ expected'[c] = found /\ prepared'[c] = Cheap /\ req' = req
        /\ pc'[c] = IF Classify(found, req[c], req[c].op = "reindex") = "reindex"
                      THEN "prepare" ELSE "begin"
    BY Types DEF Typing, LoadSnapshot, Goto
  <1>2. req[c].op = "upsert" /\ pc'[c] = "prepare" =>
          Classify(found, req[c], FALSE) = "reindex"
    BY <1>1 DEF Classify
  <1>3. req'[c].op = "upsert" /\ pc'[c] = "prepare" =>
          Classify(expected'[c], req'[c], FALSE) = "reindex"
    BY <1>1, <1>2
  <1> QED
    BY <1>1, <1>3 DEF Faithful, Rebuilding, BeforeRecheck, Rechecked, Classify

\* Prepare keeps what a write is about to store what it was asked for.
LEMMA PrepareFaithful ==
  ASSUME Typing, NEW c \in Calls, Faithful(c), Prepare(c) \/ BeginTx(c) \/ AcquireDocumentWriteLock(c)
  PROVE  Faithful(c)'
  <1>1. /\ pc[c] \in {"prepare", "begin", "lock"} /\ pc'[c] \in BeforeRecheck
        /\ UNCHANGED <<req, expected>>
        /\ prepared'[c] = prepared[c] \/ pc[c] = "prepare"
    BY Types
    DEF Typing, Prepare, BeginTx, AcquireDocumentWriteLock, Goto, BeforeRecheck
  <1> QED
    BY <1>1 DEF Faithful, Rebuilding, BeforeRecheck, Rechecked, Classify

\* Recheck keeps what a write is about to store what it was asked for.
LEMMA RecheckFaithful ==
  ASSUME Typing, NEW c \in Calls, Faithful(c), RecheckPasses(c)
  PROVE  Faithful(c)'
  <1> DEFINE found == documents[req[c].key]
  <1>1. /\ pc[c] = "recheck" /\ pending[c] = NothingWritten
        /\ locked'[c] = found /\ pc'[c] = NextStep(c, found)
        /\ UNCHANGED <<req, expected, prepared, pending>>
        /\ ~MustRestart(c, found)
    BY Types DEF Typing, StepsOK, Unwritten, RecheckPasses, Goto
  <1>2. CASE prepared[c] # Cheap
    <2>1. pc'[c] = "upsertRow" /\ found = expected[c]
      BY <1>1, <1>2 DEF NextStep, MustRestart, SnapshotsEqual
    <2> QED
      BY <1>1, <1>2, <2>1 DEF Faithful, Rebuilding, BeforeRecheck, Rechecked, Classify
  <1>3. CASE prepared[c] = Cheap
    <2>1. /\ found # NoDocument /\ found.contentHash = req[c].content
          /\ pc'[c] = IF found.meta # req[c].meta THEN "refresh" ELSE "commit"
      <3>1. Classify(found, req[c], FALSE) # "reindex"
        BY <1>1, <1>3 DEF MustRestart
      <3>2. /\ found # NoDocument /\ found.contentHash = req[c].content
            /\ Classify(found, req[c], FALSE) = "refresh" <=> found.meta # req[c].meta
        BY <3>1, CheapRow
      <3>3. pc'[c] = IF Classify(found, req[c], FALSE) = "refresh" THEN "refresh" ELSE "commit"
        BY <1>1, <1>3 DEF NextStep
      <3> QED
        BY <3>2, <3>3
    <2>2. pending'[c].document = NoDocument
      BY <1>1 DEF NothingWritten
    <2>3. Due(c)' = found /\ ReportedChunkCount(c)' = found.chunkCount
      BY <1>1, <1>3, <2>2 DEF Due, ReportedChunkCount
    <2> QED
      BY <1>1, <1>3, <2>1, <2>2, <2>3 DEF Faithful, Rebuilding
  <1> QED
    BY <1>2, <1>3

\* Refresh keeps what a write is about to store what it was asked for.
LEMMA RefreshFaithful ==
  ASSUME Typing, NEW c \in Calls, Faithful(c), RefreshDocumentMetadata(c)
  PROVE  Faithful(c)'
  <1> DEFINE row == locked[c]
             new == [row EXCEPT !.meta = req[c].meta, !.updatedAt = now[c]]
  <1>1. /\ row \in Documents /\ row # NoDocument /\ prepared[c] = Cheap
        /\ row.contentHash = req[c].content /\ row.meta # req[c].meta
        /\ req[c].meta \in Metas /\ now[c] \in Nat
    BY WriteTypes, SentinelAssumption, Types
    DEF Typing, StepsOK, RefreshDocumentMetadata, Faithful, WritePcs
  <1>2. /\ pending'[c].document = new /\ pc'[c] = "commit"
        /\ UNCHANGED <<req, expected, prepared, locked>>
    BY Types DEF Typing, RefreshDocumentMetadata, Goto
  <1>3. /\ new \in Documents /\ new.contentHash = row.contentHash
        /\ new.meta = req[c].meta /\ new.chunkCount = row.chunkCount
    BY <1>1 DEF Documents
  <1> HIDE DEF new
  <1>4. new # NoDocument
    BY <1>3, SentinelAssumption
  <1>5. Due(c)' = new /\ ReportedChunkCount(c)' = row.chunkCount
    BY <1>1, <1>2, <1>4 DEF Due, ReportedChunkCount
  <1> QED
    BY <1>1, <1>2, <1>3, <1>4, <1>5 DEF Faithful, Rebuilding

\* Replace keeps what a write is about to store what it was asked for.
LEMMA ReplaceFaithful ==
  ASSUME Typing, Cutting, NEW c \in Calls, Faithful(c), ReplaceDocumentChunks(c)
  PROVE  Faithful(c)'
  <1> DEFINE row == pending[c].document
             count == ChunkCount[req[c].content][prepared[c]]
             new == [row EXCEPT !.chunkCount = count, !.updatedAt = now[c]]
  <1>1. /\ row \in Documents /\ row # NoDocument /\ prepared[c] \in Recipes
        /\ Writing(c) /\ pc[c] = "replaceChunks"
        /\ req[c].content \in Contents /\ now[c] \in Nat
    BY WriteTypes, SentinelAssumption, Types
    DEF Typing, StepsOK, ReplaceDocumentChunks, Writing, WritePcs
  <1>2. row.contentHash = req[c].content /\ row.meta = req[c].meta
    BY <1>1 DEF Cutting, PendingsOK, PendingOK
  <1>3. /\ pending'[c].document = new /\ pc'[c] = "commit"
        /\ UNCHANGED <<req, expected, prepared, locked>>
    BY Types DEF Typing, ReplaceDocumentChunks, Goto
  <1>4. count \in Nat /\ prepared[c] # Cheap
    BY <1>1, RecipeAssumption DEF Recipes, Cheap
  <1>5. /\ new \in Documents /\ new.contentHash = row.contentHash
        /\ new.meta = row.meta /\ new.chunkCount = count
    BY <1>1, <1>4 DEF Documents
  <1> HIDE DEF new
  <1>6. new # NoDocument
    BY <1>5, SentinelAssumption
  <1>7. Due(c)' = new /\ ReportedChunkCount(c)' = count
    BY <1>3, <1>4, <1>6 DEF Due, ReportedChunkCount
  <1> QED
    BY <1>1, <1>2, <1>3, <1>4, <1>5, <1>6, <1>7
    DEF Faithful, Rebuilding, BeforeRecheck, Rechecked, Classify

\* Every step keeps what a write is about to store what it was asked for.
LEMMA NextFaithful ==
  Typing /\ Cutting /\ AllFaithful /\ [Next]_vars => AllFaithful'
  <1> SUFFICES ASSUME Typing, Cutting, AllFaithful, [Next]_vars PROVE AllFaithful'
    OBVIOUS
  <1> USE Types DEF Typing, Goto
  <1>1. ASSUME NEW x \in Calls, Start(x) \/ Step(x) \/ Fail(x), NEW c \in Calls \ {x}
        PROVE  Faithful(c)'
    <2>1. /\ LocalsKept(c) /\ pending'[c] = pending[c] /\ req' = req
          /\ Faithful(c)
      BY <1>1, OneCall DEF SessionKept, AllFaithful
    <2> QED
      BY <2>1
      DEF Faithful, LocalsKept, Rebuilding, Due, ReportedChunkCount, Classify
  <1>2. ASSUME NEW c \in Calls, Start(c) PROVE Faithful(c)'
    <2>1. pc'[c] \in {"load", "delete", "sweep"}
      BY <1>2, FirstStep
    <2> QED
      BY <2>1 DEF Faithful, Rebuilding, BeforeRecheck, Rechecked
  <1>3. ASSUME NEW c \in Calls, UpsertDocumentRow(c) PROVE Faithful(c)'
    <2>1. /\ pc[c] = "upsertRow" /\ pc'[c] = "replaceChunks"
          /\ UNCHANGED <<req, expected, prepared, locked>> /\ Faithful(c)
      BY <1>3 DEF UpsertDocumentRow, AllFaithful
    <2> QED
      BY <2>1 DEF Faithful, Rebuilding, BeforeRecheck, Rechecked, Classify
  <1>4. ASSUME NEW c \in Calls,
               \/ RecheckRestarts(c) \/ Commit(c) \/ DeleteDocument(c) \/ AimDelete(c)
               \/ DeleteRow(c) \/ DeleteCollection(c) \/ SweepDone(c)
               \/ \E k \in Keys : SweepRow(c, k)
               \/ CommitSweep(c) \/ DeadlockVictim(c) \/ BackendExit(c)
        PROVE  Faithful(c)'
    <2>1. pc'[c] \in {"load", "aborted", "landed", "aim", "deleteRow", "sweepRows",
                      "commitSweep"}
      BY <1>4
      DEF RecheckRestarts, Restart, Commit, DeleteDocument, AimDelete, DeleteRow,
          DeleteCollection, SweepDone, SweepRow, CommitSweep, DeadlockVictim,
          BackendExit, Landed
    <2> QED
      BY <2>1 DEF Faithful, Rebuilding, BeforeRecheck, Rechecked
  <1>5. ASSUME NEW c \in Calls, Step(c) PROVE Faithful(c)'
    BY <1>3, <1>4, <1>5, LoadFaithful, PrepareFaithful, RecheckFaithful, RefreshFaithful,
       ReplaceFaithful
    DEF Step, AllFaithful
  <1>6. ASSUME NEW c \in Calls, Fail(c) PROVE Faithful(c)'
    <2>1. /\ pc'[c] \in {"aborted", "abandoned"} \/ pc'[c] = pc[c]
          /\ UNCHANGED <<req, expected, prepared, locked, pending>> /\ Faithful(c)
      BY <1>6 DEF Fail, AllFaithful
    <2>2. CASE pc'[c] \in {"aborted", "abandoned"}
      BY <2>2 DEF Faithful, Rebuilding, BeforeRecheck, Rechecked
    <2>3. CASE pc'[c] = pc[c]
      BY <2>1, <2>3 DEF Faithful, Rebuilding, Due, ReportedChunkCount, Classify
    <2> QED
      BY <2>1, <2>2, <2>3
  <1>7. CASE Rollout \/ UNCHANGED vars
    BY <1>7
    DEF Rollout, dbVars, vars, AllFaithful, Faithful, Rebuilding, Due,
        ReportedChunkCount, Classify
  <1> QED
    BY <1>1, <1>2, <1>5, <1>6, <1>7 DEF Next, Terminated, AllFaithful

\* A cut makes as many rows as the splitter makes chunks.
LEMMA ChunkRowsCounted ==
  ASSUME NEW id, NEW content, NEW r, NEW meta, ChunkCount[content][r] \in Nat
  PROVE  Cardinality(ChunkRows(id, content, r, meta)) = ChunkCount[content][r]
  <1> DEFINE n == ChunkCount[content][r]
             rows == ChunkRows(id, content, r, meta)
             row(i) == [documentID |-> id, chunkNo |-> i - 1, content |-> content,
                        recipe |-> r, meta |-> meta]
             f == [i \in 1 .. n |-> row(i)]
  <1>1. \A i \in 1 .. n : f[i] \in rows
    <2> SUFFICES ASSUME NEW i \in 1 .. n PROVE row(i) \in rows
      OBVIOUS
    <2>1. i - 1 \in 0 .. (n - 1)
      OBVIOUS
    <2> QED
      BY <2>1 DEF ChunkRows
  <1>2. \A i, j \in 1 .. n : f[i] = f[j] => i = j
    <2> SUFFICES ASSUME NEW i \in 1 .. n, NEW j \in 1 .. n, row(i) = row(j) PROVE i = j
      OBVIOUS
    <2>1. i - 1 = j - 1
      OBVIOUS
    <2> QED
      BY <2>1
  <1>3. ASSUME NEW chunk \in rows PROVE \E i \in 1 .. n : f[i] = chunk
    <2>1. PICK m \in 0 .. (n - 1) :
            chunk = [documentID |-> id, chunkNo |-> m, content |-> content,
                     recipe |-> r, meta |-> meta]
      BY DEF ChunkRows
    <2>2. m + 1 \in 1 .. n /\ (m + 1) - 1 = m
      OBVIOUS
    <2>3. f[m + 1] = chunk
      BY <2>1, <2>2
    <2> QED
      BY <2>2, <2>3
  <1>4. f \in Bijection(1 .. n, rows)
    <2> HIDE DEF rows, row
    <2>1. f \in [1 .. n -> rows]
      BY <1>1
    <2> QED
      BY <1>2, <1>3, <2>1 DEF Bijection, Injection, Surjection, IsInjective
  <1> HIDE DEF rows, f
  <1>5. ExistsBijection(1 .. n, rows)
    BY <1>4 DEF ExistsBijection
  <1> QED
    BY <1>5, FS_CountingElements DEF rows

\* What COMMIT leaves in the tables.
LEMMA CommittedRow ==
  ASSUME Typing, Locking, AllFaithful, NEW c \in Calls, Commit(c)
  PROVE  /\ req[c].key \in Keys
         /\ documents[req[c].key] = locked[c]
         /\ documents'[req[c].key] = Due(c)
         /\ Due(c) # NoDocument
         /\ Due(c).contentHash = req[c].content
         /\ Due(c).meta = req[c].meta
         /\ Due(c).chunkCount = ReportedChunkCount(c)
  <1>1. /\ req[c].key \in Keys /\ documents[req[c].key] = locked[c]
    BY LockedRow DEF Commit, Rechecked
  <1>2. documents'[req[c].key] = Due(c)
    BY <1>1, Types DEF Typing, Commit, StoreRows, tables, Due
  <1> QED
    BY <1>1, <1>2 DEF Commit, AllFaithful, Faithful

\* An upsert that commits a row had something to change.
LEMMA UpsertHadReason ==
  ASSUME Typing, Locking, Cutting, AllFaithful, NEW c \in Calls, Commit(c),
         req[c].op = "upsert", pending[c].document # NoDocument, locked[c] # NoDocument
  PROVE  IF prepared[c] = Cheap
           THEN locked[c].meta # req[c].meta
           ELSE locked[c].contentHash # req[c].content
  <1>1. pc[c] = "commit" /\ Faithful(c)
    BY DEF Commit, AllFaithful
  <1>2. CASE prepared[c] = Cheap
    BY <1>1, <1>2 DEF Faithful
  <1>3. CASE prepared[c] # Cheap
    <2>1. locked[c] = expected[c] /\ Classify(locked[c], req[c], FALSE) = "reindex"
      BY <1>1, <1>3 DEF Faithful, Rebuilding, Rechecked
    <2>2. req[c].key \in Keys /\ documents[req[c].key] = locked[c] /\ locked[c] \in Documents
      BY <1>1, LockedRow DEF Rechecked
    <2>3. PICK r \in Recipes : locked[c].chunkCount = ChunkCount[locked[c].contentHash][r]
      BY <2>2 DEF Cutting, ChunksMatchDocument
    <2>4. locked[c].chunkCount \in Nat \ {0}
      BY <2>2, <2>3, RecipeAssumption DEF Documents
    <2>5. ~(locked[c].chunkCount <= 0)
      BY <2>4
    <2> QED
      BY <1>3, <2>1, <2>5 DEF Classify
  <1> QED
    BY <1>2, <1>3

Reliable == Typing /\ Locking /\ Cutting /\ AllFaithful

\* What the theorems about answers rest on holds in every state.
LEMMA AlwaysReliable == Spec => []Reliable
  <1>1. Init => Reliable
    BY InitTyping, InitLocking, InitCutting, InitFaithful DEF Reliable
  <1>2. Reliable /\ [Next]_vars => Reliable'
    BY NextTyping, NextLocking, NextCutting, NextFaithful DEF Reliable
  <1> QED
    BY <1>1, <1>2, PTL DEF Spec

\* Only by COMMIT does a write land.
LEMMA WritesLandByCommit ==
  ASSUME Typing, [Next]_vars, NEW c \in Calls, IsWrite(c),
         \/ outcome[c] = "pending" /\ outcome'[c] = "ok"
         \/ pc[c] # pc'[c] /\ pc'[c] = "landed"
  PROVE  Commit(c) /\ req' = req
  <1> USE Types DEF Typing, Goto, Return
  <1>1. ASSUME NEW x \in Calls, Start(x) \/ Step(x) \/ Fail(x) PROVE Commit(c) /\ req' = req
    <2>1. x = c
      BY <1>1, OneCall DEF LocalsKept
    <2>2. ~Start(c)
      BY FirstStep DEF Start
    <2>3. ~Fail(c)
      BY DEF Fail, OtherPcs
    <2>4. ~DeleteRow(c) /\ ~CommitSweep(c)
      BY DEF DeleteRow, CommitSweep, StepsOK, IsWrite, DeleteRequests, SweepRequests,
             DeletePcs, SweepPcs
    <2>5. ~RecheckPasses(c) /\ ~RecheckRestarts(c)
      BY DEF RecheckPasses, NextStep, RecheckRestarts, Restart
    <2>6. /\ ~DeadlockVictim(c) /\ ~BackendExit(c) /\ ~DeleteDocument(c)
          /\ ~AimDelete(c) /\ ~DeleteCollection(c) /\ ~SweepDone(c)
          /\ ~\E k \in Keys : SweepRow(c, k)
      BY DEF DeadlockVictim, BackendExit, DeleteDocument, AimDelete, DeleteCollection,
             SweepDone, SweepRow
    <2>7. /\ ~LoadSnapshot(c) /\ ~Prepare(c) /\ ~BeginTx(c) /\ ~AcquireDocumentWriteLock(c)
          /\ ~RefreshDocumentMetadata(c) /\ ~UpsertDocumentRow(c) /\ ~ReplaceDocumentChunks(c)
      BY DEF LoadSnapshot, Prepare, BeginTx, AcquireDocumentWriteLock,
             RefreshDocumentMetadata, UpsertDocumentRow, ReplaceDocumentChunks
    <2>8. Commit(c)
      BY <1>1, <2>1, <2>2, <2>3, <2>4, <2>5, <2>6, <2>7 DEF Step
    <2> QED
      BY <2>8 DEF Commit
  <1>2. ~Rollout /\ ~UNCHANGED vars
    BY DEF Rollout, vars
  <1> QED
    BY <1>1, <1>2 DEF Next, Terminated

\* UpsertDocument and ReindexDocument answer without an error only at the
\* moment the document has the content and the metadata asked for and as many
\* chunks as they report, on the cheap paths, too, and after a restart.
THEOREM SuccessIsStored == Spec => SuccessMeansStored
  <1>1. ASSUME Reliable, Reliable', [Next]_vars, NEW c \in Calls,
               outcome[c] = "pending", outcome'[c] = "ok", IsWrite(c)
        PROVE  LET row == documents'[req[c].key]
               IN  /\ row # NoDocument
                   /\ row.contentHash = req[c].content
                   /\ row.meta = req[c].meta
                   /\ Cardinality({chunk \in chunks' : chunk.documentID = row.internalID})
                        = ReportedChunkCount(c)
    <2> DEFINE row == documents'[req[c].key]
               rows == {chunk \in chunks' : chunk.documentID = row.internalID}
    <2>1. Commit(c)
      BY <1>1, WritesLandByCommit DEF Reliable
    <2>2. /\ req[c].key \in Keys /\ row # NoDocument
          /\ row.contentHash = req[c].content /\ row.meta = req[c].meta
          /\ row.chunkCount = ReportedChunkCount(c)
      BY <1>1, <2>1, CommittedRow DEF Reliable
    <2>3. PICK r \in Recipes :
            /\ rows = ChunkRows(row.internalID, row.contentHash, r, row.meta)
            /\ row.chunkCount = ChunkCount[row.contentHash][r]
      <3>1. ChunksMatchDocument'
        BY <1>1 DEF Reliable, Cutting
      <3> QED
        BY <2>2, <3>1 DEF ChunksMatchDocument, ChunksOf, ChunkRows
    <2>4. row.chunkCount \in Nat
      <3>1. row \in Documents \cup {NoDocument}
        BY <1>1, <2>2 DEF Reliable, Typing, TypeOK, DatabaseTypeOK
      <3> QED
        BY <2>2, <3>1 DEF Documents
    <2>5. Cardinality(rows) = row.chunkCount
      BY <2>3, <2>4, ChunkRowsCounted
    <2> QED
      BY <2>2, <2>5
  <1>2. Reliable /\ Reliable' /\ [Next]_vars =>
          \A c \in Calls : outcome[c] = "pending" /\ outcome'[c] = "ok" /\ IsWrite(c) =>
            LET row == documents'[req[c].key]
            IN  /\ row # NoDocument
                /\ row.contentHash = req[c].content
                /\ row.meta = req[c].meta
                /\ Cardinality({chunk \in chunks' : chunk.documentID = row.internalID})
                     = ReportedChunkCount(c)
    BY <1>1
  <1> QED
    BY <1>2, AlwaysReliable, PTL DEF Spec, SuccessMeansStored

\* An upsert that finds its content and metadata in place changes no row, so
\* that updated_at tells when a document last changed.
THEOREM IdleUpsertsLeaveNoTrace == Spec => NoIdleTouch
  <1>1. ASSUME Reliable, [Next]_vars, NEW c \in Calls, req[c].op = "upsert",
               pc[c] # pc'[c], pc'[c] = "landed",
               documents[req[c].key] # NoDocument,
               documents[req[c].key].contentHash = documents'[req[c].key].contentHash,
               documents[req[c].key].meta = documents'[req[c].key].meta
        PROVE  UNCHANGED tables
    <2>1. Commit(c)
      BY <1>1, WritesLandByCommit DEF Reliable, IsWrite
    <2>2. /\ locked[c] # NoDocument
          /\ locked[c].contentHash = req[c].content /\ locked[c].meta = req[c].meta
      BY <1>1, <2>1, CommittedRow DEF Reliable
    <2>3. pending[c].document = NoDocument
      BY <1>1, <2>1, <2>2, UpsertHadReason DEF Reliable
    <2> QED
      BY <2>1, <2>3 DEF Commit, StoreRows
  <1>2. Reliable /\ [Next]_vars =>
          \A c \in Calls : req[c].op = "upsert" /\ pc[c] # pc'[c] /\ pc'[c] = "landed" =>
            LET old == documents[req[c].key]
                new == documents'[req[c].key]
            IN  old # NoDocument /\ old.contentHash = new.contentHash
                  /\ old.meta = new.meta => UNCHANGED tables
    BY <1>1
  <1> QED
    BY <1>2, AlwaysReliable, PTL DEF Spec, NoIdleTouch

-----------------------------------------------------------------------------
(* A conflict takes two other calls that landed on the document.           *)

\* A call lands on the documents it names and on no others.
OnlyNamed == \A c \in Calls : Wanted(c) \subseteq Named(c)

\* The calls that have changed, or may have changed, a call's document.
Overtakers(c) == {d \in Calls \ {c} : pc[d] = "landed" /\ req[c].key \in Named(d)}
OvertakenTwice(c) == \E d, e \in Overtakers(c) : d # e

\* A row that is not what a write read without a lock was changed by a call
\* that landed meanwhile, and the second attempt was itself caused by one.
Overtaking(c) ==
  /\ pc[c] \in BeforeRecheck /\ prepared[c] = Cheap =>
       Classify(expected[c], req[c], FALSE) # "reindex"
  /\ pc[c] \in WritePcs \cup {"idle"} /\ attempt[c] = 1 => Overtakers(c) # {}
  /\ pc[c] \in {"prepare"} \cup BeforeRecheck /\ documents[req[c].key] # expected[c] =>
       IF attempt[c] = 0 THEN Overtakers(c) # {} ELSE OvertakenTwice(c)
  /\ outcome[c] = "conflict" => OvertakenTwice(c)

AllOvertaking == \A c \in Calls : Overtaking(c)

\* Initially no call has been overtaken.
LEMMA InitOvertaking == Init => AllOvertaking /\ OnlyNamed
  <1> SUFFICES ASSUME Init PROVE AllOvertaking /\ OnlyNamed
    OBVIOUS
  <1>1. \A c \in Calls : pc[c] = "idle" /\ attempt[c] = 0 /\ outcome[c] = "pending"
                         /\ target[c] = {}
    BY DEF Init
  <1>2. OnlyNamed
    BY <1>1 DEF OnlyNamed, Wanted
  <1>3. ASSUME NEW c \in Calls PROVE Overtaking(c)
    <2>1. pc[c] = "idle" /\ attempt[c] = 0 /\ outcome[c] = "pending"
      BY <1>1
    <2> QED
      BY <2>1 DEF Overtaking, BeforeRecheck
  <1> QED
    BY <1>2, <1>3 DEF AllOvertaking

\* Every step keeps the targets of a delete among the documents it names.
LEMMA NextOnlyNamed ==
  Typing /\ Locking /\ Cutting /\ Fresh /\ OnlyNamed /\ [Next]_vars => OnlyNamed'
  <1> SUFFICES ASSUME Typing, Locking, Cutting, Fresh, OnlyNamed, [Next]_vars
               PROVE  OnlyNamed'
    OBVIOUS
  <1>1. ASSUME NEW x \in Calls, Start(x) \/ Step(x) \/ Fail(x), NEW c \in Calls
        PROVE  Wanted(c)' \subseteq Named(c)'
    <2>1. CASE c = x /\ (AimDelete(c) \/ DeleteCollection(c))
      <3>1. /\ Named(c) \subseteq Keys /\ UNCHANGED <<documents, req>>
            /\ target'[c] = {documents[k].internalID :
                               k \in {j \in Named(c) : documents[j] # NoDocument}}
        BY <2>1, AimedAt
      <3> QED
        BY <3>1 DEF Wanted, Named, Cutting, IdsUnique
    <2>2. CASE ~(c = x /\ (AimDelete(c) \/ DeleteCollection(c)))
      <3>1. target'[c] = target[c] /\ req' = req
        <4>1. CASE c = x
          BY <1>1, <2>2, <4>1, TargetKept
          DEF Start, Step, Fail, LoadSnapshot, Prepare, BeginTx, AcquireDocumentWriteLock,
              RecheckPasses, RecheckRestarts, RefreshDocumentMetadata, UpsertDocumentRow,
              ReplaceDocumentChunks, Commit, DeleteDocument, DeleteRow, SweepRow,
              SweepDone, CommitSweep, DeadlockVictim, BackendExit
        <4>2. CASE c # x
          BY <1>1, <4>2, OneCall DEF LocalsKept
        <4> QED
          BY <4>1, <4>2
      <3> QED
        BY <1>1, <3>1, WantedShrinks DEF OnlyNamed, Named
    <2> QED
      BY <2>1, <2>2
  <1>2. CASE Rollout \/ UNCHANGED vars
    BY <1>2 DEF Rollout, dbVars, vars, OnlyNamed, Wanted, Named
  <1> QED
    BY <1>1, <1>2 DEF Next, Terminated, OnlyNamed

\* Who changes a document lands, and names it.
LEMMA WhoChanges ==
  ASSUME Typing, Locking, AllRemoving, OnlyNamed,
         NEW x \in Calls, Start(x) \/ Step(x) \/ Fail(x),
         NEW k \in Keys, documents'[k] # documents[k]
  PROVE  pc[x] # "landed" /\ pc'[x] = "landed" /\ k \in Named(x)
  <1> USE Types DEF Typing, Goto
  <1>1. Commit(x) \/ DeleteRow(x) \/ CommitSweep(x)
    BY TablesKept DEF tables
  <1>2. pc[x] # "landed" /\ pc'[x] = "landed"
    BY <1>1 DEF Commit, DeleteRow, CommitSweep, Landed
  <1>3. CASE Commit(x)
    <2>1. req[x].key \in Keys /\ req[x] \in WriteRequests
      BY <1>3, LockedRow DEF Commit, Rechecked
    <2>2. k = req[x].key
      BY <1>3, <2>1 DEF Commit, StoreRows, tables
    <2> QED
      BY <1>2, <2>1, <2>2 DEF Named, WriteRequests
  <1>4. CASE DeleteRow(x)
    BY <1>2, <1>4 DEF DeleteRow, DeleteRows, OnlyNamed
  <1>5. CASE CommitSweep(x)
    <2>1. rowLock[k] = x
      BY <1>5 DEF CommitSweep, DeleteRows
    <2> QED
      BY <1>2, <1>5, <2>1 DEF CommitSweep, AllRemoving, Removing, OnlyNamed
  <1> QED
    BY <1>1, <1>3, <1>4, <1>5

\* A call that landed stays an overtaker.
LEMMA OvertakersGrow ==
  ASSUME Typing, NEW x \in Calls, Start(x) \/ Step(x) \/ Fail(x), NEW c \in Calls
  PROVE  /\ Overtakers(c) \subseteq Overtakers(c)'
         /\ OvertakenTwice(c) => OvertakenTwice(c)'
  <1>1. req' = req
    BY DEF Start, Step, Fail, LoadSnapshot, Prepare, BeginTx, AcquireDocumentWriteLock,
           RecheckPasses, RecheckRestarts, RefreshDocumentMetadata, UpsertDocumentRow,
           ReplaceDocumentChunks, Commit, DeleteDocument, AimDelete, DeleteRow,
           DeleteCollection, SweepRow, SweepDone, CommitSweep, DeadlockVictim, BackendExit
  <1>2. pc[x] # "landed"
    <2>1. ~(pc[x] = "landed" /\ DeadlockVictim(x))
      BY DEF DeadlockVictim
    <2> QED
      BY <2>1
      DEF Start, Step, Fail, LoadSnapshot, Prepare, BeginTx, AcquireDocumentWriteLock,
          RecheckPasses, RecheckRestarts, RefreshDocumentMetadata, UpsertDocumentRow,
          ReplaceDocumentChunks, Commit, DeleteDocument, AimDelete, DeleteRow,
          DeleteCollection, SweepRow, SweepDone, CommitSweep, BackendExit, OtherPcs
  <1>3. \A d \in Calls \ {x} : pc'[d] = pc[d]
    BY OneCall DEF LocalsKept
  <1>4. Overtakers(c) \subseteq Overtakers(c)'
    BY <1>1, <1>2, <1>3 DEF Overtakers, Named
  <1> QED
    BY <1>4 DEF OvertakenTwice

\* A step of another call leaves a write overtaken as often as it knows.
LEMMA OthersOvertaking ==
  ASSUME Typing, Locking, AllRemoving, OnlyNamed,
         NEW x \in Calls, Start(x) \/ Step(x) \/ Fail(x),
         NEW c \in Calls \ {x}, Overtaking(c)
  PROVE  Overtaking(c)'
  <1>1. LocalsKept(c) /\ req' = req
    BY OneCall
  <1>2. /\ Overtakers(c) \subseteq Overtakers(c)'
        /\ OvertakenTwice(c) => OvertakenTwice(c)'
    BY OvertakersGrow
  <1>3. pc[c] \in {"prepare"} \cup BeforeRecheck => pc[c] \in WritePcs
    BY DEF BeforeRecheck, WritePcs
  <1>4. ASSUME pc[c] \in {"prepare"} \cup BeforeRecheck, documents'[req[c].key] # expected[c]
        PROVE  IF attempt[c] = 0 THEN Overtakers(c)' # {} ELSE OvertakenTwice(c)'
    <2>1. CASE documents'[req[c].key] = documents[req[c].key]
      BY <1>2, <1>4, <2>1 DEF Overtaking
    <2>2. CASE documents'[req[c].key] # documents[req[c].key]
      <3>1. pc[x] # "landed" /\ pc'[x] = "landed" /\ req[c].key \in Named(x)
        BY <1>3, <1>4, <2>2, WriteTypes, WhoChanges
      <3>2. x \in Overtakers(c)' /\ x \notin Overtakers(c)
        BY <1>1, <3>1 DEF Overtakers, Named
      <3>3. attempt[c] = 0 \/ Overtakers(c) # {}
        BY <1>3, <1>4, Types DEF Typing, Overtaking
      <3> QED
        BY <1>2, <3>2, <3>3 DEF OvertakenTwice
    <2> QED
      BY <2>1, <2>2
  <1> QED
    BY <1>1, <1>2, <1>4 DEF Overtaking, LocalsKept, Classify

\* A write whose re-check fails has been overtaken.
LEMMA RestartOvertaking ==
  ASSUME Typing, NEW c \in Calls, Overtaking(c), RecheckRestarts(c)
  PROVE  Overtaking(c)'
  <1>1. /\ pc[c] = "recheck" /\ MustRestart(c, documents[req[c].key])
        /\ Restart(c) /\ attempt[c] \in 0 .. 1
    BY Types DEF Typing, RecheckRestarts
  <1>2. documents[req[c].key] # expected[c]
    BY <1>1 DEF MustRestart, SnapshotsEqual, Overtaking, BeforeRecheck
  <1>3. IF attempt[c] = 0 THEN Overtakers(c) # {} ELSE OvertakenTwice(c)
    BY <1>1, <1>2 DEF Overtaking, BeforeRecheck
  <1>4. /\ Overtakers(c) \subseteq Overtakers(c)'
        /\ OvertakenTwice(c) => OvertakenTwice(c)'
    BY OvertakersGrow DEF Step
  <1>5. CASE attempt[c] = 0
    <2>1. pc'[c] = "load" /\ outcome' = outcome
      BY <1>1, <1>5, Types DEF Typing, Restart, MayRestart, Goto
    <2> QED
      BY <1>3, <1>4, <1>5, <2>1 DEF Overtaking, BeforeRecheck
  <1>6. CASE attempt[c] = 1
    <2>1. pc'[c] = "aborted"
      BY <1>1, <1>6, Types DEF Typing, Restart, MayRestart, Goto
    <2> QED
      BY <1>3, <1>4, <1>6, <2>1 DEF Overtaking, BeforeRecheck, WritePcs
  <1> QED
    BY <1>1, <1>5, <1>6

\* A step of a call keeps what is known of who has overtaken it.
LEMMA OwnOvertaking ==
  ASSUME Typing, NEW c \in Calls, Overtaking(c), Start(c) \/ Step(c) \/ Fail(c)
  PROVE  Overtaking(c)'
  <1> USE Types DEF Typing, Goto, Return
  <1>1. /\ Overtakers(c) \subseteq Overtakers(c)'
        /\ OvertakenTwice(c) => OvertakenTwice(c)'
    BY OvertakersGrow
  <1>2. ASSUME pc'[c] \notin {"prepare"} \cup BeforeRecheck,
               pc'[c] \in WritePcs \cup {"idle"} => pc[c] \in WritePcs \cup {"idle"},
               attempt' = attempt, outcome'[c] # "conflict" \/ outcome'[c] = outcome[c]
        PROVE  Overtaking(c)'
    BY <1>1, <1>2 DEF Overtaking, BeforeRecheck
  <1>3. CASE Start(c)
    <2>1. pc'[c] \in {"load", "delete", "sweep"}
      BY <1>3, FirstStep
    <2>2. pc[c] = "idle" /\ UNCHANGED <<attempt, outcome>>
      BY <1>3 DEF Start
    <2> QED
      BY <1>2, <2>1, <2>2 DEF BeforeRecheck
  <1>4. CASE LoadSnapshot(c)
    <2> DEFINE found == documents[req[c].key]
    <2>1. /\ expected'[c] = found /\ UNCHANGED <<documents, req, attempt, outcome>>
          /\ pc[c] = "load" /\ pc'[c] \in {"prepare", "begin"}
          /\ pc'[c] = "begin" => Classify(found, req[c], req[c].op = "reindex") # "reindex"
      BY <1>4 DEF LoadSnapshot, dbVars
    <2>2. pc'[c] = "begin" => Classify(found, req[c], FALSE) # "reindex"
      BY <2>1 DEF Classify
    <2>3. pc'[c] = "begin" => Classify(expected'[c], req'[c], FALSE) # "reindex"
      BY <2>1, <2>2
    <2> QED
      BY <1>1, <2>1, <2>3 DEF Overtaking, BeforeRecheck, WritePcs, Classify
  <1>5. CASE Prepare(c)
    <2>1. /\ pc[c] = "prepare" /\ pc'[c] = "begin" /\ prepared'[c] = recipe
          /\ UNCHANGED <<documents, req, attempt, expected, outcome>>
      BY <1>5 DEF Prepare, dbVars
    <2>2. prepared'[c] # Cheap
      BY <2>1, RecipeAssumption DEF Recipes, Cheap
    <2> QED
      BY <1>1, <2>1, <2>2 DEF Overtaking, BeforeRecheck, WritePcs
  <1>6. CASE BeginTx(c) \/ AcquireDocumentWriteLock(c)
    <2>1. /\ pc[c] \in BeforeRecheck /\ pc'[c] \in BeforeRecheck
          /\ UNCHANGED <<documents, req, attempt, expected, prepared, outcome>>
      BY <1>6 DEF BeginTx, AcquireDocumentWriteLock, BeforeRecheck
    <2> QED
      BY <1>1, <2>1 DEF Overtaking, BeforeRecheck, WritePcs, Classify
  <1>7. CASE \/ RecheckPasses(c) \/ RefreshDocumentMetadata(c) \/ UpsertDocumentRow(c)
             \/ ReplaceDocumentChunks(c)
    <2>1. /\ pc[c] \in WritePcs /\ pc'[c] \in Rechecked
          /\ UNCHANGED <<attempt, outcome>>
      BY <1>7
      DEF RecheckPasses, NextStep, RefreshDocumentMetadata, UpsertDocumentRow,
          ReplaceDocumentChunks, WritePcs, Rechecked
    <2> QED
      BY <1>2, <2>1 DEF BeforeRecheck, Rechecked
  <1>8. CASE \/ Commit(c) \/ DeleteRow(c) \/ CommitSweep(c) \/ DeleteDocument(c)
             \/ AimDelete(c) \/ DeleteCollection(c) \/ SweepDone(c)
             \/ DeadlockVictim(c) \/ BackendExit(c) \/ \E k \in Keys : SweepRow(c, k)
    <2>1. /\ pc'[c] \in {"landed", "aborted", "aim", "deleteRow", "sweepRows", "commitSweep"}
          /\ attempt' = attempt
          /\ outcome'[c] # "conflict" \/ outcome'[c] = outcome[c]
      BY <1>8
      DEF Commit, DeleteRow, CommitSweep, Landed, DeleteDocument, AimDelete,
          DeleteCollection, SweepDone, SweepRow, DeadlockVictim, BackendExit
    <2> QED
      BY <1>2, <2>1 DEF BeforeRecheck, WritePcs
  <1>9. CASE Fail(c)
    <2>1. /\ pc'[c] \in {"aborted", "abandoned"} \/ pc'[c] = pc[c]
          /\ pc'[c] = pc[c] => pc[c] \in {"commit", "aim", "deleteRow", "commitSweep"}
          /\ attempt' = attempt /\ outcome'[c] = "error"
      BY <1>9 DEF Fail, OtherPcs
    <2> QED
      BY <1>2, <2>1 DEF BeforeRecheck, WritePcs
  <1> QED
    BY <1>3, <1>4, <1>5, <1>6, <1>7, <1>8, <1>9, RestartOvertaking DEF Step

\* Every step keeps, for each stale reading, a call that made it stale.
LEMMA NextOvertaking ==
  Typing /\ Locking /\ AllRemoving /\ OnlyNamed /\ AllOvertaking /\ [Next]_vars
    => AllOvertaking'
  <1> SUFFICES ASSUME Typing, Locking, AllRemoving, OnlyNamed, AllOvertaking, [Next]_vars
               PROVE  AllOvertaking'
    OBVIOUS
  <1>1. ASSUME NEW x \in Calls, Start(x) \/ Step(x) \/ Fail(x) PROVE AllOvertaking'
    BY <1>1, OthersOvertaking, OwnOvertaking DEF AllOvertaking
  <1>2. CASE Rollout \/ UNCHANGED vars
    <2>1. UNCHANGED <<req, pc, attempt, expected, prepared, outcome, documents>>
      BY <1>2 DEF Rollout, dbVars, vars
    <2>2. \A c \in Calls : Named(c)' = Named(c)
      BY <2>1 DEF Named
    <2>3. \A c \in Calls : Overtakers(c)' = Overtakers(c)
      BY <2>1, <2>2 DEF Overtakers
    <2> QED
      BY <2>1, <2>3 DEF AllOvertaking, Overtaking, OvertakenTwice, Classify
  <1> QED
    BY <1>1, <1>2 DEF Next, Terminated

\* ErrDocumentChangedConcurrently is an honest answer: two other calls that
\* name the document have landed before it is given.
THEOREM ConflictsAreReal == Spec => []ConflictMeansOvertaken
  <1> DEFINE I == /\ Typing /\ Locking /\ AllHolding /\ Cutting /\ AllRemoving /\ Fresh
                  /\ OnlyNamed /\ AllOvertaking
  <1>1. Init => I
    BY InitTyping, InitLocking, InitHolding, InitCutting, InitRemoving, InitOvertaking
  <1>2. I /\ [Next]_vars => I'
    BY NextTyping, NextLocking, NextHolding, NextCutting, NextRemoving, NextOnlyNamed,
       NextOvertaking
  <1>3. I => ConflictMeansOvertaken
    <2> SUFFICES ASSUME I, NEW c \in Calls, outcome[c] = "conflict"
                 PROVE  \E d, e \in Calls \ {c} :
                          /\ d # e
                          /\ \A f \in {d, e} : pc[f] = "landed" /\ req[c].key \in Named(f)
      BY DEF ConflictMeansOvertaken
    <2>1. OvertakenTwice(c)
      BY DEF AllOvertaking, Overtaking
    <2> QED
      BY <2>1 DEF OvertakenTwice, Overtakers
  <1> QED
    BY <1>1, <1>2, <1>3, PTL DEF Spec

-----------------------------------------------------------------------------
(* updated_at tells the versions of a row apart.                           *)

\* Transactions that are under way have begun at different times, and no row
\* that was read, or is in the table, has the time of one of them.
Stamps(c) ==
  /\ now[c] <= clock
  /\ pc[c] \in {"lock", "recheck"} \cup Rechecked => now[c] # 0
  /\ expected[c] # NoDocument => expected[c].updatedAt <= clock
  /\ pc[c] = "commit" /\ pending[c].document # NoDocument =>
       pending[c].document.updatedAt = now[c]
  /\ \A d \in Calls : now[d] # 0 =>
       /\ now[c] = now[d] => c = d
       /\ expected[c] # NoDocument => expected[c].updatedAt # now[d]

TableStamps ==
  \A k \in Keys : documents[k] # NoDocument =>
    /\ documents[k].updatedAt <= clock
    /\ \A d \in Calls : now[d] # 0 => documents[k].updatedAt # now[d]

Stamped == TableStamps /\ \A c \in Calls : Stamps(c)

\* The rows a run starts from are older than every transaction.
LEMMA InitStamped == Init => Stamped
  <1> SUFFICES ASSUME Init PROVE Stamped
    OBVIOUS
  <1>1. /\ clock = 0 /\ \A c \in Calls : now[c] = 0 /\ expected[c] = NoDocument
        /\ \A c \in Calls : pc[c] = "idle"
    BY DEF Init, DatabaseInit
  <1>2. \A k \in Keys : documents[k] # NoDocument => documents[k].updatedAt = 0
    BY SeedAssumption DEF Init, DatabaseInit
  <1> QED
    BY <1>1, <1>2 DEF Stamped, TableStamps, Stamps, Rechecked

\* Steps that begin no transaction, read no row outside of one and put no row
\* into the table.
LEMMA NothingStamped ==
  ASSUME Stamped, UNCHANGED clock,
         \A k \in Keys : documents'[k] \in {documents[k], NoDocument},
         \A c \in Calls : now'[c] \in {now[c], 0},
         \A c \in Calls : expected'[c] \in {expected[c], NoDocument},
         \A c \in Calls : pc'[c] \in {"lock", "recheck"} \cup Rechecked => now'[c] # 0,
         \A c \in Calls : pc'[c] = "commit" /\ pending'[c].document # NoDocument =>
                            pending'[c].document.updatedAt = now'[c],
         clock \in Nat
  PROVE  Stamped'
  <1>1. TableStamps'
    BY DEF Stamped, TableStamps
  <1>2. ASSUME NEW c \in Calls PROVE Stamps(c)'
    <2>1. now'[c] <= clock'
      BY DEF Stamped, Stamps
    <2>2. expected'[c] # NoDocument => expected'[c].updatedAt <= clock'
      BY DEF Stamped, Stamps
    <2>3. \A d \in Calls : now'[d] # 0 =>
            /\ now'[c] = now'[d] => c = d
            /\ expected'[c] # NoDocument => expected'[c].updatedAt # now'[d]
      BY DEF Stamped, Stamps
    <2> QED
      BY <2>1, <2>2, <2>3 DEF Stamps
  <1> QED
    BY <1>1, <1>2 DEF Stamped

\* Load keeps the stamps in the order of the transactions.
LEMMA LoadStamped ==
  ASSUME Typing, Stamped, NEW c \in Calls, LoadSnapshot(c)
  PROVE  Stamped'
  <1> USE Types DEF Typing
  <1>1. /\ UNCHANGED <<documents, clock, now, pending>>
        /\ expected' = [expected EXCEPT ![c] = documents[req[c].key]]
        /\ req[c].key \in Keys
        /\ pc'[c] \in {"prepare", "begin"} /\ \A d \in Calls \ {c} : pc'[d] = pc[d]
    BY WriteTypes DEF LoadSnapshot, Goto, dbVars, WritePcs
  <1>2. TableStamps'
    BY <1>1 DEF Stamped, TableStamps
  <1>3. ASSUME NEW d \in Calls PROVE Stamps(d)'
    <2>1. CASE d = c
      <3>1. /\ now[c] <= clock
            /\ \A e \in Calls : now[e] # 0 => (now[c] = now[e] => c = e)
        BY DEF Stamped, Stamps
      <3>2. expected'[c] # NoDocument =>
              /\ expected'[c].updatedAt <= clock
              /\ \A e \in Calls : now[e] # 0 => expected'[c].updatedAt # now[e]
        BY <1>1 DEF Stamped, TableStamps
      <3> QED
        BY <1>1, <2>1, <3>1, <3>2 DEF Stamps, Rechecked
    <2>2. CASE d # c
      BY <1>1, <2>2 DEF Stamped, Stamps
    <2> QED
      BY <2>1, <2>2
  <1> QED
    BY <1>2, <1>3 DEF Stamped

\* Begin keeps the stamps in the order of the transactions.
LEMMA BeginStamped ==
  ASSUME ~CoarseClock, Typing, Stamped, NEW c \in Calls, BeginTx(c)
  PROVE  Stamped'
  <1> USE Types DEF Typing
  <1>1. /\ clock \in Nat /\ clock' = clock + 1
        /\ now' = [now EXCEPT ![c] = clock + 1] /\ now \in [Calls -> Nat]
        /\ UNCHANGED <<documents, pending, expected>>
        /\ pc'[c] = "lock" /\ \A d \in Calls \ {c} : pc'[d] = pc[d]
    BY DEF BeginTx, SameTick, Goto
  <1>2. \A d \in Calls : now[d] <= clock /\ now[d] \in Nat
    BY <1>1 DEF Stamped, Stamps
  <1>3. \A k \in Keys : documents[k] # NoDocument =>
          documents[k].updatedAt \in Nat /\ documents[k].updatedAt <= clock
    BY DEF Stamped, TableStamps, Documents
  <1>4. \A d \in Calls : expected[d] # NoDocument =>
          expected[d].updatedAt \in Nat /\ expected[d].updatedAt <= clock
    BY DEF Stamped, Stamps, Documents
  <1>5. TableStamps'
    BY <1>1, <1>3 DEF Stamped, TableStamps
  <1>6. ASSUME NEW d \in Calls PROVE Stamps(d)'
    <2>1. now'[d] <= clock' /\ (d = c => now'[d] # 0)
      BY <1>1, <1>2
    <2>2. expected'[d] # NoDocument => expected'[d].updatedAt <= clock'
      BY <1>1, <1>4
    <2>3. \A e \in Calls : now'[e] # 0 => (now'[d] = now'[e] => d = e)
      BY <1>1, <1>2 DEF Stamped, Stamps
    <2>4. \A e \in Calls : now'[e] # 0 /\ expected'[d] # NoDocument =>
            expected'[d].updatedAt # now'[e]
      BY <1>1, <1>4 DEF Stamped, Stamps
    <2>5. d # c => now'[d] = now[d] /\ pc'[d] = pc[d] /\ pending'[d] = pending[d] /\ Stamps(d)
      BY <1>1 DEF Stamped
    <2> QED
      BY <1>1, <2>1, <2>2, <2>3, <2>4, <2>5 DEF Stamps
  <1> QED
    BY <1>5, <1>6 DEF Stamped

\* The row that COMMIT puts into the table has the time of its transaction.
LEMMA CommitStamped ==
  ASSUME Typing, Locking, Stamped, NEW c \in Calls, Commit(c)
  PROVE  Stamped'
  <1> USE Types DEF Typing
  <1> DEFINE k == req[c].key
             row == pending[c].document
  <1>1. /\ clock' = clock /\ clock \in Nat
        /\ now' = [now EXCEPT ![c] = 0] /\ pending' = [pending EXCEPT ![c] = NothingWritten]
        /\ expected' = [expected EXCEPT ![c] = NoDocument]
        /\ pc'[c] = "landed" /\ \A d \in Calls \ {c} : pc'[d] = pc[d]
    BY DEF Commit, Landed, EndTransaction, Forget, Goto
  <1>2. /\ pc[c] = "commit" /\ k \in Keys /\ now[c] # 0
    BY LockedRow DEF Commit, Rechecked, Stamped, Stamps
  <1>3. \A j \in Keys : documents'[j] = documents[j] \/ (row # NoDocument /\ documents'[j] = row)
    BY <1>2 DEF Commit, StoreRows, tables
  <1>4. row # NoDocument => row.updatedAt = now[c] /\ now[c] <= clock
    BY <1>2 DEF Stamped, Stamps
  <1>5. \A d \in Calls : now'[d] # 0 => d # c /\ now'[d] = now[d] /\ now[d] # now[c]
    BY <1>1, <1>2 DEF Stamped, Stamps
  <1>6. TableStamps'
    BY <1>1, <1>3, <1>4, <1>5 DEF Stamped, TableStamps
  <1>7. ASSUME NEW d \in Calls PROVE Stamps(d)'
    <2>1. CASE d = c
      BY <1>1, <2>1 DEF Stamps, Rechecked
    <2>2. CASE d # c
      <3>1. /\ now'[d] = now[d] /\ pending'[d] = pending[d]
            /\ expected'[d] = expected[d] /\ pc'[d] = pc[d] /\ Stamps(d)
        BY <1>1, <2>2 DEF Stamped
      <3>2. \A e \in Calls : now'[e] # 0 => now'[e] = now[e]
        BY <1>1
      <3> QED
        BY <1>1, <3>1, <3>2 DEF Stamps
    <2> QED
      BY <2>1, <2>2
  <1> QED
    BY <1>6, <1>7 DEF Stamped

\* Every step keeps the stamps of rows in the order of the transactions.
LEMMA NextStamped ==
  ASSUME ~CoarseClock
  PROVE  Typing /\ Locking /\ Stamped /\ [Next]_vars => Stamped'
  <1> SUFFICES ASSUME Typing, Locking, Stamped, [Next]_vars PROVE Stamped'
    OBVIOUS
  <1> USE Types DEF Typing
  <1>1. ASSUME NEW c \in Calls, Start(c) \/ Step(c) \/ Fail(c),
               UNCHANGED clock,
               \A k \in Keys : documents'[k] \in {documents[k], NoDocument},
               now'[c] \in {now[c], 0}, expected'[c] \in {expected[c], NoDocument},
               pc'[c] \in {"lock", "recheck"} \cup Rechecked =>
                 /\ now'[c] = now[c]
                 /\ pc[c] \in {"lock", "recheck"} \cup Rechecked,
               pc'[c] = "commit" /\ pending'[c].document # NoDocument =>
                 \/ pending'[c].document.updatedAt = now'[c]
                 \/ pc[c] = "commit" /\ pending'[c] = pending[c]
        PROVE  Stamped'
    <2>1. \A d \in Calls \ {c} : /\ now'[d] = now[d] /\ expected'[d] = expected[d]
                                 /\ pc'[d] = pc[d] /\ pending'[d] = pending[d]
      BY <1>1, OneCall DEF LocalsKept, SessionKept
    <2>2. \A d \in Calls : now'[d] \in {now[d], 0} /\ expected'[d] \in {expected[d], NoDocument}
      BY <1>1, <2>1
    <2>3. \A d \in Calls : pc'[d] \in {"lock", "recheck"} \cup Rechecked => now'[d] # 0
      BY <1>1, <2>1 DEF Stamped, Stamps
    <2>4. \A d \in Calls : pc'[d] = "commit" /\ pending'[d].document # NoDocument =>
                             pending'[d].document.updatedAt = now'[d]
      BY <1>1, <2>1 DEF Stamped, Stamps, Rechecked
    <2> QED
      BY <1>1, <2>2, <2>3, <2>4, NothingStamped
  <1>2. ASSUME NEW c \in Calls,
               \/ Prepare(c) \/ AcquireDocumentWriteLock(c) \/ UpsertDocumentRow(c)
               \/ DeleteDocument(c) \/ AimDelete(c) \/ DeleteCollection(c) \/ SweepDone(c)
               \/ \E k \in Keys : SweepRow(c, k)
        PROVE  Stamped'
    BY <1>1, <1>2
    DEF Step, Prepare, AcquireDocumentWriteLock, UpsertDocumentRow, DeleteDocument,
        AimDelete, DeleteCollection, SweepDone, SweepRow, Goto, dbVars, Rechecked
  <1>3. ASSUME NEW c \in Calls, RecheckPasses(c) PROVE Stamped'
    <2>1. /\ pc[c] = "recheck" /\ pending'[c] = NothingWritten
          /\ UNCHANGED <<documents, clock, now, expected>>
      BY <1>3 DEF RecheckPasses, StepsOK, Unwritten
    <2>2. pending'[c].document = NoDocument
      BY <2>1 DEF NothingWritten
    <2> QED
      BY <1>1, <1>3, <2>1, <2>2 DEF Step
  <1>4. ASSUME NEW c \in Calls, RefreshDocumentMetadata(c) PROVE Stamped'
    <2>1. locked[c] \in Documents /\ pc[c] = "refresh"
      BY <1>4 DEF RefreshDocumentMetadata, StepsOK
    <2>2. /\ pending'[c].document = [locked[c] EXCEPT !.meta = req[c].meta, !.updatedAt = now[c]]
          /\ UNCHANGED <<documents, clock, now, expected>>
      BY <1>4 DEF RefreshDocumentMetadata
    <2>3. pending'[c].document.updatedAt = now'[c]
      BY <2>1, <2>2 DEF Documents
    <2> QED
      BY <1>1, <1>4, <2>1, <2>2, <2>3 DEF Step, Rechecked
  <1>5. ASSUME NEW c \in Calls, ReplaceDocumentChunks(c) PROVE Stamped'
    <2> DEFINE row == pending[c].document
    <2>1. row \in Documents /\ pc[c] = "replaceChunks"
      BY <1>5 DEF ReplaceDocumentChunks, StepsOK
    <2>2. /\ pending'[c].document =
               [row EXCEPT !.chunkCount = ChunkCount[req[c].content][prepared[c]],
                           !.updatedAt = now[c]]
          /\ UNCHANGED <<documents, clock, now, expected>>
      BY <1>5 DEF ReplaceDocumentChunks
    <2>3. pending'[c].document.updatedAt = now'[c]
      BY <2>1, <2>2 DEF Documents
    <2> QED
      BY <1>1, <1>5, <2>1, <2>2, <2>3 DEF Step, Rechecked
  <1>6. ASSUME NEW c \in Calls,
               \/ RecheckRestarts(c) \/ DeleteRow(c) \/ CommitSweep(c)
               \/ DeadlockVictim(c) \/ BackendExit(c)
        PROVE  Stamped'
    <2>1. /\ UNCHANGED clock /\ now'[c] = 0
          /\ \A k \in Keys : documents'[k] \in {documents[k], NoDocument}
          /\ expected'[c] \in {expected[c], NoDocument}
      BY <1>6
      DEF RecheckRestarts, DeleteRow, CommitSweep, DeadlockVictim, BackendExit, Landed,
          Forget, EndTransaction, DeleteRows
    <2>2. pc'[c] \in {"load", "aborted", "landed"}
      BY <1>6
      DEF RecheckRestarts, Restart, DeleteRow, CommitSweep, DeadlockVictim, BackendExit,
          Landed, Goto
    <2> QED
      BY <1>1, <1>6, <2>1, <2>2 DEF Step, Rechecked
  <1>7. ASSUME NEW c \in Calls, Start(c) PROVE Stamped'
    <2>1. pc'[c] \in {"load", "delete", "sweep"}
      BY <1>7, FirstStep
    <2> QED
      BY <1>1, <1>7, <2>1 DEF Start, dbVars, Rechecked
  <1>8. ASSUME NEW c \in Calls, Fail(c) PROVE Stamped'
    <2>1. /\ UNCHANGED <<documents, clock, now, expected, pending>>
          /\ pc'[c] \in {"aborted", "abandoned"} \/ pc'[c] = pc[c]
      BY <1>8 DEF Fail, Goto
    <2> QED
      BY <1>1, <1>8, <2>1 DEF Rechecked
  <1>9. CASE Rollout \/ UNCHANGED vars
    BY <1>9 DEF Rollout, dbVars, vars, Stamped, TableStamps, Stamps
  <1> QED
    BY <1>2, <1>3, <1>4, <1>5, <1>6, <1>7, <1>8, <1>9, LoadStamped, BeginStamped, CommitStamped
    DEF Next, Step, Terminated

-----------------------------------------------------------------------------
(* Recipes only grow.                                                      *)

\* Chunks that a call has prepared, or has written, are of no later recipe than
\* the one in force.  As long as the row a rebuild was prepared for is in the
\* table, its chunks are of no later recipe than the prepared ones; and a
\* refresh leaves the recipe as it is.
Ages(c) ==
  /\ prepared[c] <= recipe
  /\ \A chunk \in pending[c].chunks : chunk.recipe <= recipe
  /\ /\ Rebuilding(c)
     /\ expected[c] # NoDocument /\ documents[req[c].key] = expected[c]
     => \A chunk \in ChunksOf(expected[c].internalID) : chunk.recipe <= prepared[c]
  /\ pc[c] = "commit" /\ pending[c].document # NoDocument =>
       \A chunk \in pending[c].chunks :
         IF prepared[c] # Cheap
           THEN chunk.recipe = prepared[c]
           ELSE \A old \in ChunksOf(locked[c].internalID) : old.recipe = chunk.recipe

Aged == /\ \A chunk \in chunks : chunk.recipe <= recipe
        /\ \A c \in Calls : Ages(c)

\* Initially all chunks are of the first recipe.
LEMMA InitAged == Init => Aged
  <1> SUFFICES ASSUME Init PROVE Aged
    OBVIOUS
  <1>1. \A chunk \in chunks : chunk.recipe = 0
    BY DEF Init, DatabaseInit, ChunkRows
  <1>2. /\ recipe = 0
        /\ \A c \in Calls : /\ prepared[c] = Cheap /\ pending[c].chunks = {}
                           /\ pc[c] = "idle"
    BY DEF Init, DatabaseInit, NothingWritten
  <1> QED
    BY <1>1, <1>2 DEF Aged, Ages, Cheap, Rebuilding, BeforeRecheck, Rechecked

\* The chunks of a cut are all of one recipe, and there are some.
LEMMA CutsAreUniform ==
  ASSUME NEW row \in Documents, NEW rows, WellCut(row, rows)
  PROVE  /\ rows # {}
         /\ \A chunk \in rows : chunk.recipe \in Recipes
         /\ \A a, b \in rows : a.recipe = b.recipe
  <1>1. PICK r \in Recipes :
          /\ rows = ChunkRows(row.internalID, row.contentHash, r, row.meta)
          /\ row.chunkCount = ChunkCount[row.contentHash][r]
    BY DEF WellCut
  <1>2. \A chunk \in rows : chunk.recipe = r
    BY <1>1 DEF ChunkRows
  <1>3. rows # {}
    <2>1. ChunkCount[row.contentHash][r] \in Nat \ {0}
      BY RecipeAssumption DEF Documents
    <2>2. 0 \in 0 .. (ChunkCount[row.contentHash][r] - 1)
      BY <2>1
    <2> QED
      BY <1>1, <2>2 DEF ChunkRows
  <1> QED
    BY <1>1, <1>2, <1>3

\* So are the chunks of a document.
LEMMA DocumentsAreUniform ==
  ASSUME Typing, Cutting, NEW k \in Keys, documents[k] # NoDocument
  PROVE  /\ documents[k] \in Documents
         /\ ChunksOf(documents[k].internalID) # {}
         /\ \A chunk \in ChunksOf(documents[k].internalID) : chunk.recipe \in Recipes
         /\ \A a, b \in ChunksOf(documents[k].internalID) : a.recipe = b.recipe
  <1>1. documents[k] \in Documents
    BY Types DEF Typing
  <1>2. WellCut(documents[k], ChunksOf(documents[k].internalID))
    BY DEF Cutting, ChunksMatchDocument, WellCut
  <1> QED
    BY <1>1, <1>2, CutsAreUniform

\* What COMMIT leaves in the tables, if the call wrote anything.
LEMMA CommittedChunks ==
  ASSUME Typing, Locking, Cutting, NEW c \in Calls, Commit(c),
         pending[c].document # NoDocument
  PROVE  LET k == req[c].key
             row == pending[c].document
         IN  /\ k \in Keys /\ row \in Documents
             /\ documents' = [documents EXCEPT ![k] = row]
             /\ chunks' = (chunks \ ChunksOf(row.internalID)) \cup pending[c].chunks
             /\ WellCut(row, pending[c].chunks)
             /\ \A chunk \in pending[c].chunks : chunk.documentID = row.internalID
             /\ \A j \in Keys \ {k} : documents[j] # NoDocument =>
                  documents[j].internalID # row.internalID
             /\ documents[k] = locked[c]
             /\ locked[c] # NoDocument => row.internalID = locked[c].internalID
  <1> DEFINE k == req[c].key
             row == pending[c].document
  <1>1. Writing(c) /\ PendingOK(c) /\ WellCut(row, pending[c].chunks)
    BY DEF Writing, Cutting, PendingsOK, PendingOK, Commit
  <1>2. k \in Keys /\ documents[k] = locked[c]
    BY LockedRow DEF Commit, Rechecked
  <1>3. row \in Documents
    BY Types DEF Typing, Writes
  <1>4. /\ documents' = [documents EXCEPT ![k] = row]
        /\ chunks' = (chunks \ ChunksOf(row.internalID)) \cup pending[c].chunks
    BY DEF Commit, StoreRows
  <1>5. \A j \in Keys \ {k} : documents[j] # NoDocument =>
          documents[j].internalID # row.internalID
    BY <1>1, <1>2 DEF PendingOK, Cutting, IdsUnique
  <1>6. \A chunk \in pending[c].chunks : chunk.documentID = row.internalID
    BY <1>1, ChunkRowsIds DEF WellCut
  <1> QED
    BY <1>1, <1>2, <1>3, <1>4, <1>5, <1>6 DEF PendingOK

\* Only the COMMIT of a write of the document gives a document other chunks.
LEMMA ChunksStay ==
  ASSUME Typing, Locking, Cutting, NEW x \in Calls, Start(x) \/ Step(x) \/ Fail(x),
         NEW k \in Keys, documents'[k] # NoDocument,
         ~(Commit(x) /\ req[x].key = k /\ pending[x].document # NoDocument)
  PROVE  /\ documents'[k] = documents[k]
         /\ \A chunk \in chunks' : chunk.documentID = documents[k].internalID =>
              chunk \in ChunksOf(documents[k].internalID)
  <1>1. CASE Commit(x) /\ pending[x].document = NoDocument
    BY <1>1 DEF Commit, StoreRows, tables, ChunksOf
  <1>2. CASE Commit(x) /\ pending[x].document # NoDocument
    <2>1. req[x].key # k
      BY <1>2
    <2>2. documents'[k] = documents[k]
      BY <1>2, <2>1, CommittedChunks, Types DEF Typing
    <2>3. documents[k].internalID # pending[x].document.internalID
      BY <1>2, <2>1, <2>2, CommittedChunks
    <2>4. ASSUME NEW chunk \in chunks', chunk.documentID = documents[k].internalID
          PROVE  chunk \in ChunksOf(documents[k].internalID)
      <3>1. chunk \notin pending[x].chunks
        BY <1>2, <2>3, <2>4, CommittedChunks
      <3>2. chunk \in chunks
        BY <1>2, <2>4, <3>1, CommittedChunks
      <3> QED
        BY <2>4, <3>2 DEF ChunksOf
    <2> QED
      BY <2>2, <2>4
  <1>3. CASE DeleteRow(x) \/ CommitSweep(x)
    BY <1>3 DEF DeleteRow, CommitSweep, DeleteRows, ChunksOf
  <1>4. CASE ~Commit(x) /\ ~DeleteRow(x) /\ ~CommitSweep(x)
    BY <1>4, TablesKept DEF tables, ChunksOf
  <1> QED
    BY <1>1, <1>2, <1>3, <1>4

\* A step of another call makes no chunk older than it was.
LEMMA OthersAges ==
  ASSUME Typing, Locking, Cutting, AllFaithful, Stamped, Aged, [Next]_vars,
         NEW x \in Calls, Start(x) \/ Step(x) \/ Fail(x), NEW c \in Calls \ {x}
  PROVE  Ages(c)'
  <1>1. /\ LocalsKept(c) /\ pending'[c] = pending[c] /\ now'[c] = now[c]
        /\ req' = req /\ recipe' = recipe /\ Ages(c)
    BY OneCall DEF SessionKept, Aged
  <1>2. ASSUME Rebuilding(c), expected[c] # NoDocument, documents'[req[c].key] = expected[c],
               NEW chunk \in chunks', chunk.documentID = expected[c].internalID
        PROVE  chunk.recipe <= prepared[c]
    <2> DEFINE k == req[c].key
    <2>1. k \in Keys
      BY <1>2, WriteTypes DEF Rebuilding, BeforeRecheck, Rechecked, WritePcs
    <2>2. ~(Commit(x) /\ req[x].key = k /\ pending[x].document # NoDocument)
      <3> SUFFICES ASSUME Commit(x), req[x].key = k, pending[x].document # NoDocument
                   PROVE  FALSE
        OBVIOUS
      <3>1. pending[x].document.updatedAt = now[x] /\ now[x] # 0
        BY DEF Commit, Stamped, Stamps, Rechecked
      <3>2. documents'[k] = pending[x].document
        BY <2>1, CommittedChunks, Types DEF Typing
      <3>3. expected[c].updatedAt # now[x]
        BY <1>2, <3>1 DEF Stamped, Stamps
      <3> QED
        BY <1>2, <3>1, <3>2, <3>3
    <2>3. documents[k] = expected[c] /\ chunk \in ChunksOf(expected[c].internalID)
      BY <1>2, <2>1, <2>2, ChunksStay
    <2> QED
      BY <1>1, <1>2, <2>3 DEF Ages
  <1>3. ASSUME pc[c] = "commit", pending[c].document # NoDocument, prepared[c] = Cheap,
               NEW chunk \in chunks', chunk.documentID = locked[c].internalID
        PROVE  chunk \in ChunksOf(locked[c].internalID)
    <2> DEFINE k == req[c].key
    <2>1. locked[c] # NoDocument
      BY <1>3 DEF AllFaithful, Faithful
    <2>2. k \in Keys /\ documents[k] = locked[c]
      BY <1>3, LockedRow DEF Rechecked
    <2>3. documents'[k] = locked[c]
      <3>1. Locking'
        BY NextLocking
      <3> QED
        BY <1>1, <1>3, <3>1 DEF Locking, HoldsLocks, LocalsKept, Rechecked
    <2>4. ~(Commit(x) /\ req[x].key = k)
      BY <1>3, OtherKeys DEF Commit, Rechecked
    <2> QED
      BY <1>3, <2>1, <2>2, <2>3, <2>4, ChunksStay
  <1>4. Rebuilding(c)' = Rebuilding(c)
    BY <1>1 DEF Rebuilding, LocalsKept
  <1>5. /\ Rebuilding(c)'
        /\ expected'[c] # NoDocument /\ documents'[req'[c].key] = expected'[c]
        => \A chunk \in ChunksOf(expected[c].internalID)' : chunk.recipe <= prepared'[c]
    BY <1>1, <1>2, <1>4 DEF LocalsKept, ChunksOf
  <1>6. ASSUME pc'[c] = "commit", pending'[c].document # NoDocument,
               NEW chunk \in pending'[c].chunks
        PROVE  IF prepared'[c] # Cheap
                 THEN chunk.recipe = prepared'[c]
                 ELSE \A old \in ChunksOf(locked[c].internalID)' : old.recipe = chunk.recipe
    <2>1. CASE prepared[c] # Cheap
      BY <1>1, <1>6, <2>1 DEF LocalsKept, Ages
    <2>2. CASE prepared[c] = Cheap
      BY <1>1, <1>3, <1>6, <2>2 DEF LocalsKept, Ages, ChunksOf
    <2> QED
      BY <2>1, <2>2
  <1> QED
    BY <1>1, <1>5, <1>6 DEF Ages, LocalsKept

\* The steps of a call that neither prepares nor writes chunks.
LEMMA QuietAges ==
  ASSUME Typing, NEW c \in Calls, Ages(c), recipe' = recipe,
         prepared'[c] \in {prepared[c], Cheap},
         \/ pending'[c] = pending[c]
         \/ pending'[c] = NothingWritten,
         Rebuilding(c)' =>
           /\ Rebuilding(c)
           /\ UNCHANGED <<documents, chunks, req>>
           /\ expected'[c] = expected[c] /\ prepared'[c] = prepared[c],
         pc'[c] = "commit" =>
           \/ pending'[c].document = NoDocument
           \/ /\ pc[c] = "commit" /\ UNCHANGED <<documents, chunks, req>>
              /\ pending'[c] = pending[c] /\ prepared'[c] = prepared[c]
              /\ locked'[c] = locked[c]
  PROVE  Ages(c)'
  <1>1. prepared'[c] <= recipe'
    <2>1. Cheap <= recipe
      BY RecipeAssumption, Types DEF Typing, Cheap, Recipes
    <2> QED
      BY <2>1 DEF Ages
  <1>2. \A chunk \in pending'[c].chunks : chunk.recipe <= recipe'
    BY DEF Ages, NothingWritten
  <1>3. /\ Rebuilding(c)'
        /\ expected'[c] # NoDocument /\ documents'[req'[c].key] = expected'[c]
        => \A chunk \in ChunksOf(expected[c].internalID)' : chunk.recipe <= prepared'[c]
    BY DEF Ages, ChunksOf
  <1>4. pc'[c] = "commit" /\ pending'[c].document # NoDocument =>
          \A chunk \in pending'[c].chunks :
            IF prepared'[c] # Cheap
              THEN chunk.recipe = prepared'[c]
              ELSE \A old \in ChunksOf(locked[c].internalID)' : old.recipe = chunk.recipe
    BY DEF Ages, ChunksOf
  <1> QED
    BY <1>1, <1>2, <1>3, <1>4 DEF Ages

\* A rebuild takes the recipe in force, which no chunk is ahead of.
LEMMA PrepareAges ==
  ASSUME Typing, Aged, NEW c \in Calls, Prepare(c)
  PROVE  Ages(c)'
  <1>1. /\ prepared'[c] = recipe /\ recipe' = recipe /\ pc'[c] = "begin"
        /\ UNCHANGED <<documents, chunks, pending>> /\ recipe \in Int
    BY RecipeAssumption, Types DEF Typing, Prepare, Goto, dbVars, Recipes
  <1>2. \A chunk \in ChunksOf(expected[c].internalID)' : chunk.recipe <= recipe
    BY <1>1 DEF Aged, ChunksOf
  <1> QED
    BY <1>1, <1>2 DEF Aged, Ages

\* Refresh keeps what the call has prepared as new as what it would replace.
LEMMA RefreshAges ==
  ASSUME Typing, Locking, Cutting, AllFaithful, Aged, NEW c \in Calls,
         RefreshDocumentMetadata(c)
  PROVE  Ages(c)'
  <1> DEFINE olds == ChunksOf(locked[c].internalID)
  <1>1. /\ pc[c] = "refresh" /\ locked[c] \in Documents /\ locked[c] # NoDocument
        /\ prepared[c] = Cheap
    BY SentinelAssumption
    DEF Typing, StepsOK, RefreshDocumentMetadata, AllFaithful, Faithful
  <1>2. req[c].key \in Keys /\ documents[req[c].key] = locked[c]
    BY <1>1, LockedRow DEF Rechecked
  <1>3. /\ pending'[c].chunks = RefreshedChunks(c) /\ pc'[c] = "commit"
        /\ UNCHANGED <<documents, chunks, prepared, recipe, locked>>
    BY Types DEF Typing, RefreshDocumentMetadata, Goto
  <1>4. \A a, b \in olds : a.recipe = b.recipe
    BY <1>1, <1>2, DocumentsAreUniform
  <1>5. ASSUME NEW chunk \in RefreshedChunks(c)
        PROVE  /\ chunk.recipe <= recipe
               /\ \A old \in olds : old.recipe = chunk.recipe
    <2>1. PICK old \in olds : chunk = [old EXCEPT !.meta = req[c].meta]
      BY DEF RefreshedChunks
    <2>2. old \in chunks /\ old \in Chunks
      BY <2>1, Types DEF Typing, ChunksOf
    <2>3. chunk.recipe = old.recipe
      BY <2>1, <2>2 DEF Chunks
    <2> QED
      BY <1>4, <2>1, <2>2, <2>3 DEF Aged
  <1>6. ChunksOf(locked[c].internalID)' = olds
    BY <1>3 DEF ChunksOf
  <1>7. ~Rebuilding(c)'
    BY <1>1, <1>3 DEF Rebuilding
  <1> QED
    BY <1>1, <1>3, <1>5, <1>6, <1>7 DEF Aged, Ages

\* Upsert keeps what the call has prepared as new as what it would replace.
LEMMA UpsertAges ==
  ASSUME Typing, Aged, NEW c \in Calls, UpsertDocumentRow(c)
  PROVE  Ages(c)'
  <1>1. /\ pc[c] = "upsertRow" /\ pc'[c] = "replaceChunks"
        /\ pending'[c].chunks \subseteq chunks
        /\ UNCHANGED <<documents, chunks, req, prepared, recipe, expected>>
    BY Types DEF Typing, UpsertDocumentRow, Goto, ChunksOf
  <1>2. Rebuilding(c)' => Rebuilding(c)
    BY <1>1 DEF Rebuilding, Rechecked
  <1>3. /\ Rebuilding(c)'
        /\ expected'[c] # NoDocument /\ documents'[req'[c].key] = expected'[c]
        => \A chunk \in ChunksOf(expected[c].internalID)' : chunk.recipe <= prepared'[c]
    BY <1>1, <1>2 DEF Aged, Ages, ChunksOf
  <1> QED
    BY <1>1, <1>3 DEF Aged, Ages

\* Replace keeps what the call has prepared as new as what it would replace.
LEMMA ReplaceAges ==
  ASSUME Typing, Aged, NEW c \in Calls, ReplaceDocumentChunks(c)
  PROVE  Ages(c)'
  <1>1. /\ pc[c] = "replaceChunks" /\ pc'[c] = "commit"
        /\ pending'[c].chunks = ChunkRows(pending[c].document.internalID, req[c].content,
                                          prepared[c], req[c].meta)
        /\ UNCHANGED <<documents, chunks, req, prepared, recipe, expected>>
        /\ prepared[c] \in Recipes
    BY Types DEF Typing, StepsOK, ReplaceDocumentChunks, Goto
  <1>2. \A chunk \in pending'[c].chunks : chunk.recipe = prepared[c]
    BY <1>1 DEF ChunkRows
  <1>3. prepared[c] # Cheap /\ prepared[c] <= recipe
    BY <1>1, RecipeAssumption DEF Recipes, Cheap, Aged, Ages
  <1>4. Rebuilding(c)
    BY <1>1, <1>3 DEF Rebuilding, Rechecked
  <1>5. expected'[c] # NoDocument /\ documents'[req'[c].key] = expected'[c]
        => \A chunk \in ChunksOf(expected[c].internalID)' : chunk.recipe <= prepared'[c]
    BY <1>1, <1>4 DEF Aged, Ages, ChunksOf
  <1> QED
    BY <1>1, <1>2, <1>3, <1>5 DEF Ages

\* No chunk in the table is ahead of the recipe in force.
LEMMA TableAged ==
  ASSUME Typing, Aged, NEW c \in Calls, Start(c) \/ Step(c) \/ Fail(c)
  PROVE  \A chunk \in chunks' : chunk.recipe <= recipe
  <1>1. CASE Commit(c)
    BY <1>1 DEF Commit, StoreRows, tables, Aged, Ages
  <1>2. CASE DeleteRow(c) \/ CommitSweep(c)
    BY <1>2 DEF DeleteRow, CommitSweep, DeleteRows, Aged
  <1>3. CASE ~Commit(c) /\ ~DeleteRow(c) /\ ~CommitSweep(c)
    BY <1>3, TablesKept DEF tables, Aged
  <1> QED
    BY <1>1, <1>2, <1>3

\* A step of a call keeps its own prepared chunks as new as those they would replace.
LEMMA OwnAges ==
  ASSUME Typing, Locking, Cutting, AllFaithful, Aged,
         NEW c \in Calls, Start(c) \/ Step(c) \/ Fail(c)
  PROVE  Ages(c)'
  <1> USE Types DEF Typing, Goto
  <1>1. Ages(c)
    BY DEF Aged
  <1>2. ASSUME recipe' = recipe, prepared'[c] \in {prepared[c], Cheap},
               pending'[c] \in {pending[c], NothingWritten},
               pc'[c] \notin BeforeRecheck \cup Rechecked
        PROVE  Ages(c)'
    BY <1>1, <1>2, QuietAges DEF Rebuilding, Rechecked
  <1>3. CASE Start(c)
    <2>1. pc'[c] \in {"load", "delete", "sweep"}
      BY <1>3, FirstStep
    <2> QED
      BY <1>2, <1>3, <2>1 DEF Start, dbVars, BeforeRecheck, Rechecked
  <1>4. CASE LoadSnapshot(c)
    <2>1. /\ prepared'[c] = Cheap /\ pending'[c] = pending[c] /\ recipe' = recipe
          /\ pc'[c] \in {"prepare", "begin"}
      BY <1>4 DEF LoadSnapshot, dbVars
    <2> QED
      BY <1>1, <2>1, QuietAges DEF Rebuilding
  <1>5. CASE BeginTx(c) \/ AcquireDocumentWriteLock(c)
    <2>1. /\ UNCHANGED <<documents, chunks, req, expected, prepared, pending, recipe>>
          /\ pc[c] \in BeforeRecheck /\ pc'[c] \in {"lock", "recheck"}
      BY <1>5 DEF BeginTx, AcquireDocumentWriteLock, BeforeRecheck
    <2> QED
      BY <1>1, <2>1, QuietAges DEF Rebuilding
  <1>6. CASE RecheckPasses(c)
    <2>1. /\ UNCHANGED <<documents, chunks, req, expected, prepared, pending, recipe>>
          /\ pc[c] = "recheck" /\ pending[c] = NothingWritten
      BY <1>6 DEF RecheckPasses, StepsOK, Unwritten
    <2>2. pending'[c].document = NoDocument
      BY <2>1 DEF NothingWritten
    <2> QED
      BY <1>1, <2>1, <2>2, QuietAges DEF Rebuilding, BeforeRecheck
  <1>7. CASE \/ RecheckRestarts(c) \/ Commit(c) \/ DeleteRow(c) \/ CommitSweep(c)
             \/ DeadlockVictim(c) \/ BackendExit(c)
    <2>1. /\ pending'[c] = NothingWritten /\ recipe' = recipe
          /\ prepared'[c] \in {prepared[c], Cheap}
      BY <1>7
      DEF RecheckRestarts, Commit, DeleteRow, CommitSweep, DeadlockVictim, BackendExit,
          Landed, Forget, EndTransaction
    <2>2. pc'[c] \in {"load", "landed", "aborted"}
      BY <1>7
      DEF RecheckRestarts, Restart, Commit, DeleteRow, CommitSweep, DeadlockVictim,
          BackendExit, Landed
    <2> QED
      BY <1>2, <2>1, <2>2 DEF BeforeRecheck, Rechecked
  <1>8. CASE \/ DeleteDocument(c) \/ AimDelete(c) \/ DeleteCollection(c) \/ SweepDone(c)
             \/ \E k \in Keys : SweepRow(c, k)
    <2>1. /\ UNCHANGED <<prepared, pending, recipe>>
          /\ pc'[c] \in {"aim", "deleteRow", "sweepRows", "commitSweep"}
      BY <1>8 DEF DeleteDocument, AimDelete, DeleteCollection, SweepDone, SweepRow, dbVars
    <2> QED
      BY <1>2, <2>1 DEF BeforeRecheck, Rechecked
  <1>9. CASE Fail(c)
    <2>1. /\ UNCHANGED <<documents, chunks, req, expected, prepared, pending, recipe, locked>>
          /\ pc'[c] \in {"aborted", "abandoned"} \/ pc'[c] = pc[c]
      BY <1>9 DEF Fail
    <2> QED
      BY <1>1, <2>1, QuietAges DEF Rebuilding, BeforeRecheck, Rechecked
  <1> QED
    BY <1>3, <1>4, <1>5, <1>6, <1>7, <1>8, <1>9, PrepareAges, RefreshAges, UpsertAges,
       ReplaceAges
    DEF Step

\* Every step keeps prepared chunks as new as those they would replace.
LEMMA NextAged ==
  Typing /\ Locking /\ Cutting /\ AllFaithful /\ Stamped /\ Aged /\ [Next]_vars => Aged'
  <1> SUFFICES ASSUME Typing, Locking, Cutting, AllFaithful, Stamped, Aged, [Next]_vars
               PROVE  Aged'
    OBVIOUS
  <1>1. ASSUME NEW x \in Calls, Start(x) \/ Step(x) \/ Fail(x) PROVE Aged'
    <2>1. \A chunk \in chunks' : chunk.recipe <= recipe'
      <3>1. recipe' = recipe
        BY <1>1
        DEF Start, Step, Fail, LoadSnapshot, Prepare, BeginTx, AcquireDocumentWriteLock,
            RecheckPasses, RecheckRestarts, RefreshDocumentMetadata, UpsertDocumentRow,
            ReplaceDocumentChunks, Commit, DeleteDocument, AimDelete, DeleteRow,
            DeleteCollection, SweepRow, SweepDone, CommitSweep, DeadlockVictim, BackendExit
      <3> QED
        BY <1>1, <3>1, TableAged
    <2>2. \A c \in Calls \ {x} : Ages(c)'
      BY <1>1, OthersAges
    <2>3. Ages(x)'
      BY <1>1, OwnAges
    <2> QED
      BY <2>1, <2>2, <2>3 DEF Aged
  <1>2. CASE Rollout
    <2>1. /\ recipe' = recipe + 1 /\ recipe \in Nat
          /\ UNCHANGED <<documents, chunks, pending, req, pc, expected, prepared, locked>>
      BY <1>2, RecipeAssumption, Types DEF Rollout, dbVars, Typing, Recipes
    <2>2. \A chunk \in chunks : chunk.recipe \in Int /\ chunk.recipe <= recipe'
      BY <2>1, RecipeAssumption, Types DEF Typing, Aged, Chunks, Recipes
    <2>3. ASSUME NEW c \in Calls
          PROVE  /\ prepared[c] <= recipe'
                 /\ \A chunk \in pending[c].chunks : chunk.recipe <= recipe'
      <3>1. /\ prepared[c] \in Int /\ prepared[c] <= recipe
            /\ \A chunk \in pending[c].chunks : chunk.recipe \in Int /\ chunk.recipe <= recipe
        BY RecipeAssumption, Types
        DEF Typing, Aged, Ages, Writes, Chunks, Recipes, Cheap
      <3> QED
        BY <2>1, <3>1
    <2>4. \A c \in Calls : Ages(c)'
      BY <2>1, <2>3 DEF Aged, Ages, ChunksOf, Rebuilding
    <2> QED
      BY <2>1, <2>2, <2>4 DEF Aged
  <1>3. CASE UNCHANGED vars
    BY <1>3 DEF vars, Aged, Ages, ChunksOf, Rebuilding
  <1> QED
    BY <1>1, <1>2, <1>3 DEF Next, Terminated

\* All that is known of the writes, if transactions begin one at a time.
Ordered == /\ Typing /\ Locking /\ AllHolding /\ Cutting /\ AllRemoving /\ Fresh
           /\ AllFaithful /\ Stamped /\ Aged

\* With a clock that tells transactions apart, the order of all versions holds in every state.
LEMMA AlwaysOrdered ==
  ASSUME ~CoarseClock
  PROVE  Spec => []Ordered
  <1>1. Init => Ordered
    BY InitTyping, InitLocking, InitHolding, InitCutting, InitRemoving, InitFaithful,
       InitStamped, InitAged
    DEF Ordered
  <1>2. Ordered /\ [Next]_vars => Ordered'
    BY NextTyping, NextLocking, NextHolding, NextCutting, NextRemoving, NextFaithful,
       NextStamped, NextAged
    DEF Ordered
  <1> QED
    BY <1>1, <1>2, PTL DEF Spec

\* A COMMIT that replaces the chunks of a document: a rebuild puts chunks of no
\* earlier recipe in their place, a refresh chunks of the same.
LEMMA CommitAges ==
  ASSUME Ordered, NEW c \in Calls, Commit(c), pending[c].document # NoDocument,
         NEW new \in pending[c].chunks,
         NEW old \in chunks, old.documentID = pending[c].document.internalID
  PROVE  /\ locked[c] # NoDocument
         /\ IF prepared[c] = Cheap THEN old.recipe = new.recipe ELSE old.recipe <= new.recipe
  <1> DEFINE k == req[c].key
             row == pending[c].document
  <1> USE DEF Ordered
  <1>1. /\ k \in Keys /\ documents[k] = locked[c] /\ pc[c] = "commit"
        /\ \A j \in Keys \ {k} : documents[j] # NoDocument =>
             documents[j].internalID # row.internalID
        /\ locked[c] # NoDocument => row.internalID = locked[c].internalID
    BY CommittedChunks DEF Commit
  <1>2. locked[c] # NoDocument
    BY <1>1 DEF Cutting, ChunksMatchDocument
  <1>3. old \in ChunksOf(locked[c].internalID)
    BY <1>1, <1>2 DEF ChunksOf
  <1>4. CASE prepared[c] = Cheap
    BY <1>1, <1>2, <1>3, <1>4 DEF Aged, Ages
  <1>5. CASE prepared[c] # Cheap
    <2>1. new.recipe = prepared[c] /\ Rebuilding(c)
      BY <1>1, <1>5 DEF Aged, Ages, Rebuilding, Rechecked
    <2>2. expected[c] = locked[c]
      BY <1>1, <1>5 DEF AllFaithful, Faithful, Rechecked
    <2>3. old.recipe <= prepared[c]
      BY <1>1, <1>2, <1>3, <2>1, <2>2 DEF Aged, Ages
    <2> QED
      BY <1>2, <1>5, <2>1, <2>3
  <1> QED
    BY <1>2, <1>4, <1>5

\* A stale rebuild never overwrites newer chunks: the chunks of a document are
\* never replaced by chunks that an older splitter or embedder prepared.
THEOREM RecipesNeverRegress ==
  ASSUME ~CoarseClock
  PROVE  Spec => RecipeNeverRegresses
  <1>1. ASSUME Ordered, [Next]_vars, NEW old \in chunks, NEW new \in chunks',
               old.documentID = new.documentID
        PROVE  old.recipe <= new.recipe
    <2> USE DEF Ordered
    <2>1. old.recipe \in Int
      BY <1>1, RecipeAssumption, Types DEF Typing, Chunks, Recipes
    <2>2. ASSUME new \in chunks PROVE old.recipe <= new.recipe
      <3>1. PICK k \in Keys : documents[k] # NoDocument /\ documents[k].internalID = old.documentID
        BY <1>1 DEF Cutting, ChunksMatchDocument
      <3>2. old \in ChunksOf(documents[k].internalID) /\ new \in ChunksOf(documents[k].internalID)
        BY <1>1, <2>2, <3>1 DEF ChunksOf
      <3>3. old.recipe = new.recipe
        BY <1>1, <3>1, <3>2, DocumentsAreUniform
      <3> QED
        BY <2>1, <3>3
    <2>3. ASSUME NEW c \in Calls, Start(c) \/ Step(c) \/ Fail(c), new \notin chunks
          PROVE  old.recipe <= new.recipe
      <3>1. Commit(c)
        BY <2>3, TablesKept DEF tables, DeleteRow, CommitSweep, DeleteRows
      <3>2. /\ pending[c].document # NoDocument /\ new \in pending[c].chunks
        BY <2>3, <3>1 DEF Commit, StoreRows, tables
      <3>3. new.documentID = pending[c].document.internalID
        BY <1>1, <3>1, <3>2, CommittedChunks
      <3> QED
        BY <1>1, <2>1, <3>1, <3>2, <3>3, CommitAges
    <2>4. CASE Rollout \/ UNCHANGED vars
      BY <1>1, <2>2, <2>4 DEF Rollout, vars, dbVars
    <2> QED
      BY <1>1, <2>2, <2>3, <2>4 DEF Next, Terminated
  <1>2. Ordered /\ [Next]_vars =>
          \A old \in chunks, new \in chunks' :
            old.documentID = new.documentID => old.recipe <= new.recipe
    BY <1>1
  <1> QED
    BY <1>2, AlwaysOrdered, PTL DEF Spec, RecipeNeverRegresses

-----------------------------------------------------------------------------
(* The writes implement KnowledgeBase.                                     *)

\* The recipe of a document, as it is and as a step leaves it.
LEMMA RecipeNow ==
  ASSUME Typing, Cutting, NEW k \in Keys, documents[k] # NoDocument
  PROVE  /\ \E chunk \in chunks : chunk.documentID = documents[k].internalID
         /\ \A chunk \in chunks : chunk.documentID = documents[k].internalID =>
              StoredRecipe(k) = chunk.recipe
         /\ StoredRecipe(k) \in Recipes
  <1> DEFINE chosen == CHOOSE chunk \in chunks : chunk.documentID = documents[k].internalID
  <1>1. /\ ChunksOf(documents[k].internalID) # {}
        /\ \A chunk \in ChunksOf(documents[k].internalID) : chunk.recipe \in Recipes
        /\ \A a, b \in ChunksOf(documents[k].internalID) : a.recipe = b.recipe
    BY DocumentsAreUniform
  <1>2. \E chunk \in chunks : chunk.documentID = documents[k].internalID
    BY <1>1 DEF ChunksOf
  <1>3. chosen \in ChunksOf(documents[k].internalID)
    BY <1>2 DEF ChunksOf
  <1>4. StoredRecipe(k) = chosen.recipe
    BY DEF StoredRecipe
  <1> HIDE DEF chosen
  <1> QED
    BY <1>1, <1>2, <1>3, <1>4 DEF ChunksOf

\* After a step, too, a document has chunks, and their one recipe is what it stores.
LEMMA RecipeNext ==
  ASSUME Typing', Cutting', NEW k \in Keys, documents'[k] # NoDocument
  PROVE  /\ \E chunk \in chunks' : chunk.documentID = documents'[k].internalID
         /\ \A chunk \in chunks' : chunk.documentID = documents'[k].internalID =>
              StoredRecipe(k)' = chunk.recipe
         /\ StoredRecipe(k)' \in Recipes
  <1> DEFINE chosen == CHOOSE chunk \in chunks' : chunk.documentID = documents'[k].internalID
             rows == {chunk \in chunks' : chunk.documentID = documents'[k].internalID}
  <1>1. documents'[k] \in Documents
    BY DEF Typing, TypeOK, DatabaseTypeOK
  <1>2. WellCut(documents'[k], rows)
    BY DEF Cutting, ChunksMatchDocument, WellCut, ChunksOf, ChunkRows
  <1>3. /\ rows # {}
        /\ \A chunk \in rows : chunk.recipe \in Recipes
        /\ \A a, b \in rows : a.recipe = b.recipe
    BY <1>1, <1>2, CutsAreUniform
  <1>4. chosen \in rows
    BY <1>3
  <1>5. StoredRecipe(k)' = chosen.recipe
    BY DEF StoredRecipe
  <1> HIDE DEF chosen
  <1> QED
    BY <1>3, <1>4, <1>5

\* What is stored of a document does not change with the order of its chunks.
LEMMA SameEntry ==
  ASSUME Typing, Cutting, Typing', Cutting', NEW k \in Keys, documents'[k] = documents[k],
         documents[k] # NoDocument =>
           \A chunk \in chunks' : chunk.documentID = documents[k].internalID => chunk \in chunks
  PROVE  StoredEntry(k)' = StoredEntry(k)
  <1>1. CASE documents[k] = NoDocument
    BY <1>1 DEF StoredEntry
  <1>2. CASE documents[k] # NoDocument
    <2>1. StoredRecipe(k)' = StoredRecipe(k)
      BY <1>2, RecipeNow, RecipeNext
    <2> QED
      BY <1>2, <2>1 DEF StoredEntry
  <1> QED
    BY <1>1, <1>2

\* What is stored of a document is an entry of the knowledge base.
LEMMA EntryNow ==
  ASSUME Typing, Cutting, NEW k \in Keys
  PROVE  /\ documents[k] = NoDocument => StoredEntry(k) = NoDocument
         /\ documents[k] # NoDocument =>
              /\ StoredEntry(k) = [content |-> documents[k].contentHash,
                                   meta |-> documents[k].meta,
                                   recipe |-> StoredRecipe(k)]
              /\ StoredEntry(k) \in KB!Entries
              /\ StoredEntry(k) # NoDocument
  <1>1. CASE documents[k] = NoDocument
    BY <1>1 DEF StoredEntry
  <1>2. CASE documents[k] # NoDocument
    <2>1. documents[k] \in Documents /\ StoredRecipe(k) \in Recipes
      BY <1>2, RecipeNow, Types DEF Typing
    <2>2. StoredEntry(k) = [content |-> documents[k].contentHash, meta |-> documents[k].meta,
                            recipe |-> StoredRecipe(k)]
      BY <1>2 DEF StoredEntry
    <2>3. StoredEntry(k) \in KB!Entries
      BY <2>1, <2>2 DEF KB!Entries, Documents
    <2> QED
      BY <1>2, <2>2, <2>3, EntryAssumption
  <1> QED
    BY <1>1, <1>2

\* The initial states are those of KnowledgeBase.
LEMMA InitRefines == Init => KB!KBInit
  <1> SUFFICES ASSUME Init PROVE KB!KBInit
    OBVIOUS
  <1>1. Typing /\ Cutting
    BY InitTyping, InitCutting
  <1>2. \A k \in Keys : StoredEntry(k) \in KB!Entries \cup {NoDocument}
    BY <1>1, EntryNow
  <1>3. \A c \in Calls : pc[c] # "landed" /\ Wanted(c) = {}
    BY DEF Init, Wanted
  <1>4. [c \in Calls |-> pc[c] = "landed"] = [c \in Calls |-> FALSE]
    BY <1>3
  <1>5. [c \in Calls |-> IF pc[c] = "landed" THEN {} ELSE Wanted(c)] = [c \in Calls |-> {}]
    BY <1>3
  <1>6. outcome = [c \in Calls |-> "pending"]
    BY DEF Init
  <1> HIDE DEF Init
  <1> QED
    BY <1>2, <1>4, <1>5, <1>6 DEF KB!KBInit

\* The variables of KnowledgeBase, as functions of those of DocumentWrites.
Effects == [c \in Calls |-> pc[c] = "landed"]
Aims == [c \in Calls |-> IF pc[c] = "landed" THEN {} ELSE Wanted(c)]
Stored == [k \in Keys |-> StoredEntry(k)]

\* A step that lands no call changes nothing that is stored.
LEMMA StoredKept ==
  ASSUME Ordered, Ordered', UNCHANGED tables
  PROVE  Stored' = Stored
  <1>1. \A k \in Keys : StoredEntry(k)' = StoredEntry(k)
    BY SameEntry DEF Ordered, tables
  <1> QED
    BY <1>1 DEF Stored

\* What a client cannot see.
LEMMA HiddenRefines ==
  ASSUME Ordered, Ordered', UNCHANGED tables, UNCHANGED <<req, outcome, target>>,
         \A c \in Calls : pc'[c] = "landed" <=> pc[c] = "landed"
  PROVE  UNCHANGED KB!kbVars
  <1>1. Stored' = Stored
    BY StoredKept
  <1>2. \A c \in Calls : Wanted(c)' = Wanted(c)
    BY DEF Wanted, tables
  <1>3. Aims' = Aims /\ Effects' = Effects
    BY <1>2 DEF Aims, Effects
  <1> QED
    BY <1>1, <1>3 DEF KB!kbVars, Stored, Aims, Effects

\* A call that fails, or reports a conflict.
LEMMA RefusalRefines ==
  ASSUME Ordered, Ordered', UNCHANGED tables, UNCHANGED <<req, target>>,
         \A c \in Calls : pc'[c] = "landed" <=> pc[c] = "landed",
         NEW c \in Calls, outcome[c] = "pending",
         \/ outcome' = [outcome EXCEPT ![c] = "error"]
         \/ /\ IsWrite(c) /\ pc[c] # "landed"
            /\ outcome' = [outcome EXCEPT ![c] = "conflict"]
  PROVE  KB!Refuse(c)
  <1>1. Stored' = Stored
    BY StoredKept
  <1>2. \A d \in Calls : Wanted(d)' = Wanted(d)
    BY DEF Wanted, tables
  <1>3. Aims' = Aims /\ Effects' = Effects
    BY <1>2 DEF Aims, Effects
  <1> QED
    BY <1>1, <1>3 DEF KB!Refuse, Stored, Aims, Effects, IsWrite

\* A delete takes aim at the documents it names and finds.
LEMMA AimRefines ==
  ASSUME Ordered, Ordered', NEW c \in Calls, AimDelete(c) \/ DeleteCollection(c)
  PROVE  KB!Aim(c)
  <1> USE Types DEF Ordered, Typing
  <1>1. /\ UNCHANGED tables /\ UNCHANGED <<req, outcome, documents>>
        /\ pc[c] \in {"aim", "sweep"} /\ pc'[c] \in {"deleteRow", "sweepRows"}
        /\ \A d \in Calls \ {c} : pc'[d] = pc[d]
    BY DEF AimDelete, DeleteCollection, dbVars, tables, Goto
  <1>2. /\ req[c].op \in {"delete", "deleteCollection"}
        /\ outcome[c] \in {"pending", "error"}
    BY <1>1
    DEF StepsOK, DeletePcs, SweepPcs, DeleteRequests, SweepRequests, AllHolding, Holding
  <1>3. Stored' = Stored
    BY <1>1, StoredKept
  <1>4. Effects' = Effects
    BY <1>1 DEF Effects
  <1>5. Wanted(c)' = {k \in Named(c) : documents[k] # NoDocument}
    <2>1. /\ Named(c) \subseteq Keys
          /\ target'[c] = {documents[k].internalID :
                             k \in {j \in Named(c) : documents[j] # NoDocument}}
      BY AimedAt
    <2> QED
      BY <1>1, <2>1 DEF Wanted, Cutting, IdsUnique
  <1>6. \A d \in Calls \ {c} : Wanted(d)' = Wanted(d)
    BY <1>1, AimedAt DEF Wanted
  <1>7. /\ Named(c) = KB!Names(c) /\ Named(c) \subseteq Keys
    BY AimedAt DEF Named, KB!Names
  <1>8. {k \in Named(c) : documents[k] # NoDocument} = {k \in KB!Names(c) : Stored[k] # NoDocument}
    BY <1>7, EntryNow DEF Stored
  <1>9. Aims' = [Aims EXCEPT ![c] = {k \in KB!Names(c) : Stored[k] # NoDocument}]
    BY <1>1, <1>5, <1>6, <1>8 DEF Aims
  <1> QED
    BY <1>1, <1>2, <1>3, <1>4, <1>9 DEF KB!Aim, Stored, Aims, Effects

\* What the client is told when its call lands.
LEMMA LandedAnswer ==
  ASSUME Ordered, NEW c \in Calls, Landed(c), pc[c] # "landed",
         pc[c] \notin {"aborted"}
  PROVE  /\ KB!Answer(c) /\ ~Effects[c] /\ Effects' = [Effects EXCEPT ![c] = TRUE]
         /\ outcome[c] \in {"pending", "error"}
  BY Types DEF Ordered, Typing, Landed, Goto, Return, KB!Answer, Effects, AllHolding, Holding

\* A delete takes effect on the documents it is aimed at.
LEMMA DeleteRefines ==
  ASSUME Ordered, Ordered', NEW c \in Calls, DeleteRow(c) \/ CommitSweep(c)
  PROVE  KB!LandDelete(c)
  <1> USE Types DEF Ordered, Typing
  <1>1. /\ Landed(c) /\ UNCHANGED <<req, target>> /\ pc[c] \in {"deleteRow", "commitSweep"}
        /\ pc'[c] = "landed" /\ \A d \in Calls \ {c} : pc'[d] = pc[d]
    BY DEF DeleteRow, CommitSweep, Landed, Goto
  <1>2. req[c].op \in {"delete", "deleteCollection"}
    BY <1>1 DEF StepsOK, DeletePcs, SweepPcs, DeleteRequests, SweepRequests
  <1>3. DeleteRows(Wanted(c))
    <2>1. CASE DeleteRow(c)
      BY <2>1 DEF DeleteRow
    <2>2. CASE CommitSweep(c)
      <3>1. {k \in Keys : rowLock[k] = c} = Wanted(c)
        BY <2>2 DEF CommitSweep, AllRemoving, Removing, AllSwept, Wanted
      <3> QED
        BY <2>2, <3>1 DEF CommitSweep
    <2> QED
      BY <2>1, <2>2
  <1>4. Wanted(c) \subseteq Keys /\ Aims[c] = Wanted(c)
    BY <1>1 DEF Wanted, Aims
  <1>5. \A k \in Keys : StoredEntry(k)' = IF k \in Wanted(c) THEN NoDocument ELSE StoredEntry(k)
    <2>1. \A k \in Keys : k \in Wanted(c) => documents'[k] = NoDocument
      BY <1>3 DEF DeleteRows
    <2>2. \A k \in Keys : k \notin Wanted(c) =>
            documents'[k] = documents[k] /\ chunks' \subseteq chunks
      BY <1>3 DEF DeleteRows
    <2>3. \A k \in Keys : k \in Wanted(c) => StoredEntry(k)' = NoDocument
      BY <2>1 DEF StoredEntry
    <2>4. \A k \in Keys : k \notin Wanted(c) => StoredEntry(k)' = StoredEntry(k)
      BY <2>2, SameEntry
    <2> QED
      BY <2>3, <2>4
  <1>6. Stored' = [k \in Keys |-> IF k \in Aims[c] THEN NoDocument ELSE Stored[k]]
    BY <1>4, <1>5 DEF Stored
  <1>7. \A d \in Calls : Wanted(d)' = Wanted(d) \ Wanted(c)
    BY <1>1, <1>3 DEF DeleteRows, Wanted
  <1>8. Aims' = [d \in Calls |-> Aims[d] \ Aims[c]]
    <2>1. \A d \in Calls : Aims'[d] = Aims[d] \ Aims[c]
      BY <1>1, <1>4, <1>7 DEF Aims
    <2> QED
      BY <2>1 DEF Aims
  <1>9. KB!Answer(c) /\ ~Effects[c] /\ Effects' = [Effects EXCEPT ![c] = TRUE]
        /\ outcome[c] \in {"pending", "error"}
    BY <1>1, LandedAnswer
  <1> QED
    BY <1>1, <1>2, <1>6, <1>8, <1>9 DEF KB!LandDelete, Stored, Aims, Effects

\* The entry that COMMIT leaves is one the abstract write may leave.
LEMMA CommitWritten ==
  ASSUME Ordered, Ordered', NEW c \in Calls, Commit(c), NEW k \in Keys, k = req[c].key
  PROVE  StoredEntry(k)' \in KB!Written(c, StoredEntry(k))
  <1> USE Types DEF Ordered, Typing
  <1> DEFINE old == StoredEntry(k)
             new == StoredEntry(k)'
  <1>1. /\ documents[k] = locked[c] /\ documents'[k] # NoDocument
        /\ documents'[k].contentHash = req[c].content /\ documents'[k].meta = req[c].meta
    BY CommittedRow
  <1>2. /\ documents'[k] \in Documents /\ StoredRecipe(k)' \in Recipes
        /\ new = [content |-> req[c].content, meta |-> req[c].meta, recipe |-> StoredRecipe(k)']
    BY <1>1, RecipeNext DEF StoredEntry, TypeOK, DatabaseTypeOK
  <1>3. /\ new \in KB!Entries /\ new.content = req[c].content /\ new.meta = req[c].meta
        /\ new.recipe = StoredRecipe(k)'
    BY <1>1, <1>2 DEF KB!Entries, Documents
  <1>4. ASSUME old # NoDocument
        PROVE  IF req[c].op = "upsert" /\ old.content = new.content
                 THEN new.recipe = old.recipe
                 ELSE new.recipe >= old.recipe
    <2>1. /\ locked[c] # NoDocument /\ old.content = locked[c].contentHash
          /\ old.recipe = StoredRecipe(k) /\ StoredRecipe(k) \in Recipes
      BY <1>1, <1>4, EntryNow, RecipeNow
    <2>2. StoredRecipe(k) \in Int /\ StoredRecipe(k)' \in Int
      BY <1>2, <2>1, RecipeAssumption DEF Recipes
    <2>3. CASE pending[c].document = NoDocument
      <3>1. UNCHANGED tables
        BY <2>3 DEF Commit, StoreRows
      <3>2. new = old
        BY <1>1, <3>1, SameEntry DEF tables
      <3> QED
        BY <1>3, <2>1, <2>2, <3>2
    <2>4. CASE pending[c].document # NoDocument
      <3> DEFINE row == pending[c].document
      <3>1. /\ documents'[k] = row /\ row \in Documents
            /\ row.internalID = locked[c].internalID
            /\ pending[c].chunks \subseteq chunks'
            /\ \A chunk \in pending[c].chunks : chunk.documentID = row.internalID
        BY <2>1, <2>4, CommittedChunks
      <3>2. PICK chunk \in pending[c].chunks : TRUE
        BY <2>4, CommittedChunks, CutsAreUniform
      <3>3. StoredRecipe(k)' = chunk.recipe
        BY <1>1, <3>1, <3>2, RecipeNext
      <3>4. PICK before \in chunks : before.documentID = documents[k].internalID
        BY <1>1, <2>1, RecipeNow
      <3>5. StoredRecipe(k) = before.recipe
        BY <1>1, <2>1, <3>4, RecipeNow
      <3>6. IF prepared[c] = Cheap THEN before.recipe = chunk.recipe
                                   ELSE before.recipe <= chunk.recipe
        BY <1>1, <2>4, <3>1, <3>2, <3>4, CommitAges
      <3>7. req[c].op = "upsert" /\ old.content = new.content => prepared[c] = Cheap
        BY <1>3, <2>1, <2>4, UpsertHadReason
      <3> QED
        BY <1>3, <2>1, <2>2, <3>3, <3>5, <3>6, <3>7
    <2> QED
      BY <2>3, <2>4
  <1> HIDE DEF old, new
  <1> QED
    BY <1>3, <1>4 DEF KB!Written, old, new

\* A write takes effect when it commits.
LEMMA CommitRefines ==
  ASSUME Ordered, Ordered', NEW c \in Calls, Commit(c)
  PROVE  KB!LandWrite(c)
  <1> USE Types DEF Ordered, Typing
  <1>1. /\ Landed(c) /\ UNCHANGED <<req, target>> /\ pc[c] = "commit"
        /\ pc'[c] = "landed" /\ \A d \in Calls \ {c} : pc'[d] = pc[d]
    BY DEF Commit, Landed, Goto
  <1> PICK k \in Keys : k = req[c].key
    BY <1>1, LockedRow DEF Rechecked
  <1>2. req[c].op \in {"upsert", "reindex"} /\ documents[k] = locked[c]
    BY <1>1, LockedRow DEF Rechecked, WriteRequests
  <1>3. \A j \in Keys \ {k} : StoredEntry(j)' = StoredEntry(j)
    <2> SUFFICES ASSUME NEW j \in Keys \ {k} PROVE StoredEntry(j)' = StoredEntry(j)
      OBVIOUS
    <2>1. documents'[j] = documents[j]
      BY <1>2 DEF Commit, StoreRows, tables
    <2>2. documents[j] # NoDocument =>
            \A chunk \in chunks' : chunk.documentID = documents[j].internalID => chunk \in chunks
      BY <2>1, ChunksStay DEF Step, ChunksOf
    <2> HIDE DEF Ordered, Typing
    <2>3. Typing /\ Cutting /\ Typing' /\ Cutting'
      BY DEF Ordered
    <2> QED
      BY <2>1, <2>2, <2>3, SameEntry
  <1>4. Stored' = [Stored EXCEPT ![k] = StoredEntry(k)']
    BY <1>2, <1>3 DEF Stored
  <1>5. StoredEntry(k)' \in KB!Written(c, Stored[k])
    BY <1>2, CommitWritten DEF Stored
  <1>6. Wanted(c) = {}
    BY <1>1 DEF AllRemoving, Removing, WritePcs, Wanted
  <1>7. ASSUME NEW d \in Calls PROVE Wanted(d)' = Wanted(d)
    <2>1. Wanted(d)' \subseteq Wanted(d)
      BY <1>1, WantedShrinks DEF Step
    <2>2. ASSUME NEW j \in Wanted(d) PROVE j \in Wanted(d)'
      <3>1. j \in Keys /\ documents[j] # NoDocument /\ documents[j].internalID \in target[d]
        BY DEF Wanted
      <3>2. documents'[j] # NoDocument /\ documents'[j].internalID = documents[j].internalID
        <4>1. CASE j = k /\ pending[c].document # NoDocument
          BY <1>2, <3>1, <4>1, CommittedChunks
        <4>2. CASE ~(j = k /\ pending[c].document # NoDocument)
          BY <1>2, <3>1, <4>2 DEF Commit, StoreRows, tables
        <4> QED
          BY <4>1, <4>2
      <3> QED
        BY <1>1, <3>1, <3>2 DEF Wanted
    <2> QED
      BY <2>1, <2>2
  <1>8. Aims' = Aims
    BY <1>1, <1>6, <1>7 DEF Aims
  <1>9. KB!Answer(c) /\ ~Effects[c] /\ Effects' = [Effects EXCEPT ![c] = TRUE]
        /\ outcome[c] \in {"pending", "error"}
    BY <1>1, LandedAnswer
  <1> QED
    BY <1>1, <1>2, <1>4, <1>5, <1>8, <1>9 DEF KB!LandWrite, Stored, Aims, Effects

\* The steps that change what a client sees, and those that do not.
LEMMA StepRefines ==
  ASSUME Ordered, Ordered', NEW c \in Calls, Start(c) \/ Step(c) \/ Fail(c)
  PROVE  KB!KBNext \/ UNCHANGED KB!kbVars
  <1> USE Types DEF Ordered, Typing
  <1>1. ASSUME ~Commit(c), ~DeleteRow(c), ~CommitSweep(c), ~AimDelete(c), ~DeleteCollection(c)
        PROVE  /\ UNCHANGED tables /\ UNCHANGED <<req, target>>
               /\ \A d \in Calls : pc'[d] = "landed" <=> pc[d] = "landed"
    <2>1. UNCHANGED tables /\ UNCHANGED target
      BY <1>1, TablesKept, TargetKept
    <2>2. UNCHANGED req
      BY <1>1
      DEF Start, Step, Fail, LoadSnapshot, Prepare, BeginTx, AcquireDocumentWriteLock,
          RecheckPasses, RecheckRestarts, RefreshDocumentMetadata, UpsertDocumentRow,
          ReplaceDocumentChunks, DeleteDocument, SweepRow, SweepDone, DeadlockVictim,
          BackendExit
    <2>3. \A d \in Calls \ {c} : pc'[d] = pc[d]
      BY OneCall DEF LocalsKept
    <2>4. pc'[c] # "landed" /\ pc[c] # "landed"
      <3>1. CASE Start(c)
        BY <3>1, FirstStep DEF Start
      <3>2. CASE Fail(c)
        BY <3>2 DEF Fail, Goto, OtherPcs
      <3>3. CASE DeadlockVictim(c)
        BY <3>3 DEF DeadlockVictim, Goto
      <3>4. CASE RecheckPasses(c) \/ RecheckRestarts(c)
        BY <3>4 DEF RecheckPasses, NextStep, RecheckRestarts, Restart, Goto
      <3>5. CASE \/ LoadSnapshot(c) \/ Prepare(c) \/ BeginTx(c) \/ AcquireDocumentWriteLock(c)
                 \/ RefreshDocumentMetadata(c) \/ UpsertDocumentRow(c)
                 \/ ReplaceDocumentChunks(c) \/ DeleteDocument(c) \/ SweepDone(c)
                 \/ BackendExit(c) \/ \E k \in Keys : SweepRow(c, k)
        BY <3>5
        DEF LoadSnapshot, Prepare, BeginTx, AcquireDocumentWriteLock,
            RefreshDocumentMetadata, UpsertDocumentRow, ReplaceDocumentChunks,
            DeleteDocument, SweepDone, BackendExit, SweepRow, Goto
      <3> QED
        BY <1>1, <3>1, <3>2, <3>3, <3>4, <3>5 DEF Step
    <2> QED
      BY <2>1, <2>2, <2>3, <2>4
  <1>2. CASE Commit(c) \/ DeleteRow(c) \/ CommitSweep(c) \/ AimDelete(c) \/ DeleteCollection(c)
    BY <1>2, CommitRefines, DeleteRefines, AimRefines DEF KB!KBNext
  <1>3. CASE Fail(c)
    <2>1. /\ ~Commit(c) /\ ~DeleteRow(c) /\ ~CommitSweep(c) /\ ~AimDelete(c)
          /\ ~DeleteCollection(c)
          /\ outcome[c] = "pending" /\ outcome' = [outcome EXCEPT ![c] = "error"]
      BY <1>3
      DEF Fail, Return, Commit, DeleteRow, CommitSweep, AimDelete, DeleteCollection, Landed
    <2> QED
      BY <1>1, <2>1, RefusalRefines DEF KB!KBNext
  <1>4. CASE DeadlockVictim(c)
    <2>1. /\ ~Commit(c) /\ ~DeleteRow(c) /\ ~CommitSweep(c) /\ ~AimDelete(c)
          /\ ~DeleteCollection(c) /\ pc[c] = "sweepRows"
      BY <1>4
      DEF DeadlockVictim, Commit, DeleteRow, CommitSweep, AimDelete, DeleteCollection
    <2>2. outcome[c] = "pending" /\ outcome' = [outcome EXCEPT ![c] = "error"]
      BY <1>4, <2>1 DEF DeadlockVictim, Return, AllHolding, Holding, Answered
    <2> QED
      BY <1>1, <2>1, <2>2, RefusalRefines DEF KB!KBNext
  <1>5. CASE RecheckRestarts(c)
    <2>1. /\ ~Commit(c) /\ ~DeleteRow(c) /\ ~CommitSweep(c) /\ ~AimDelete(c)
          /\ ~DeleteCollection(c) /\ pc[c] = "recheck"
      BY <1>5
      DEF RecheckRestarts, Commit, DeleteRow, CommitSweep, AimDelete, DeleteCollection
    <2>2. outcome[c] = "pending" /\ IsWrite(c)
      BY <2>1 DEF AllHolding, Holding, Answered, Rechecked, StepsOK, WritePcs, WriteRequests, IsWrite
    <2>3. \/ outcome' = outcome
          \/ outcome' = [outcome EXCEPT ![c] = "conflict"]
      BY <1>5 DEF RecheckRestarts, Restart, Return
    <2> QED
      BY <1>1, <2>1, <2>2, <2>3, RefusalRefines, HiddenRefines DEF KB!KBNext
  <1>6. CASE \/ Start(c) \/ LoadSnapshot(c) \/ Prepare(c) \/ BeginTx(c)
             \/ AcquireDocumentWriteLock(c) \/ RecheckPasses(c)
             \/ RefreshDocumentMetadata(c) \/ UpsertDocumentRow(c)
             \/ ReplaceDocumentChunks(c) \/ DeleteDocument(c) \/ SweepDone(c)
             \/ BackendExit(c) \/ \E k \in Keys : SweepRow(c, k)
    <2>1. UNCHANGED outcome
      BY <1>6
      DEF Start, LoadSnapshot, Prepare, BeginTx, AcquireDocumentWriteLock, RecheckPasses,
          RefreshDocumentMetadata, UpsertDocumentRow, ReplaceDocumentChunks,
          DeleteDocument, SweepDone, BackendExit, SweepRow
    <2>2. CASE Commit(c) \/ DeleteRow(c) \/ CommitSweep(c) \/ AimDelete(c) \/ DeleteCollection(c)
      BY <1>2, <2>2
    <2>3. CASE /\ ~Commit(c) /\ ~DeleteRow(c) /\ ~CommitSweep(c) /\ ~AimDelete(c)
               /\ ~DeleteCollection(c)
      BY <1>1, <2>1, <2>3, HiddenRefines
    <2> QED
      BY <2>2, <2>3
  <1> QED
    BY <1>2, <1>3, <1>4, <1>5, <1>6 DEF Step

\* UpsertDocument, ReindexDocument, DeleteDocument and DeleteCollection are
\* atomic: interleaved, failing, restarted and overtaken as they may be, all
\* their clients ever see is what KnowledgeBase allows.
THEOREM WritesImplementKnowledgeBase ==
  ASSUME ~CoarseClock
  PROVE  Spec => ImplementsKnowledgeBase
  <1>1. ASSUME Ordered, Ordered', [Next]_vars
        PROVE  KB!KBNext \/ UNCHANGED KB!kbVars
    <2>1. ASSUME NEW c \in Calls, Start(c) \/ Step(c) \/ Fail(c)
          PROVE  KB!KBNext \/ UNCHANGED KB!kbVars
      BY <1>1, <2>1, StepRefines
    <2>2. CASE Rollout \/ UNCHANGED vars
      <3>1. /\ UNCHANGED tables /\ UNCHANGED <<req, outcome, target, pc>>
        BY <2>2 DEF Rollout, vars, dbVars, tables
      <3> QED
        BY <1>1, <3>1, HiddenRefines
    <2> QED
      BY <1>1, <2>1, <2>2 DEF Next, Terminated
  <1>2. Ordered /\ Ordered' /\ [Next]_vars => [KB!KBNext]_(KB!kbVars)
    BY <1>1
  <1> QED
    BY <1>2, InitRefines, AlwaysOrdered, PTL DEF Spec, ImplementsKnowledgeBase, KB!KBSpec

=============================================================================
