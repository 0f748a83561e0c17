------------------------ MODULE DocumentWritesProofs ------------------------
(***************************************************************************)
(* Proofs about DocumentWrites, for every number of calls, documents,      *)
(* contents, recipes and connections: type correctness; its locks: at      *)
(* most one write per document is between its re-check and its COMMIT,     *)
(* and nobody changes the document meanwhile; and its rows: chunks are     *)
(* always those of their documents, and what was deleted is gone.          *)
(***************************************************************************)
EXTENDS DocumentWrites, TLAPS

\* The steps of a write before it writes anything.
Unwritten == {"idle", "load", "prepare", "begin", "lock", "recheck", "refresh",
              "upsertRow"}

\* A call is at a step of its own operation; the steps that change a row they
\* have read have a row.
StepsOK ==
  \A c \in Calls :
    /\ pc[c] \in WritePcs => req[c] \in WriteRequests
    /\ pc[c] \in DeletePcs => req[c] \in DeleteRequests
    /\ pc[c] \in SweepPcs => req[c] \in SweepRequests
    /\ pc[c] = "refresh" => locked[c] \in Documents
    /\ pc[c] \in Unwritten => pending[c] = NothingWritten
    /\ pc[c] = "replaceChunks" => pending[c].document \in Documents
    /\ pc[c] \in {"upsertRow", "replaceChunks"} => prepared[c] \in Recipes

Typing == TypeOK /\ StepsOK

Pcs == WritePcs \cup DeletePcs \cup SweepPcs \cup OtherPcs

\* The types of the variables one by one, as the provers want them.
LEMMA Types ==
  ASSUME TypeOK
  PROVE  /\ documents \in [Keys -> Documents \cup {NoDocument}]
         /\ chunks \in SUBSET Chunks
         /\ nextID \in Nat /\ clock \in Nat
         /\ advisory \in [LockKeys -> Calls \cup {Nobody}]
         /\ rowLock \in [Keys -> Calls \cup {Nobody}]
         /\ conns \in SUBSET Calls
         /\ now \in [Calls -> Nat]
         /\ pending \in [Calls -> Writes]
         /\ req \in [Calls -> Requests]
         /\ pc \in [Calls -> Pcs]
         /\ attempt \in [Calls -> 0 .. 1]
         /\ expected \in [Calls -> Documents \cup {NoDocument}]
         /\ prepared \in [Calls -> Recipes \cup {Cheap}]
         /\ locked \in [Calls -> Documents \cup {NoDocument}]
         /\ target \in [Calls -> SUBSET Nat]
         /\ outcome \in [Calls -> {"pending", "ok", "conflict", "error"}]
         /\ recipe \in Recipes
  BY DEF TypeOK, DatabaseTypeOK, Pcs

\* The rows made of a content are rows of kb_chunks.
LEMMA ChunkRowsType ==
  ASSUME NEW id \in Nat, NEW content \in Contents, NEW r \in Recipes, NEW meta \in Metas
  PROVE  /\ ChunkRows(id, content, r, meta) \in SUBSET Chunks
         /\ ChunkCount[content][r] \in Nat \ {0}
  <1>1. ChunkCount[content][r] \in Nat \ {0}
    BY RecipeAssumption
  <1>2. ASSUME NEW chunk \in ChunkRows(id, content, r, meta)
        PROVE  chunk \in Chunks
    <2>1. PICK n \in 0 .. (ChunkCount[content][r] - 1) :
             chunk = [documentID |-> id, chunkNo |-> n, content |-> content,
                      recipe |-> r, meta |-> meta]
      BY <1>2 DEF ChunkRows
    <2>2. n \in Nat
      BY <1>1, <2>1
    <2> QED
      BY <2>1, <2>2 DEF Chunks
  <1> QED
    BY <1>1, <1>2

\* The end of a transaction keeps the types of the database.
LEMMA EndTransactionTyping ==
  ASSUME TypeOK, NEW c \in Calls, EndTransaction(c)
  PROVE  /\ advisory' \in [LockKeys -> Calls \cup {Nobody}]
         /\ rowLock' \in [Keys -> Calls \cup {Nobody}]
         /\ conns' \in SUBSET Calls
         /\ now' \in [Calls -> Nat]
         /\ pending' \in [Calls -> Writes]
  <1>1. NothingWritten \in Writes
    BY DEF NothingWritten, Writes
  <1> QED
    BY <1>1, Types DEF EndTransaction

\* Initially every variable has its type.
LEMMA InitTyping == Init => Typing
  <1> SUFFICES ASSUME Init PROVE Typing
    OBVIOUS
  <1>1. documents \in [Keys -> Documents \cup {NoDocument}]
    BY SeedAssumption DEF Init, DatabaseInit
  <1>2. chunks \in SUBSET Chunks
    <2>1. 0 \in Recipes
      BY RecipeAssumption DEF Recipes
    <2>2. ASSUME NEW k \in Keys, documents[k] # NoDocument
          PROVE  ChunkRows(documents[k].internalID, documents[k].contentHash,
                           0, documents[k].meta) \in SUBSET Chunks
      <3>1. documents[k] \in Documents
        BY <1>1, <2>2
      <3> QED
        BY <2>1, <3>1, ChunkRowsType DEF Documents
    <2> QED
      BY <2>2 DEF Init, DatabaseInit
  <1>3. NothingWritten \in Writes
    BY DEF NothingWritten, Writes
  <1>4. DatabaseTypeOK
    BY <1>1, <1>2, <1>3, SeedAssumption DEF Init, DatabaseInit, DatabaseTypeOK
  <1>5. TypeOK
    BY <1>4, RecipeAssumption
    DEF Init, TypeOK, Recipes, Cheap, WritePcs, DeletePcs, SweepPcs, OtherPcs, Unwritten
  <1>6. StepsOK
    BY DEF Init, DatabaseInit, StepsOK, WritePcs, DeletePcs, SweepPcs, Unwritten
  <1> QED
    BY <1>5, <1>6 DEF Typing

-----------------------------------------------------------------------------
\* The key, content and metadata of a write are of the right types.
LEMMA WriteTypes ==
  ASSUME Typing, NEW c \in Calls, pc[c] \in WritePcs
  PROVE  /\ req[c] \in WriteRequests
         /\ req[c].key \in Keys /\ req[c].content \in Contents /\ req[c].meta \in Metas
         /\ LockKeyOf[req[c].key] \in LockKeys
         /\ documents[req[c].key] \in Documents \cup {NoDocument}
  BY Types, KeyAssumption DEF Typing, StepsOK, WriteRequests

\* Removing rows keeps the types of the tables.
LEMMA DeleteRowsTyping ==
  ASSUME TypeOK, NEW gone, DeleteRows(gone)
  PROVE  /\ documents' \in [Keys -> Documents \cup {NoDocument}]
         /\ chunks' \in SUBSET Chunks
  BY Types DEF DeleteRows

\* The first step of a call is that of its operation.
LEMMA FirstStep ==
  ASSUME Typing, NEW c \in Calls, Start(c)
  PROVE  \E first \in {"load", "delete", "sweep"} :
           /\ pc' = [pc EXCEPT ![c] = first]
           /\ first = "load" => req[c] \in WriteRequests
           /\ first = "delete" => req[c] \in DeleteRequests
           /\ first = "sweep" => req[c] \in SweepRequests
  <1>1. req[c] \in Requests
    BY Types DEF Typing
  <1>2. CASE req[c] \in WriteRequests
    BY <1>2 DEF Start, Goto, IsWrite, WriteRequests
  <1>3. CASE req[c] \in DeleteRequests
    BY <1>3 DEF Start, Goto, IsWrite, DeleteRequests
  <1>4. CASE req[c] \in SweepRequests
    BY <1>4 DEF Start, Goto, IsWrite, SweepRequests
  <1> QED
    BY <1>1, <1>2, <1>3, <1>4, RequestAssumption

\* Start keeps the types.
LEMMA StartTyping ==
  ASSUME Typing, NEW c \in Calls, Start(c)
  PROVE  Typing'
  <1> USE DEF WritePcs, DeletePcs, SweepPcs, OtherPcs, Unwritten
  <1>1. PICK first \in {"load", "delete", "sweep"} :
           /\ pc' = [pc EXCEPT ![c] = first]
           /\ first = "load" => req[c] \in WriteRequests
           /\ first = "delete" => req[c] \in DeleteRequests
           /\ first = "sweep" => req[c] \in SweepRequests
    BY FirstStep
  <1>2. TypeOK'
    BY <1>1, Types DEF Typing, Start, dbVars, TypeOK, DatabaseTypeOK, Pcs
  <1>3. StepsOK'
    BY <1>1, Types DEF Typing, StepsOK, Start, dbVars
  <1> QED
    BY <1>2, <1>3 DEF Typing

\* LoadSnapshot keeps the types.
LEMMA LoadSnapshotTyping ==
  ASSUME Typing, NEW c \in Calls, LoadSnapshot(c)
  PROVE  Typing'
  <1> USE DEF WritePcs, DeletePcs, SweepPcs, OtherPcs, Unwritten
  <1>1. documents[req[c].key] \in Documents \cup {NoDocument}
    BY WriteTypes DEF LoadSnapshot
  <1>2. TypeOK'
    BY <1>1, Types DEF Typing, LoadSnapshot, Goto, dbVars, TypeOK, DatabaseTypeOK, Pcs
  <1>3. StepsOK'
    BY <1>1, Types DEF Typing, LoadSnapshot, Goto, dbVars, StepsOK
  <1> QED
    BY <1>2, <1>3 DEF Typing

\* Prepare keeps the types.
LEMMA PrepareTyping ==
  ASSUME Typing, NEW c \in Calls, Prepare(c)
  PROVE  Typing'
  BY Types
  DEF Typing, Prepare, Goto, dbVars, TypeOK, DatabaseTypeOK, StepsOK, Pcs,
      WritePcs, DeletePcs, SweepPcs, OtherPcs, Unwritten

\* BeginTx keeps the types.
LEMMA BeginTxTyping ==
  ASSUME Typing, NEW c \in Calls, BeginTx(c)
  PROVE  Typing'
  <1> USE DEF WritePcs, DeletePcs, SweepPcs, OtherPcs, Unwritten
  <1>1. clock' \in Nat
    BY Types DEF Typing, BeginTx
  <1>2. TypeOK'
    BY <1>1, Types DEF Typing, BeginTx, AcquireConn, Goto, TypeOK, DatabaseTypeOK, Pcs
  <1>3. StepsOK'
    BY Types DEF Typing, BeginTx, Goto, StepsOK
  <1> QED
    BY <1>2, <1>3 DEF Typing

\* AcquireDocumentWriteLock keeps the types.
LEMMA AcquireDocumentWriteLockTyping ==
  ASSUME Typing, NEW c \in Calls, AcquireDocumentWriteLock(c)
  PROVE  Typing'
  BY Types
  DEF Typing, AcquireDocumentWriteLock, Goto, TypeOK, DatabaseTypeOK, StepsOK, Pcs,
      WritePcs, DeletePcs, SweepPcs, OtherPcs, Unwritten

\* RecheckPasses keeps the types.
LEMMA RecheckPassesTyping ==
  ASSUME Typing, NEW c \in Calls, RecheckPasses(c)
  PROVE  Typing'
  <1> DEFINE k == req[c].key
  <1>1. k \in Keys /\ documents[k] \in Documents \cup {NoDocument}
    BY WriteTypes DEF RecheckPasses, WritePcs
  <1>2. /\ NextStep(c, documents[k]) \in {"upsertRow", "refresh", "commit"}
        /\ NextStep(c, documents[k]) = "upsertRow" => prepared[c] \in Recipes
    BY Types DEF Typing, NextStep
  <1>3. NextStep(c, documents[k]) = "refresh" => documents[k] \in Documents
    BY <1>1 DEF NextStep, Classify
  <1>4. rowLock' \in [Keys -> Calls \cup {Nobody}]
    BY Types DEF Typing, RecheckPasses, LockRow
  <1>5. TypeOK'
    BY <1>1, <1>2, <1>4, Types
    DEF Typing, RecheckPasses, Goto, TypeOK, DatabaseTypeOK, Pcs,
        WritePcs, DeletePcs, SweepPcs, OtherPcs, Unwritten
  <1>6. StepsOK'
    BY <1>1, <1>2, <1>3, Types
    DEF Typing, RecheckPasses, Goto, StepsOK, WritePcs, DeletePcs, SweepPcs, Unwritten
  <1> QED
    BY <1>5, <1>6 DEF Typing

\* RecheckRestarts keeps the types.
LEMMA RecheckRestartsTyping ==
  ASSUME Typing, NEW c \in Calls, RecheckRestarts(c)
  PROVE  Typing'
  <1> USE DEF WritePcs, DeletePcs, SweepPcs, OtherPcs, Unwritten
  <1>1. attempt' \in [Calls -> 0 .. 1]
    BY Types DEF Typing, RecheckRestarts, Restart, MayRestart
  <1>2. TypeOK'
    BY <1>1, Types, EndTransactionTyping
    DEF Typing, RecheckRestarts, Restart, Forget, Goto, Return, TypeOK, DatabaseTypeOK, Pcs
  <1>3. StepsOK'
    BY Types DEF Typing, RecheckRestarts, Restart, Forget, EndTransaction, Goto, StepsOK
  <1> QED
    BY <1>2, <1>3 DEF Typing

\* RefreshDocumentMetadata keeps the types.
LEMMA RefreshDocumentMetadataTyping ==
  ASSUME Typing, NEW c \in Calls, RefreshDocumentMetadata(c)
  PROVE  Typing'
  <1> USE DEF WritePcs, DeletePcs, SweepPcs, OtherPcs, Unwritten
  <1>1. locked[c] \in Documents /\ req[c].meta \in Metas
    BY WriteTypes DEF Typing, StepsOK, RefreshDocumentMetadata
  <1>2. [locked[c] EXCEPT !.meta = req[c].meta, !.updatedAt = now[c]] \in Documents
    BY <1>1, Types DEF Typing, Documents
  <1>3. RefreshedChunks(c) \in SUBSET Chunks
    BY <1>1, Types DEF Typing, RefreshedChunks, ChunksOf, Chunks
  <1>4. pending' \in [Calls -> Writes]
    BY <1>2, <1>3, Types DEF Typing, RefreshDocumentMetadata, Writes
  <1>5. TypeOK'
    BY <1>4, Types DEF Typing, RefreshDocumentMetadata, Goto, TypeOK, DatabaseTypeOK, Pcs
  <1>6. StepsOK'
    BY Types DEF Typing, RefreshDocumentMetadata, Goto, StepsOK
  <1> QED
    BY <1>5, <1>6 DEF Typing

\* UpsertDocumentRow keeps the types.
LEMMA UpsertDocumentRowTyping ==
  ASSUME Typing, NEW c \in Calls, UpsertDocumentRow(c)
  PROVE  Typing'
  <1> USE DEF WritePcs, DeletePcs, SweepPcs, OtherPcs, Unwritten
  <1> DEFINE found == documents[req[c].key]
  <1>1. /\ found \in Documents \cup {NoDocument}
        /\ req[c].content \in Contents /\ req[c].meta \in Metas
    BY WriteTypes DEF UpsertDocumentRow
  <1>2. UpsertedRow(c, found) \in Documents
    <2>1. found # NoDocument => found.internalID \in Nat /\ found.chunkCount \in Nat
      BY <1>1 DEF Documents
    <2> HIDE DEF found
    <2> QED
      BY <1>1, <2>1, Types DEF Typing, UpsertedRow, Documents
  <1>3. nextID' \in Nat
    BY Types DEF Typing, UpsertDocumentRow
  <1>4. /\ pending' \in [Calls -> Writes]
        /\ pending'[c].document \in Documents
    BY <1>2, Types DEF Typing, UpsertDocumentRow, Writes, ChunksOf
  <1>5. TypeOK'
    BY <1>3, <1>4, Types DEF Typing, UpsertDocumentRow, Goto, TypeOK, DatabaseTypeOK, Pcs
  <1>6. StepsOK'
    BY <1>4, Types DEF Typing, UpsertDocumentRow, Goto, StepsOK
  <1> QED
    BY <1>5, <1>6 DEF Typing

\* ReplaceDocumentChunks keeps the types.
LEMMA ReplaceDocumentChunksTyping ==
  ASSUME Typing, NEW c \in Calls, ReplaceDocumentChunks(c)
  PROVE  Typing'
  <1> USE DEF WritePcs, DeletePcs, SweepPcs, OtherPcs, Unwritten
  <1> DEFINE row == pending[c].document
             rows == ChunkRows(row.internalID, req[c].content, prepared[c], req[c].meta)
  <1>1. /\ row \in Documents
        /\ req[c].content \in Contents /\ req[c].meta \in Metas
        /\ prepared[c] \in Recipes
    BY WriteTypes DEF Typing, StepsOK, ReplaceDocumentChunks
  <1>2. /\ ChunkCount[req[c].content][prepared[c]] \in Nat
        /\ rows \in SUBSET Chunks
    BY <1>1, ChunkRowsType DEF Documents
  <1>3. [row EXCEPT !.chunkCount = ChunkCount[req[c].content][prepared[c]],
                    !.updatedAt = now[c]] \in Documents
    BY <1>1, <1>2, Types DEF Typing, Documents
  <1> HIDE DEF rows
  <1>4. pending' \in [Calls -> Writes]
    BY <1>2, <1>3, Types DEF Typing, ReplaceDocumentChunks, Writes, rows
  <1>5. TypeOK'
    BY <1>4, Types DEF Typing, ReplaceDocumentChunks, Goto, TypeOK, DatabaseTypeOK, Pcs
  <1>6. StepsOK'
    BY Types DEF Typing, ReplaceDocumentChunks, Goto, StepsOK
  <1> QED
    BY <1>5, <1>6 DEF Typing

\* What is common to the steps that end a call.
LEMMA LandedTyping ==
  ASSUME Typing, NEW c \in Calls, Landed(c),
         documents' \in [Keys -> Documents \cup {NoDocument}],
         chunks' \in SUBSET Chunks,
         UNCHANGED <<nextID, clock, req, attempt, target, recipe>>
  PROVE  Typing'
  <1> USE DEF WritePcs, DeletePcs, SweepPcs, OtherPcs, Unwritten
  <1>1. TypeOK'
    BY Types, EndTransactionTyping
    DEF Typing, Landed, Forget, Goto, Return, TypeOK, DatabaseTypeOK, Pcs
  <1>2. StepsOK'
    BY Types DEF Typing, Landed, Forget, EndTransaction, Goto, StepsOK
  <1> QED
    BY <1>1, <1>2 DEF Typing

\* Commit keeps the types.
LEMMA CommitTyping ==
  ASSUME Typing, NEW c \in Calls, Commit(c)
  PROVE  Typing'
  <1>1. pending[c] \in Writes
    BY Types DEF Typing
  <1>2. /\ documents' \in [Keys -> Documents \cup {NoDocument}]
        /\ chunks' \in SUBSET Chunks
    <2>1. CASE pending[c].document = NoDocument
      BY <2>1, Types DEF Typing, Commit, StoreRows, tables
    <2>2. CASE pending[c].document # NoDocument
      BY <1>1, <2>2, Types DEF Typing, Commit, StoreRows, Writes, ChunksOf
    <2> QED
      BY <2>1, <2>2
  <1> QED
    BY <1>2, LandedTyping DEF Commit

\* The steps of a Delete keep the types.
LEMMA DeleteTyping ==
  ASSUME Typing, NEW c \in Calls, DeleteRow(c) \/ CommitSweep(c)
  PROVE  Typing'
  BY DeleteRowsTyping, LandedTyping DEF Typing, DeleteRow, CommitSweep

\* DeleteDocument keeps the types.
LEMMA DeleteDocumentTyping ==
  ASSUME Typing, NEW c \in Calls, DeleteDocument(c)
  PROVE  Typing'
  BY Types
  DEF Typing, DeleteDocument, AcquireConn, Goto, TypeOK, DatabaseTypeOK, StepsOK, Pcs,
      WritePcs, DeletePcs, SweepPcs, OtherPcs, Unwritten

\* Aim keeps the types.
LEMMA AimTyping ==
  ASSUME Typing, NEW c \in Calls, AimDelete(c) \/ DeleteCollection(c)
  PROVE  Typing'
  <1> USE DEF WritePcs, DeletePcs, SweepPcs, OtherPcs, Unwritten
  <1> DEFINE ids == {documents[k].internalID :
                       k \in {j \in Named(c) : documents[j] # NoDocument}}
  <1>1. Named(c) \subseteq Keys
    <2>1. req[c].op # "deleteCollection" => req[c].key \in Keys
      BY Types DEF Typing, StepsOK, AimDelete, DeleteCollection, DeleteRequests, SweepRequests
    <2> QED
      BY <2>1 DEF Named
  <1>2. ids \in SUBSET Nat
    BY <1>1, Types DEF Typing, Documents
  <1> HIDE DEF ids
  <1>3. target' \in [Calls -> SUBSET Nat]
    BY <1>2, Types DEF Typing, AimDelete, DeleteCollection, ids
  <1>4. TypeOK'
    BY <1>3, Types
    DEF Typing, AimDelete, DeleteCollection, AcquireConn, Goto, dbVars, TypeOK,
        DatabaseTypeOK, Pcs
  <1>5. StepsOK'
    BY Types DEF Typing, AimDelete, DeleteCollection, Goto, dbVars, StepsOK
  <1> QED
    BY <1>4, <1>5 DEF Typing

\* The steps of a Sweep keep the types.
LEMMA SweepTyping ==
  ASSUME Typing, NEW c \in Calls, (\E k \in Keys : SweepRow(c, k)) \/ SweepDone(c)
  PROVE  Typing'
  BY Types
  DEF Typing, SweepRow, SweepDone, Goto, dbVars, TypeOK, DatabaseTypeOK, StepsOK, Pcs,
      WritePcs, DeletePcs, SweepPcs, OtherPcs, Unwritten

\* Abort keeps the types.
LEMMA AbortTyping ==
  ASSUME Typing, NEW c \in Calls, DeadlockVictim(c) \/ BackendExit(c)
  PROVE  Typing'
  <1> USE DEF WritePcs, DeletePcs, SweepPcs, OtherPcs, Unwritten
  <1>1. /\ EndTransaction(c) /\ pc' = [pc EXCEPT ![c] = "aborted"]
        /\ UNCHANGED <<documents, chunks, nextID, clock, req, attempt, target, recipe>>
        /\ expected' \in [Calls -> Documents \cup {NoDocument}]
        /\ prepared' \in [Calls -> Recipes \cup {Cheap}]
        /\ locked' \in [Calls -> Documents \cup {NoDocument}]
        /\ \A d \in Calls \ {c} : locked'[d] = locked[d] /\ prepared'[d] = prepared[d]
        /\ outcome' \in [Calls -> {"pending", "ok", "conflict", "error"}]
    BY Types DEF Typing, DeadlockVictim, BackendExit, Forget, Goto, Return
  <1>2. TypeOK'
    BY <1>1, Types, EndTransactionTyping DEF Typing, TypeOK, DatabaseTypeOK, Pcs
  <1>3. StepsOK'
    BY <1>1, Types DEF Typing, EndTransaction, StepsOK
  <1> QED
    BY <1>2, <1>3 DEF Typing

\* Fail keeps the types.
LEMMA FailTyping ==
  ASSUME Typing, NEW c \in Calls, Fail(c)
  PROVE  Typing'
  <1> USE DEF WritePcs, DeletePcs, SweepPcs, OtherPcs, Unwritten
  <1>1. PICK p \in {"aborted", "abandoned", pc[c]} : pc' = [pc EXCEPT ![c] = p]
    <2>1. CASE pc[c] \in {"load", "prepare", "begin", "delete", "sweep"}
      BY <2>1 DEF Fail, Goto
    <2>2. CASE pc[c] \in {"commit", "aim", "deleteRow", "commitSweep"}
      BY <2>2 DEF Fail, Goto
    <2>3. CASE pc[c] \notin {"load", "prepare", "begin", "delete", "sweep",
                             "commit", "aim", "deleteRow", "commitSweep"}
      BY <2>3 DEF Fail, Goto
    <2> QED
      BY <2>1, <2>2, <2>3
  <1>2. TypeOK'
    BY <1>1, Types DEF Typing, Fail, CloseConn, Return, TypeOK, DatabaseTypeOK, Pcs
  <1>3. StepsOK'
    BY <1>1, Types DEF Typing, Fail, StepsOK
  <1> QED
    BY <1>2, <1>3 DEF Typing

\* Every step keeps the types.
LEMMA NextTyping == Typing /\ [Next]_vars => Typing'
  <1> SUFFICES ASSUME Typing, [Next]_vars PROVE Typing'
    OBVIOUS
  <1>1. ASSUME NEW c \in Calls, Start(c) PROVE Typing'
    BY <1>1, StartTyping
  <1>2. ASSUME NEW c \in Calls, Step(c) PROVE Typing'
    BY <1>2, LoadSnapshotTyping, PrepareTyping, BeginTxTyping,
       AcquireDocumentWriteLockTyping, RecheckPassesTyping, RecheckRestartsTyping,
       RefreshDocumentMetadataTyping, UpsertDocumentRowTyping,
       ReplaceDocumentChunksTyping, CommitTyping, DeleteTyping,
       DeleteDocumentTyping, AimTyping, SweepTyping, AbortTyping
    DEF Step
  <1>3. ASSUME NEW c \in Calls, Fail(c) PROVE Typing'
    BY <1>3, FailTyping
  <1>4. CASE Rollout
    BY <1>4, Types, RecipeAssumption
    DEF Typing, Rollout, dbVars, TypeOK, DatabaseTypeOK, StepsOK, Pcs, Recipes
  <1>5. CASE UNCHANGED vars
    BY <1>5 DEF Typing, vars, TypeOK, DatabaseTypeOK, StepsOK
  <1> QED
    BY <1>1, <1>2, <1>3, <1>4, <1>5 DEF Next, Terminated

\* Every variable keeps its type: the attempt counter of a write, in
\* particular, never passes the one restart a write may make.
THEOREM TypeCorrect == Spec => []TypeOK
  <1>1. Spec => []Typing
    BY InitTyping, NextTyping, PTL DEF Spec
  <1> QED
    BY <1>1, PTL DEF Typing

-----------------------------------------------------------------------------
(* What a step of one call leaves alone.                                   *)

\* The local variables of a call.
LocalsKept(d) ==
  /\ pc'[d] = pc[d] /\ outcome'[d] = outcome[d] /\ attempt'[d] = attempt[d]
  /\ expected'[d] = expected[d] /\ prepared'[d] = prepared[d]
  /\ locked'[d] = locked[d] /\ target'[d] = target[d]

\* What the server keeps for a call: what it has written, its locks and its
\* connection.
SessionKept(d) ==
  /\ now'[d] = now[d] /\ pending'[d] = pending[d]
  /\ \A l \in LockKeys : advisory'[l] = d <=> advisory[l] = d
  /\ \A k \in Keys : rowLock'[k] = d <=> rowLock[k] = d
  /\ d \in conns' <=> d \in conns

\* The end of one transaction leaves the sessions of the other calls alone.
LEMMA EndTransactionSessions ==
  ASSUME Typing, NEW c \in Calls, EndTransaction(c), NEW d \in Calls \ {c}
  PROVE  SessionKept(d)
  BY SentinelAssumption, Types DEF Typing, EndTransaction, SessionKept

\* A step of one call leaves the variables of the others alone, and takes or
\* releases no lock or connection of theirs.
LEMMA OneCall ==
  ASSUME Typing, NEW c \in Calls, Start(c) \/ Step(c) \/ Fail(c),
         NEW d \in Calls \ {c}
  PROVE  LocalsKept(d) /\ SessionKept(d) /\ req' = req /\ recipe' = recipe
  <1> USE Types DEF Typing, Goto, Return, Forget
  <1>1. CASE \/ Start(c) \/ LoadSnapshot(c) \/ Prepare(c) \/ AimDelete(c) \/ SweepDone(c)
    BY <1>1 DEF Start, LoadSnapshot, Prepare, AimDelete, SweepDone, dbVars,
                LocalsKept, SessionKept
  <1>2. CASE \/ BeginTx(c) \/ DeleteDocument(c) \/ DeleteCollection(c)
    BY <1>2 DEF BeginTx, DeleteDocument, DeleteCollection, AcquireConn,
                LocalsKept, SessionKept
  <1>3. CASE \/ RefreshDocumentMetadata(c) \/ UpsertDocumentRow(c)
             \/ ReplaceDocumentChunks(c) \/ Fail(c)
    BY <1>3 DEF RefreshDocumentMetadata, UpsertDocumentRow, ReplaceDocumentChunks,
                Fail, CloseConn, LocalsKept, SessionKept
  <1>4. CASE AcquireDocumentWriteLock(c)
    <2>1. \A l \in LockKeys : advisory'[l] = d <=> advisory[l] = d
      BY <1>4, SentinelAssumption DEF AcquireDocumentWriteLock, AdvisoryFree
    <2> QED
      BY <1>4, <2>1 DEF AcquireDocumentWriteLock, LocalsKept, SessionKept
  <1>5. CASE RecheckPasses(c) \/ \E k \in Keys : SweepRow(c, k)
    <2>1. \A k \in Keys : rowLock'[k] = d <=> rowLock[k] = d
      BY <1>5, SentinelAssumption DEF RecheckPasses, LockRow, RowFree, SweepRow
    <2> QED
      BY <1>5, <2>1 DEF RecheckPasses, SweepRow, LocalsKept, SessionKept
  <1>6. CASE RecheckRestarts(c) \/ DeadlockVictim(c) \/ BackendExit(c)
    <2>1. SessionKept(d)
      BY <1>6, EndTransactionSessions DEF RecheckRestarts, DeadlockVictim, BackendExit
    <2> QED
      BY <1>6, <2>1 DEF RecheckRestarts, Restart, DeadlockVictim, BackendExit, LocalsKept
  <1>7. CASE Commit(c) \/ DeleteRow(c) \/ CommitSweep(c)
    <2>1. SessionKept(d)
      BY <1>7, EndTransactionSessions DEF Commit, DeleteRow, CommitSweep, Landed
    <2> QED
      BY <1>7, <2>1 DEF Commit, DeleteRow, CommitSweep, Landed, LocalsKept
  <1> QED
    BY <1>1, <1>2, <1>3, <1>4, <1>5, <1>6, <1>7 DEF Step

\* Only the steps by which a call lands change the tables.
LEMMA TablesKept ==
  ASSUME NEW c \in Calls, Start(c) \/ Step(c) \/ Fail(c),
         ~Commit(c), ~DeleteRow(c), ~CommitSweep(c)
  PROVE  UNCHANGED tables
  BY DEF Start, Step, Fail, LoadSnapshot, Prepare, BeginTx, AcquireDocumentWriteLock,
         RecheckPasses, RecheckRestarts, RefreshDocumentMetadata, UpsertDocumentRow,
         ReplaceDocumentChunks, DeleteDocument, AimDelete, DeleteCollection, SweepRow,
         SweepDone, DeadlockVictim, BackendExit, dbVars, tables

-----------------------------------------------------------------------------
(***************************************************************************)
(* The locks.                                                              *)
(***************************************************************************)
\* What a write that is past its advisory lock holds.  The row lock counts
\* only if there was a row to lock; where there was none, the advisory lock
\* is what keeps others from inserting one.
HoldsLocks(c) ==
  /\ pc[c] \in Rechecked \cup {"recheck"} => advisory[LockKeyOf[req[c].key]] = c
  /\ pc[c] \in Rechecked =>
       /\ documents[req[c].key] = locked[c]
       /\ locked[c] # NoDocument => rowLock[req[c].key] = c

Locking == \A c \in Calls : HoldsLocks(c)

Unaffected(d) ==
  /\ req'[d] = req[d] /\ pc'[d] = pc[d] /\ locked'[d] = locked[d]

\* A call keeps what it holds if a step of another call leaves its row alone
\* and touches no lock of it.
LEMMA KeepsLocks ==
  ASSUME Typing, NEW d \in Calls, HoldsLocks(d), Unaffected(d),
         pc[d] \in Rechecked \cup {"recheck"} =>
           LET k == req[d].key
           IN  /\ advisory[LockKeyOf[k]] = d => advisory'[LockKeyOf[k]] = d
               /\ rowLock[k] = d => rowLock'[k] = d
               /\ pc[d] \in Rechecked => documents'[k] = documents[k]
  PROVE  HoldsLocks(d)'
  BY DEF HoldsLocks, Unaffected, Rechecked

\* The end of one transaction releases no lock of another.
LEMMA OthersKeepLocks ==
  ASSUME Typing, NEW c \in Calls, EndTransaction(c), NEW d \in Calls, c # d
  PROVE  /\ \A l \in LockKeys : advisory[l] = d => advisory'[l] = d
         /\ \A k \in Keys : rowLock[k] = d => rowLock'[k] = d
  BY DEF EndTransaction

\* Steps that begin or end no transaction and touch no lock and no table.
LEMMA PrivateStep ==
  ASSUME Typing, Locking, NEW c \in Calls,
         UNCHANGED <<documents, advisory, rowLock, req>>,
         \A d \in Calls \ {c} : Unaffected(d),
         \/ pc'[c] \notin Rechecked \cup {"recheck"}
         \/ /\ pc[c] \in Rechecked /\ pc'[c] \in Rechecked
            /\ locked'[c] = locked[c]
  PROVE  Locking'
  <1> SUFFICES ASSUME NEW d \in Calls PROVE HoldsLocks(d)'
    BY DEF Locking
  <1>1. CASE d = c
    BY <1>1 DEF Locking, HoldsLocks, Rechecked
  <1>2. CASE d # c
    BY <1>2, KeepsLocks DEF Locking
  <1> QED
    BY <1>1, <1>2

\* A call that ends, or starts over, without having changed the tables.
LEMMA RollbackStep ==
  ASSUME Typing, Locking, NEW c \in Calls, EndTransaction(c),
         UNCHANGED <<documents, req>>,
         \A d \in Calls \ {c} : Unaffected(d),
         pc'[c] \notin Rechecked \cup {"recheck"}
  PROVE  Locking'
  <1> SUFFICES ASSUME NEW d \in Calls PROVE HoldsLocks(d)'
    BY DEF Locking
  <1>1. CASE d = c
    BY <1>1 DEF HoldsLocks, Rechecked
  <1>2. CASE d # c
    <2>1. pc[d] \in Rechecked \cup {"recheck"} => req[d].key \in Keys /\ LockKeyOf[req[d].key] \in LockKeys
      BY WriteTypes DEF Rechecked, WritePcs
    <2> QED
      BY <1>2, <2>1, KeepsLocks, OthersKeepLocks DEF Locking
  <1> QED
    BY <1>1, <1>2

\* Initially nobody is past a lock.
LEMMA InitLocking == Init => Locking
  BY DEF Init, Locking, HoldsLocks, Rechecked

\* Acquire keeps the calls past their locks the holders of these.
LEMMA AcquireLocking ==
  ASSUME Typing, Locking, NEW c \in Calls, AcquireDocumentWriteLock(c)
  PROVE  Locking'
  <1> SUFFICES ASSUME NEW d \in Calls PROVE HoldsLocks(d)'
    BY DEF Locking
  <1> DEFINE l == LockKeyOf[req[c].key]
  <1>1. l \in LockKeys
    BY WriteTypes DEF AcquireDocumentWriteLock, WritePcs
  <1>2. CASE d = c
    BY <1>1, <1>2, Types
    DEF Typing, AcquireDocumentWriteLock, Goto, HoldsLocks, Rechecked
  <1>3. CASE d # c
    <2>1. \A m : advisory[m] = d => advisory'[m] = d
      BY <1>1, <1>3, SentinelAssumption, Types
      DEF Typing, AcquireDocumentWriteLock, AdvisoryFree
    <2>2. Unaffected(d)
      BY <1>3, Types DEF Typing, AcquireDocumentWriteLock, Goto, Unaffected
    <2> QED
      BY <2>1, <2>2, KeepsLocks DEF Locking, AcquireDocumentWriteLock
  <1> QED
    BY <1>2, <1>3

\* RecheckPasses keeps the calls past their locks the holders of these.
LEMMA RecheckPassesLocking ==
  ASSUME Typing, Locking, NEW c \in Calls, RecheckPasses(c)
  PROVE  Locking'
  <1> SUFFICES ASSUME NEW d \in Calls PROVE HoldsLocks(d)'
    BY DEF Locking
  <1> DEFINE k == req[c].key
  <1>1. k \in Keys
    BY WriteTypes DEF RecheckPasses, WritePcs
  <1>2. CASE d = c
    <2>1. locked'[c] = documents[k] /\ UNCHANGED <<documents, advisory, req>>
      BY Types DEF Typing, RecheckPasses
    <2>2. documents[k] # NoDocument => rowLock'[k] = c
      BY <1>1, Types DEF Typing, RecheckPasses, LockRow
    <2>3. advisory[LockKeyOf[k]] = c
      BY DEF Locking, HoldsLocks, RecheckPasses
    <2> QED
      BY <1>2, <2>1, <2>2, <2>3 DEF HoldsLocks
  <1>3. CASE d # c
    <2>1. \A j : rowLock[j] = d => rowLock'[j] = d
      BY <1>1, <1>3, SentinelAssumption, Types
      DEF Typing, RecheckPasses, LockRow, RowFree
    <2>2. Unaffected(d)
      BY <1>3, Types DEF Typing, RecheckPasses, Goto, Unaffected
    <2> QED
      BY <2>1, <2>2, KeepsLocks DEF Locking, RecheckPasses
  <1> QED
    BY <1>2, <1>3

\* A COMMIT changes one row, whose advisory lock its transaction holds.
LEMMA CommitLocking ==
  ASSUME Typing, Locking, NEW c \in Calls, Commit(c)
  PROVE  Locking'
  <1> SUFFICES ASSUME NEW d \in Calls PROVE HoldsLocks(d)'
    BY DEF Locking
  <1>1. CASE d = c
    BY <1>1, Types DEF Typing, Commit, Landed, Goto, HoldsLocks, Rechecked
  <1>2. CASE d # c
    <2>1. Unaffected(d)
      BY <1>2, Types DEF Typing, Commit, Landed, Forget, Goto, Unaffected
    <2>2. ASSUME pc[d] \in Rechecked \cup {"recheck"}
          PROVE  /\ req[d].key \in Keys /\ LockKeyOf[req[d].key] \in LockKeys
                 /\ documents'[req[d].key] = documents[req[d].key]
      <3>1. req[d].key \in Keys /\ LockKeyOf[req[d].key] \in LockKeys
        BY <2>2, WriteTypes DEF Rechecked, WritePcs
      <3>2. req[d].key # req[c].key
        BY <1>2, <2>2 DEF Commit, Locking, HoldsLocks, Rechecked
      <3>3. \/ documents' = documents
            \/ documents' = [documents EXCEPT ![req[c].key] = pending[c].document]
        BY DEF Commit, StoreRows, tables
      <3> QED
        BY <3>1, <3>2, <3>3, Types DEF Typing
    <2>3. EndTransaction(c)
      BY DEF Commit, Landed
    <2> QED
      BY <1>2, <2>1, <2>2, <2>3, KeepsLocks, OthersKeepLocks DEF Locking
  <1> QED
    BY <1>1, <1>2

\* A delete removes only rows whose lock it holds or could take.
LEMMA DeleteLocking ==
  ASSUME Typing, Locking, NEW c \in Calls, DeleteRow(c) \/ CommitSweep(c)
  PROVE  Locking'
  <1> SUFFICES ASSUME NEW d \in Calls PROVE HoldsLocks(d)'
    BY DEF Locking
  <1>1. CASE d = c
    BY <1>1, Types DEF Typing, DeleteRow, CommitSweep, Landed, Goto, HoldsLocks, Rechecked
  <1>2. CASE d # c
    <2>1. Unaffected(d)
      BY <1>2, Types DEF Typing, DeleteRow, CommitSweep, Landed, Forget, Goto, Unaffected
    <2>2. ASSUME pc[d] \in Rechecked
          PROVE  documents'[req[d].key] = documents[req[d].key]
      <3> DEFINE k == req[d].key
      <3>1. k \in Keys
        BY <2>2, WriteTypes DEF Rechecked, WritePcs
      <3>2. documents[k] # NoDocument => rowLock[k] = d
        BY <2>2 DEF Locking, HoldsLocks
      <3>3. CASE DeleteRow(c)
        <4>1. documents[k] # NoDocument => k \notin Wanted(c)
          BY <3>2, <3>3, SentinelAssumption DEF DeleteRow, RowFree
        <4> QED
          BY <3>1, <3>3, <4>1 DEF DeleteRow, DeleteRows
      <3>4. CASE CommitSweep(c)
        BY <1>2, <3>1, <3>2, <3>4 DEF CommitSweep, DeleteRows
      <3> QED
        BY <3>3, <3>4
    <2>3. EndTransaction(c)
      BY DEF DeleteRow, CommitSweep, Landed
    <2>4. pc[d] \in Rechecked \cup {"recheck"} =>
            req[d].key \in Keys /\ LockKeyOf[req[d].key] \in LockKeys
      BY WriteTypes DEF Rechecked, WritePcs
    <2> QED
      BY <1>2, <2>1, <2>2, <2>3, <2>4, KeepsLocks, OthersKeepLocks DEF Locking
  <1> QED
    BY <1>1, <1>2

\* A sweep that locks a row takes no lock from a write.
LEMMA SweepRowLocking ==
  ASSUME Typing, Locking, NEW c \in Calls, NEW k \in Keys, SweepRow(c, k)
  PROVE  Locking'
  <1> SUFFICES ASSUME NEW d \in Calls PROVE HoldsLocks(d)'
    BY DEF Locking
  <1>1. \A j : rowLock[j] = d => rowLock'[j] = d
    BY SentinelAssumption, Types DEF Typing, SweepRow
  <1>2. Unaffected(d)
    BY DEF SweepRow, Unaffected
  <1> QED
    BY <1>1, <1>2, KeepsLocks DEF Locking, SweepRow

\* Every step leaves the calls past their locks the holders of these.
LEMMA NextLocking == Typing /\ Locking /\ [Next]_vars => Locking'
  <1> SUFFICES ASSUME Typing, Locking, [Next]_vars PROVE Locking'
    OBVIOUS
  <1>1. ASSUME NEW c \in Calls, Start(c) PROVE Locking'
    <2>1. /\ pc'[c] \in {"load", "delete", "sweep"}
          /\ \A d \in Calls \ {c} : pc'[d] = pc[d]
      BY <1>1, Types, FirstStep DEF Typing
    <2>2. \A d \in Calls \ {c} : Unaffected(d)
      BY <1>1, <2>1 DEF Start, Unaffected
    <2> QED
      BY <1>1, <2>1, <2>2, PrivateStep DEF Start, dbVars, Rechecked
  <1>2. ASSUME NEW c \in Calls,
               \/ LoadSnapshot(c) \/ Prepare(c) \/ BeginTx(c)
               \/ RefreshDocumentMetadata(c) \/ UpsertDocumentRow(c)
               \/ ReplaceDocumentChunks(c)
               \/ DeleteDocument(c) \/ AimDelete(c) \/ DeleteCollection(c)
               \/ SweepDone(c)
        PROVE  Locking'
    <2> USE DEF LoadSnapshot, Prepare, BeginTx, RefreshDocumentMetadata,
                UpsertDocumentRow, ReplaceDocumentChunks, DeleteDocument,
                AimDelete, DeleteCollection, SweepDone, dbVars, Goto
    <2>1. \/ pc'[c] \notin Rechecked \cup {"recheck"}
          \/ /\ pc[c] \in Rechecked /\ pc'[c] \in Rechecked
             /\ locked'[c] = locked[c]
      BY <1>2, Types DEF Typing, Rechecked
    <2>2. \A d \in Calls \ {c} : Unaffected(d)
      BY <1>2, Types DEF Typing, Unaffected
    <2>3. UNCHANGED <<documents, advisory, rowLock, req>>
      BY <1>2
    <2> QED
      BY <2>1, <2>2, <2>3, PrivateStep
  <1>3. ASSUME NEW c \in Calls, RecheckRestarts(c) \/ DeadlockVictim(c) \/ BackendExit(c)
        PROVE  Locking'
    <2> USE DEF RecheckRestarts, Restart, DeadlockVictim, BackendExit, Forget, Goto
    <2>1. pc'[c] \notin Rechecked \cup {"recheck"}
      BY <1>3, Types DEF Typing, Rechecked
    <2>2. \A d \in Calls \ {c} : Unaffected(d)
      BY <1>3, Types DEF Typing, Unaffected
    <2>3. EndTransaction(c) /\ UNCHANGED <<documents, req>>
      BY <1>3
    <2> QED
      BY <2>1, <2>2, <2>3, RollbackStep
  <1>4. ASSUME NEW c \in Calls, Fail(c) PROVE Locking'
    <2>1. \/ pc'[c] \notin Rechecked \cup {"recheck"}
          \/ pc[c] \in Rechecked /\ pc'[c] = pc[c]
      BY <1>4, Types DEF Typing, Fail, Goto, Rechecked
    <2>2. \A d \in Calls \ {c} : Unaffected(d)
      BY <1>4, Types DEF Typing, Fail, Goto, Unaffected
    <2> QED
      BY <1>4, <2>1, <2>2, PrivateStep DEF Fail
  <1>5. CASE Rollout \/ UNCHANGED vars
    BY <1>5 DEF Rollout, dbVars, vars, Locking, HoldsLocks
  <1> QED
    BY <1>1, <1>2, <1>3, <1>4, <1>5, AcquireLocking, RecheckPassesLocking,
       CommitLocking, DeleteLocking, SweepRowLocking
    DEF Next, Step, Terminated

\* What a write read FOR UPDATE is what it replaces: no other call, not even
\* a delete that takes no advisory lock, changes the row before the COMMIT.
THEOREM SnapshotStaysCurrent == Spec => []LockedSnapshotCurrent
  <1>1. Spec => [](Typing /\ Locking)
    BY InitTyping, NextTyping, InitLocking, NextLocking, PTL DEF Spec
  <1>2. Locking => LockedSnapshotCurrent
    BY DEF Locking, HoldsLocks, LockedSnapshotCurrent
  <1> QED
    BY <1>1, <1>2, PTL

\* Two writes of one document are never both between re-check and COMMIT.
THEOREM WritersExcludeEachOther == Spec => []WritersExclude
  <1>1. Spec => [](Typing /\ Locking)
    BY InitTyping, NextTyping, InitLocking, NextLocking, PTL DEF Spec
  <1>2. Locking => WritersExclude
    BY DEF Locking, HoldsLocks, WritersExclude, Rechecked
  <1> QED
    BY <1>1, <1>2, PTL

-----------------------------------------------------------------------------
(* A call that is over holds nothing.                                      *)

\* The steps at which a call has a connection and an open statement or
\* transaction.
InTransaction == {"lock", "recheck", "aim", "deleteRow", "sweepRows", "commitSweep"}
                   \cup Rechecked

\* The steps that a call whose client has an answer may still be at.
Answered == {"commit", "aim", "deleteRow", "commitSweep", "abandoned", "landed",
             "aborted"}

\* Locks belong to calls inside their transaction, or to backends that are
\* about to exit; connections to calls whose client waits.
Holding(c) ==
  /\ \A l \in LockKeys : advisory[l] = c =>
       pc[c] \in {"recheck", "abandoned"} \cup Rechecked
  /\ \A k \in Keys : rowLock[k] = c =>
       pc[c] \in {"sweepRows", "commitSweep", "abandoned"} \cup Rechecked
  /\ c \in conns => outcome[c] = "pending" /\ pc[c] \in InTransaction
  /\ pc[c] \notin Answered => outcome[c] = "pending"
  /\ pc[c] \notin {"landed", "aborted"} => outcome[c] \in {"pending", "error"}

AllHolding == \A c \in Calls : Holding(c)

\* Initially no call holds anything.
LEMMA InitHolding == Init => AllHolding
  BY SentinelAssumption
  DEF Init, DatabaseInit, AllHolding, Holding, Answered

\* What is left of a transaction that has ended.
LEMMA EndTransactionLeavesNothing ==
  ASSUME TypeOK, NEW c \in Calls, EndTransaction(c)
  PROVE  /\ \A l \in LockKeys : advisory'[l] # c
         /\ \A k \in Keys : rowLock'[k] # c
         /\ c \notin conns'
  BY SentinelAssumption, Types DEF EndTransaction

\* Every step leaves a call no more than it may hold where it is.
LEMMA NextHolding == Typing /\ AllHolding /\ [Next]_vars => AllHolding'
  <1> SUFFICES ASSUME Typing, AllHolding, [Next]_vars PROVE AllHolding'
    OBVIOUS
  <1> USE Types DEF Typing
  <1>1. ASSUME NEW c \in Calls, Start(c) \/ Step(c) \/ Fail(c), NEW d \in Calls \ {c}
        PROVE  Holding(d)'
    BY <1>1, OneCall DEF AllHolding, Holding, LocalsKept, SessionKept
  <1>2. ASSUME NEW c \in Calls, EndTransaction(c),
               \/ Restart(c)
               \/ pc'[c] \in {"landed", "aborted"},
               \/ pc[c] = "recheck"
               \/ pc'[c] \in {"landed", "aborted"}
        PROVE  Holding(c)'
    <2>1. CASE pc'[c] \in {"landed", "aborted"}
      BY <1>2, <2>1, EndTransactionLeavesNothing DEF Holding, Answered
    <2>2. CASE pc'[c] \notin {"landed", "aborted"}
      <3>1. outcome[c] = "pending"
        BY <1>2, <2>2 DEF AllHolding, Holding, Answered, Rechecked
      <3>2. pc'[c] = "load" /\ outcome' = outcome
        BY <1>2, <2>2 DEF Restart, Goto
      <3> QED
        BY <1>2, <3>1, <3>2, EndTransactionLeavesNothing DEF Holding
    <2> QED
      BY <2>1, <2>2
  <1>3. ASSUME NEW c \in Calls, Start(c) PROVE Holding(c)'
    <2>1. pc'[c] \in {"load", "delete", "sweep"}
      BY <1>3, FirstStep
    <2> QED
      BY <1>3, <2>1 DEF Start, dbVars, AllHolding, Holding, Rechecked, InTransaction, Answered
  <1>4. ASSUME NEW c \in Calls,
               \/ LoadSnapshot(c) \/ Prepare(c) \/ BeginTx(c) \/ AcquireDocumentWriteLock(c)
               \/ RefreshDocumentMetadata(c) \/ UpsertDocumentRow(c)
               \/ ReplaceDocumentChunks(c)
               \/ DeleteDocument(c) \/ AimDelete(c) \/ DeleteCollection(c) \/ SweepDone(c)
        PROVE  Holding(c)'
    BY <1>4
    DEF LoadSnapshot, Prepare, BeginTx, AcquireDocumentWriteLock, RefreshDocumentMetadata,
        UpsertDocumentRow, ReplaceDocumentChunks, DeleteDocument, AimDelete,
        DeleteCollection, SweepDone, AcquireConn, Goto, dbVars,
        AllHolding, Holding, Rechecked, InTransaction, Answered
  <1>5. ASSUME NEW c \in Calls, RecheckPasses(c) PROVE Holding(c)'
    <2>1. pc[c] = "recheck" /\ pc'[c] \in {"refresh", "upsertRow", "commit"}
      BY <1>5 DEF RecheckPasses, Goto, NextStep
    <2> QED
      BY <1>5, <2>1
      DEF RecheckPasses, AllHolding, Holding, Rechecked, InTransaction, Answered
  <1>6. ASSUME NEW c \in Calls, NEW k \in Keys, SweepRow(c, k) PROVE Holding(c)'
    BY <1>6 DEF SweepRow, AllHolding, Holding, Rechecked, InTransaction, Answered
  <1>7. ASSUME NEW c \in Calls,
               \/ Commit(c) \/ DeleteRow(c) \/ CommitSweep(c)
               \/ DeadlockVictim(c) \/ BackendExit(c)
        PROVE  Holding(c)'
    BY <1>2, <1>7 DEF Commit, DeleteRow, CommitSweep, Landed, DeadlockVictim, BackendExit, Goto
  <1>8. ASSUME NEW c \in Calls, RecheckRestarts(c) PROVE Holding(c)'
    BY <1>2, <1>8 DEF RecheckRestarts
  <1>9. ASSUME NEW c \in Calls, Fail(c) PROVE Holding(c)'
    <2>1. /\ outcome'[c] = "error" /\ c \notin conns'
          /\ UNCHANGED <<advisory, rowLock>>
      BY <1>9 DEF Fail, Return, CloseConn
    <2>2. CASE pc[c] \in {"load", "prepare", "begin", "delete", "sweep"}
      <3>1. pc'[c] = "aborted"
        BY <1>9, <2>2 DEF Fail, Goto
      <3> QED
        BY <2>1, <2>2, <3>1 DEF AllHolding, Holding, Rechecked, Answered
    <2>3. CASE pc[c] \in {"commit", "aim", "deleteRow", "commitSweep"}
      <3>1. pc'[c] = pc[c]
        BY <1>9, <2>3 DEF Fail, Goto
      <3> QED
        BY <2>1, <2>3, <3>1 DEF AllHolding, Holding, Answered
    <2>4. CASE pc[c] \notin {"load", "prepare", "begin", "delete", "sweep",
                             "commit", "aim", "deleteRow", "commitSweep"}
      <3>1. pc'[c] = "abandoned"
        BY <1>9, <2>4 DEF Fail, Goto
      <3> QED
        BY <2>1, <3>1 DEF AllHolding, Holding, Answered
    <2> QED
      BY <2>2, <2>3, <2>4
  <1>10. ASSUME NEW c \in Calls, Step(c) PROVE Holding(c)'
    BY <1>4, <1>5, <1>6, <1>7, <1>8, <1>10 DEF Step
  <1>11. CASE Rollout \/ UNCHANGED vars
    BY <1>11 DEF Rollout, dbVars, vars, AllHolding, Holding
  <1> QED
    BY <1>1, <1>3, <1>9, <1>10, <1>11 DEF Next, Terminated, AllHolding

\* However a call ended - by COMMIT, rollback, restart, deadlock or the loss of
\* its client - no lock and no connection of the pool stays with it.
THEOREM NothingIsLeaked == Spec => []NothingLeaked
  <1>1. Spec => [](Typing /\ AllHolding)
    BY InitTyping, NextTyping, InitHolding, NextHolding, PTL DEF Spec
  <1>2. AllHolding => NothingLeaked
    BY DEF AllHolding, Holding, NothingLeaked, OtherPcs, InTransaction, Rechecked
  <1> QED
    BY <1>1, <1>2, PTL

-----------------------------------------------------------------------------
(* The chunk rows are always those of their documents. *)

\* The rows are those of one cut of the document's content.
WellCut(row, rows) ==
  \E r \in Recipes :
    /\ rows = ChunkRows(row.internalID, row.contentHash, r, row.meta)
    /\ row.chunkCount = ChunkCount[row.contentHash][r]

\* A transaction that has written a document row, not yet committed.
Writing(c) ==
  pc[c] \in {"replaceChunks", "commit"} /\ pending[c].document # NoDocument

\* The row it wrote is the one it locked, or it has an id nobody else has.
PendingOK(c) ==
  LET row == pending[c].document
  IN  /\ row.internalID < nextID
      /\ locked[c] # NoDocument => row.internalID = locked[c].internalID
      /\ locked[c] = NoDocument =>
           \A k \in Keys : documents[k] # NoDocument =>
                             documents[k].internalID # row.internalID
      /\ pc[c] = "replaceChunks" =>
           row.contentHash = req[c].content /\ row.meta = req[c].meta
      /\ pc[c] = "commit" => WellCut(row, pending[c].chunks)

\* No two documents have an id in common, those being written included.
IdsUnique ==
  /\ \A k \in Keys : documents[k] # NoDocument => documents[k].internalID < nextID
  /\ \A j, k \in Keys :
       /\ documents[j] # NoDocument /\ documents[k] # NoDocument
       /\ documents[j].internalID = documents[k].internalID
       => j = k
  /\ \A c, d \in Calls :
       /\ Writing(c) /\ Writing(d)
       /\ pending[c].document.internalID = pending[d].document.internalID
       => c = d

PendingsOK == \A c \in Calls : Writing(c) => PendingOK(c)

Cutting == IdsUnique /\ PendingsOK /\ ChunksMatchDocument

\* All chunk rows made for a document carry its id.
LEMMA ChunkRowsIds ==
  ASSUME NEW id, NEW content, NEW r, NEW meta,
         NEW chunk \in ChunkRows(id, content, r, meta)
  PROVE  chunk.documentID = id
  BY DEF ChunkRows

\* To change the metadata of the rows of a cut is to cut with other metadata.
LEMMA RefreshedRows ==
  ASSUME NEW id, NEW content, NEW r, NEW old, NEW new
  PROVE  {[chunk EXCEPT !.meta = new] : chunk \in ChunkRows(id, content, r, old)}
           = ChunkRows(id, content, r, new)
  <1> DEFINE ns == 0 .. (ChunkCount[content][r] - 1)
             row(n, m) == [documentID |-> id, chunkNo |-> n, content |-> content,
                           recipe |-> r, meta |-> m]
  <1>1. \A n \in ns : [row(n, old) EXCEPT !.meta = new] = row(n, new)
    OBVIOUS
  <1> HIDE DEF ns
  <1>2. ChunkRows(id, content, r, old) = {row(n, old) : n \in ns}
    BY DEF ChunkRows, ns
  <1>3. ChunkRows(id, content, r, new) = {row(n, new) : n \in ns}
    BY DEF ChunkRows, ns
  <1> HIDE DEF row
  <1> QED
    BY <1>1, <1>2, <1>3

\* The documents a run starts from have their chunks.
LEMMA InitCutting == Init => Cutting
  <1> SUFFICES ASSUME Init PROVE Cutting
    OBVIOUS
  <1>1. PICK table \in Seeds : documents = table
    BY DEF Init, DatabaseInit
  <1>2. \A c \in Calls : ~Writing(c)
    BY DEF Init, Writing
  <1>3. IdsUnique
    BY <1>1, <1>2, SeedAssumption DEF Init, DatabaseInit, IdsUnique
  <1>4. ASSUME NEW k \in Keys, documents[k] # NoDocument
        PROVE  /\ ChunksOf(documents[k].internalID) =
                    ChunkRows(documents[k].internalID, documents[k].contentHash,
                              0, documents[k].meta)
               /\ documents[k].chunkCount = ChunkCount[documents[k].contentHash][0]
    <2>1. documents[k].chunkCount = ChunkCount[documents[k].contentHash][0]
      BY <1>1, <1>4, SeedAssumption
    <2>2. \A j \in Keys : documents[j] # NoDocument
                            /\ documents[j].internalID = documents[k].internalID => j = k
      BY <1>3, <1>4 DEF IdsUnique
    <2>3. ChunksOf(documents[k].internalID) =
            ChunkRows(documents[k].internalID, documents[k].contentHash,
                      0, documents[k].meta)
      BY <1>4, <2>2, ChunkRowsIds DEF ChunksOf, Init, DatabaseInit
    <2> QED
      BY <2>1, <2>3
  <1>5. 0 \in Recipes
    BY RecipeAssumption DEF Recipes
  <1>6. ChunksMatchDocument
    BY <1>4, <1>5, ChunkRowsIds DEF ChunksMatchDocument, Init, DatabaseInit
  <1> QED
    BY <1>2, <1>3, <1>6 DEF Cutting, PendingsOK

-----------------------------------------------------------------------------
\* Steps that write no row: no new document is under way, and no table moves.
LEMMA NoRowWritten ==
  ASSUME Cutting, UNCHANGED <<documents, chunks, nextID, req>>,
         \A d \in Calls : Writing(d)' =>
           /\ Writing(d)
           /\ pending'[d] = pending[d] /\ locked'[d] = locked[d] /\ pc'[d] = pc[d]
  PROVE  Cutting'
  <1>1. IdsUnique'
    BY DEF Cutting, IdsUnique, Writing
  <1>2. PendingsOK'
    BY DEF Cutting, PendingsOK, PendingOK, Writing, WellCut, ChunkRows
  <1>3. ChunksMatchDocument'
    BY DEF Cutting, ChunksMatchDocument, ChunksOf, ChunkRows
  <1> QED
    BY <1>1, <1>2, <1>3 DEF Cutting

\* The step of one call that leaves a document row in its transaction.
LEMMA RowWritten ==
  ASSUME Typing, Cutting, NEW c \in Calls,
         UNCHANGED <<documents, chunks, locked, req>>,
         nextID' \in Nat, nextID <= nextID',
         \A d \in Calls \ {c} : pc'[d] = pc[d] /\ pending'[d] = pending[d],
         PendingOK(c)',
         \A d \in Calls \ {c} : Writing(d) =>
           pending'[c].document.internalID # pending[d].document.internalID
  PROVE  Cutting'
  <1>1. \A d \in Calls \ {c} : Writing(d)' => Writing(d)
    BY DEF Writing
  <1>2. IdsUnique'
    <2>1. \A k \in Keys : documents[k] # NoDocument => documents[k].internalID \in Nat
      BY Types DEF Typing, Documents
    <2>2. \A k \in Keys : documents'[k] # NoDocument => documents'[k].internalID < nextID'
      BY <2>1, Types DEF Typing, Cutting, IdsUnique
    <2>3. \A d, e \in Calls :
            /\ Writing(d)' /\ Writing(e)'
            /\ pending'[d].document.internalID = pending'[e].document.internalID
            => d = e
      BY <1>1 DEF Cutting, IdsUnique
    <2> QED
      BY <2>2, <2>3 DEF Cutting, IdsUnique
  <1>3. ASSUME NEW d \in Calls, d # c, Writing(d)'
        PROVE  PendingOK(d)'
    <2>1. Writing(d) /\ PendingOK(d)
      BY <1>1, <1>3 DEF Cutting, PendingsOK
    <2>2. pending[d].document \in Documents
      BY <2>1, Types DEF Typing, Writing, Writes
    <2>3. pending[d].document.internalID < nextID'
      BY <2>1, <2>2, Types DEF Typing, PendingOK, Documents
    <2> QED
      BY <1>3, <2>1, <2>3 DEF PendingOK, WellCut, ChunkRows
  <1>4. PendingsOK'
    BY <1>3 DEF PendingsOK
  <1>5. ChunksMatchDocument'
    BY DEF Cutting, ChunksMatchDocument, ChunksOf, ChunkRows
  <1> QED
    BY <1>2, <1>4, <1>5 DEF Cutting

\* The document a write has locked is the one in the table.
LEMMA LockedRow ==
  ASSUME Typing, Locking, NEW c \in Calls, pc[c] \in Rechecked
  PROVE  /\ req[c].key \in Keys
         /\ req[c] \in WriteRequests
         /\ documents[req[c].key] = locked[c]
         /\ locked[c] \in Documents \cup {NoDocument}
  BY WriteTypes, Types DEF Typing, Locking, HoldsLocks, Rechecked, WritePcs

\* Two writes that are both past their re-check are about different documents.
LEMMA OtherKeys ==
  ASSUME Typing, Locking, NEW c \in Calls, NEW d \in Calls, c # d,
         pc[c] \in Rechecked, pc[d] \in Rechecked
  PROVE  req[c].key # req[d].key
  BY DEF Locking, HoldsLocks

\* The id of a locked row differs from that of every other row being written.
LEMMA LockedIdIsFree ==
  ASSUME Typing, Locking, Cutting, NEW c \in Calls, pc[c] \in Rechecked,
         locked[c] # NoDocument, NEW d \in Calls, c # d, Writing(d)
  PROVE  locked[c].internalID # pending[d].document.internalID
  <1>1. pc[d] \in Rechecked
    BY DEF Writing, Rechecked
  <1>2. PendingOK(d)
    BY DEF Cutting, PendingsOK
  <1>3. CASE locked[d] = NoDocument
    BY <1>2, <1>3, LockedRow DEF PendingOK
  <1>4. CASE locked[d] # NoDocument
    BY <1>1, <1>2, <1>4, LockedRow, OtherKeys DEF PendingOK, Cutting, IdsUnique
  <1> QED
    BY <1>3, <1>4

\* Refresh keeps chunks and documents together, stored or pending.
LEMMA RefreshCutting ==
  ASSUME Typing, Locking, Cutting, NEW c \in Calls, RefreshDocumentMetadata(c)
  PROVE  Cutting'
  <1> DEFINE row == locked[c]
             new == [row EXCEPT !.meta = req[c].meta, !.updatedAt = now[c]]
  <1>1. /\ row \in Documents /\ row # NoDocument
        /\ req[c].key \in Keys /\ documents[req[c].key] = row
    BY LockedRow, SentinelAssumption
    DEF Typing, StepsOK, RefreshDocumentMetadata, Rechecked
  <1>2. /\ new.internalID = row.internalID /\ new.contentHash = row.contentHash
        /\ new.meta = req[c].meta /\ new.chunkCount = row.chunkCount
    BY <1>1 DEF Documents
  <1>3. WellCut(row, ChunksOf(row.internalID))
    BY <1>1 DEF Cutting, ChunksMatchDocument, WellCut
  <1> HIDE DEF new
  <1>4. WellCut(new, RefreshedChunks(c))
    <2>1. PICK r \in Recipes :
            /\ ChunksOf(row.internalID) =
                 ChunkRows(row.internalID, row.contentHash, r, row.meta)
            /\ row.chunkCount = ChunkCount[row.contentHash][r]
      BY <1>3 DEF WellCut
    <2>2. RefreshedChunks(c) =
            ChunkRows(row.internalID, row.contentHash, r, req[c].meta)
      <3>1. RefreshedChunks(c) =
              {[chunk EXCEPT !.meta = req[c].meta] :
                 chunk \in ChunkRows(row.internalID, row.contentHash, r, row.meta)}
        BY <2>1 DEF RefreshedChunks
      <3>2. {[chunk EXCEPT !.meta = req[c].meta] :
               chunk \in ChunkRows(row.internalID, row.contentHash, r, row.meta)}
              = ChunkRows(row.internalID, row.contentHash, r, req[c].meta)
        BY RefreshedRows
      <3> QED
        BY <3>1, <3>2
    <2>3. RefreshedChunks(c) =
            ChunkRows(new.internalID, new.contentHash, r, new.meta)
      BY <1>2, <2>2
    <2>4. new.chunkCount = ChunkCount[new.contentHash][r]
      BY <1>2, <2>1
    <2> QED
      BY <2>3, <2>4 DEF WellCut
  <1>5. /\ pending'[c] = [document |-> new, chunks |-> RefreshedChunks(c)]
        /\ pc'[c] = "commit" /\ UNCHANGED <<documents, chunks, nextID, locked, req>>
        /\ \A d \in Calls \ {c} : pc'[d] = pc[d] /\ pending'[d] = pending[d]
    BY Types DEF Typing, RefreshDocumentMetadata, Goto, new
  <1>6. row.internalID < nextID
    BY <1>1 DEF Cutting, IdsUnique
  <1>7. PendingOK(c)'
    BY <1>1, <1>2, <1>4, <1>5, <1>6 DEF PendingOK, WellCut, ChunkRows
  <1>8. \A d \in Calls \ {c} : Writing(d) =>
          pending'[c].document.internalID # pending[d].document.internalID
    BY <1>1, <1>2, <1>5, LockedIdIsFree DEF RefreshDocumentMetadata, Rechecked
  <1> QED
    BY <1>5, <1>7, <1>8, RowWritten, Types DEF Typing

\* Upsert keeps chunks and documents together, stored or pending.
LEMMA UpsertCutting ==
  ASSUME Typing, Locking, Cutting, NEW c \in Calls, UpsertDocumentRow(c)
  PROVE  Cutting'
  <1> DEFINE found == documents[req[c].key]
             new == UpsertedRow(c, found)
  <1>1. req[c].key \in Keys /\ found = locked[c] /\ pc[c] \in Rechecked
    BY LockedRow DEF UpsertDocumentRow, Rechecked
  <1>2. /\ pending'[c].document = new
        /\ nextID' = IF found = NoDocument THEN nextID + 1 ELSE nextID
        /\ pc'[c] = "replaceChunks" /\ UNCHANGED <<documents, chunks, locked, req>>
        /\ \A d \in Calls \ {c} : pc'[d] = pc[d] /\ pending'[d] = pending[d]
    BY Types DEF Typing, UpsertDocumentRow, Goto
  <1>3. /\ new.internalID = IF found = NoDocument THEN nextID ELSE found.internalID
        /\ new.contentHash = req[c].content /\ new.meta = req[c].meta
    BY DEF UpsertedRow
  <1>4. nextID \in Nat
    BY Types DEF Typing
  <1>5. \A k \in Keys : documents[k] # NoDocument => documents[k].internalID < nextID
    BY DEF Cutting, IdsUnique
  <1>6. \A k \in Keys : documents[k] # NoDocument => documents[k].internalID \in Nat
    BY Types DEF Typing, Documents
  <1> HIDE DEF new
  <1>7. PendingOK(c)'
    <2>1. CASE found = NoDocument
      BY <1>1, <1>2, <1>3, <1>4, <1>5, <1>6, <2>1 DEF PendingOK
    <2>2. CASE found # NoDocument
      BY <1>1, <1>2, <1>3, <1>5, <2>2 DEF PendingOK
    <2> QED
      BY <2>1, <2>2
  <1>8. ASSUME NEW d \in Calls \ {c}, Writing(d)
        PROVE  pending'[c].document.internalID # pending[d].document.internalID
    <2>1. CASE found = NoDocument
      <3>1. pending[d].document \in Documents
        BY <1>8, Types DEF Typing, Writing, Writes
      <3>2. pending[d].document.internalID < nextID
        BY <1>8 DEF Cutting, PendingsOK, PendingOK
      <3> QED
        BY <1>2, <1>3, <1>4, <2>1, <3>1, <3>2 DEF Documents
    <2>2. CASE found # NoDocument
      BY <1>1, <1>2, <1>3, <1>8, <2>2, LockedIdIsFree
    <2> QED
      BY <2>1, <2>2
  <1>9. nextID' \in Nat /\ nextID <= nextID'
    BY <1>2, <1>4
  <1> QED
    BY <1>2, <1>7, <1>8, <1>9, RowWritten

\* Replace keeps chunks and documents together, stored or pending.
LEMMA ReplaceCutting ==
  ASSUME Typing, Locking, Cutting, NEW c \in Calls, ReplaceDocumentChunks(c)
  PROVE  Cutting'
  <1> DEFINE row == pending[c].document
             count == ChunkCount[req[c].content][prepared[c]]
             new == [row EXCEPT !.chunkCount = count, !.updatedAt = now[c]]
             rows == ChunkRows(row.internalID, req[c].content, prepared[c], req[c].meta)
  <1>1. /\ row \in Documents /\ row # NoDocument /\ prepared[c] \in Recipes
        /\ Writing(c)
    BY SentinelAssumption DEF Typing, StepsOK, ReplaceDocumentChunks, Writing
  <1>2. PendingOK(c)
    BY <1>1 DEF Cutting, PendingsOK
  <1>3. /\ new.internalID = row.internalID /\ new.contentHash = row.contentHash
        /\ new.meta = row.meta /\ new.chunkCount = count
    BY <1>1 DEF Documents
  <1>4. /\ pending'[c] = [document |-> new, chunks |-> rows]
        /\ pc'[c] = "commit" /\ UNCHANGED <<documents, chunks, nextID, locked, req>>
        /\ \A d \in Calls \ {c} : pc'[d] = pc[d] /\ pending'[d] = pending[d]
    BY Types DEF Typing, ReplaceDocumentChunks, Goto
  <1>5. row.contentHash = req[c].content /\ row.meta = req[c].meta
    BY <1>2 DEF PendingOK, ReplaceDocumentChunks
  <1>6. WellCut(new, rows)
    BY <1>1, <1>3, <1>5 DEF WellCut
  <1> HIDE DEF new, rows
  <1>7. PendingOK(c)'
    <2>1. /\ pending'[c].document = new /\ pending'[c].chunks = rows
          /\ pc'[c] = "commit" /\ locked' = locked /\ nextID' = nextID
          /\ documents' = documents
      BY <1>4
    <2>2. /\ row.internalID < nextID
          /\ locked[c] # NoDocument => row.internalID = locked[c].internalID
          /\ locked[c] = NoDocument =>
               \A k \in Keys : documents[k] # NoDocument =>
                                 documents[k].internalID # row.internalID
      BY <1>2 DEF PendingOK
    <2> HIDE DEF row
    <2> QED
      BY <1>3, <1>6, <2>1, <2>2 DEF PendingOK, WellCut, ChunkRows
  <1>8. \A d \in Calls \ {c} : Writing(d) =>
          pending'[c].document.internalID # pending[d].document.internalID
    BY <1>1, <1>3, <1>4 DEF Cutting, IdsUnique
  <1> QED
    BY <1>4, <1>7, <1>8, RowWritten, Types DEF Typing

\* Commit keeps chunks and documents together, stored or pending.
LEMMA CommitCutting ==
  ASSUME Typing, Locking, Cutting, NEW c \in Calls, Commit(c)
  PROVE  Cutting'
  <1> DEFINE k == req[c].key
             row == pending[c].document
  <1>1. /\ EndTransaction(c) /\ UNCHANGED <<nextID, req>>
        /\ pc' = [pc EXCEPT ![c] = "landed"]
        /\ \A d \in Calls \ {c} : locked'[d] = locked[d]
    BY Types DEF Typing, Commit, Landed, Goto, Forget
  <1>2. \A d \in Calls : Writing(d)' =>
          /\ d # c /\ Writing(d)
          /\ pending'[d] = pending[d] /\ locked'[d] = locked[d] /\ pc'[d] = pc[d]
    BY <1>1, Types DEF Typing, Writing, EndTransaction
  <1>3. CASE row = NoDocument
    BY <1>1, <1>2, <1>3, NoRowWritten DEF Commit, StoreRows, tables
  <1>4. CASE row # NoDocument
    <2>1. Writing(c) /\ PendingOK(c) /\ WellCut(row, pending[c].chunks)
      BY <1>4 DEF Writing, Cutting, PendingsOK, PendingOK, Commit
    <2>2. /\ k \in Keys /\ documents[k] = locked[c] /\ pc[c] \in Rechecked
      BY LockedRow DEF Commit, Rechecked
    <2>3. /\ documents'[k] = row
          /\ \A j \in Keys \ {k} : documents'[j] = documents[j]
          /\ chunks' = (chunks \ ChunksOf(row.internalID)) \cup pending[c].chunks
      BY <1>4, <2>2, Types DEF Typing, Commit, StoreRows
    <2>4. \A j \in Keys \ {k} : documents[j] # NoDocument =>
            documents[j].internalID # row.internalID
      BY <2>1, <2>2 DEF PendingOK, Cutting, IdsUnique
    <2>5. \A chunk \in pending[c].chunks : chunk.documentID = row.internalID
      BY <2>1, ChunkRowsIds DEF WellCut
    <2>6. IdsUnique'
      <3>1. \A j \in Keys : documents'[j] # NoDocument => documents'[j].internalID < nextID
        BY <2>1, <2>3 DEF Cutting, IdsUnique, PendingOK
      <3>2. \A i, j \in Keys :
              /\ documents'[i] # NoDocument /\ documents'[j] # NoDocument
              /\ documents'[i].internalID = documents'[j].internalID
              => i = j
        BY <2>3, <2>4 DEF Cutting, IdsUnique
      <3>3. \A d, e \in Calls :
              /\ Writing(d)' /\ Writing(e)'
              /\ pending'[d].document.internalID = pending'[e].document.internalID
              => d = e
        BY <1>2 DEF Cutting, IdsUnique
      <3> QED
        BY <1>1, <3>1, <3>2, <3>3 DEF IdsUnique
    <2>7. ASSUME NEW d \in Calls, Writing(d)' PROVE PendingOK(d)'
      <3>1. Writing(d) /\ d # c /\ PendingOK(d)
        BY <1>2, <2>7 DEF Cutting, PendingsOK
      <3>2. pending[d].document.internalID # row.internalID
        BY <2>1, <3>1 DEF Cutting, IdsUnique
      <3>3. locked[d] = NoDocument =>
              \A j \in Keys : documents'[j] # NoDocument =>
                documents'[j].internalID # pending[d].document.internalID
        BY <2>3, <3>1, <3>2 DEF PendingOK
      <3> QED
        BY <1>1, <1>2, <2>7, <3>1, <3>3 DEF PendingOK, WellCut, ChunkRows
    <2>8. ASSUME NEW j \in Keys, documents'[j] # NoDocument
          PROVE  WellCut(documents'[j],
                         {chunk \in chunks' : chunk.documentID = documents'[j].internalID})
      <3>1. CASE j = k
        <4>1. {chunk \in chunks' : chunk.documentID = row.internalID} = pending[c].chunks
          BY <2>3, <2>5 DEF ChunksOf
        <4> QED
          BY <2>1, <2>3, <3>1, <4>1
      <3>2. CASE j # k
        <4>1. {chunk \in chunks' : chunk.documentID = documents[j].internalID}
                = ChunksOf(documents[j].internalID)
          BY <2>3, <2>4, <2>5, <2>8, <3>2 DEF ChunksOf
        <4>2. documents'[j] = documents[j]
          BY <2>3, <3>2
        <4>3. WellCut(documents[j], ChunksOf(documents[j].internalID))
          BY <2>8, <4>2 DEF Cutting, ChunksMatchDocument, WellCut
        <4> QED
          BY <4>1, <4>2, <4>3
      <3> QED
        BY <3>1, <3>2
    <2>9. ASSUME NEW chunk \in chunks'
          PROVE  \E j \in Keys : /\ documents'[j] # NoDocument
                                 /\ documents'[j].internalID = chunk.documentID
      <3>1. CASE chunk \in pending[c].chunks
        BY <1>4, <2>2, <2>3, <2>5, <3>1
      <3>2. CASE chunk \in chunks /\ chunk.documentID # row.internalID
        <4>1. PICK j \in Keys : /\ documents[j] # NoDocument
                                /\ documents[j].internalID = chunk.documentID
          BY <3>2 DEF Cutting, ChunksMatchDocument
        <4>2. j # k
          BY <2>1, <2>2, <3>2, <4>1 DEF PendingOK
        <4> QED
          BY <2>3, <4>1, <4>2
      <3> QED
        BY <2>3, <2>9, <3>1, <3>2 DEF ChunksOf
    <2>10. ChunksMatchDocument'
      BY <2>8, <2>9 DEF ChunksMatchDocument, WellCut, ChunksOf, ChunkRows
    <2> QED
      BY <2>6, <2>7, <2>10 DEF Cutting, PendingsOK
  <1> QED
    BY <1>3, <1>4

\* A delete takes the chunk rows of its documents and no others.
LEMMA DeleteCutting ==
  ASSUME Typing, Cutting, NEW c \in Calls, NEW gone, DeleteRows(gone), gone \subseteq Keys,
         UNCHANGED <<nextID, req>>,
         \A d \in Calls : Writing(d)' =>
           /\ Writing(d)
           /\ pending'[d] = pending[d] /\ locked'[d] = locked[d] /\ pc'[d] = pc[d]
  PROVE  Cutting'
  <1>1. \A k \in Keys : documents'[k] # NoDocument =>
          k \notin gone /\ documents'[k] = documents[k]
    BY DEF DeleteRows
  <1>2. IdsUnique'
    BY <1>1 DEF Cutting, IdsUnique, Writing
  <1>3. ASSUME NEW d \in Calls, Writing(d)' PROVE PendingOK(d)'
    BY <1>1, <1>3 DEF Cutting, PendingsOK, PendingOK, WellCut, ChunkRows
  <1>4. ASSUME NEW k \in Keys, documents'[k] # NoDocument
        PROVE  WellCut(documents'[k],
                       {chunk \in chunks' : chunk.documentID = documents'[k].internalID})
    <2>1. \A j \in gone : documents[j] = NoDocument
                            \/ documents[j].internalID # documents[k].internalID
      BY <1>1, <1>4 DEF Cutting, IdsUnique
    <2>2. {chunk \in chunks' : chunk.documentID = documents[k].internalID}
            = ChunksOf(documents[k].internalID)
      BY <2>1 DEF DeleteRows, ChunksOf
    <2>3. WellCut(documents[k], ChunksOf(documents[k].internalID))
      BY <1>1, <1>4 DEF Cutting, ChunksMatchDocument, WellCut
    <2> QED
      BY <1>1, <1>4, <2>2, <2>3
  <1>5. ASSUME NEW chunk \in chunks'
        PROVE  \E k \in Keys : /\ documents'[k] # NoDocument
                               /\ documents'[k].internalID = chunk.documentID
    <2>1. chunk \in chunks
      BY <1>5 DEF DeleteRows
    <2>2. PICK k \in Keys : /\ documents[k] # NoDocument
                            /\ documents[k].internalID = chunk.documentID
      BY <2>1 DEF Cutting, ChunksMatchDocument
    <2>3. k \notin gone
      BY <1>5, <2>2 DEF DeleteRows
    <2> QED
      BY <2>2, <2>3 DEF DeleteRows
  <1>6. ChunksMatchDocument'
    BY <1>4, <1>5 DEF ChunksMatchDocument, WellCut, ChunksOf, ChunkRows
  <1> QED
    BY <1>2, <1>3, <1>6 DEF Cutting, PendingsOK

\* The calls that write a row after a step that ends a call wrote it before.
LEMMA LandedWriters ==
  ASSUME Typing, NEW c \in Calls, Landed(c), NEW d \in Calls, Writing(d)'
  PROVE  /\ Writing(d)
         /\ pending'[d] = pending[d] /\ locked'[d] = locked[d] /\ pc'[d] = pc[d]
  BY Types DEF Typing, Landed, Goto, Forget, EndTransaction, Writing

\* Every step keeps chunks and documents together, stored or pending.
LEMMA NextCutting == Typing /\ Locking /\ Cutting /\ [Next]_vars => Cutting'
  <1> SUFFICES ASSUME Typing, Locking, Cutting, [Next]_vars PROVE Cutting'
    OBVIOUS
  <1>1. ASSUME NEW c \in Calls,
               \/ LoadSnapshot(c) \/ Prepare(c) \/ BeginTx(c)
               \/ AcquireDocumentWriteLock(c)
               \/ DeleteDocument(c) \/ AimDelete(c) \/ DeleteCollection(c)
               \/ SweepDone(c) \/ \E k \in Keys : SweepRow(c, k)
        PROVE  Cutting'
    <2> USE DEF LoadSnapshot, Prepare, BeginTx, AcquireDocumentWriteLock,
                DeleteDocument, AimDelete, DeleteCollection, SweepDone, SweepRow,
                dbVars, Goto
    <2>1. \A d \in Calls : Writing(d)' =>
            /\ Writing(d)
            /\ pending'[d] = pending[d] /\ locked'[d] = locked[d] /\ pc'[d] = pc[d]
      BY <1>1, Types DEF Typing, Writing
    <2>2. UNCHANGED <<documents, chunks, nextID, req>>
      BY <1>1
    <2> QED
      BY <2>1, <2>2, NoRowWritten
  <1>2. ASSUME NEW c \in Calls, Start(c) PROVE Cutting'
    <2>1. \A d \in Calls : Writing(d)' =>
            /\ Writing(d)
            /\ pending'[d] = pending[d] /\ locked'[d] = locked[d] /\ pc'[d] = pc[d]
      BY <1>2, Types, FirstStep DEF Typing, Start, dbVars, Writing
    <2> QED
      BY <1>2, <2>1, NoRowWritten DEF Start, dbVars
  <1>3. ASSUME NEW c \in Calls, RecheckPasses(c) PROVE Cutting'
    <2>1. pending[c].document = NoDocument
      BY <1>3 DEF Typing, StepsOK, RecheckPasses, Unwritten, NothingWritten
    <2>2. \A d \in Calls : Writing(d)' =>
            /\ Writing(d)
            /\ pending'[d] = pending[d] /\ locked'[d] = locked[d] /\ pc'[d] = pc[d]
      BY <1>3, <2>1, Types DEF Typing, RecheckPasses, Goto, Writing
    <2> QED
      BY <1>3, <2>2, NoRowWritten DEF RecheckPasses
  <1>4. ASSUME NEW c \in Calls,
               \/ RecheckRestarts(c) \/ DeadlockVictim(c) \/ BackendExit(c)
        PROVE  Cutting'
    <2> USE DEF RecheckRestarts, Restart, DeadlockVictim, BackendExit, Forget, Goto
    <2>1. \A d \in Calls : Writing(d)' =>
            /\ Writing(d)
            /\ pending'[d] = pending[d] /\ locked'[d] = locked[d] /\ pc'[d] = pc[d]
      BY <1>4, Types DEF Typing, Writing, EndTransaction
    <2>2. UNCHANGED <<documents, chunks, nextID, req>>
      BY <1>4
    <2> QED
      BY <2>1, <2>2, NoRowWritten
  <1>5. ASSUME NEW c \in Calls, Fail(c) PROVE Cutting'
    <2>1. \A d \in Calls : Writing(d)' =>
            /\ Writing(d)
            /\ pending'[d] = pending[d] /\ locked'[d] = locked[d] /\ pc'[d] = pc[d]
      BY <1>5, Types DEF Typing, Fail, Goto, Writing
    <2> QED
      BY <1>5, <2>1, NoRowWritten DEF Fail
  <1>6. ASSUME NEW c \in Calls, DeleteRow(c) \/ CommitSweep(c) PROVE Cutting'
    <2>1. PICK gone \in SUBSET Keys : DeleteRows(gone)
      BY <1>6 DEF DeleteRow, CommitSweep, Wanted
    <2> QED
      BY <1>6, <2>1, DeleteCutting, LandedWriters DEF DeleteRow, CommitSweep
  <1>7. CASE Rollout \/ UNCHANGED vars
    BY <1>7, NoRowWritten DEF Rollout, dbVars, vars, Writing
  <1> QED
    BY <1>1, <1>2, <1>3, <1>4, <1>5, <1>6, <1>7, RefreshCutting, UpsertCutting,
       ReplaceCutting, CommitCutting
    DEF Next, Step, Terminated

\* Each document row has exactly the chunk rows of its own content, cut by one
\* recipe, and no chunk row is without its document.
THEOREM ChunksAlwaysMatch == Spec => []ChunksMatchDocument
  <1>1. Spec => [](Typing /\ Locking /\ Cutting)
    BY InitTyping, NextTyping, InitLocking, NextLocking, InitCutting, NextCutting,
       PTL DEF Spec
  <1> QED
    BY <1>1, PTL DEF Cutting

-----------------------------------------------------------------------------
(* What a delete has removed stays removed.                                *)

\* What a delete knows: ids that were handed out before it looked; a sweep has
\* locked only rows it is to remove, all of them when it commits; and once it
\* landed none of them is there.
Removing(c) ==
  /\ pc[c] \in WritePcs \cup {"idle"} => target[c] = {}
  /\ \A id \in target[c] : id < nextID
  /\ pc[c] \in {"sweepRows", "commitSweep"} =>
       \A k \in Keys : rowLock[k] = c => k \in Wanted(c)
  /\ pc[c] = "commitSweep" => AllSwept(c)
  /\ pc[c] = "landed" => Wanted(c) = {}

AllRemoving == \A c \in Calls : Removing(c)

\* A row about to be inserted is none that a delete has found.
Fresh ==
  \A c, d \in Calls : Writing(d) /\ locked[d] = NoDocument =>
    pending[d].document.internalID \notin target[c]

\* Initially nothing is being removed, and all ids are old.
LEMMA InitRemoving == Init => AllRemoving /\ Fresh
  BY DEF Init, DatabaseInit, AllRemoving, Removing, Fresh, Writing

\* Who writes a row after a step wrote it before, or has just begun to.
LEMMA Writers ==
  ASSUME Typing, NEW c \in Calls, Start(c) \/ Step(c) \/ Fail(c),
         NEW d \in Calls, Writing(d)'
  PROVE  \/ /\ Writing(d) /\ locked'[d] = locked[d]
            /\ pending'[d].document.internalID = pending[d].document.internalID
         \/ c = d /\ RefreshDocumentMetadata(d)
         \/ c = d /\ UpsertDocumentRow(d)
  <1> USE Types DEF Typing, Goto, Return, Forget
  <1>1. CASE c # d
    BY <1>1, OneCall DEF LocalsKept, SessionKept, Writing
  <1>2. CASE c = d /\ ReplaceDocumentChunks(c)
    <2>1. pending[c].document \in Documents /\ pending[c].document # NoDocument
      BY <1>2, SentinelAssumption DEF StepsOK, ReplaceDocumentChunks
    <2> DEFINE new == [pending[c].document EXCEPT
                         !.chunkCount = ChunkCount[req[c].content][prepared[c]],
                         !.updatedAt = now[c]]
    <2>2. new.internalID = pending[c].document.internalID
      BY <2>1 DEF Documents
    <2>3. pending'[c].document = new /\ locked' = locked /\ pc[c] = "replaceChunks"
      BY <1>2 DEF ReplaceDocumentChunks
    <2> QED
      BY <1>2, <2>1, <2>2, <2>3 DEF Writing
  <1>3. CASE c = d /\ RecheckPasses(c)
    BY <1>3 DEF RecheckPasses, StepsOK, Unwritten, NothingWritten, Writing
  <1>4. CASE c = d /\ Fail(c)
    BY <1>4 DEF Fail, Writing
  <1>5. CASE c = d /\ Start(c)
    <2>1. pc'[c] \in {"load", "delete", "sweep"}
      BY <1>5, FirstStep
    <2> QED
      BY <1>5, <2>1 DEF Writing
  <1>6. CASE c = d /\ (\/ LoadSnapshot(c) \/ Prepare(c) \/ BeginTx(c)
                       \/ AcquireDocumentWriteLock(c) \/ DeleteDocument(c)
                       \/ AimDelete(c) \/ DeleteCollection(c) \/ SweepDone(c)
                       \/ \E k \in Keys : SweepRow(c, k))
    BY <1>6 DEF LoadSnapshot, Prepare, BeginTx, AcquireDocumentWriteLock, DeleteDocument,
                AimDelete, DeleteCollection, SweepDone, SweepRow, Writing
  <1>7. CASE c = d /\ (\/ RecheckRestarts(c) \/ Commit(c) \/ DeleteRow(c)
                       \/ CommitSweep(c) \/ DeadlockVictim(c) \/ BackendExit(c))
    BY <1>7 DEF RecheckRestarts, Restart, Commit, DeleteRow, CommitSweep, DeadlockVictim,
                BackendExit, Landed, Writing
  <1> QED
    BY <1>1, <1>2, <1>3, <1>4, <1>5, <1>6, <1>7 DEF Step

\* The rows there are after a step were there before, under the same id, or
\* have just been inserted.
LEMMA NewRows ==
  ASSUME Typing, Locking, Cutting, NEW c \in Calls, Start(c) \/ Step(c) \/ Fail(c),
         NEW k \in Keys, documents'[k] # NoDocument
  PROVE  \/ /\ documents[k] # NoDocument
            /\ documents'[k].internalID = documents[k].internalID
         \/ /\ Commit(c) /\ Writing(c) /\ locked[c] = NoDocument
            /\ documents'[k].internalID = pending[c].document.internalID
  <1>1. CASE Commit(c)
    <2> DEFINE row == pending[c].document
    <2>1. /\ req[c].key \in Keys /\ documents[req[c].key] = locked[c]
      BY <1>1, LockedRow DEF Commit, Rechecked
    <2>2. CASE row = NoDocument
      BY <1>1, <2>2 DEF Commit, StoreRows, tables
    <2>3. CASE row # NoDocument
      <3>1. Writing(c) /\ PendingOK(c)
        BY <1>1, <2>3 DEF Commit, Writing, Cutting, PendingsOK
      <3>2. documents' = [documents EXCEPT ![req[c].key] = row]
        BY <1>1, <2>3 DEF Commit, StoreRows
      <3> QED
        BY <1>1, <2>1, <3>1, <3>2, Types DEF Typing, PendingOK
    <2> QED
      BY <2>2, <2>3
  <1>2. CASE DeleteRow(c) \/ CommitSweep(c)
    BY <1>2 DEF DeleteRow, CommitSweep, DeleteRows
  <1>3. CASE ~Commit(c) /\ ~DeleteRow(c) /\ ~CommitSweep(c)
    BY <1>3, TablesKept DEF tables
  <1> QED
    BY <1>1, <1>2, <1>3

\* The only steps by which a delete looks for its rows.
LEMMA TargetKept ==
  ASSUME NEW c \in Calls, Start(c) \/ Step(c) \/ Fail(c),
         ~AimDelete(c), ~DeleteCollection(c)
  PROVE  target' = target
  BY DEF Start, Step, Fail, LoadSnapshot, Prepare, BeginTx, AcquireDocumentWriteLock,
         RecheckPasses, RecheckRestarts, RefreshDocumentMetadata, UpsertDocumentRow,
         ReplaceDocumentChunks, Commit, DeleteDocument, DeleteRow, SweepRow, SweepDone,
         CommitSweep, DeadlockVictim, BackendExit

\* Ids are handed out in growing order.
LEMMA NextIDGrows ==
  ASSUME Typing, NEW c \in Calls, Start(c) \/ Step(c) \/ Fail(c)
  PROVE  nextID' \in Nat /\ nextID <= nextID'
  <1>1. nextID \in Nat
    BY Types DEF Typing
  <1>2. nextID' \in {nextID, nextID + 1}
    BY DEF Start, Step, Fail, LoadSnapshot, Prepare, BeginTx, AcquireDocumentWriteLock,
           RecheckPasses, RecheckRestarts, RefreshDocumentMetadata, UpsertDocumentRow,
           ReplaceDocumentChunks, Commit, DeleteDocument, AimDelete, DeleteRow,
           DeleteCollection, SweepRow, SweepDone, CommitSweep, DeadlockVictim,
           BackendExit, dbVars
  <1> QED
    BY <1>1, <1>2

\* The rows a delete finds, by their ids.
LEMMA AimedAt ==
  ASSUME Typing, NEW c \in Calls, AimDelete(c) \/ DeleteCollection(c)
  PROVE  /\ Named(c) \subseteq Keys
         /\ target'[c] = {documents[k].internalID :
                            k \in {j \in Named(c) : documents[j] # NoDocument}}
         /\ \A d \in Calls \ {c} : target'[d] = target[d]
         /\ UNCHANGED <<documents, chunks, rowLock, nextID, req>>
  <1>1. req[c].op # "deleteCollection" => req[c].key \in Keys
    BY Types
    DEF Typing, StepsOK, AimDelete, DeleteCollection, DeleteRequests, SweepRequests,
        DeletePcs, SweepPcs
  <1>2. Named(c) \subseteq Keys
    BY <1>1 DEF Named
  <1> QED
    BY <1>2, Types DEF Typing, AimDelete, DeleteCollection, dbVars

\* A step of one call keeps the ids about to be inserted apart from those that deletes have found.
LEMMA NextFresh ==
  ASSUME Typing, Locking, Cutting, AllRemoving, Fresh,
         NEW x \in Calls, Start(x) \/ Step(x) \/ Fail(x)
  PROVE  Fresh'
  <1> SUFFICES ASSUME NEW c \in Calls, NEW d \in Calls, Writing(d)', locked'[d] = NoDocument
               PROVE  pending'[d].document.internalID \notin target'[c]
    BY DEF Fresh
  <1> DEFINE id == pending'[d].document.internalID
  <1>1. CASE AimDelete(x) \/ DeleteCollection(x)
    <2>1. /\ Writing(d) /\ locked[d] = NoDocument
          /\ id = pending[d].document.internalID
      BY <1>1, Writers
      DEF AimDelete, DeleteCollection, RefreshDocumentMetadata, UpsertDocumentRow
    <2>2. \A k \in Keys : documents[k] # NoDocument => documents[k].internalID # id
      BY <2>1 DEF Cutting, PendingsOK, PendingOK
    <2>3. CASE c = x
      BY <1>1, <2>2, <2>3, AimedAt
    <2>4. CASE c # x
      BY <1>1, <2>1, <2>4, AimedAt DEF Fresh
    <2> QED
      BY <2>3, <2>4
  <1>2. CASE ~AimDelete(x) /\ ~DeleteCollection(x)
    <2>1. target' = target
      BY <1>2, TargetKept
    <2>2. CASE Writing(d) /\ locked'[d] = locked[d] /\ id = pending[d].document.internalID
      BY <2>1, <2>2 DEF Fresh
    <2>3. CASE RefreshDocumentMetadata(d)
      BY <2>3, SentinelAssumption DEF RefreshDocumentMetadata, Typing, StepsOK
    <2>4. CASE UpsertDocumentRow(d)
      <3>1. documents[req[d].key] = NoDocument
        BY <2>4, LockedRow DEF UpsertDocumentRow, Rechecked
      <3>2. id = nextID
        BY <2>4, <3>1, Types DEF Typing, UpsertDocumentRow, UpsertedRow
      <3>3. \A i \in target[c] : i < nextID
        BY DEF AllRemoving, Removing
      <3> QED
        BY <2>1, <3>2, <3>3, Types DEF Typing
    <2> QED
      BY <2>2, <2>3, <2>4, Writers
  <1> QED
    BY <1>1, <1>2

\* No step gives a delete more rows to remove, but the one that looks for them.
LEMMA WantedShrinks ==
  ASSUME Typing, Locking, Cutting, Fresh, NEW x \in Calls, Start(x) \/ Step(x) \/ Fail(x),
         NEW c \in Calls, target'[c] = target[c]
  PROVE  Wanted(c)' \subseteq Wanted(c)
  <1> SUFFICES ASSUME NEW k \in Keys, documents'[k] # NoDocument,
                      documents'[k].internalID \in target[c]
               PROVE  /\ documents[k] # NoDocument
                      /\ documents[k].internalID \in target[c]
    BY DEF Wanted
  <1> QED
    BY NewRows DEF Fresh

\* Nobody but the call itself removes a row that a sweep has locked.
LEMMA LockedRowsStay ==
  ASSUME Typing, Locking, Cutting, NEW x \in Calls, Start(x) \/ Step(x) \/ Fail(x),
         NEW c \in Calls \ {x}, NEW k \in Keys, rowLock[k] = c, documents[k] # NoDocument
  PROVE  documents'[k] = documents[k]
  <1>1. CASE Commit(x)
    <2>1. /\ req[x].key \in Keys /\ documents[req[x].key] = locked[x]
          /\ locked[x] # NoDocument => rowLock[req[x].key] = x
      BY <1>1, LockedRow DEF Commit, Rechecked, Locking, HoldsLocks
    <2>2. req[x].key # k
      BY <2>1
    <2> QED
      BY <1>1, <2>2, Types DEF Typing, Commit, StoreRows, tables
  <1>2. CASE DeleteRow(x)
    <2>1. k \notin Wanted(x)
      BY <1>2, SentinelAssumption DEF DeleteRow, RowFree
    <2> QED
      BY <1>2, <2>1 DEF DeleteRow, DeleteRows
  <1>3. CASE CommitSweep(x)
    BY <1>3 DEF CommitSweep, DeleteRows
  <1>4. CASE ~Commit(x) /\ ~DeleteRow(x) /\ ~CommitSweep(x)
    BY <1>4, TablesKept DEF tables
  <1> QED
    BY <1>1, <1>2, <1>3, <1>4

\* A step of another call leaves a delete what it knows.
LEMMA OthersRemoving ==
  ASSUME Typing, Locking, Cutting, Fresh, NEW x \in Calls, Start(x) \/ Step(x) \/ Fail(x),
         NEW c \in Calls \ {x}, Removing(c)
  PROVE  Removing(c)'
  <1>1. /\ LocalsKept(c) /\ SessionKept(c) /\ target'[c] = target[c]
        /\ nextID' \in Nat /\ nextID <= nextID' /\ nextID \in Nat
        /\ target[c] \subseteq Nat
    BY OneCall, NextIDGrows, Types DEF LocalsKept, Typing
  <1>2. Wanted(c)' \subseteq Wanted(c)
    BY <1>1, WantedShrinks
  <1>3. \A id \in target'[c] : id < nextID'
    BY <1>1 DEF Removing
  <1>4. pc[c] \in {"sweepRows", "commitSweep"} =>
          \A k \in Keys : rowLock'[k] = c => k \in Wanted(c)'
    <2> SUFFICES ASSUME pc[c] \in {"sweepRows", "commitSweep"}, NEW k \in Keys,
                        rowLock'[k] = c
                 PROVE  k \in Wanted(c)'
      OBVIOUS
    <2>1. rowLock[k] = c /\ k \in Wanted(c)
      BY <1>1 DEF SessionKept, Removing
    <2>2. documents'[k] = documents[k]
      BY <2>1, LockedRowsStay DEF Wanted
    <2> QED
      BY <1>1, <2>1, <2>2 DEF Wanted
  <1>5. pc[c] = "commitSweep" => \A k \in Wanted(c)' : rowLock'[k] = c
    BY <1>1, <1>2 DEF Removing, AllSwept, SessionKept, Wanted
  <1> QED
    BY <1>1, <1>2, <1>3, <1>4, <1>5 DEF Removing, LocalsKept, AllSwept

\* The steps of a call that is not over, and changes no table.
LEMMA OwnRemoving ==
  ASSUME Typing, AllHolding, NEW c \in Calls, Start(c) \/ Step(c) \/ Fail(c), Removing(c),
         ~AimDelete(c), ~DeleteCollection(c),
         ~Commit(c), ~DeleteRow(c), ~CommitSweep(c)
  PROVE  Removing(c)'
  <1> USE Types DEF Typing, Goto
  <1>1. /\ target' = target /\ UNCHANGED <<documents, chunks>>
        /\ nextID' \in Nat /\ nextID <= nextID' /\ nextID \in Nat
        /\ target[c] \subseteq Nat
    BY TargetKept, TablesKept, NextIDGrows DEF tables
  <1>2. Wanted(c)' = Wanted(c) /\ \A id \in target'[c] : id < nextID'
    BY <1>1 DEF Wanted, Removing
  <1>3. ASSUME pc[c] \in WritePcs \cup {"idle"},
               pc'[c] \notin {"sweepRows", "commitSweep", "landed"}
        PROVE  Removing(c)'
    BY <1>1, <1>2, <1>3 DEF Removing
  <1>4. ASSUME pc'[c] \notin WritePcs \cup {"idle", "sweepRows", "commitSweep", "landed"}
        PROVE  Removing(c)'
    BY <1>2, <1>4 DEF Removing
  <1>5. CASE Start(c)
    BY <1>3, <1>5, FirstStep, ZenonT(30) DEF Start
  <1>6. CASE \/ LoadSnapshot(c) \/ Prepare(c) \/ BeginTx(c) \/ AcquireDocumentWriteLock(c)
             \/ RefreshDocumentMetadata(c) \/ UpsertDocumentRow(c)
             \/ ReplaceDocumentChunks(c)
    BY <1>3, <1>6 DEF LoadSnapshot, Prepare, BeginTx, AcquireDocumentWriteLock,
       RefreshDocumentMetadata, UpsertDocumentRow, ReplaceDocumentChunks, WritePcs
  <1>7. CASE RecheckPasses(c)
    BY <1>3, <1>7 DEF RecheckPasses, NextStep, WritePcs
  <1>8. CASE RecheckRestarts(c)
    BY <1>3, <1>8 DEF RecheckRestarts, Restart, WritePcs
  <1>9. CASE DeleteDocument(c) \/ DeadlockVictim(c) \/ BackendExit(c)
    BY <1>4, <1>9 DEF DeleteDocument, DeadlockVictim, BackendExit, WritePcs
  <1>10. ASSUME NEW k \in Keys, SweepRow(c, k) PROVE Removing(c)'
    <2>1. pc[c] = "sweepRows" /\ pc' = pc /\ k \in Wanted(c)
          /\ \A j \in Keys : rowLock'[j] = c => j = k \/ rowLock[j] = c
      BY <1>10 DEF SweepRow
    <2> QED
      BY <1>2, <2>1 DEF Removing, WritePcs
  <1>11. CASE SweepDone(c)
    <2>1. pc[c] = "sweepRows" /\ pc'[c] = "commitSweep" /\ rowLock' = rowLock /\ AllSwept(c)
      BY <1>11 DEF SweepDone, dbVars
    <2> QED
      BY <1>2, <2>1 DEF Removing, AllSwept, WritePcs
  <1>12. CASE Fail(c)
    <2>1. pc'[c] \in {"aborted", "abandoned"} \/ (pc'[c] = pc[c] /\ pc[c] # "landed")
      BY <1>12 DEF Fail, OtherPcs
    <2>2. rowLock' = rowLock
      BY <1>12 DEF Fail
    <2>3. CASE pc'[c] \in {"aborted", "abandoned"}
      BY <1>4, <2>3 DEF WritePcs
    <2>4. CASE pc'[c] = pc[c] /\ pc[c] # "landed"
      BY <1>1, <1>2, <2>2, <2>4 DEF Removing, AllSwept
    <2> QED
      BY <2>1, <2>3, <2>4
  <1> QED
    BY <1>5, <1>6, <1>7, <1>8, <1>9, <1>10, <1>11, <1>12 DEF Step

\* The steps that remove rows leave none that the call wanted.
LEMMA LandedRemoving ==
  ASSUME Typing, Locking, Cutting, Fresh, NEW c \in Calls, Removing(c),
         Commit(c) \/ DeleteRow(c) \/ CommitSweep(c)
  PROVE  Removing(c)'
  <1> USE Types DEF Typing
  <1>1. /\ pc'[c] = "landed" /\ target' = target /\ nextID' = nextID
    BY DEF Commit, DeleteRow, CommitSweep, Landed, Goto
  <1>2. Wanted(c)' = {}
    <2>1. CASE Commit(c)
      <3>1. target[c] = {}
        BY <2>1 DEF Commit, Removing, WritePcs
      <3> QED
        BY <1>1, <3>1 DEF Wanted
    <2>2. CASE DeleteRow(c)
      BY <1>1, <2>2 DEF DeleteRow, DeleteRows, Wanted
    <2>3. CASE CommitSweep(c)
      <3>1. \A k \in Wanted(c) : rowLock[k] = c
        BY <2>3 DEF CommitSweep, Removing, AllSwept
      <3> QED
        BY <1>1, <2>3, <3>1 DEF CommitSweep, DeleteRows, Wanted
    <2> QED
      BY <2>1, <2>2, <2>3
  <1> QED
    BY <1>1, <1>2 DEF Removing, WritePcs

\* A delete takes aim at ids that have been handed out.
LEMMA AimRemoving ==
  ASSUME Typing, AllHolding, Cutting, NEW c \in Calls, AimDelete(c) \/ DeleteCollection(c)
  PROVE  Removing(c)'
  <1>1. \A id \in target'[c] : id < nextID'
    BY AimedAt DEF Cutting, IdsUnique
  <1>2. pc'[c] \in {"deleteRow", "sweepRows"}
    BY Types DEF Typing, AimDelete, DeleteCollection, Goto
  <1>3. \A k \in Keys : rowLock'[k] # c
    BY AimedAt DEF AllHolding, Holding, AimDelete, DeleteCollection, Rechecked
  <1> QED
    BY <1>1, <1>2, <1>3 DEF Removing, WritePcs

\* Every step keeps what deletes have found out of what writes will store.
LEMMA NextRemoving ==
  Typing /\ Locking /\ AllHolding /\ Cutting /\ AllRemoving /\ Fresh /\ [Next]_vars
    => AllRemoving' /\ Fresh'
  <1> SUFFICES ASSUME Typing, Locking, AllHolding, Cutting, AllRemoving, Fresh, [Next]_vars
               PROVE  AllRemoving' /\ Fresh'
    OBVIOUS
  <1>1. ASSUME NEW x \in Calls, Start(x) \/ Step(x) \/ Fail(x)
        PROVE  AllRemoving' /\ Fresh'
    <2>1. ASSUME NEW c \in Calls \ {x} PROVE Removing(c)'
      BY <1>1, OthersRemoving DEF AllRemoving
    <2>2. Removing(x)'
      BY <1>1, OwnRemoving, LandedRemoving, AimRemoving DEF AllRemoving
    <2> QED
      BY <1>1, <2>1, <2>2, NextFresh DEF AllRemoving
  <1>2. CASE Rollout \/ UNCHANGED vars
    BY <1>2 DEF Rollout, dbVars, vars, AllRemoving, Removing, Fresh, Wanted, AllSwept, Writing
  <1> QED
    BY <1>1, <1>2 DEF Next, Terminated

\* A document that a finished DeleteDocument or DeleteCollection found is not
\* there any more, nor is a chunk of it: no rebuild that was under way brings
\* it back, because it either waits for the row lock, and starts over, or
\* inserts a row with an id of its own.
THEOREM DeletedForGood == Spec => []DeletedStaysDeleted
  <1> DEFINE I == Typing /\ Locking /\ AllHolding /\ Cutting /\ AllRemoving /\ Fresh
  <1>1. Init => I
    BY InitTyping, InitLocking, InitHolding, InitCutting, InitRemoving
  <1>2. I /\ [Next]_vars => I'
    BY NextTyping, NextLocking, NextHolding, NextCutting, NextRemoving
  <1>3. I => DeletedStaysDeleted
    BY DEF Cutting, ChunksMatchDocument, AllRemoving, Removing, Wanted, DeletedStaysDeleted
  <1> QED
    BY <1>1, <1>2, <1>3, PTL DEF Spec

=============================================================================
