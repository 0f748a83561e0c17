----------------------------- MODULE IngestProofs -----------------------------
(***************************************************************************)
(* Proofs about Ingest, for any files, contents, document ids and answers  *)
(* of the embedding service.                                               *)
(*                                                                         *)
(* The inductive invariant says what a run has done at each point: what    *)
(* is collected, in which order the documents are taken, which of them are *)
(* already indexed, and what a run that ended well leaves for the next.    *)
(***************************************************************************)
EXTENDS Ingest, TLAPS

FileStates == Contents \cup Defects \cup {Absent}
Entries == [content: Contents, file: Files, vectors: Contents]

\* After collectDocuments and before the next run.
Collected == {"upsert", "embed", "commit", "search", "exited"}

Loadable(f) == f \in Ingestable /\ loaded[f] \in Contents

TypeInv ==
  /\ files \in [Files -> FileStates] /\ loaded \in [Files -> FileStates]
  /\ pc \in Running \cup {"off", "exited", "failed"}
  /\ docs \subseteq Files /\ file \in Files
  /\ index \in [{DocumentOf[f] : f \in Files} -> Entries \cup {Absent}]

\* What is left to do are files that were loaded; what could not be loaded has
\* been reported, and ends a strict run.
CollectedRight ==
  pc \in Collected =>
    /\ \A f \in docs : Loadable(f)
    /\ \A f \in Ingestable : loaded[f] \in Defects => ~strict /\ f \in skipped

\* The current file is the first one left, and has the vectors of its texts.
CurrentRight ==
  /\ pc \in {"embed", "commit"} => file \in docs /\ \A g \in docs : file <= g
  /\ pc = "commit" => vectors = loaded[file]
  /\ pc \in {"search", "exited"} => docs = {}

Indexed(g) ==
  /\ index[DocumentOf[g]] # Absent
  /\ index[DocumentOf[g]].file = g
  /\ index[DocumentOf[g]].content = loaded[g]

\* Every file the loop is past is indexed, or a later one in its place.
PastIndexed ==
  pc \in Collected =>
    \A f \in Ingestable \ docs : Loadable(f) =>
      /\ \A h \in docs : f < h
      /\ \E g \in Ingestable \ docs :
           g >= f /\ DocumentOf[g] = DocumentOf[f] /\ Loadable(g) /\ Indexed(g)

\* Nothing is left to do for the files of a settled index.
SettledIndexed ==
  settled =>
    /\ loaded = files
    /\ \A f \in Ingestable : Loadable(f) /\ Alone(f) => Indexed(f)
    /\ pc \in {"embed", "commit"} => ~Alone(file)

IngestInv ==
  /\ TypeInv /\ CollectedRight /\ CurrentRight
  /\ VectorsPaired /\ PastIndexed /\ SettledIndexed

-----------------------------------------------------------------------------
(***************************************************************************)
(* Lemmas.                                                                 *)
(***************************************************************************)

\* An answer that is accepted has, sorted by index, the vector of each text.
LEMMA AcceptedIsRight ==
  ASSUME NEW texts \in Contents, NEW answer \in Answers(texts),
         Accepted(answer, Len(texts))
  PROVE  SortedByIndex(answer, Len(texts)) = texts
<1> DEFINE n == Len(texts)
           At(i) == CHOOSE item \in Received(answer) : item.index = i - 1
<1>1. texts \in Seq(Texts) /\ n \in Nat /\ n # 0
  BY IngestAssumption DEF IngestAssumption
<1>2. texts = [i \in 1 .. n |-> texts[i]]
  BY <1>1
<1>3. Received(answer) \subseteq Items(texts)
  <2>1. PICK m \in 0 .. n + 1 : answer \in [1 .. m -> Items(texts)]
    BY DEF Answers
  <2> QED  BY <2>1 DEF Received
<1>4. ASSUME NEW i \in 1 .. n  PROVE At(i).vector = texts[i]
  <2>1. PICK item \in Received(answer) : item = At(i) /\ item.index = i - 1
    BY DEF Accepted
  <2> HIDE DEF At
  <2>2. item \in Items(texts) /\ item.vector # Wrong
    BY <1>3, <2>1 DEF Accepted
  <2>3. ASSUME NEW k \in 1 .. n, item = [index |-> k - 1, vector |-> texts[k]]
        PROVE  item.vector = texts[i]
    <3>1. k = i
      BY <1>1, <2>1, <2>3
    <3> QED  BY <2>3, <3>1
  <2>4. ASSUME NEW k \in 1 .. n
        PROVE  item # [index |-> k - 1, vector |-> Wrong]
    BY <2>2
  <2>5. item # [index |-> n, vector |-> texts[1]]
    BY <1>1, <2>1
  <2>6. item.vector = texts[i]
    BY <2>2, <2>3, <2>4, <2>5 DEF Items
  <2> QED  BY <2>1, <2>6
<1> QED
  BY <1>2, <1>4 DEF SortedByIndex

\* What a commit leaves: the entry of the current file, and all the others.
LEMMA Landed ==
  ASSUME IngestInv, pc = "commit", Land
  PROVE  /\ index' \in [{DocumentOf[f] : f \in Files} -> Entries \cup {Absent}]
         /\ index'[DocumentOf[file]] =
              [content |-> loaded[file], file |-> file, vectors |-> loaded[file]]
         /\ index'[DocumentOf[file]] # Absent
         /\ \A f \in Files : DocumentOf[f] # DocumentOf[file] =>
              index'[DocumentOf[f]] = index[DocumentOf[f]]
         /\ VectorsPaired'
<1> USE DEF IngestInv, TypeInv
<1> DEFINE entry == [content |-> loaded[file], file |-> file, vectors |-> loaded[file]]
<1>1. file \in docs /\ loaded[file] \in Contents /\ vectors = loaded[file]
  BY DEF CurrentRight, CollectedRight, Collected, Loadable
<1>2. entry \in Entries /\ entry # Absent
  BY <1>1, IngestAssumption DEF Entries, IngestAssumption
<1>3. index' = [index EXCEPT ![DocumentOf[file]] = entry]
  BY <1>1 DEF Land, Content
<1>4. /\ index' \in [{DocumentOf[f] : f \in Files} -> Entries \cup {Absent}]
      /\ index'[DocumentOf[file]] = entry
      /\ \A d \in {DocumentOf[f] : f \in Files} :
           d # DocumentOf[file] => index'[d] = index[d]
  BY <1>2, <1>3
<1>5. VectorsPaired'
  BY <1>2, <1>4 DEF VectorsPaired
<1> QED
  BY <1>2, <1>4, <1>5

-----------------------------------------------------------------------------
(***************************************************************************)
(* The invariant holds initially, and each action keeps it.                *)
(***************************************************************************)

\* Before the first run nothing is indexed and nothing is claimed.
LEMMA InitKeeps == Init => IngestInv
<1> SUFFICES ASSUME Init PROVE IngestInv
  OBVIOUS
<1>1. TypeInv
  BY IngestAssumption DEF Init, IngestAssumption, TypeInv, FileStates, Running
<1>2. CollectedRight /\ CurrentRight /\ PastIndexed /\ SettledIndexed
  BY DEF Init, Collected, CollectedRight, CurrentRight, PastIndexed, SettledIndexed
<1>3. VectorsPaired
  BY DEF Init, VectorsPaired
<1> QED
  BY <1>1, <1>2, <1>3 DEF IngestInv

\* Run keeps the invariant.
LEMMA RunKeeps ==
  ASSUME IngestInv, NEW mode \in BOOLEAN, Run(mode)
  PROVE  IngestInv'
<1> USE DEF IngestInv, Run
<1>1. TypeInv'
  BY DEF TypeInv, Running
<1>2. CollectedRight' /\ CurrentRight' /\ PastIndexed'
  BY DEF Collected, CollectedRight, CurrentRight, PastIndexed
<1>3. VectorsPaired'
  BY DEF VectorsPaired
<1>4. SettledIndexed'
  BY DEF SettledIndexed, Loadable, Indexed, Alone
<1> QED
  BY <1>1, <1>2, <1>3, <1>4

\* Collect keeps the invariant.
LEMMA CollectKeeps ==
  ASSUME IngestInv, CollectDocuments
  PROVE  IngestInv'
<1> USE DEF IngestInv, CollectDocuments
<1>1. TypeInv'
  BY DEF TypeInv, Running
<1>2. CollectedRight'
  <2> SUFFICES ASSUME pc' \in Collected  PROVE CollectedRight'
    BY DEF CollectedRight
  <2>1. ~StrictStops /\ docs' = {f \in Files : Loads(f)}
        /\ skipped' = {f \in Files : Fails(f)}
    BY DEF Collected
  <2>2. \A f \in docs' : Loadable(f)'
    BY <2>1 DEF Loads, Loadable
  <2>3. \A f \in Ingestable : loaded'[f] \in Defects => ~strict' /\ f \in skipped'
    BY <2>1, IngestAssumption DEF IngestAssumption, StrictStops, Fails
  <2> QED  BY <2>2, <2>3 DEF CollectedRight
<1>3. CurrentRight'
  BY DEF CurrentRight
<1>4. VectorsPaired'
  BY DEF VectorsPaired
<1>5. PastIndexed'
  <2> SUFFICES ASSUME pc' \in Collected, NEW f \in Ingestable \ docs', Loadable(f)'
               PROVE  FALSE
    BY DEF PastIndexed
  <2>1. f \in docs'
    BY IngestAssumption DEF IngestAssumption, Collected, Loads, Loadable
  <2> QED  BY <2>1
<1>6. SettledIndexed'
  BY DEF SettledIndexed, Loadable, Indexed, Alone
<1> QED
  BY <1>1, <1>2, <1>3, <1>4, <1>5, <1>6

\* The loop goes on, past a file that is indexed.
LEMMA NextFileKeeps ==
  ASSUME IngestInv, NEW f \in docs, pc \in {"upsert", "commit"}, NextFile(f),
         \A g \in docs : f <= g,
         index' \in [{DocumentOf[g] : g \in Files} -> Entries \cup {Absent}],
         Indexed(f)',
         \A g \in Files : DocumentOf[g] # DocumentOf[f] =>
           index'[DocumentOf[g]] = index[DocumentOf[g]],
         file' = f,
         VectorsPaired',
         UNCHANGED <<files, edits, strict, loaded, skipped, settled>>
  PROVE  IngestInv'
<1> USE DEF IngestInv
<1>1. TypeInv'
  BY DEF TypeInv, Running, NextFile
<1>2. CollectedRight'
  BY DEF Collected, CollectedRight, NextFile, Loadable
<1>3. CurrentRight'
  BY DEF CurrentRight, NextFile
<1>4. PastIndexed'
  <2> SUFFICES ASSUME NEW h \in Ingestable \ docs', Loadable(h)'
               PROVE  /\ \A k \in docs' : h < k
                      /\ \E g \in Ingestable \ docs' :
                           /\ g >= h /\ DocumentOf[g] = DocumentOf[h]
                           /\ Loadable(g)' /\ Indexed(g)'
    BY DEF PastIndexed
  <2>1. docs' = docs \ {f} /\ docs \subseteq Files /\ Files \subseteq Int
        /\ Ingestable \subseteq Files
    BY IngestAssumption DEF IngestAssumption, TypeInv, NextFile
  <2>2. f \in Ingestable \ docs' /\ Loadable(f)' /\ Loadable(f)
    BY <2>1 DEF CollectedRight, Collected, Loadable
  <2>3. CASE h = f
    <3>1. ASSUME NEW k \in docs'  PROVE h < k
      <4>1. k \in docs /\ k # f /\ f \in Int /\ k \in Int
        BY <2>1
      <4>2. f <= k
        BY <4>1
      <4> QED  BY <2>3, <4>1, <4>2
    <3>2. f >= h /\ DocumentOf[f] = DocumentOf[h]
      BY <2>1, <2>2, <2>3
    <3> QED  BY <2>2, <3>1, <3>2 DEF Loadable, Indexed
  <2>4. CASE h # f
    <3>1. h \in Ingestable \ docs /\ Loadable(h)
      BY <2>1, <2>4 DEF Loadable
    <3>2. \A k \in docs : h < k
      BY <3>1 DEF PastIndexed, Collected
    <3>3. PICK g \in Ingestable \ docs :
            g >= h /\ DocumentOf[g] = DocumentOf[h] /\ Loadable(g) /\ Indexed(g)
      BY <3>1 DEF PastIndexed, Collected
    <3>4. CASE DocumentOf[g] = DocumentOf[f]
      BY <2>1, <2>2, <3>2, <3>3, <3>4
    <3>5. CASE DocumentOf[g] # DocumentOf[f]
      <4>1. index'[DocumentOf[g]] = index[DocumentOf[g]]
        BY <2>1, <3>5
      <4>2. Indexed(g)' /\ Loadable(g)'
        BY <3>3, <4>1 DEF Indexed, Loadable
      <4> QED  BY <2>1, <3>2, <3>3, <4>2
    <3> QED  BY <3>4, <3>5
  <2> QED  BY <2>3, <2>4
<1>5. SettledIndexed'
  <2> SUFFICES ASSUME settled  PROVE SettledIndexed'
    BY DEF SettledIndexed
  <2>1. pc' \notin {"embed", "commit"} /\ loaded' = files'
    BY DEF SettledIndexed, NextFile
  <2>2. ASSUME NEW g \in Ingestable, Loadable(g)', Alone(g)'
        PROVE  Indexed(g)'
    <3>1. Loadable(g) /\ Alone(g) /\ Indexed(g)
      BY <2>2 DEF SettledIndexed, Loadable, Alone
    <3>2. f \in Ingestable /\ g \in Files
      BY IngestAssumption DEF IngestAssumption, CollectedRight, Collected, Loadable
    <3>3. CASE DocumentOf[g] = DocumentOf[f]
      <4>1. f = g
        BY <3>1, <3>2, <3>3 DEF Alone
      <4> QED  BY <4>1
    <3>4. CASE DocumentOf[g] # DocumentOf[f]
      BY <3>1, <3>2, <3>4 DEF Indexed
    <3> QED  BY <3>3, <3>4
  <2> QED  BY <2>1, <2>2 DEF SettledIndexed
<1> QED
  BY <1>1, <1>2, <1>3, <1>4, <1>5

\* Upsert keeps the invariant.
LEMMA UpsertKeeps ==
  ASSUME IngestInv, NEW f \in Files, UpsertDocument(f)
  PROVE  IngestInv'
<1> USE DEF IngestInv
<1>1. /\ pc = "upsert" /\ f \in docs /\ (\A g \in docs : f <= g) /\ file' = f
      /\ UNCHANGED <<files, edits, strict, loaded, skipped, index, settled>>
  BY DEF UpsertDocument
<1>2. f \in Ingestable /\ Loadable(f)
  BY <1>1 DEF CollectedRight, Collected, Loadable
<1>3. VectorsPaired'
  BY <1>1 DEF VectorsPaired
<1>4. CASE UpToDate(f) /\ NextFile(f)
  <2>1. Indexed(f)'
    BY <1>1, <1>4 DEF UpToDate, SameContent, Stored, Content, Indexed
  <2>2. index' \in [{DocumentOf[g] : g \in Files} -> Entries \cup {Absent}]
    BY <1>1 DEF TypeInv
  <2> QED  BY <1>1, <1>3, <1>4, <2>1, <2>2, NextFileKeeps
<1>5. CASE pc' = "failed" /\ UNCHANGED <<docs, vectors>>
  <2>1. TypeInv' /\ CollectedRight' /\ CurrentRight' /\ PastIndexed'
    BY <1>1, <1>5 DEF TypeInv, Running, Collected, CollectedRight, CurrentRight, PastIndexed
  <2>2. SettledIndexed'
    BY <1>1, <1>5 DEF SettledIndexed, Loadable, Indexed, Alone
  <2> QED  BY <1>3, <2>1, <2>2
<1>6. ASSUME pc' \in {"embed", "commit"}, UNCHANGED docs, ~UpToDate(f),
             pc' = "commit" => SameContent(f) /\ vectors' = Stored(f).vectors
      PROVE  IngestInv'
  <2>1. TypeInv'
    BY <1>1, <1>6 DEF TypeInv, Running
  <2>2. CollectedRight'
    BY <1>1, <1>6 DEF Collected, CollectedRight, Loadable
  <2>3. pc' = "commit" => vectors' = loaded'[f]
    <3>1. DocumentOf[f] \in DOMAIN index
      BY DEF TypeInv
    <3> QED  BY <1>1, <1>6, <3>1 DEF SameContent, Stored, Content, VectorsPaired
  <2>4. CurrentRight'
    BY <1>1, <1>6, <2>3 DEF CurrentRight
  <2>5. PastIndexed'
    BY <1>1, <1>6 DEF Collected, PastIndexed, Loadable, Indexed
  <2>6. SettledIndexed'
    <3>1. settled => ~Alone(f)
      BY <1>2, <1>6 DEF SettledIndexed, Indexed, UpToDate, SameContent, Stored, Content
    <3> QED  BY <1>1, <3>1 DEF SettledIndexed, Loadable, Indexed, Alone
  <2> QED  BY <1>3, <2>1, <2>2, <2>4, <2>5, <2>6
<1> QED
  BY <1>4, <1>5, <1>6 DEF UpsertDocument, UpToDate

\* Prepare keeps the invariant.
LEMMA PrepareKeeps ==
  ASSUME IngestInv, PrepareDocumentWrite
  PROVE  IngestInv'
<1> USE DEF IngestInv
<1>1. /\ pc = "embed" /\ pc' \in {"commit", "failed"}
      /\ UNCHANGED <<files, edits, strict, loaded, docs, file, skipped, index, settled>>
  BY DEF PrepareDocumentWrite
<1>2. TypeInv' /\ VectorsPaired'
  BY <1>1 DEF TypeInv, Running, VectorsPaired
<1>3. CollectedRight'
  BY <1>1 DEF Collected, CollectedRight, Loadable
<1>4. pc' = "commit" => vectors' = loaded[file]
  <2>1. loaded[file] \in Contents
    BY <1>1 DEF CurrentRight, CollectedRight, Collected, Loadable
  <2> SUFFICES ASSUME pc' = "commit"  PROVE vectors' = loaded[file]
    OBVIOUS
  <2>2. PICK answer \in Answers(loaded[file]) :
          /\ Accepted(answer, Len(loaded[file]))
          /\ vectors' = SortedByIndex(answer, Len(loaded[file]))
    BY DEF PrepareDocumentWrite, Content
  <2> QED  BY <2>1, <2>2, AcceptedIsRight
<1>5. CurrentRight'
  BY <1>1, <1>4 DEF CurrentRight
<1>6. PastIndexed'
  BY <1>1 DEF Collected, PastIndexed, Loadable, Indexed
<1>7. SettledIndexed'
  BY <1>1 DEF SettledIndexed, Loadable, Indexed, Alone
<1> QED
  BY <1>2, <1>3, <1>5, <1>6, <1>7

\* Commit keeps the invariant.
LEMMA CommitKeeps ==
  ASSUME IngestInv, CommitDocument
  PROVE  IngestInv'
<1> USE DEF IngestInv
<1>1. /\ pc = "commit" /\ Land /\ NextFile(file)
      /\ UNCHANGED <<files, edits, strict, loaded, file, skipped, settled>>
  BY DEF CommitDocument
<1>2. file \in docs /\ \A g \in docs : file <= g
  BY <1>1 DEF CurrentRight
<1>3. Indexed(file)'
  BY <1>1, Landed DEF Indexed
<1> QED
  BY <1>1, <1>2, <1>3, Landed, NextFileKeeps

\* Search keeps the invariant.
LEMMA SearchKeeps ==
  ASSUME IngestInv, Search
  PROVE  IngestInv'
<1> USE DEF IngestInv
<1>1. /\ pc = "search" /\ pc' = "exited" /\ settled' = (files = loaded)
      /\ UNCHANGED <<files, edits, strict, loaded, docs, file, skipped, vectors, index>>
  BY DEF Search
<1>2. TypeInv' /\ VectorsPaired'
  BY <1>1 DEF TypeInv, Running, VectorsPaired
<1>3. CollectedRight' /\ CurrentRight' /\ PastIndexed'
  BY <1>1 DEF Collected, CollectedRight, CurrentRight, PastIndexed, Loadable, Indexed
<1>4. SettledIndexed'
  <2>1. docs = {} /\ Ingestable \subseteq Files
    BY <1>1, IngestAssumption DEF IngestAssumption, CurrentRight
  <2>2. ASSUME NEW f \in Ingestable, Loadable(f), Alone(f)
        PROVE  Indexed(f)
    <3>1. PICK g \in Ingestable : DocumentOf[g] = DocumentOf[f] /\ Indexed(g)
      BY <1>1, <2>1, <2>2 DEF PastIndexed, Collected
    <3>2. g = f
      BY <2>2, <3>1 DEF Alone
    <3> QED  BY <3>1, <3>2
  <2> QED  BY <1>1, <2>2 DEF SettledIndexed, Loadable, Indexed, Alone
<1> QED
  BY <1>2, <1>3, <1>4

\* Fail keeps the invariant.
LEMMA FailKeeps ==
  ASSUME IngestInv, Fail
  PROVE  IngestInv'
<1> USE DEF IngestInv
<1>1. /\ pc' = "failed"
      /\ UNCHANGED <<files, edits, strict, loaded, docs, vectors, file, skipped, settled>>
  BY DEF Fail, Fatal
<1>2. CollectedRight' /\ CurrentRight' /\ PastIndexed'
  BY <1>1 DEF Collected, CollectedRight, CurrentRight, PastIndexed
<1>3. CASE UNCHANGED index
  <2>1. TypeInv' /\ VectorsPaired'
    BY <1>1, <1>3 DEF TypeInv, Running, VectorsPaired
  <2>2. SettledIndexed'
    BY <1>1, <1>3 DEF SettledIndexed, Loadable, Indexed, Alone
  <2> QED  BY <1>2, <2>1, <2>2
<1>4. CASE pc = "commit" /\ Land
  <2>1. TypeInv' /\ VectorsPaired'
    BY <1>1, <1>4, Landed DEF TypeInv, Running
  <2>2. ASSUME settled, NEW f \in Ingestable, Loadable(f), Alone(f)
        PROVE  Indexed(f)'
    <3>1. file \in Ingestable /\ f \in Files
      BY <1>4, IngestAssumption
      DEF IngestAssumption, CurrentRight, CollectedRight, Collected, Loadable
    <3>2. DocumentOf[f] # DocumentOf[file]
      BY <1>4, <2>2, <3>1 DEF SettledIndexed, Alone
    <3>3. index'[DocumentOf[f]] = index[DocumentOf[f]]
      BY <1>4, <3>1, <3>2, Landed
    <3> QED  BY <1>1, <2>2, <3>3 DEF SettledIndexed, Indexed
  <2>3. SettledIndexed'
    BY <1>1, <2>2 DEF SettledIndexed, Loadable, Alone
  <2> QED  BY <1>2, <2>1, <2>3
<1> QED
  BY <1>3, <1>4 DEF Fail

\* Edit keeps the invariant.
LEMMA EditKeeps ==
  ASSUME IngestInv, NEW f \in Files, Edit(f)
  PROVE  IngestInv'
<1> USE DEF IngestInv, Edit
<1>1. TypeInv'
  BY DEF TypeInv, FileStates
<1>2. CollectedRight' /\ CurrentRight'
  BY DEF CollectedRight, CurrentRight, Loadable
<1>3. VectorsPaired' /\ SettledIndexed'
  BY DEF VectorsPaired, SettledIndexed
<1>4. PastIndexed'
  BY DEF PastIndexed, Loadable, Indexed
<1> QED
  BY <1>1, <1>2, <1>3, <1>4

\* A step that changes nothing keeps the invariant.
LEMMA StutterKeeps ==
  ASSUME IngestInv, UNCHANGED vars
  PROVE  IngestInv'
<1> USE DEF IngestInv, vars
<1>1. TypeInv' /\ CollectedRight' /\ CurrentRight' /\ VectorsPaired'
  BY DEF TypeInv, CollectedRight, CurrentRight, VectorsPaired, Loadable
<1>2. PastIndexed'
  BY DEF PastIndexed, Loadable, Indexed
<1>3. SettledIndexed'
  BY DEF SettledIndexed, Loadable, Indexed, Alone
<1> QED
  BY <1>1, <1>2, <1>3

\* Every step keeps the invariant.
LEMMA NextKeeps == IngestInv /\ [Next]_vars => IngestInv'
<1> SUFFICES ASSUME IngestInv, [Next]_vars PROVE IngestInv'
  OBVIOUS
<1>1. ASSUME NEW mode \in BOOLEAN, Run(mode)  PROVE IngestInv'
  BY <1>1, RunKeeps
<1>2. ASSUME NEW f \in Files, UpsertDocument(f)  PROVE IngestInv'
  BY <1>2, UpsertKeeps
<1>3. ASSUME NEW f \in Files, Edit(f)  PROVE IngestInv'
  BY <1>3, EditKeeps
<1> QED
  BY <1>1, <1>2, <1>3, CollectKeeps, PrepareKeeps, CommitKeeps, SearchKeeps,
     FailKeeps, StutterKeeps DEF Next

\* The invariant holds in every state.
LEMMA IngestInvariant == Spec => []IngestInv
BY InitKeeps, NextKeeps, PTL DEF Spec

-----------------------------------------------------------------------------
(***************************************************************************)
(* Theorems.                                                               *)
(***************************************************************************)

\* However the service orders, shortens or doubles its answers or spoils the
\* lengths, and wherever a run breaks off: no chunk is stored with the vector
\* of another text, if each vector is labelled with the index of its own
\* (exampleembed.go, Embed).
THEOREM VectorsStayPaired == Spec => []VectorsPaired
<1>1. IngestInv => VectorsPaired
  BY DEF IngestInv
<1> QED  BY <1>1, IngestInvariant, PTL

\* A run of the program that exits with 0 has indexed every file it could load
\* and reported the others (main.go, collectDocuments and the loop of main).
THEOREM CleanExits == Spec => []CleanExitComplete
<1>1. ASSUME IngestInv, pc = "exited"  PROVE CleanExitComplete
  <2>1. docs = {}
    BY <1>1 DEF IngestInv, CurrentRight
  <2>2. ASSUME NEW f \in Ingestable, loaded[f] \in Contents
        PROVE  \E g \in Ingestable : /\ g >= f /\ DocumentOf[g] = DocumentOf[f]
                                     /\ Loadable(g) /\ Indexed(g)
    BY <1>1, <2>1, <2>2 DEF IngestInv, PastIndexed, Collected, Loadable
  <2>3. \A f \in Ingestable : loaded[f] \in Defects => ~strict /\ f \in skipped
    BY <1>1 DEF IngestInv, CollectedRight, Collected
  <2> QED  BY <2>2, <2>3 DEF CleanExitComplete, Loadable, Indexed
<1>2. IngestInv => CleanExitComplete
  BY <1>1 DEF CleanExitComplete
<1> QED  BY <1>2, IngestInvariant, PTL

\* Running the program again over the same files rewrites and embeds nothing,
\* but for files that share a document (UpsertDocument, a no-op per file).
THEOREM RerunsChangeNothing == Spec => RerunsAreIdle
<1> DEFINE Idle ==
      settled /\ settled' =>
        \A f \in Ingestable :
          Alone(f) => /\ index'[DocumentOf[f]] = index[DocumentOf[f]]
                      /\ pc' \in {"embed", "commit"} => file' # f
<1>1. ASSUME IngestInv, IngestInv', [Next]_vars, settled, settled',
             NEW f \in Ingestable, Alone(f)
      PROVE  /\ index'[DocumentOf[f]] = index[DocumentOf[f]]
             /\ pc' \in {"embed", "commit"} => file' # f
  <2>1. pc' \in {"embed", "commit"} => file' # f
    BY <1>1 DEF IngestInv, SettledIndexed, Alone
  <2>2. CASE UNCHANGED index
    BY <2>1, <2>2
  <2>3. CASE pc = "commit" /\ Land
    <3>1. file \in Ingestable /\ f \in Files
      BY <1>1, <2>3, IngestAssumption
      DEF IngestAssumption, IngestInv, CurrentRight, CollectedRight, Collected, Loadable
    <3>2. DocumentOf[f] # DocumentOf[file]
      BY <1>1, <2>3, <3>1 DEF IngestInv, SettledIndexed, Alone
    <3> QED  BY <1>1, <2>1, <2>3, <3>1, <3>2, Landed
  <2>4. UNCHANGED index \/ (pc = "commit" /\ Land)
    BY <1>1 DEF Next, Run, CollectDocuments, UpsertDocument, PrepareDocumentWrite,
                CommitDocument, Search, Fail, Edit, vars
  <2> QED  BY <2>2, <2>3, <2>4
<1>2. IngestInv /\ IngestInv' /\ [Next]_vars => [Idle]_vars
  BY <1>1
<1> QED  BY <1>2, IngestInvariant, PTL DEF Spec, RerunsAreIdle
=============================================================================
