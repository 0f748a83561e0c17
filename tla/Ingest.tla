-------------------------------- MODULE Ingest --------------------------------
(***************************************************************************)
(* The directory ingest example (ingest_dir/main.go): a program that loads *)
(* the files under a directory, upserts them one after the other, and is   *)
(* run again after it failed, was killed, or the files have changed.  With *)
(* it the step of a write that DocumentWrites abstracts: prepared chunks   *)
(* get their vectors from an embedding service (exampleembed.go), whose    *)
(* answer may be late, wrong, incomplete or in another order.              *)
(*                                                                         *)
(* A vector is the text it was made of.  An upsert commits at once or not  *)
(* at all, as KnowledgeBase says.                                          *)
(***************************************************************************)
EXTENDS Integers, Sequences

CONSTANTS
  Files,       \* relative paths: numbers, in the order of the paths
  Ingestable,  \* those with one of the extensions
  Texts,       \* the texts of chunks
  Contents,    \* the texts of files, as sequences of the texts of their chunks
  TooLarge,    \* those that the store refuses
  Defects,     \* a file that cannot be read, is not UTF-8, or has only blanks
  DocumentOf,  \* the path without the blanks around it, which UpsertDocument trims
  MaxEdits,    \* a bound on the changes of files
  Absent, Wrong

ASSUME IngestAssumption ==
  /\ Files \subseteq Int /\ Ingestable \subseteq Files
  /\ \A content \in Contents : content \in Seq(Texts) /\ content # <<>>
  /\ TooLarge \subseteq Contents /\ Defects \cap Contents = {}
  /\ Wrong \notin Texts /\ Absent \notin Contents \cup Defects
  /\ Absent \notin [content: Contents, file: Files, vectors: Contents]
  /\ MaxEdits \in Nat

VARIABLES
  files,    \* the directory
  edits,    \* how often it has changed
  pc,
  strict,   \* SIMPLYKB_INGEST_STRICT of the run
  loaded,   \* the directory as collectDocuments found it
  docs,     \* the files still to be upserted
  file,     \* the one being upserted, or the last one
  skipped,  \* the files reported as skipped
  vectors,  \* what the embedder returned for the current file
  index,    \* the stored documents: content, the file they came from, vectors
  settled   \* (history) a run ended well, and no file has changed since it read them

vars == <<files, edits, pc, strict, loaded, docs, file, skipped, vectors, index, settled>>

Init ==
  /\ files \in [Files -> Contents \cup Defects]
  /\ edits = 0
  /\ pc = "off"
  /\ strict = FALSE
  /\ loaded = [f \in Files |-> Absent]
  /\ docs = {} /\ file \in Files
  /\ skipped = {}
  /\ vectors = <<>>
  /\ index = [d \in {DocumentOf[f] : f \in Files} |-> Absent]
  /\ settled = FALSE

-----------------------------------------------------------------------------
Loads(f) == f \in Ingestable /\ files[f] \in Contents
Fails(f) == f \in Ingestable /\ files[f] \in Defects

Run(mode) ==
  /\ pc \in {"off", "exited", "failed"}
  /\ strict' = mode
  /\ pc' = "collect"
  /\ docs' = {} /\ skipped' = {} /\ vectors' = <<>>
  /\ UNCHANGED <<files, edits, loaded, file, index, settled>>

\* mutant: a strict run goes on with the files it could load
NeverStops == FALSE
StrictStops == strict /\ \E f \in Files : Fails(f)

\* collectDocuments: the first file that cannot be loaded ends a strict run;
\* a run with nothing to upsert ends, too.
CollectDocuments ==
  /\ pc = "collect"
  /\ loaded' = files
  /\ IF StrictStops
       THEN pc' = "failed" /\ UNCHANGED <<docs, skipped>>
       ELSE /\ docs' = {f \in Files : Loads(f)}
            /\ skipped' = {f \in Files : Fails(f)}
            /\ pc' = IF docs' = {} THEN "failed" ELSE "upsert"
  /\ UNCHANGED <<files, edits, strict, file, vectors, index, settled>>

Content(f) == loaded[f]
Stored(f) == index[DocumentOf[f]]

\* The loop goes on, to the search after the last file.
NextFile(f) ==
  /\ docs' = docs \ {f}
  /\ vectors' = <<>>
  /\ pc' = IF docs = {f} THEN "search" ELSE "upsert"

SameContent(f) == Stored(f) # Absent /\ Stored(f).content = Content(f)
\* mutant: the JSON sent is compared with the text of jsonb
NeverUpToDate(f) == FALSE
UpToDate(f) == SameContent(f) /\ Stored(f).file = f

\* UpsertDocument of the first file left, by path: an error ends the program,
\* an unchanged document is left alone, and one with the content, and the
\* path, of another file only gets new metadata.
UpsertDocument(f) ==
  /\ pc = "upsert"
  /\ f \in docs /\ \A g \in docs : f <= g
  /\ file' = f
  /\ \/ /\ Content(f) \in TooLarge
        /\ pc' = "failed"
        /\ UNCHANGED <<docs, vectors>>
     \/ /\ Content(f) \notin TooLarge /\ UpToDate(f)
        /\ NextFile(f)
     \/ /\ Content(f) \notin TooLarge /\ ~UpToDate(f) /\ SameContent(f)
        /\ pc' = "commit"
        /\ vectors' = Stored(f).vectors
        /\ UNCHANGED docs
     \/ /\ Content(f) \notin TooLarge /\ ~SameContent(f)
        /\ pc' = "embed"
        /\ UNCHANGED <<docs, vectors>>
  /\ UNCHANGED <<files, edits, strict, loaded, skipped, index, settled>>

-----------------------------------------------------------------------------
(***************************************************************************)
(* The embedding service and openAICompatibleEmbedder.Embed.               *)
(***************************************************************************)

\* The items of an answer: the vector of the text that its index names, one
\* of a wrong length, one for a text that was not sent.
Items(texts) ==
  {[index |-> i - 1, vector |-> texts[i]] : i \in 1 .. Len(texts)}
    \cup {[index |-> i - 1, vector |-> Wrong] : i \in 1 .. Len(texts)}
    \cup {[index |-> Len(texts), vector |-> texts[1]]}

\* Any number of them, in any order
Answers(texts) == UNION {[1 .. n -> Items(texts)] : n \in 0 .. Len(texts) + 1}

Received(answer) == {answer[i] : i \in DOMAIN answer}

\* The vectors sorted by index; mutant: in the order they came
AsReceived(answer, n) == [i \in 1 .. n |-> answer[i].vector]
SortedByIndex(answer, n) ==
  [i \in 1 .. n |-> (CHOOSE item \in Received(answer) : item.index = i - 1).vector]

\* As many as texts, an index for each place, the right lengths
Accepted(answer, n) ==
  /\ Len(answer) = n
  /\ \A i \in 1 .. n : \E item \in Received(answer) : item.index = i - 1
  /\ \A item \in Received(answer) : item.vector # Wrong

\* prepareDocumentWrite: the chunks are sent; the answer is taken whole or not
\* at all.  (Its own checks of count and dimensions then hold.)
PrepareDocumentWrite ==
  LET texts == Content(file)
  IN  /\ pc = "embed"
      /\ \E answer \in Answers(texts) :
           IF Accepted(answer, Len(texts))
             THEN /\ vectors' = SortedByIndex(answer, Len(texts))
                  /\ pc' = "commit"
             ELSE pc' = "failed" /\ UNCHANGED vectors
      /\ UNCHANGED <<files, edits, strict, loaded, docs, file, skipped, index, settled>>

-----------------------------------------------------------------------------
\* The write takes effect.
Land ==
  index' = [index EXCEPT ![DocumentOf[file]] =
              [content |-> Content(file), file |-> file, vectors |-> vectors]]

CommitDocument ==
  /\ pc = "commit"
  /\ Land
  /\ NextFile(file)
  /\ UNCHANGED <<files, edits, strict, loaded, file, skipped, settled>>

\* The query of the run, if there is one; Fail stands for a search that fails.
Search ==
  /\ pc = "search"
  /\ pc' = "exited"
  /\ settled' = (files = loaded)
  /\ UNCHANGED <<files, edits, strict, loaded, docs, file, skipped, vectors, index>>

Running == {"collect", "upsert", "embed", "commit", "search"}

\* mutant: the loop goes on after a failed upsert
SkipFailed == pc \in {"embed", "commit"} /\ NextFile(file)
\* log.Fatalf: the run ends.
Fatal == pc' = "failed" /\ UNCHANGED <<docs, vectors>>

\* An error of the database, the service or the search, a timeout, or a kill;
\* a COMMIT whose answer is lost may have taken effect.
Fail ==
  /\ pc \in Running
  /\ \/ UNCHANGED index
     \/ pc = "commit" /\ Land
  /\ Fatal
  /\ UNCHANGED <<files, edits, strict, loaded, file, skipped, settled>>

\* Somebody changes, adds or removes a file.
Edit(f) ==
  /\ edits < MaxEdits
  /\ \E content \in (Contents \cup Defects \cup {Absent}) \ {files[f]} :
       files' = [files EXCEPT ![f] = content]
  /\ edits' = edits + 1
  /\ settled' = FALSE
  /\ UNCHANGED <<pc, strict, loaded, docs, file, skipped, vectors, index>>

Next ==
  \/ \E mode \in BOOLEAN : Run(mode)
  \/ CollectDocuments
  \/ \E f \in Files : UpsertDocument(f)
  \/ PrepareDocumentWrite
  \/ CommitDocument
  \/ Search
  \/ Fail
  \/ \E f \in Files : Edit(f)

Spec == Init /\ [][Next]_vars

-----------------------------------------------------------------------------
(***************************************************************************)
(* Properties.                                                             *)
(***************************************************************************)

\* In whatever order the service answered, with gaps, doubles or wrong lengths,
\* and wherever a run broke off: each chunk of a stored document has the vector
\* of its own text, if the service labels a vector with its text's index.
VectorsPaired ==
  \A d \in DOMAIN index :
    index[d] # Absent => index[d].vectors = index[d].content

\* When the program exits with 0, every file it found is indexed as it was
\* read, unless a later file has the same path but for blanks, or was reported
\* as skipped; nothing is skipped in strict mode.
CleanExitComplete ==
  pc = "exited" =>
    \A f \in Ingestable :
      /\ loaded[f] \in Defects => ~strict /\ f \in skipped
      /\ loaded[f] \in Contents =>
           \E g \in Ingestable :
             /\ g >= f /\ DocumentOf[g] = DocumentOf[f]
             /\ loaded[g] \in Contents
             /\ index[DocumentOf[g]] # Absent
             /\ index[DocumentOf[g]].file = g
             /\ index[DocumentOf[g]].content = loaded[g]

\* A file whose document is not also the document of another file
Alone(f) == \A g \in Ingestable : DocumentOf[g] = DocumentOf[f] => g = f

\* After a run that ended well, runs over the same files change no document
\* and embed nothing, but for files with the same path but for blanks, which
\* take turns.
RerunsAreIdle ==
  [][settled /\ settled' =>
       \A f \in Ingestable :
         Alone(f) => /\ index'[DocumentOf[f]] = index[DocumentOf[f]]
                     /\ pc' \in {"embed", "commit"} => file' # f]_vars
==============================================================================
