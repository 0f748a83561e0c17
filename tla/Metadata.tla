------------------------------- MODULE Metadata -------------------------------
(***************************************************************************)
(* What UpsertDocument compares to find a document unchanged: the request  *)
(* as normalised, against the stored row, whose metadata are decoded from  *)
(* jsonb and encoded again (store.go, canonicalStoredMetadataJSON).        *)
(*                                                                         *)
(* The metadata of a document are one integer here, the plainest data that *)
(* the conversion changes: jsonb keeps every digit, json.Unmarshal into    *)
(* `any' makes a float64, which has all integers up to Exact, and of those *)
(* up to twice that every second one.  (Exact is 2^53.)  Other values that *)
(* may come back from jsonb otherwise than json.Marshal wrote them are not *)
(* modelled: structs whose fields are not in sorted order, json.Number,    *)
(* json.RawMessage and -0.                                                 *)
(*                                                                         *)
(* Calls come one after the other; DocumentWrites has them interleaved.    *)
(***************************************************************************)
EXTENDS Integers, Sequences, FiniteSets

CONSTANTS
  Ids, Titles, Contents,  \* trimmed texts: numbers, Blank for the empty one
  Tags, MaxTags,          \* those a document can have, and a bound on a request
  Exact, Numbers,
  Blank, Absent

ASSUME MetadataAssumption ==
  /\ Exact \in Nat /\ Exact % 4 = 0 /\ Numbers \subseteq 0 .. 2 * Exact
  /\ Tags \subseteq Nat /\ IsFiniteSet(Tags) /\ Blank \notin Tags /\ MaxTags \in Nat
  /\ Absent \notin Ids
  /\ Absent \notin [title: Titles, content: Contents, metadata: Numbers, tags: Seq(Tags)]

\* Tags are sent in any order, doubled, and with blanks around them.
RawTags == [text: Tags \cup {Blank}, padded: BOOLEAN]
Requests ==
  [id: Ids \cup {Blank}, title: Titles, content: Contents \cup {Blank},
   tags: UNION {[1 .. n -> RawTags] : n \in 0 .. MaxTags}, metadata: Numbers]

VARIABLES
  rows,       \* the stored documents
  sent,       \* (history) the last request for each that succeeded, as it was meant
  rewritten   \* the document that the last call wrote, or Absent

vars == <<rows, sent, rewritten>>

Init ==
  /\ rows = [d \in Ids |-> Absent]
  /\ sent = [d \in Ids |-> Absent]
  /\ rewritten = Absent

-----------------------------------------------------------------------------
Trim(raw) == raw.text

\* mutant: tags are trimmed, and kept as they are
TrimmedTags(raw) == SelectSeq([i \in 1 .. Len(raw) |-> Trim(raw[i])], LAMBDA t : t # Blank)
\* Trimmed, without blanks, each once, sorted
NormalizeTags(raw) ==
  LET S == {Trim(raw[i]) : i \in 1 .. Len(raw)} \ {Blank}
  IN  [i \in 1 .. Cardinality(S) |->
         CHOOSE t \in S : Cardinality({u \in S : u < t}) = i - 1]

\* json.Unmarshal of a number: the nearest float64, half-way to the even one
ToFloat(n) ==
  IF n <= Exact \/ n % 2 = 0 THEN n
  ELSE IF n % 4 = 1 THEN n - 1 ELSE n + 1

\* json.Marshal of what was sent, and of what jsonb gives back
CanonicalMetadata(n) == n
CanonicalStoredMetadata(n) == CanonicalMetadata(ToFloat(n))

\* mutant: tags and metadata are forgotten
SameText(row, req) == row.title = req.title
SameVisible(row, req) ==
  /\ row.title = req.title
  /\ row.tags = NormalizeTags(req.tags)
  /\ CanonicalStoredMetadata(row.metadata) = CanonicalMetadata(req.metadata)

\* classifyDocumentWrite of an upsert
Classify(row, req) ==
  IF row = Absent \/ row.content # req.content THEN "reindex"
  ELSE IF ~SameVisible(row, req) THEN "metadata_refresh"
  ELSE "noop"

\* What the caller means by a request
Meaning(req) ==
  [title |-> req.title, content |-> req.content, metadata |-> req.metadata,
   tags |-> {req.tags[i].text : i \in 1 .. Len(req.tags)} \ {Blank}]

\* One without an id or content is refused.
Valid(req) == req.id # Blank /\ req.content # Blank

UpsertDocument(req) ==
  /\ Valid(req)
  /\ sent' = [sent EXCEPT ![req.id] = Meaning(req)]
  /\ IF Classify(rows[req.id], req) = "noop"
       THEN rows' = rows /\ rewritten' = Absent
       ELSE /\ rows' = [rows EXCEPT ![req.id] =
                 [title |-> req.title, content |-> req.content,
                  metadata |-> req.metadata, tags |-> NormalizeTags(req.tags)]]
            /\ rewritten' = req.id

DeleteDocument(d) ==
  /\ rows[d] # Absent
  /\ rows' = [rows EXCEPT ![d] = Absent]
  /\ sent' = [sent EXCEPT ![d] = Absent]
  /\ rewritten' = Absent

Next ==
  \/ \E req \in Requests : UpsertDocument(req)
  \/ \E d \in Ids : DeleteDocument(d)

Spec == Init /\ [][Next]_vars

-----------------------------------------------------------------------------
(***************************************************************************)
(* Properties.                                                             *)
(***************************************************************************)

\* "If content and retrieval-visible metadata are unchanged, it returns
\* without rewriting document or chunk rows" (README.md:347): in whatever
\* order, repetition and spacing the request has its tags, its metadata being
\* an integer.
UnchangedNotRewritten ==
  [][\A d \in Ids : sent[d] # Absent /\ sent'[d] = sent[d] => rewritten' # d]_vars

\* "If only title, source_uri, tags, or metadata changed, it updates those
\* fields in place" (README.md:348): after an upsert that succeeded, the stored
\* document is the one that was sent.
ChangeStored ==
  \A d \in Ids : sent[d] # Absent =>
    /\ rows[d] # Absent
    /\ sent[d] = [title |-> rows[d].title, content |-> rows[d].content,
                  metadata |-> rows[d].metadata,
                  tags |-> {rows[d].tags[i] : i \in 1 .. Len(rows[d].tags)}]
==============================================================================
