------------------------------- MODULE MCIngest -------------------------------
(***************************************************************************)
(* A small instance of Ingest for TLC.                                     *)
(***************************************************************************)
EXTENDS Ingest, TLC

CONSTANTS t1, t2, t3,         \* the texts of chunks
          broken,             \* a defect
          readme, notes, log  \* document ids

\* One content of two chunks, one of a single one, and one that is too large.
SomeContents == {<<t1, t2>>, <<t3>>, <<t2>>}
Large == {<<t2>>}

\* Files 1 and 2 differ in blanks only; file 4 has another extension.
Documents == (1 :> readme) @@ (2 :> readme) @@ (3 :> notes) @@ (4 :> log)
==============================================================================
