------------------------------ MODULE MCMigration ------------------------------
(***************************************************************************)
(* Small instances of Migration for TLC.                                   *)
(***************************************************************************)
EXTENDS Migration, TLC

CONSTANTS s1, s2, s3, w1, w2

\* Two stores agree on the dimensions and one does not.
Dims == [s \in Stores |-> IF s = s3 THEN 3 ELSE 2]

Symmetry == Permutations(Stores \ {s3}) \cup Permutations(Writers)

Fresh == [bootstrapped |-> FALSE, applied |-> {}, dims |-> NoTable, indexes |-> {}]

\* The schema as an older version of the SDK left it.
Older(n, dims, old) ==
  [bootstrapped |-> TRUE, applied |-> 1 .. n, dims |-> dims,
   indexes |-> (IF n >= 2 THEN {"search"} ELSE {})
                 \cup (IF n >= 4 THEN {"metadata"} ELSE {}) \cup old]

AllStarts ==
  {Fresh} \cup {Older(n, dims, {}) : n \in Versions, dims \in {2, 3}}
    \cup {Older(n, 2, {"old"}) : n \in 1 .. 2}
==============================================================================
