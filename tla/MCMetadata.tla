------------------------------ MODULE MCMetadata ------------------------------
(***************************************************************************)
(* Small instances of Metadata for TLC.                                    *)
(***************************************************************************)
EXTENDS Metadata

CONSTANTS memo,  \* a document id
          old, new
==============================================================================
