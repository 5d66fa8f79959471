------------------------------ MODULE FileValues ------------------------------
(* The parameters of AtomicFile.                                           *)
EXTENDS DataDir

CONSTANTS Paths,     \* the documents
          Writers,   \* threads that may be inside write_atomic
          Contents   \* what a document may hold

ASSUME FileAssumption ==
  /\ Windows \in BOOLEAN
  /\ NoFile \notin Contents
  /\ NoFile \notin Paths
  /\ Partial \notin Contents
=============================================================================
