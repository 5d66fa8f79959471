------------------------------- MODULE DataDir -------------------------------
(* What the models of the files in the data directory agree on.            *)
CONSTANTS NoFile,    \* there is no such file
          Partial,   \* a file that was created and not completely written
          Windows    \* BOOLEAN: the fallback after a failed rename exists
=============================================================================
