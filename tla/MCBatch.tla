------------------------------- MODULE MCBatch -------------------------------
(* BatchDownload on three tasks, the first two of which write to one file. *)
EXTENDS BatchDownload

CONSTANTS a, b

SharedFirst == <<a, a, b>>
Files       == {a, b}
LastTwo     == {2, 3}
=============================================================================
