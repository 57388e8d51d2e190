--------------------------- MODULE MCTrackedAlloc ---------------------------
(* TrackedAlloc with symmetric threads and blocks, for TLC.                  *)
EXTENDS TrackedAlloc, MCModAlloc
=============================================================================
