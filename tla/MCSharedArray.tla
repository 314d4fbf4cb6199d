--------------------------- MODULE MCSharedArray ---------------------------
(* Two readers of either kind, an array of two elements, two writes.       *)
EXTENDS SharedArray
CONSTANTS r1, r2
MCReaders == {r1, r2}
=============================================================================
