------------------------------ MODULE MCChart ------------------------------
(* Notes on a few frets, near each other, at the limit, or far.             *)
EXTENDS Chart
=============================================================================
