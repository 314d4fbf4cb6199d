----------------------------- MODULE MCTransfer -----------------------------
(* Frames of three bytes, three of them, and counters modulo 16.           *)
EXTENDS Transfer
=============================================================================
