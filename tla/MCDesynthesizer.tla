-------------------------- MODULE MCDesynthesizer --------------------------
(* Three notes that two bins each are rounded to.                         *)
EXTENDS Desynthesizer
MCNotes == {69, 72, 75}
=============================================================================
