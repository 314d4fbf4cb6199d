------------------------------ MODULE MCSession ------------------------------
(* A menu fades in one to three turns, before or after the fail message.     *)
EXTENDS Session
=============================================================================
