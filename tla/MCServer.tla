------------------------------ MODULE MCServer ------------------------------
(* Three controllers; the configurations say how many channels there are.  *)
EXTENDS Server
CONSTANTS c1, c2, c3
MCClients == {c1, c2, c3}
=============================================================================
