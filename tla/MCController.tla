---------------------------- MODULE MCController ----------------------------
(* Windows of two elements, two descriptors, room for two frames in the    *)
(* network, two turns of main's loop.                                      *)
EXTENDS Controller
=============================================================================
