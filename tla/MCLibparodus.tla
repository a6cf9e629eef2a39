---------------------------- MODULE MCLibparodus ----------------------------
(* The libparodus adapter on small instances.                              *)
EXTENDS Libparodus

CONSTANT n1
=============================================================================
