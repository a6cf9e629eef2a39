--------------------------- MODULE MCCredentials ---------------------------
(* Credentials on small instances.                                         *)
EXTENDS Credentials

CONSTANTS t1, t2, x1, w1
=============================================================================
