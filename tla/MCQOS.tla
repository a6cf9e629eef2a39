------------------------------- MODULE MCQOS -------------------------------
(* Instances of QOS.  The unit of size is 256KB: the defaults are a queue  *)
(* of 4 units and messages of 1 unit.                                      *)
EXTENDS QOS

CONSTANTS m1, m2

MCqosOf == [m \in Msg |-> IF m = m1 THEN 10 ELSE 80]
MCsizeOf == [m \in Msg |-> IF m = m1 THEN 2 ELSE 5]
=============================================================================
