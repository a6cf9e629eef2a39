-------------------------- MODULE MCPriorityQueue --------------------------
(* PriorityQueue with four identities, so that the heap has a third level, *)
(* a limit on one message, and low items that expire at once.              *)
EXTENDS PriorityQueue

MCExpires ==
  [l \in Level |-> CASE l = "low" -> 0 [] l = "medium" -> 1 [] OTHER -> 2]

MCArrivals ==
  [id : Id, qos : {10, 40}, size : {1, 2}, rdr : {noRDR}]
  \cup [id : Id, qos : {40}, size : {4}, rdr : {noRDR}]
=============================================================================
