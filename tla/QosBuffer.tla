----------------------------- MODULE QosBuffer -----------------------------
(***************************************************************************)
(* What the QOS priority queue promises: a set of items that never holds   *)
(* more than maxQueueBytes of payload, gives up the payloads of the lowest *)
(* items when it would, and hands out the highest item first.              *)
(***************************************************************************)
EXTENDS PQItems

CONSTANTS
  Arrivals,   \* the messages that may be enqueued
  MaxTime     \* bound on the clock

VARIABLES items, now
vars == <<items, now>>

Init == items = {} /\ now = 0

Enqueue(msg) ==
  /\ \A i \in items : i.msg.id # msg.id
  /\ now' \in {t \in {now, now + 1} : t <= MaxTime}
  /\ items' \in Enqueued(items, msg, now, now')

Dequeue ==
  /\ \E top \in Tops(items) : items' = items \ {top}
  /\ UNCHANGED now

Tick ==
  /\ now < MaxTime
  /\ now' = now + 1
  /\ UNCHANGED items

Next == (\E msg \in Arrivals : Enqueue(msg)) \/ Dequeue \/ Tick

Spec == Init /\ [][Next]_vars
=============================================================================
