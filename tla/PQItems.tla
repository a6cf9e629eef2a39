------------------------------ MODULE PQItems ------------------------------
(***************************************************************************)
(* The items of the QOS priority queue                                     *)
(* (internal/wrphandlers/qos/priority_queue.go) and what Enqueue and       *)
(* Dequeue promise about a queue seen as a SET of items: which items an    *)
(* over-full queue strips of their payload, and which item leaves first.   *)
(* The order of the slice, the heap and the running byte counter are the   *)
(* business of module PriorityQueue.                                       *)
(*                                                                         *)
(* A wrp message is reduced to its identity, its quality of service, the   *)
(* length of its payload and its request delivery response.                *)
(***************************************************************************)
EXTENDS Integers, FiniteSetsExt

CONSTANTS
  Id,               \* identities of wrp messages
  maxQueueBytes,    \* bound on the sum of the queued payloads
  maxMessageBytes,  \* bound on one payload, 0 disables it
  priority,         \* the queue's PriorityType, used by trim
  tieBreaker,       \* the PriorityType whose comparison Less uses
  qosExpires        \* [Level -> Nat], the four expiry durations

Level == {"low", "medium", "high", "critical"}
PriorityType == {"unknown", "oldest", "newest"}

ASSUME PQAssumption ==
  /\ maxQueueBytes \in Nat
  /\ maxMessageBytes \in Nat
  /\ maxMessageBytes <= maxQueueBytes
  /\ priority \in PriorityType
  /\ tieBreaker \in PriorityType \ {"unknown"}
  /\ qosExpires \in [Level -> Nat]

noRDR == 0
messageIsTooLarge == 4
higherPriorityMessageTookTheSpot == 102
RDR == {noRDR, messageIsTooLarge, higherPriorityMessageTookTheSpot}

Message == [id : Id, qos : 0..99, size : Nat, rdr : RDR]
Item == [msg : Message, expires : Nat, discard : BOOLEAN]

\* QOSValue.Level() of wrp-go: four bands of the values 0..99.
LevelOf(qos) ==
  CASE qos < 25 -> "low"
    [] qos \in 25..49 -> "medium"
    [] qos \in 50..74 -> "high"
    [] OTHER -> "critical"

-----------------------------------------------------------------------------
(* Enqueue, before the heap is touched: an oversized payload is removed.   *)
Screened(msg) ==
  IF maxMessageBytes # 0 /\ msg.size > maxMessageBytes
  THEN [msg EXCEPT !.size = 0, !.rdr = messageIsTooLarge]
  ELSE msg

(* Push: the item appended at time now.                                    *)
NewItem(msg, now) ==
  [msg |-> msg, expires |-> now + qosExpires[LevelOf(msg.qos)],
   discard |-> FALSE]

dispose(itm) ==
  [itm EXCEPT !.discard = TRUE, !.msg.size = 0,
              !.msg.rdr = higherPriorityMessageTookTheSpot]

(* Less: a leaves the queue before b.                                      *)
Less(a, b) ==
  \/ a.msg.qos > b.msg.qos
  \/ /\ a.msg.qos = b.msg.qos
     /\ IF tieBreaker = "newest" THEN a.expires > b.expires
                                 ELSE a.expires < b.expires

\* Mutant: trim sorts the way the heap does, highest first.
TrimBeforeHighest(a, b) == Less(a, b)

(* trim's sort: a is disposed of before b.                                 *)
TrimBefore(a, b) ==
  \/ a.msg.qos < b.msg.qos
  \/ /\ a.msg.qos = b.msg.qos
     /\ IF priority = "newest" THEN a.expires < b.expires
                               ELSE a.expires > b.expires

-----------------------------------------------------------------------------
(* A queue as a set of items.                                              *)
Bytes(items) == MapThenSumSet(LAMBDA itm : itm.msg.size, items)
Fits(items) == Bytes(items) <= maxQueueBytes

Expired(items, now) == {i \in items : ~i.discard /\ now > i.expires}
Disposed(items, victims) ==
  (items \ victims) \cup {dispose(i) : i \in victims}

(* The sets of unexpired items that trim may strip of their payload: the   *)
(* lowest in the order, up to the one that makes the queue fit.  Items     *)
(* that compare equal may be taken in any order.                           *)
Victims(items) ==
  LET candidates == {i \in items : ~i.discard}
  IN  IF Fits(items) THEN {{}}
      ELSE {V \in SUBSET candidates :
              /\ \A v \in V, k \in candidates \ V : ~TrimBefore(k, v)
              /\ Fits(Disposed(items, V)) \/ V = candidates
              /\ \E last \in V :
                   /\ \A v \in V : ~TrimBefore(last, v)
                   /\ ~Fits(Disposed(items, V \ {last}))}

(* trim at time now, as the set of its possible results.                   *)
Trimmed(items, now) ==
  LET live == Disposed(items, Expired(items, now))
  IN  IF Fits(items) THEN {items}
      ELSE {Disposed(live, V) : V \in Victims(live)}

(* Enqueue pushes at time pushed and trims at time now.                    *)
Enqueued(items, msg, pushed, now) ==
  Trimmed(items \cup {NewItem(Screened(msg), pushed)}, now)

(* The items that Dequeue may return.                                      *)
Tops(items) == {t \in items : \A i \in items : ~Less(i, t)}
=============================================================================
