--------------------------- MODULE PriorityQueue ---------------------------
(***************************************************************************)
(* priorityQueue of internal/wrphandlers/qos/priority_queue.go: a slice of *)
(* items kept as a binary heap by container/heap, with a running count of  *)
(* the queued bytes.  trim disposes of items in place, without telling the *)
(* heap, and marks them instead of removing them.                          *)
(***************************************************************************)
EXTENDS PQItems, SequencesExt

CONSTANTS
  Arrivals,   \* the messages that may be enqueued
  MaxTime     \* bound on the clock

VARIABLES
  queue,      \* the slice, a heap with its top at index 1
  sizeBytes,  \* the running sum of the payload lengths
  now         \* the clock
vars == <<queue, sizeBytes, now>>

TypeOK ==
  /\ queue \in Seq(Item)
  /\ sizeBytes \in Nat
  /\ now \in 0..MaxTime

Init ==
  /\ queue = <<>>
  /\ sizeBytes = 0
  /\ now = 0

-----------------------------------------------------------------------------
(* container/heap, with indices from 1.                                    *)
Swap(q, i, j) == [q EXCEPT ![i] = q[j], ![j] = q[i]]

RECURSIVE up(_, _)
up(q, j) ==
  LET i == j \div 2
  IN  IF j = 1 \/ ~Less(q[j], q[i]) THEN q ELSE up(Swap(q, i, j), i)

RECURSIVE down(_, _, _)
down(q, i, n) ==
  LET j1 == 2 * i
      j == IF j1 + 1 <= n /\ Less(q[j1 + 1], q[j1]) THEN j1 + 1 ELSE j1
  IN  IF j1 > n \/ ~Less(q[j], q[i]) THEN q ELSE down(Swap(q, i, j), j, n)

heapPush(q, itm) == up(Append(q, itm), Len(q) + 1)

(* The slice that heap.Pop hands to priorityQueue.Pop: top item last.      *)
heapPopped(q) == down(Swap(q, 1, Len(q)), 1, Len(q) - 1)

-----------------------------------------------------------------------------
disposeAt(q, S) == [i \in DOMAIN q |-> IF i \in S THEN dispose(q[i]) ELSE q[i]]
sizeAt(q, S) == MapThenSumSet(LAMBDA i : q[i].msg.size, S)

(* trim at time t of slice q holding size bytes: the possible results.     *)
trim(q, size, t) ==
  IF size <= maxQueueBytes THEN {[queue |-> q, sizeBytes |-> size]}
  ELSE LET expired == {i \in DOMAIN q : ~q[i].discard /\ t > q[i].expires}
           itemsCache == {i \in DOMAIN q : ~q[i].discard} \ expired
           left == size - sizeAt(q, expired)
           sorted == {s \in SetToSeqs(itemsCache) :
                        \A a, b \in DOMAIN s :
                          a < b => ~TrimBefore(q[s[b]], q[s[a]])}
           front(s, k) == ToSet(SubSeq(s, 1, k))
           cut(s) == Min({k \in 0..Len(s) :
                            \/ left - sizeAt(q, front(s, k)) <= maxQueueBytes
                            \/ k = Len(s)})
       IN  {[queue |-> disposeAt(q, expired \cup front(s, cut(s))),
             sizeBytes |-> left - sizeAt(q, front(s, cut(s)))] : s \in sorted}

(* Enqueue: Push reads the clock, trim reads it again.                     *)
Enqueue(msg) ==
  LET itm == NewItem(Screened(msg), now)
  IN  /\ \A i \in DOMAIN queue : queue[i].msg.id # msg.id
      /\ now' \in {t \in {now, now + 1} : t <= MaxTime}
      /\ \E r \in trim(heapPush(queue, itm), sizeBytes + itm.msg.size, now') :
           queue' = r.queue /\ sizeBytes' = r.sizeBytes

\* Mutant: Pop leaves sizeBytes alone.
DequeueKeepsSize ==
  /\ queue # <<>>
  /\ queue' = Front(heapPopped(queue))
  /\ UNCHANGED <<sizeBytes, now>>

\* Mutant: pq.Pop() in place of heap.Pop(pq).
DequeueLast ==
  /\ queue # <<>>
  /\ queue' = Front(queue)
  /\ sizeBytes' = sizeBytes - Last(queue).msg.size
  /\ UNCHANGED now

Dequeue ==
  /\ queue # <<>>
  /\ LET q == heapPopped(queue)
     IN  /\ queue' = Front(q)
         /\ sizeBytes' = sizeBytes - Last(q).msg.size
  /\ UNCHANGED now

Tick ==
  /\ now < MaxTime
  /\ now' = now + 1
  /\ UNCHANGED <<queue, sizeBytes>>

Next == (\E msg \in Arrivals : Enqueue(msg)) \/ Dequeue \/ Tick

Spec == Init /\ [][Next]_vars

-----------------------------------------------------------------------------
(* The running counter is the number of payload bytes really held, so that *)
(* Pop (which subtracts the payload's length after dispose has cleared it) *)
(* and dispose never account for one payload twice, and no operation       *)
(* leaves more than maxQueueBytes in the queue.                            *)
SizeBounded ==
  sizeBytes = Bytes(ToSet(queue)) /\ sizeBytes <= maxQueueBytes

(* When Enqueue strips an unexpired item of its payload, every payload     *)
(* that stays belongs to an item of the same or a higher quality of        *)
(* service: low traffic never displaces high traffic, even when the slice  *)
(* is in heap order and not in priority order.                             *)
KeepsTheHighest ==
  [][\A i \in DOMAIN queue, k \in DOMAIN queue' :
       (/\ ~queue[i].discard
        /\ now' <= queue[i].expires
        /\ \E j \in DOMAIN queue' : queue'[j].msg.id = queue[i].msg.id
                                    /\ queue'[j].discard
        /\ ~queue'[k].discard)
       => queue'[k].msg.qos >= queue[i].msg.qos]_vars

(* The heap implements the set: every Dequeue returns a highest item       *)
(* although trim has rewritten items in place since the heap was ordered.  *)
Buffer == INSTANCE QosBuffer WITH items <- ToSet(queue)
ImplementsBuffer == Buffer!Spec
=============================================================================
