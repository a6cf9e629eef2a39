----------------------------- MODULE QOSProofs -----------------------------
(***************************************************************************)
(* Proofs about the QOS handler for any set of messages, limits, number of *)
(* restarts and number of failed deliveries.                               *)
(***************************************************************************)
EXTENDS QOS, SequenceTheorems, TLAPS

(* Only the caller that holds the lock sends, on the current channel.      *)
LockInv ==
  /\ \A m \in Msg : sendCh[m] # 0 <=> lock = m
  /\ \A m \in Msg : call[m] = "sending" <=> lock = m
  /\ lock # None => queue # 0 /\ sendCh[lock] = queue

(* The current channel is open, and channels not made yet are not used.    *)
ChanInv ==
  /\ queue <= made
  /\ queue \notin closed
  /\ \A c \in closed : c <= made
  /\ \A c \in Chan : c > made => svc[c] = "none"
  /\ \A i \in DOMAIN attempts : attempts[i].svc <= made

(* ready and failedMsg of a service belong to an attempt of that service.  *)
WatchInv ==
  \A c \in Chan : watch[c] # 0 =>
    watch[c] \in DOMAIN attempts /\ attempts[watch[c]].svc = c

(* A message is in one place at a time.                                    *)
OwnInv ==
  /\ \A i, j \in DOMAIN attempts :
       i # j /\ Held(i) /\ Held(j) => attempts[i].msg.id # attempts[j].msg.id
  /\ \A c \in Chan : \A x \in pq[c] : \A i \in DOMAIN attempts :
       Held(i) => x.msg.id # attempts[i].msg.id
  /\ \A c, d \in Chan : \A x \in pq[c], y \in pq[d] :
       c # d => x.msg.id # y.msg.id
  /\ \A c \in Chan : \A x \in pq[c] : call[x.msg.id] = "accepted"
  /\ \A i \in DOMAIN attempts : call[attempts[i].msg.id] = "accepted"

(* The latest attempt of a running service has succeeded, is watched, or   *)
(* waits in the queue of its service to be tried again.                    *)
LatestInv ==
  \A i \in DOMAIN attempts :
    \/ ~Running(attempts[i].svc)
    \/ attempts[i].st = "ok"
    \/ watch[attempts[i].svc] = i
    \/ \E j \in DOMAIN attempts : j > i /\ attempts[j].svc = attempts[i].svc
    \/ \E x \in pq[attempts[i].svc] : x.msg.id = attempts[i].msg.id

IInv ==
  /\ TypeOK /\ LockInv /\ ChanInv
  /\ NothingWaits /\ WatchInv /\ OwnInv /\ LatestInv

-----------------------------------------------------------------------------
(* Disposing of items in a queue of one leaves one item, of the same       *)
(* message (dispose keeps the item in the slice).                          *)
LEMMA DisposedOne ==
  ASSUME NEW x \in PQ!Item, NEW V \in SUBSET {x}
  PROVE  \E y \in PQ!Item : /\ PQ!Disposed({x}, V) = {y}
                            /\ y.msg.id = x.msg.id
<1>1. CASE V = {}
  <2>1. PQ!Disposed({x}, V) = {x}
    BY <1>1 DEF PQ!Disposed
  <2> QED  BY <2>1
<1>2. CASE V = {x}
  <2> DEFINE y == PQ!dispose(x)
  <2>1. y \in PQ!Item /\ y.msg.id = x.msg.id
    BY ZenonT(60) DEF PQ!dispose, PQ!Item, PQ!Message, PQ!RDR, PQ!noRDR,
           PQ!higherPriorityMessageTookTheSpot, PQ!messageIsTooLarge
  <2>2. PQ!Disposed({x}, V) = {y}
    BY <1>2 DEF PQ!Disposed
  <2> QED  BY <2>1, <2>2, ZenonT(60)
<1> QED  BY <1>1, <1>2

(* Enqueue on an empty queue leaves one item, of the message enqueued,     *)
(* whatever the limits and the clock are.                                  *)
LEMMA EnqueuedOne ==
  ASSUME NEW msg \in PQ!Message, NEW t \in {0, 1},
         NEW q \in PQ!Enqueued({}, msg, 0, t)
  PROVE  \E y \in PQ!Item : q = {y} /\ y.msg.id = msg.id
<1> DEFINE x == PQ!NewItem(PQ!Screened(msg), 0)
           E == PQ!Expired({x}, t)
<1>1. PQ!Screened(msg) \in PQ!Message /\ PQ!Screened(msg).id = msg.id
  BY ZenonT(60) DEF PQ!Screened, PQ!Message, PQ!RDR, PQ!noRDR, PQ!messageIsTooLarge,
         PQ!higherPriorityMessageTookTheSpot
<1>2. x \in PQ!Item /\ x.msg.id = msg.id
  BY <1>1 DEF PQ!NewItem, PQ!Item, PQ!LevelOf, PQ!Message
<1>3. q \in PQ!Trimmed({x}, t)
  BY DEF PQ!Enqueued
<1>4. CASE q = {x}
  BY <1>2, <1>4
<1>5. CASE q # {x}
  <2>1. PICK V \in PQ!Victims(PQ!Disposed({x}, E)) :
          q = PQ!Disposed(PQ!Disposed({x}, E), V)
    BY <1>3, <1>5 DEF PQ!Trimmed
  <2>2. PICK y \in PQ!Item : PQ!Disposed({x}, E) = {y} /\ y.msg.id = x.msg.id
    BY <1>2, DisposedOne, ZenonT(60) DEF PQ!Expired
  <2>3. V \in SUBSET {y}
    BY <2>1, <2>2, ZenonT(60) DEF PQ!Victims
  <2>4. PICK z \in PQ!Item : PQ!Disposed({y}, V) = {z} /\ z.msg.id = y.msg.id
    BY <2>3, DisposedOne
  <2>5. q = {z}
    BY <2>1, <2>2, <2>4, SMT, SMTT(60)
  <2> QED  BY <1>2, <2>2, <2>4, <2>5
<1> QED  BY <1>4, <1>5

(* The types of attempts, items and channels, one by one.                  *)
LEMMA Types ==
  ASSUME TypeOK
  PROVE  /\ \A i \in DOMAIN attempts :
              /\ attempts[i] \in Attempt
              /\ attempts[i].svc \in Chan
              /\ attempts[i].msg \in PQ!Message
              /\ attempts[i].msg.id \in Msg
         /\ \A c \in Chan : \A x \in pq[c] : x \in PQ!Item /\ x.msg.id \in Msg
         /\ Chan \subseteq Nat \ {0}
         /\ made \in Nat
         /\ queue \in Nat
<1>1. \A i \in DOMAIN attempts : attempts[i] \in Attempt
  BY LenProperties, ElementOfSeq DEF TypeOK
<1>2. \A i \in DOMAIN attempts : attempts[i].svc \in Chan
                                 /\ attempts[i].msg \in PQ!Message
                                 /\ attempts[i].msg.id \in Msg
  BY <1>1 DEF Attempt, PQ!Message
<1>3. \A c \in Chan : \A x \in pq[c] : x \in PQ!Item /\ x.msg.id \in Msg
  BY DEF TypeOK, PQ!Item, PQ!Message
<1>4. Chan \subseteq Nat \ {0} /\ made \in Nat /\ queue \in Nat
  BY QOSAssumption DEF TypeOK, Chan
<1> QED  BY <1>1, <1>2, <1>3, <1>4

(* Starting a delivery appends an attempt and leaves the others alone.     *)
LEMMA AppendAttempt ==
  ASSUME attempts \in Seq(Attempt), NEW a \in Attempt,
         attempts' = Append(attempts, a)
  PROVE  /\ attempts' \in Seq(Attempt)
         /\ Len(attempts) \in Nat
         /\ DOMAIN attempts = 1..Len(attempts)
         /\ DOMAIN attempts' = 1..(Len(attempts) + 1)
         /\ \A i \in DOMAIN attempts : attempts'[i] = attempts[i]
         /\ attempts'[Len(attempts) + 1] = a
  BY AppendProperties

(* The end of a delivery changes the state of one attempt only.            *)
LEMMA FinishAttempt ==
  ASSUME attempts \in Seq(Attempt), NEW i \in DOMAIN attempts,
         NEW s \in {"ok", "failed"},
         attempts' = [attempts EXCEPT ![i].st = s]
  PROVE  /\ attempts' \in Seq(Attempt)
         /\ DOMAIN attempts' = DOMAIN attempts
         /\ \A j \in DOMAIN attempts :
              /\ attempts'[j].msg = attempts[j].msg
              /\ attempts'[j].svc = attempts[j].svc
              /\ j # i => attempts'[j] = attempts[j]
         /\ attempts'[i].st = s
<1>0. i \in 1..Len(attempts) /\ attempts[i] \in Attempt
  BY LenProperties, ElementOfSeq
<1>1. attempts[i] \in Attempt /\ [attempts[i] EXCEPT !.st = s] \in Attempt
  BY <1>0, SMT, SMTT(60) DEF Attempt
<1>2. attempts' = [attempts EXCEPT ![i] = [attempts[i] EXCEPT !.st = s]]
  OBVIOUS
<1>3. attempts' \in Seq(Attempt) /\ Len(attempts') = Len(attempts)
  BY <1>0, <1>1, <1>2, ExceptSeq
<1> QED  BY <1>0, <1>1, <1>2, <1>3, LenProperties DEF Attempt

-----------------------------------------------------------------------------
(* Each step keeps the invariant.                                          *)
LEMMA InitIInv == Init => IInv
<1> SUFFICES ASSUME Init PROVE IInv
  OBVIOUS
<1> USE DEF Init
<1>1. TypeOK
  BY QOSAssumption DEF TypeOK, Chan
<1>2. LockInv /\ ChanInv
  BY QOSAssumption DEF LockInv, ChanInv, Chan
<1>3. NothingWaits /\ WatchInv /\ OwnInv /\ LatestInv
  BY DEF NothingWaits, WatchInv, OwnInv, LatestInv
<1> QED  BY <1>1, <1>2, <1>3 DEF IInv

\* Start makes a new channel and its serviceQOS.
LEMMA StartIInv == IInv /\ Start => IInv'
<1> SUFFICES ASSUME IInv, Start PROVE IInv'
  OBVIOUS
<1> USE DEF IInv, Start
<1>0. made + 1 \in Chan /\ made \in Nat
  BY QOSAssumption DEF TypeOK, Chan
<1>1. TypeOK'
  BY <1>0, QOSAssumption DEF TypeOK, Chan
<1>2. LockInv'
  BY DEF LockInv
<1>3. ChanInv'
  <2>1. queue' \notin closed' /\ \A c \in closed' : c <= made'
    BY <1>0, Types DEF ChanInv, TypeOK
  <2>2. \A c \in Chan : c > made' => svc'[c] = "none"
    BY <1>0, Types DEF ChanInv, TypeOK
  <2>3. \A i \in DOMAIN attempts' : attempts'[i].svc <= made'
    BY <1>0, Types DEF ChanInv
  <2> QED  BY <1>0, <2>1, <2>2, <2>3 DEF ChanInv
<1>4. NothingWaits'
  BY <1>0 DEF NothingWaits, ChanInv, TypeOK
<1>5. WatchInv' /\ OwnInv'
  BY DEF WatchInv, OwnInv, Held
<1>6. LatestInv'
  <2>1. \A i \in DOMAIN attempts : Running(attempts[i].svc)'
                                   <=> Running(attempts[i].svc)
    BY <1>0, Types DEF ChanInv, Running, TypeOK
  <2> QED  BY <2>1 DEF LatestInv, Held
<1> QED  BY <1>1, <1>2, <1>3, <1>4, <1>5, <1>6

\* Stop closes h.queue.
LEMMA StopIInv == IInv /\ Stop => IInv'
<1> SUFFICES ASSUME IInv, Stop PROVE IInv'
  OBVIOUS
<1> USE DEF IInv, Stop, svcVars
<1>1. TypeOK'
  BY DEF TypeOK
<1>2. LockInv'
  BY DEF LockInv, TypeOK
<1>3. ChanInv'
  BY Types DEF ChanInv, TypeOK
<1>4. NothingWaits' /\ WatchInv' /\ OwnInv' /\ LatestInv'
  BY DEF NothingWaits, WatchInv, OwnInv, LatestInv, Held, Running
<1> QED  BY <1>1, <1>2, <1>3, <1>4

\* HandleWrp refuses a message, or takes the lock and sends.
LEMMA HandleWrpIInv ==
  ASSUME NEW m \in Msg, IInv, HandleWrpRefused(m) \/ HandleWrpSend(m)
  PROVE  IInv'
<1> USE DEF IInv, HandleWrpRefused, HandleWrpSend, svcVars
<1>1. TypeOK'
  BY ZenonT(60) DEF TypeOK
<1>2. LockInv'
  BY QOSAssumption DEF LockInv, TypeOK
<1>3. ChanInv' /\ NothingWaits' /\ WatchInv' /\ LatestInv'
  BY DEF ChanInv, NothingWaits, WatchInv, LatestInv, Held, Running
<1>4. OwnInv'
  <2>1. \A n \in Msg : call[n] = "accepted" => call'[n] = "accepted"
    BY DEF TypeOK
  <2> QED  BY <2>1, Types DEF OwnInv, Held
<1> QED  BY <1>1, <1>2, <1>3, <1>4

\* serviceQOS returns: its queue was closed.
LEMMA ReturnIInv ==
  ASSUME NEW c \in Chan, IInv, Return(c)
  PROVE  IInv'
<1> USE DEF IInv, Return, callVars
<1>1. TypeOK'
  BY DEF TypeOK
<1>2. LockInv' /\ WatchInv' /\ OwnInv'
  BY DEF LockInv, WatchInv, OwnInv, Held
<1>3. ChanInv' /\ NothingWaits'
  BY DEF ChanInv, NothingWaits, TypeOK
<1>4. LatestInv'
  <2>1. \A i \in DOMAIN attempts : Running(attempts[i].svc)'
                                   => Running(attempts[i].svc)
    BY Types DEF Running, TypeOK
  <2> QED  BY <2>1 DEF LatestInv, Held
<1> QED  BY <1>1, <1>2, <1>3, <1>4

\* serviceQOS takes a message and enqueues it.
LEMMA ReceiveIInv ==
  ASSUME NEW c \in Chan, NEW m \in Msg, IInv, Receive(c, m)
  PROVE  IInv'
<1> USE DEF IInv
<1> DEFINE msg == [id |-> m, qos |-> qosOf[m], size |-> sizeOf[m], rdr |-> 0]
<1>0. msg \in PQ!Message
  BY QOSAssumption DEF PQ!Message, PQ!RDR, PQ!noRDR
<1>1. /\ svc[c] = "select" /\ svc' = [svc EXCEPT ![c] = "dequeue"]
      /\ sendCh[m] = c /\ sendCh' = [sendCh EXCEPT ![m] = 0]
      /\ call' = [call EXCEPT ![m] = "accepted"]
      /\ lock' = None
      /\ UNCHANGED <<queue, made, closed, watch, attempts>>
  BY DEF Receive
<1>2. lock = m /\ call[m] = "sending" /\ pq[c] = {}
  BY <1>1, Types DEF LockInv, NothingWaits
<1>3. PICK y \in PQ!Item : y.msg.id = m /\ pq' = [pq EXCEPT ![c] = {y}]
  <2>1. PICK t \in {0, 1} : \E q \in PQ!Enqueued({}, msg, 0, t) :
          pq' = [pq EXCEPT ![c] = q]
    BY <1>2, ZenonT(60) DEF Receive
  <2>2. PICK q \in PQ!Enqueued({}, msg, 0, t) : pq' = [pq EXCEPT ![c] = q]
    BY <2>1, ZenonT(60)
  <2>3. PICK y \in PQ!Item : q = {y} /\ y.msg.id = msg.id
    BY <1>0, EnqueuedOne
  <2> QED  BY <2>2, <2>3, ZenonT(60)
<1>4. /\ pq'[c] = {y}
      /\ \A d \in Chan : d # c => pq'[d] = pq[d] /\ svc'[d] = svc[d]
  BY <1>1, <1>3 DEF TypeOK
<1>5. TypeOK'
  BY <1>1, <1>3 DEF TypeOK
<1>6. LockInv'
  BY <1>1, <1>2, QOSAssumption DEF LockInv, TypeOK
<1>7. ChanInv'
  BY <1>1, <1>4, Types DEF ChanInv, TypeOK
<1>8. NothingWaits'
  BY <1>1, <1>4 DEF NothingWaits, TypeOK
<1>9. WatchInv'
  BY <1>1, SMT, SMTT(60) DEF WatchInv
<1>10. OwnInv'
  <2>1. \A i \in DOMAIN attempts : Held(i)' <=> Held(i)
    BY <1>1 DEF Held
  <2>2. \A i \in DOMAIN attempts : attempts[i].msg.id # m
    BY <1>2 DEF OwnInv
  <2>3. \A d \in Chan : \A x \in pq[d] : x.msg.id # m
    BY <1>2 DEF OwnInv
  <2>4. \A n \in Msg : call[n] = "accepted" => call'[n] = "accepted"
    BY <1>1 DEF TypeOK
  <2>5. call'[m] = "accepted"
    BY <1>1 DEF TypeOK
  <2>6. \A d \in Chan : \A x \in pq'[d] : x = y \/ x \in pq[d]
    BY <1>4
  <2> QED  BY <1>1, <1>3, <1>4, <2>1, <2>2, <2>3, <2>4, <2>5, <2>6, Types DEF OwnInv
<1>11. LatestInv'
  <2>1. \A i \in DOMAIN attempts : Running(attempts[i].svc)'
                                   => Running(attempts[i].svc)
    BY <1>1, Types DEF Running, TypeOK
  <2>2. \A d \in Chan : pq[d] \subseteq pq'[d]
    BY <1>2, <1>4
  <2> QED  BY <1>1, <2>1, <2>2, Types, SMT, SMTT(60) DEF LatestInv
<1> QED  BY <1>5, <1>6, <1>7, <1>8, <1>9, <1>10, <1>11

\* serviceQOS notices that a delivery is over, and queues a failed message again.
LEMMA ReadyIInv ==
  ASSUME NEW c \in Chan, IInv, Ready(c)
  PROVE  IInv'
<1> USE DEF IInv
<1> DEFINE w == watch[c]
<1>1. /\ svc[c] = "select" /\ svc' = [svc EXCEPT ![c] = "dequeue"]
      /\ w # 0 /\ watch' = [watch EXCEPT ![c] = 0]
      /\ UNCHANGED <<lock, queue, made, closed, call, sendCh, attempts>>
  BY DEF Ready, callVars
<1>2. w \in DOMAIN attempts /\ attempts[w].svc = c /\ pq[c] = {} /\ Held(w)
  BY <1>1 DEF WatchInv, NothingWaits, Held
<1>3. \/ attempts[w].st = "ok" /\ pq' = pq
      \/ /\ attempts[w].st = "failed"
         /\ \E y \in PQ!Item : /\ y.msg.id = attempts[w].msg.id
                               /\ pq' = [pq EXCEPT ![c] = {y}]
  <2>1. CASE attempts[w].st = "ok" /\ pq' = pq
    BY <2>1
  <2>2. CASE attempts[w].st = "failed"
    <3>1. PICK t \in {0, 1} : \E q \in PQ!Enqueued({}, attempts[w].msg, 0, t) :
            pq' = [pq EXCEPT ![c] = q]
      BY <1>2, <2>2 DEF Ready
    <3>2. PICK q \in PQ!Enqueued({}, attempts[w].msg, 0, t) :
            pq' = [pq EXCEPT ![c] = q]
      BY <3>1, ZenonT(60)
    <3>3. PICK y \in PQ!Item : q = {y} /\ y.msg.id = attempts[w].msg.id
      BY <1>2, EnqueuedOne, Types
    <3> QED  BY <2>2, <3>2, <3>3, ZenonT(60)
  <2> QED  BY <2>1, <2>2 DEF Ready
<1>4. /\ \A d \in Chan : d # c => pq'[d] = pq[d] /\ svc'[d] = svc[d]
      /\ \A i, j \in pq'[c] : i = j
      /\ \A x \in pq'[c] : /\ x.msg.id = attempts[w].msg.id
                           /\ attempts[w].st = "failed"
  BY <1>1, <1>2, <1>3 DEF TypeOK
<1>5. TypeOK'
  <2>1. pq' \in [Chan -> SUBSET PQ!Item]
    BY <1>3 DEF TypeOK
  <2> QED  BY <1>1, <2>1, ZenonT(60) DEF TypeOK
<1>6. LockInv'
  BY <1>1 DEF LockInv
<1>7. ChanInv'
  BY <1>1, <1>4, Types DEF ChanInv, TypeOK
<1>8. NothingWaits'
  BY <1>1, <1>4 DEF NothingWaits, TypeOK
<1>9. WatchInv'
  BY <1>1 DEF WatchInv, TypeOK
<1>10. \A i \in DOMAIN attempts :
         /\ Held(i)' => Held(i)
         /\ Held(i) => Held(i)' \/ (i = w /\ attempts[w].st = "failed")
         /\ i = w /\ attempts[w].st = "failed" => ~Held(i)'
  <2>1. \A d \in Chan : watch'[d] = IF d = c THEN 0 ELSE watch[d]
    BY <1>1 DEF TypeOK
  <2>2. \A i \in DOMAIN attempts : i # 0
    BY LenProperties DEF TypeOK
  <2>3. \A i \in DOMAIN attempts :
          Held(i)' <=> \/ attempts[i].st # "failed"
                       \/ attempts[i].svc # c /\ watch[attempts[i].svc] = i
    BY <1>1, <2>1, <2>2, Types DEF Held
  <2> QED  BY <1>1, <1>2, <2>3 DEF Held
<1>11. OwnInv'
  <2>1. \A d \in Chan : \A x \in pq'[d] :
          \/ x \in pq[d] /\ d # c
          \/ d = c /\ x.msg.id = attempts[w].msg.id /\ attempts[w].st = "failed"
    BY <1>2, <1>4
  <2>2. \A i, j \in DOMAIN attempts : i # j /\ Held(i)' /\ Held(j)' =>
          attempts[i].msg.id # attempts[j].msg.id
    BY <1>10 DEF OwnInv
  <2>3. \A d \in Chan : \A x \in pq'[d] : \A i \in DOMAIN attempts :
          Held(i)' => x.msg.id # attempts[i].msg.id
    BY <1>2, <1>10, <2>1, SMT, SMTT(60) DEF OwnInv
  <2>4. \A d, e \in Chan : \A x \in pq'[d], y \in pq'[e] :
          d # e => x.msg.id # y.msg.id
    BY <1>2, <2>1 DEF OwnInv
  <2>5. \A d \in Chan : \A x \in pq'[d] : call[x.msg.id] = "accepted"
    BY <1>2, <2>1 DEF OwnInv
  <2> QED  BY <1>1, <2>2, <2>3, <2>4, <2>5 DEF OwnInv
<1>12. LatestInv'
  <2> SUFFICES ASSUME NEW i \in DOMAIN attempts, Running(attempts[i].svc)',
                      attempts[i].st # "ok",
                      watch'[attempts[i].svc] # i
               PROVE  \/ \E j \in DOMAIN attempts :
                           j > i /\ attempts[j].svc = attempts[i].svc
                      \/ \E x \in pq'[attempts[i].svc] :
                           x.msg.id = attempts[i].msg.id
    BY <1>1 DEF LatestInv
  <2>1. CASE i = w
    <3>1. PICK y \in PQ!Item : /\ y.msg.id = attempts[w].msg.id
                               /\ pq' = [pq EXCEPT ![c] = {y}]
      BY <1>3, <2>1
    <3>2. y \in pq'[c]
      BY <3>1 DEF TypeOK
    <3> QED  BY <1>2, <2>1, <3>1, <3>2, SMT, SMTT(60)
  <2>2. CASE i # w
    <3>1. watch[attempts[i].svc] # i
      BY <1>1, <2>2, Types DEF TypeOK
    <3>2. Running(attempts[i].svc)
      BY <1>1, Types, SMT, SMTT(60) DEF Running, TypeOK
    <3>3. \A d \in Chan : pq[d] \subseteq pq'[d]
      BY <1>2, <1>4
    <3> QED  BY <3>1, <3>2, <3>3, Types DEF LatestInv
  <2> QED  BY <2>1, <2>2
<1> QED  BY <1>5, <1>6, <1>7, <1>8, <1>9, <1>11, <1>12, SMT, SMTT(60)

\* serviceQOS starts a delivery.
LEMMA DequeueIInv ==
  ASSUME NEW c \in Chan, IInv, Dequeue(c)
  PROVE  IInv'
<1> USE DEF IInv
<1>1. /\ svc[c] = "dequeue" /\ svc' = [svc EXCEPT ![c] = "select"]
      /\ UNCHANGED <<lock, queue, made, closed, call, sendCh>>
  BY DEF Dequeue, callVars
<1>2. /\ svc \in [Chan -> {"none", "select", "dequeue", "done"}]
      /\ svc'[c] = "select"
      /\ \A d \in Chan : d # c => svc'[d] = svc[d]
  BY <1>1 DEF TypeOK
<1>3. CASE pq[c] = {} /\ UNCHANGED <<pq, watch, attempts>>
  <2>1. TypeOK'
    BY <1>1, <1>3 DEF TypeOK
  <2>2. LockInv'
    BY <1>1 DEF LockInv
  <2>3. ChanInv'
    BY <1>1, <1>2, <1>3 DEF ChanInv
  <2>4. NothingWaits'
    BY <1>2, <1>3 DEF NothingWaits
  <2>5. WatchInv'
    BY <1>3, SMT, SMTT(60) DEF WatchInv
  <2>6. OwnInv'
    BY <1>1, <1>3, SMT, SMTT(60) DEF OwnInv, Held
  <2>7. LatestInv'
    BY <1>1, <1>2, <1>3, Types DEF LatestInv, Running
  <2> QED  BY <2>1, <2>2, <2>3, <2>4, <2>5, <2>6, <2>7
<1>4. ASSUME NEW top \in PQ!Tops(pq[c]),
             pq' = [pq EXCEPT ![c] = @ \ {top}],
             attempts' = Append(attempts,
                           [msg |-> top.msg, svc |-> c, st |-> "calling"]),
             watch' = [watch EXCEPT ![c] = Len(attempts) + 1]
      PROVE  IInv'
  <2> DEFINE a == [msg |-> top.msg, svc |-> c, st |-> "calling"]
             n == Len(attempts) + 1
  <2>1. top \in pq[c] /\ top.msg \in PQ!Message
    BY Types DEF PQ!Tops, PQ!Item
  <2>2. a \in Attempt
    BY <2>1 DEF Attempt
  <2>3. /\ attempts' \in Seq(Attempt)
        /\ Len(attempts) \in Nat
        /\ DOMAIN attempts = 1..Len(attempts)
        /\ DOMAIN attempts' = 1..n
        /\ \A i \in DOMAIN attempts : attempts'[i] = attempts[i]
        /\ attempts'[n] = a
    BY <1>4, <2>2, AppendAttempt DEF TypeOK
  <2> HIDE DEF a
  <2>4. a.msg = top.msg /\ a.svc = c /\ a.st = "calling"
    BY DEF a
  <2>5. /\ pq'[c] = {}
        /\ \A d \in Chan : d # c => pq'[d] = pq[d]
        /\ \A d \in Chan : pq'[d] \subseteq pq[d]
        /\ pq' \in [Chan -> SUBSET PQ!Item]
    BY <1>4, <2>1 DEF NothingWaits, TypeOK
  <2>6. /\ watch'[c] = n
        /\ \A d \in Chan : d # c => watch'[d] = watch[d]
        /\ watch' \in [Chan -> Nat]
    BY <1>4, <2>3 DEF TypeOK
  <2>7. \A i \in 1..n : i \in DOMAIN attempts \/ i = n
    BY <2>3
  <2> HIDE DEF n
  <2>8. /\ n \notin DOMAIN attempts
        /\ DOMAIN attempts \subseteq DOMAIN attempts'
        /\ n \in DOMAIN attempts'
        /\ n \in Nat /\ n # 0
        /\ \A i \in DOMAIN attempts : n > i
    BY <2>3 DEF n
  <2>9. TypeOK'
    BY <1>1, <2>3, <2>5, <2>6, ZenonT(60) DEF TypeOK
  <2>10. LockInv'
    BY <1>1 DEF LockInv
  <2>11. ChanInv'
    <3>1. c <= made
      BY <1>1, Types, SMT, SMTT(60) DEF ChanInv
    <3> QED  BY <1>1, <1>2, <2>3, <2>4, <2>7, <3>1 DEF ChanInv
  <2>12. NothingWaits'
    BY <1>2, <2>5 DEF NothingWaits
  <2>13. WatchInv'
    BY <2>3, <2>4, <2>6, <2>8, SMT, SMTT(60) DEF WatchInv
  <2>14. \A i \in DOMAIN attempts : Held(i)' => Held(i)
    BY <2>3, <2>6, <2>8, Types, SMT, SMTT(60) DEF Held
  <2>15. OwnInv'
    <3>1. \A i, j \in DOMAIN attempts' :
            i # j /\ Held(i)' /\ Held(j)' =>
              attempts'[i].msg.id # attempts'[j].msg.id
      BY <2>1, <2>3, <2>4, <2>7, <2>14, SMT, SMTT(60) DEF OwnInv
    <3>2. \A d \in Chan : \A x \in pq'[d] : \A i \in DOMAIN attempts' :
            Held(i)' => x.msg.id # attempts'[i].msg.id
      BY <2>1, <2>3, <2>4, <2>5, <2>7, <2>14, SMT, SMTT(60) DEF OwnInv
    <3>3. \A i \in DOMAIN attempts' : call[attempts'[i].msg.id] = "accepted"
      BY <2>1, <2>3, <2>4, <2>7 DEF OwnInv
    <3> QED  BY <1>1, <2>5, <3>1, <3>2, <3>3, SMT, SMTT(60) DEF OwnInv
  <2>16. LatestInv'
    <3>1. \A d \in Chan : svc'[d] \in {"select", "dequeue"} => Running(d)
      BY <1>1, <1>2, SMT, SMTT(60) DEF Running
    <3>2. ASSUME NEW i \in DOMAIN attempts'
          PROVE  \/ svc'[attempts'[i].svc] \notin {"select", "dequeue"}
                 \/ attempts'[i].st = "ok"
                 \/ watch'[attempts'[i].svc] = i
                 \/ \E j \in DOMAIN attempts' :
                      j > i /\ attempts'[j].svc = attempts'[i].svc
                 \/ \E x \in pq'[attempts'[i].svc] :
                      x.msg.id = attempts'[i].msg.id
      <4>1. CASE i = n
        BY <4>1, <2>3, <2>4, <2>6
      <4>2. CASE i \in DOMAIN attempts /\ attempts[i].svc = c
        BY <4>2, <2>3, <2>4, <2>8, SMT, SMTT(60)
      <4>3. CASE i \in DOMAIN attempts /\ attempts[i].svc # c
        <5>1. attempts[i].svc \in Chan
          BY <4>3, Types
        <5>2. \/ ~Running(attempts[i].svc)
              \/ attempts[i].st = "ok"
              \/ watch[attempts[i].svc] = i
              \/ \E j \in DOMAIN attempts :
                   j > i /\ attempts[j].svc = attempts[i].svc
              \/ \E x \in pq[attempts[i].svc] : x.msg.id = attempts[i].msg.id
          BY <4>3 DEF LatestInv
        <5> QED  BY <2>3, <2>5, <2>6, <2>8, <3>1, <4>3, <5>1, <5>2
      <4> QED  BY <2>3, <2>7, <4>1, <4>2, <4>3, SMT, SMTT(60)
    <3> QED  BY <3>2 DEF LatestInv, Running
  <2> QED  BY <2>9, <2>10, <2>11, <2>12, <2>13, <2>15, <2>16, SMT, SMTT(60)
<1> QED  BY <1>3, <1>4, ZenonT(60) DEF Dequeue

\* A delivery ends.
LEMMA FinishIInv ==
  ASSUME NEW i \in DOMAIN attempts, IInv, NextOk(i) \/ NextFail(i)
  PROVE  IInv'
<1> USE DEF IInv
<1>1. /\ attempts[i].st = "calling"
      /\ UNCHANGED <<lock, queue, made, closed, call, sendCh, svc, pq, watch>>
  BY DEF NextOk, NextFail, callVars, svcVars
<1>2. PICK s \in {"ok", "failed"} : attempts' = [attempts EXCEPT ![i].st = s]
  BY DEF NextOk, NextFail
<1>3. /\ attempts' \in Seq(Attempt)
      /\ DOMAIN attempts' = DOMAIN attempts
      /\ \A j \in DOMAIN attempts :
           /\ attempts'[j].msg = attempts[j].msg
           /\ attempts'[j].svc = attempts[j].svc
           /\ j # i => attempts'[j] = attempts[j]
      /\ attempts'[i].st = s
  BY <1>2, FinishAttempt, ZenonT(60) DEF TypeOK
<1>4. TypeOK'
  BY <1>1, <1>3 DEF TypeOK
<1>5. LockInv'
  BY <1>1 DEF LockInv
<1>6. ChanInv'
  BY <1>1, <1>3 DEF ChanInv
<1>7. NothingWaits'
  BY <1>1 DEF NothingWaits
<1>8. WatchInv'
  BY <1>1, <1>3, SMT, SMTT(60) DEF WatchInv
<1>9. OwnInv'
  <2>1. \A j \in DOMAIN attempts : Held(j)' => Held(j)
    BY <1>1, <1>3 DEF Held
  <2> QED  BY <1>1, <1>3, <2>1, SMT, SMTT(60) DEF OwnInv
<1>10. LatestInv'
  BY <1>1, <1>3 DEF LatestInv, Running
<1> QED  BY <1>4, <1>5, <1>6, <1>7, <1>8, <1>9, <1>10

-----------------------------------------------------------------------------
\* Every step.
LEMMA NextIInv ==  IInv /\ [Next]_vars => IInv'
<1> SUFFICES ASSUME IInv, [Next]_vars PROVE IInv'
  OBVIOUS
<1>1. CASE Start
  BY <1>1, StartIInv
<1>2. CASE Stop
  BY <1>2, StopIInv
<1>3. ASSUME NEW m \in Msg, HandleWrpRefused(m) \/ HandleWrpSend(m)
      PROVE  IInv'
  BY <1>3, HandleWrpIInv
<1>4. ASSUME NEW c \in Chan, Service(c)
      PROVE  IInv'
  <2>1. ASSUME NEW m \in Msg, Receive(c, m)
        PROVE  IInv'
    BY <2>1, ReceiveIInv
  <2> QED  BY <1>4, <2>1, ReturnIInv, ReadyIInv, DequeueIInv DEF Service
<1>5. ASSUME NEW i \in DOMAIN attempts, NextOk(i) \/ NextFail(i)
      PROVE  IInv'
  BY <1>5, FinishIInv
<1>6. CASE UNCHANGED vars
  <2> USE <1>6 DEF vars
  <2>1. TypeOK' /\ LockInv' /\ ChanInv' /\ NothingWaits' /\ WatchInv'
    BY SMT, SMTT(60) DEF IInv, TypeOK, LockInv, ChanInv, NothingWaits, WatchInv
  <2>2. OwnInv' /\ LatestInv'
    BY DEF IInv, OwnInv, LatestInv, Held, Running
  <2> QED  BY <2>1, <2>2, SMT, SMTT(60) DEF IInv
<1> QED  BY <1>1, <1>2, <1>3, <1>4, <1>5, <1>6 DEF Next

(* The strengthening of the properties below holds in every reachable      *)
(* state: whoever holds Handler.lock is the only sender, on the open       *)
(* channel; every message is in one place; and the latest delivery of a    *)
(* running serviceQOS is the one it watches.                               *)
THEOREM Inductive ==  Spec => []IInv
  BY InitIInv, NextIInv, PTL DEF Spec

(* Every variable of the handler keeps its type, whatever the interleaving *)
(* of Start, Stop, callers, services and deliveries.                       *)
THEOREM TypeCorrect ==  Spec => []TypeOK
  BY Inductive, PTL DEF IInv

(* Stop never closes the channel a caller of HandleWrp is blocked on, and  *)
(* no caller sends on a closed channel, for any number of callers and      *)
(* restarts.                                                               *)
THEOREM SendSafe ==  Spec => []NoSendOnClosed
<1>1. IInv => NoSendOnClosed
  BY QOSAssumption DEF IInv, LockInv, ChanInv, NoSendOnClosed
<1> QED  BY <1>1, Inductive, PTL

(* serviceQOS never has a message in two deliveries at once, nor delivers  *)
(* one again that was delivered, for any number of failures and restarts.  *)
THEOREM AtMostOnce ==  Spec => []DeliveredOnce
<1>1. IInv => DeliveredOnce
  BY DEF IInv, OwnInv, Held, DeliveredOnce
<1> QED  BY <1>1, Inductive, PTL

(* The priority queue of serviceQOS is empty whenever it waits in select,  *)
(* and never holds two items, for any limits and sizes of messages.        *)
THEOREM QueueOfOne ==  Spec => []NothingWaits
  BY Inductive, PTL DEF IInv

(* A running serviceQOS forgets a failed delivery only when a later        *)
(* delivery took over ready and failedMsg.                                 *)
THEOREM LostOnlyIfOvertaken ==  Spec => []OnlyOvertakenAreLost
<1>1. ASSUME IInv PROVE OnlyOvertakenAreLost
  <2> SUFFICES ASSUME NEW i \in DOMAIN attempts,
                      Lost(attempts[i].msg.id), Running(attempts[i].svc)
               PROVE  \E j \in DOMAIN attempts :
                        j > i /\ attempts[j].svc = attempts[i].svc
    BY DEF OnlyOvertakenAreLost
  <2>1. attempts[i].svc \in Chan
    BY <1>1, Types DEF IInv
  <2>2. ~Held(i)
    BY DEF Lost, HeldFor
  <2>3. ~\E x \in pq[attempts[i].svc] : x.msg.id = attempts[i].msg.id
    BY <2>1 DEF Lost, Queued
  <2> QED  BY <1>1, <2>2, <2>3 DEF IInv, LatestInv, Held
<1> QED  BY <1>1, Inductive, PTL

(* A serviceQOS that has returned stays returned, starts no delivery and   *)
(* leaves its ready and failedMsg alone, while later services go on.       *)
THEOREM ReturnIsFinal ==  Spec => ReturnedIsFinal
<1> DEFINE A == \A c \in Chan : svc[c] = "done" =>
                  /\ svc'[c] = "done" /\ watch'[c] = watch[c]
                  /\ \A i \in DOMAIN attempts' \ DOMAIN attempts :
                       attempts'[i].svc # c
<1>1. ASSUME IInv, [Next]_vars PROVE [A]_vars
  <2> USE <1>1 DEF IInv
  <2>1. CASE Start
    <3>1. made + 1 \in Chan /\ svc[made + 1] = "none"
      BY <2>1, QOSAssumption, Types, SMT, SMTT(60) DEF Start, ChanInv, Chan, TypeOK
    <3> QED  BY <2>1, <3>1, SMT, SMTT(60) DEF Start, TypeOK
  <2>2. CASE Stop
    BY <2>2, ZenonT(60) DEF Stop, svcVars
  <2>3. ASSUME NEW m \in Msg, HandleWrpRefused(m) \/ HandleWrpSend(m)
        PROVE  A
    BY <2>3, SMT, SMTT(60) DEF HandleWrpRefused, HandleWrpSend, svcVars
  <2>4. ASSUME NEW d \in Chan, NEW m \in Msg, Receive(d, m)
        PROVE  A
    BY <2>4, SMT, SMTT(60) DEF Receive, TypeOK
  <2>5. ASSUME NEW d \in Chan, Return(d) \/ Ready(d)
        PROVE  A
    BY <2>5 DEF Return, Ready, TypeOK
  <2>6. ASSUME NEW d \in Chan, Dequeue(d)
        PROVE  A
    <3>1. /\ svc[d] = "dequeue"
          /\ \A c \in Chan : c # d => svc'[c] = svc[c] /\ watch'[c] = watch[c]
      BY <2>6, ZenonT(60) DEF Dequeue, TypeOK
    <3>2. \A i \in DOMAIN attempts' \ DOMAIN attempts : attempts'[i].svc = d
      <4>1. CASE UNCHANGED attempts
        BY <4>1
      <4>2. ASSUME NEW top \in PQ!Tops(pq[d]),
                   attempts' = Append(attempts,
                                 [msg |-> top.msg, svc |-> d, st |-> "calling"])
            PROVE  \A i \in DOMAIN attempts' \ DOMAIN attempts :
                     attempts'[i].svc = d
        <5>1. [msg |-> top.msg, svc |-> d, st |-> "calling"] \in Attempt
          BY Types DEF PQ!Tops, PQ!Item, Attempt
        <5> QED  BY <4>2, <5>1, AppendAttempt, SMT, SMTT(60) DEF TypeOK
      <4> QED  BY <2>6, <4>1, <4>2, ZenonT(60) DEF Dequeue
    <3> QED  BY <3>1, <3>2
  <2>7. ASSUME NEW i \in DOMAIN attempts, NextOk(i) \/ NextFail(i)
        PROVE  A
    BY <2>7 DEF NextOk, NextFail, svcVars, TypeOK
  <2> QED  BY <2>1, <2>2, <2>3, <2>4, <2>5, <2>6, <2>7, SMT, SMTT(60) DEF Next, Service
<1>2. Spec => [][A]_vars
  BY <1>1, Inductive, PTL DEF Spec
<1> QED  BY <1>2, SMT, SMTT(60) DEF ReturnedIsFinal
=============================================================================
