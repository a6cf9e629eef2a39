-------------------------------- MODULE QOS --------------------------------
(***************************************************************************)
(* The QOS handler (internal/wrphandlers/qos/qos.go).  Callers hand it     *)
(* messages over an unbuffered channel while they hold the handler's lock; *)
(* the serviceQOS goroutine of that channel pushes each message through    *)
(* the priority queue and starts one goroutine per delivery attempt.       *)
(*                                                                         *)
(* Every message has a caller of its own (PubSub calls the handler from a  *)
(* goroutine per publication).  next.HandleWrp, the websocket's Send, is   *)
(* external: it returns nil or an error, at any time.  The goroutine's     *)
(* local work between two channel operations is one step.                  *)
(***************************************************************************)
EXTENDS Integers, Sequences, FiniteSets

CONSTANTS
  Msg,                     \* identities of the wrp messages
  qosOf, sizeOf,           \* [Msg -> 0..99] and [Msg -> Nat], their contents
  optMaxQueueBytes,        \* argument of the option MaxQueueBytes
  optMaxMessageBytes,      \* argument of the option MaxMessageBytes
  DefaultMaxQueueBytes,    \* 1MB, in the units of sizeOf
  optPriority,             \* argument of the option Priority
  MaxStarts,               \* bound on the calls of Start that start a service
  MaxFails,                \* bound on the failing calls of next.HandleWrp
  None                     \* nobody holds the lock

(* The options' values after New has applied and validated them.           *)
maxQueueBytes ==
  IF optMaxQueueBytes = 0 THEN DefaultMaxQueueBytes ELSE optMaxQueueBytes
maxMessageBytes == optMaxMessageBytes

(* The validators that New appends to the options.                         *)
Validated ==
  /\ maxMessageBytes <= maxQueueBytes
  /\ optPriority \in {"oldest", "newest"}

ASSUME QOSAssumption ==
  /\ None \notin Msg
  /\ qosOf \in [Msg -> 0..99]
  /\ sizeOf \in [Msg -> Nat]
  /\ optMaxQueueBytes \in Nat /\ optMaxMessageBytes \in Nat
  /\ DefaultMaxQueueBytes \in Nat
  /\ Validated
  /\ MaxStarts \in Nat
  /\ MaxFails \in Nat

(* serviceQOS builds its queue from the two limits and the tie breaker     *)
(* only: the queue's own priority and its four durations stay zero.        *)
PQ == INSTANCE PQItems WITH
        Id <- Msg,
        priority <- "unknown",
        tieBreaker <- optPriority,
        qosExpires <- [l \in {"low", "medium", "high", "critical"} |-> 0]

Chan == 1..MaxStarts
Attempt == [msg : PQ!Message, svc : Chan, st : {"calling", "ok", "failed"}]

VARIABLES
  lock,      \* Handler.lock: the message whose caller holds it, or None
  queue,     \* Handler.queue: a channel, or 0 for nil
  made,      \* the channels made so far are 1..made
  closed,    \* the channels that Stop has closed
  call,      \* state of each message's HandleWrp call
  sendCh,    \* the channel on which the call is blocked sending, or 0
  svc,       \* program counter of the serviceQOS goroutine of each channel
  pq,        \* its priority queue, as a set of items
  watch,     \* the attempt that its ready and failedMsg belong to, or 0
  attempts   \* the delivery attempts, in the order they were started

callVars == <<lock, queue, made, closed, call, sendCh>>
svcVars == <<svc, pq, watch>>
vars == <<lock, queue, made, closed, call, sendCh, svc, pq, watch, attempts>>

TypeOK ==
  /\ lock \in Msg \cup {None}
  /\ queue \in Chan \cup {0}
  /\ made \in 0..MaxStarts
  /\ closed \in SUBSET Chan
  /\ call \in [Msg -> {"idle", "sending", "accepted", "refused"}]
  /\ sendCh \in [Msg -> Chan \cup {0}]
  /\ svc \in [Chan -> {"none", "select", "dequeue", "done"}]
  /\ pq \in [Chan -> SUBSET PQ!Item]
  /\ watch \in [Chan -> Nat]
  /\ attempts \in Seq(Attempt)

Init ==
  /\ lock = None
  /\ queue = 0
  /\ made = 0
  /\ closed = {}
  /\ call = [m \in Msg |-> "idle"]
  /\ sendCh = [m \in Msg |-> 0]
  /\ svc = [c \in Chan |-> "none"]
  /\ pq = [c \in Chan |-> {}]
  /\ watch = [c \in Chan |-> 0]
  /\ attempts = <<>>

-----------------------------------------------------------------------------
(* Start with a nil queue; otherwise it changes nothing.                   *)
Start ==
  /\ lock = None
  /\ queue = 0
  /\ made < MaxStarts
  /\ made' = made + 1
  /\ queue' = made + 1
  /\ svc' = [svc EXCEPT ![made + 1] = "select"]
  /\ UNCHANGED <<lock, closed, call, sendCh, pq, watch, attempts>>

\* Mutant: Stop does not take the lock.
StopUnlocked ==
  /\ queue # 0
  /\ closed' = closed \cup {queue}
  /\ queue' = 0
  /\ UNCHANGED <<lock, made, call, sendCh, svcVars, attempts>>

(* Stop with a queue; otherwise it changes nothing.                        *)
Stop ==
  /\ lock = None
  /\ queue # 0
  /\ closed' = closed \cup {queue}
  /\ queue' = 0
  /\ UNCHANGED <<lock, made, call, sendCh, svcVars, attempts>>

(* HandleWrp takes the lock and returns ErrQOSHasShutdown.                 *)
HandleWrpRefused(m) ==
  /\ lock = None
  /\ call[m] = "idle"
  /\ queue = 0
  /\ call' = [call EXCEPT ![m] = "refused"]
  /\ UNCHANGED <<lock, queue, made, closed, sendCh, svcVars, attempts>>

\* Mutant: HandleWrp sends without the test for nil.
HandleWrpSendUnchecked(m) ==
  /\ lock = None
  /\ call[m] = "idle"
  /\ lock' = m
  /\ call' = [call EXCEPT ![m] = "sending"]
  /\ sendCh' = [sendCh EXCEPT ![m] = queue]
  /\ UNCHANGED <<queue, made, closed, svcVars, attempts>>

(* HandleWrp takes the lock and blocks in h.queue <- msg.                  *)
HandleWrpSend(m) ==
  /\ lock = None
  /\ call[m] = "idle"
  /\ queue # 0
  /\ lock' = m
  /\ call' = [call EXCEPT ![m] = "sending"]
  /\ sendCh' = [sendCh EXCEPT ![m] = queue]
  /\ UNCHANGED <<queue, made, closed, svcVars, attempts>>

-----------------------------------------------------------------------------
(* serviceQOS: case msg, ok := <-queue with a message.  The sender leaves  *)
(* HandleWrp and releases the lock.                                        *)
Receive(c, m) ==
  /\ svc[c] = "select"
  /\ sendCh[m] = c
  /\ \E t \in {0, 1} :
       \E q \in PQ!Enqueued(pq[c], [id |-> m, qos |-> qosOf[m],
                                    size |-> sizeOf[m], rdr |-> 0], 0, t) :
         pq' = [pq EXCEPT ![c] = q]
  /\ svc' = [svc EXCEPT ![c] = "dequeue"]
  /\ call' = [call EXCEPT ![m] = "accepted"]
  /\ sendCh' = [sendCh EXCEPT ![m] = 0]
  /\ lock' = None
  /\ UNCHANGED <<queue, made, closed, watch, attempts>>

(* serviceQOS: case msg, ok := <-queue on a closed channel.                *)
Return(c) ==
  /\ svc[c] = "select"
  /\ c \in closed
  /\ svc' = [svc EXCEPT ![c] = "done"]
  /\ UNCHANGED <<callVars, pq, watch, attempts>>

\* Mutant: failedMsg is not looked at.
ReadyForgets(c) ==
  /\ svc[c] = "select"
  /\ watch[c] # 0
  /\ attempts[watch[c]].st # "calling"
  /\ watch' = [watch EXCEPT ![c] = 0]
  /\ svc' = [svc EXCEPT ![c] = "dequeue"]
  /\ UNCHANGED <<callVars, pq, attempts>>

\* Mutant: the message is queued again whether it failed or not.
ReadyAlwaysRequeues(c) ==
  /\ svc[c] = "select"
  /\ watch[c] # 0
  /\ attempts[watch[c]].st # "calling"
  /\ \E t \in {0, 1} :
       \E q \in PQ!Enqueued(pq[c], attempts[watch[c]].msg, 0, t) :
         pq' = [pq EXCEPT ![c] = q]
  /\ watch' = [watch EXCEPT ![c] = 0]
  /\ svc' = [svc EXCEPT ![c] = "dequeue"]
  /\ UNCHANGED <<callVars, attempts>>

(* serviceQOS: case <-ready; a failed message is queued again.             *)
Ready(c) ==
  /\ svc[c] = "select"
  /\ watch[c] # 0
  /\ LET a == attempts[watch[c]]
     IN  \/ /\ a.st = "ok"
            /\ UNCHANGED pq
         \/ /\ a.st = "failed"
            /\ \E t \in {0, 1} :
                 \E q \in PQ!Enqueued(pq[c], a.msg, 0, t) :
                   pq' = [pq EXCEPT ![c] = q]
  /\ watch' = [watch EXCEPT ![c] = 0]
  /\ svc' = [svc EXCEPT ![c] = "dequeue"]
  /\ UNCHANGED <<callVars, attempts>>

\* Mutant: a delivery is started only when none is under way.
DequeueWhenIdle(c) ==
  /\ svc[c] = "dequeue"
  /\ svc' = [svc EXCEPT ![c] = "select"]
  /\ \/ /\ pq[c] = {} \/ watch[c] # 0
        /\ UNCHANGED <<pq, watch, attempts>>
     \/ \E top \in PQ!Tops(pq[c]) :
          /\ watch[c] = 0
          /\ pq' = [pq EXCEPT ![c] = @ \ {top}]
          /\ attempts' = Append(attempts,
                           [msg |-> top.msg, svc |-> c, st |-> "calling"])
          /\ watch' = [watch EXCEPT ![c] = Len(attempts) + 1]
  /\ UNCHANGED callVars

\* Mutant: ready and failedMsg are not taken from wrpHandler.
DequeueUnwatched(c) ==
  /\ svc[c] = "dequeue"
  /\ svc' = [svc EXCEPT ![c] = "select"]
  /\ \/ /\ pq[c] = {}
        /\ UNCHANGED <<pq, attempts>>
     \/ \E top \in PQ!Tops(pq[c]) :
          /\ pq' = [pq EXCEPT ![c] = @ \ {top}]
          /\ attempts' = Append(attempts,
                           [msg |-> top.msg, svc |-> c, st |-> "calling"])
  /\ UNCHANGED <<callVars, watch>>

(* serviceQOS, after the select: Dequeue, and wrpHandler starts a delivery *)
(* whose channels replace the ones watched so far.                         *)
Dequeue(c) ==
  /\ svc[c] = "dequeue"
  /\ svc' = [svc EXCEPT ![c] = "select"]
  /\ \/ /\ pq[c] = {}
        /\ UNCHANGED <<pq, watch, attempts>>
     \/ \E top \in PQ!Tops(pq[c]) :
          /\ pq' = [pq EXCEPT ![c] = @ \ {top}]
          /\ attempts' = Append(attempts,
                           [msg |-> top.msg, svc |-> c, st |-> "calling"])
          /\ watch' = [watch EXCEPT ![c] = Len(attempts) + 1]
  /\ UNCHANGED callVars

(* wrpHandler's goroutine: next.HandleWrp returns nil ...                  *)
NextOk(i) ==
  /\ attempts[i].st = "calling"
  /\ attempts' = [attempts EXCEPT ![i].st = "ok"]
  /\ UNCHANGED <<callVars, svcVars>>

Failed == {i \in DOMAIN attempts : attempts[i].st = "failed"}

(* ... or an error, and the message is left in failedMsg.                  *)
NextFail(i) ==
  /\ attempts[i].st = "calling"
  /\ Cardinality(Failed) < MaxFails
  /\ attempts' = [attempts EXCEPT ![i].st = "failed"]
  /\ UNCHANGED <<callVars, svcVars>>

-----------------------------------------------------------------------------
Service(c) == (\E m \in Msg : Receive(c, m)) \/ Return(c) \/ Ready(c) \/ Dequeue(c)

Next ==
  \/ Start \/ Stop
  \/ \E m \in Msg : HandleWrpRefused(m) \/ HandleWrpSend(m)
  \/ \E c \in Chan : Service(c)
  \/ \E i \in DOMAIN attempts : NextOk(i) \/ NextFail(i)

Spec == Init /\ [][Next]_vars

(* A goroutine that can run does; select chooses among its ready cases at  *)
(* random, so that a case which is ready again and again is taken; and     *)
(* Send returns, because the websocket writes under a timeout.             *)
Fairness ==
  /\ \A c \in Chan :
       /\ SF_vars(\E m \in Msg : Receive(c, m))
       /\ SF_vars(Return(c))
       /\ SF_vars(Ready(c))
       /\ WF_vars(Dequeue(c))
  /\ \A i \in 1..(Cardinality(Msg) + MaxFails) :
       WF_vars(i \in DOMAIN attempts /\ (NextOk(i) \/ NextFail(i)))

FairSpec == Spec /\ Fairness

-----------------------------------------------------------------------------
(* Message m is with the handler: queued, being delivered, delivered, or   *)
(* failed with its service about to look at the failure.                   *)
Queued(m) == \E c \in Chan : \E i \in pq[c] : i.msg.id = m
Held(i) ==
  \/ attempts[i].st # "failed"
  \/ watch[attempts[i].svc] = i
HeldFor(m) == \E i \in DOMAIN attempts : attempts[i].msg.id = m /\ Held(i)
Lost(m) == call[m] = "accepted" /\ ~Queued(m) /\ ~HeldFor(m)
Running(c) == svc[c] \in {"select", "dequeue"}

(* Stop never closes the channel under a caller that is blocked in         *)
(* h.queue <- msg, nor does a caller send on a channel already closed:     *)
(* either would panic.  It rests on HandleWrp keeping the lock while it is *)
(* blocked.                                                                *)
NoSendOnClosed ==
  \A m \in Msg : sendCh[m] # 0 => sendCh[m] \notin closed

(* However often deliveries fail and are retried, while others overtake    *)
(* them and the handler is stopped and started again, one message is never *)
(* in two deliveries at a time and is never delivered again after a        *)
(* delivery that succeeded.                                                *)
DeliveredOnce ==
  \A i, j \in DOMAIN attempts :
    /\ i # j
    /\ attempts[i].st # "failed"
    /\ attempts[j].st # "failed"
    => attempts[i].msg.id # attempts[j].msg.id

(* serviceQOS dequeues once for each message it enqueues, so that its      *)
(* priority queue holds at most one item and is empty whenever the service *)
(* waits for the next event: no message waits behind another.              *)
NothingWaits ==
  \A c \in Chan :
    /\ svc[c] # "dequeue" => pq[c] = {}
    /\ \A i, j \in pq[c] : i = j

(* A failed delivery is forgotten by a running service only when a later   *)
(* delivery of that service has taken over ready and failedMsg.            *)
OnlyOvertakenAreLost ==
  \A i \in DOMAIN attempts :
    /\ Lost(attempts[i].msg.id)
    /\ Running(attempts[i].svc)
    => \E j \in DOMAIN attempts : j > i /\ attempts[j].svc = attempts[i].svc

(* After Stop, once the service has returned, it starts no delivery and    *)
(* never looks at the outcome of those under way, while a service started  *)
(* later goes on.                                                          *)
ReturnedIsFinal ==
  [][\A c \in Chan : svc[c] = "done" =>
       /\ svc'[c] = "done" /\ watch'[c] = watch[c]
       /\ \A i \in DOMAIN attempts' \ DOMAIN attempts : attempts'[i].svc # c]_vars

(* A caller blocked in HandleWrp gets away: the service comes back to its  *)
(* select, even while it retries a failing message over and over.          *)
CallReturns == \A m \in Msg : call[m] = "sending" ~> call[m] # "sending"

(* A stopped service returns, even while it has a failure to retry.        *)
ServiceStops == \A c \in Chan : c \in closed ~> svc[c] = "done"

(* Neither a caller (qos.go:126) nor a service (qos.go:154) is kept for    *)
(* ever by the other or by a message that keeps failing.                   *)
CallersAndServiceEnd == CallReturns /\ ServiceStops

(* When next.HandleWrp fails only so often, an accepted message is         *)
(* delivered in the end, unless the handler is stopped or a later delivery *)
(* overtakes a failing one.                                                *)
Overtaken(m) ==
  \E i, j \in DOMAIN attempts :
    i < j /\ attempts[i].msg.id = m /\ attempts[j].msg.id # m
DeliveredInTheEnd ==
  \A m \in Msg :
    call[m] = "accepted" ~>
      \/ \E i \in DOMAIN attempts : attempts[i].msg.id = m /\ attempts[i].st = "ok"
      \/ Overtaken(m)
      \/ closed # {}

-----------------------------------------------------------------------------
(* qos.go: "Delivery failed, re-enqueue message and try again later."  A   *)
(* message accepted by a service that still runs is never forgotten.       *)
FailedIsRetried ==
  \A i \in DOMAIN attempts :
    Running(attempts[i].svc) => ~Lost(attempts[i].msg.id)
=============================================================================
