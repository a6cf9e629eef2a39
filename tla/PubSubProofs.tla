---------------------------- MODULE PubSubProofs ----------------------------
(***************************************************************************)
(* EveryListenerIsCalled and ResultIsFounded for any listeners, routes and *)
(* messages, and for any nesting of calls in handlers; then OneReceiver    *)
(* and MapIsNewest, of the adapter that makes the listeners, for any names *)
(* and any number of starts and registrations.                             *)
(*                                                                         *)
(* The strengthening of the first two follows a publication over its       *)
(* routes (VisitInv, CalledInv), keeps the calls that handlers make apart  *)
(* (CallerInv: who waits for a call waits for one only, so that no         *)
(* goroutine runs again after it has ended), and says what a closed done,  *)
(* a signal and a result mean (DoneInv, HandledInv, ResultInv).            *)
(***************************************************************************)
EXTENDS PubSub, Libparodus, TLAPS

AtWork == {"running", "calling", "accepted"}

\* How far the loop of HandleWrp over the routes has come.
VisitInv ==
  /\ \A p \in Pub :
       /\ pc[p] \in {"idle", "rlock"} => visited[p] = 0
       /\ pc[p] = "visit" => visited[p] < Len(Routes(p))
       /\ pc[p] = "wait" => visited[p] = Len(Routes(p))
  /\ \A t \in Task : task[t] # "none" => t[2] <= visited[t[1]]

\* While a publication holds the lock, the listeners of the routes it has visited
\* have their goroutine.
CalledInv ==
  \A t \in Task :
    /\ pc[t[1]] \in {"visit", "wait"} /\ t[2] <= visited[t[1]]
    /\ sub[t[3]] = "on" /\ routeOf[t[3]] = Routes(t[1])[t[2]]
    => task[t] # "none"

\* A call of HandleWrp or of subscribe that has not returned.
Pending(x) ==
  \/ x \in Pub /\ pc[x] \in {"rlock", "visit", "wait"}
  \/ x \in Listener /\ sub[x] = "blocked"

\* The writer that waits has not returned; a handler waits for one call at a time.
CallerInv ==
  /\ writer # None => sub[writer] = "blocked"
  /\ \A x \in Pub \cup Listener :
       Pending(x) /\ caller[x] # None =>
         /\ task[caller[x]] = "calling"
         /\ \A y \in Pub \cup Listener : Pending(y) /\ caller[y] = caller[x] => y = x

\* done is closed when every route was visited and no handler is at work.
DoneInv ==
  \A p \in Pub : done[p] =>
    /\ visited[p] = Len(Routes(p))
    /\ \A t \in Task : t[1] = p => task[t] \notin AtWork

\* A signal comes from a handler that accepted.
HandledInv ==
  \A p \in Pub : handled[p] > 0 => \E t \in Task : t[1] = p /\ task[t] = "ended"

\* What a result says of the handlers, the group and the timer.
ResultInv ==
  \A p \in Pub :
    /\ result[p] = "nil" => \E t \in Task : t[1] = p /\ task[t] = "ended"
    /\ result[p] = "ErrNotHandled" /\ visited[p] > 0 => done[p]
    /\ result[p] = "ErrTimeout" => expired[p]
    /\ pc[p] # "returned" => result[p] = "none"

IInv ==
  /\ TypeOK /\ VisitInv /\ CalledInv /\ CallerInv /\ DoneInv /\ HandledInv
  /\ ResultInv

-----------------------------------------------------------------------------
\* A message has one, two or three routes.
LEMMA RoutesLen == \A p \in Pub : Len(Routes(p)) \in 1..3
  BY DEF Routes, routes, serviceRoute, eventRoute, egressRoute

\* The parts of a handler's goroutine: publication, route and listener.
LEMMA TaskParts == \A t \in Task : t[1] \in Pub /\ t[2] \in 1..3 /\ t[3] \in Listener
  BY DEF Task

\* Nothing is published yet.
LEMMA InitIInv == Init => IInv
  <1> USE PubSubAssumption DEF Init
  <1>1. Init => TypeOK
    BY DEF TypeOK
  <1>2. Init => VisitInv
    BY DEF VisitInv
  <1>3. Init => CalledInv
    BY TaskParts DEF CalledInv
  <1>4. Init => CallerInv
    BY DEF CallerInv
  <1>5. Init => DoneInv /\ HandledInv /\ ResultInv
    BY DEF DoneInv, HandledInv, ResultInv
  <1> QED
    BY <1>1, <1>2, <1>3, <1>4, <1>5 DEF IInv

-----------------------------------------------------------------------------
\* Goroutines that are at work may go on; nothing else changes of them.
TasksGoOn ==
  /\ task' \in [Task -> {"none", "refused", "ended"} \cup AtWork]
  /\ \A t \in Task : task'[t] # task[t] => task[t] \in AtWork /\ task'[t] # "none"

\* What such a step keeps.
LEMMA TasksKept ==
  ASSUME IInv, TasksGoOn, UNCHANGED <<visited, done>>
  PROVE  /\ \A t \in Task : task'[t] # "none" => t[2] <= visited[t[1]]
         /\ DoneInv'
         /\ \A t \in Task : task[t] = "ended" => task'[t] = "ended"
         /\ \A t \in Task : task[t] # "none" => task'[t] # "none"
  BY DEF IInv, TasksGoOn, VisitInv, DoneInv, AtWork

\* Whoever calls is running; whoever a call returns to has waited for it.
LEMMA BlockedOK ==
  ASSUME IInv, NEW t \in Task \cup {None}, Calls(t), task' = Blocked(t)
  PROVE  /\ TasksGoOn
         /\ t # None => task[t] = "running" /\ task'[t] = "calling"
         /\ \A u \in Task : u # t => task'[u] = task[u]
  BY PubSubAssumption DEF IInv, TypeOK, Calls, Blocked, TasksGoOn, AtWork

\* A call that returns lets the handler that made it go on, and nobody else.
LEMMA ResumedOK ==
  ASSUME IInv, NEW x \in Pub \cup Listener, Pending(x), task' = Resumed(caller[x])
  PROVE  /\ TasksGoOn
         /\ \A u \in Task : u # caller[x] => task'[u] = task[u]
  <1>1. caller[x] # None => caller[x] \in Task /\ task[caller[x]] = "calling"
    BY DEF IInv, TypeOK, CallerInv
  <1> QED
    BY <1>1, PubSubAssumption DEF IInv, TypeOK, Resumed, TasksGoOn, AtWork

\* What concerns the publications only holds on when they are where they were.
LEMMA PubsKept ==
  ASSUME IInv, TasksGoOn, UNCHANGED pubVars
  PROVE  VisitInv' /\ DoneInv' /\ HandledInv' /\ ResultInv'
  <1>1. VisitInv'
    BY TasksKept DEF IInv, VisitInv, pubVars
  <1>2. DoneInv'
    BY TasksKept DEF pubVars
  <1>3. HandledInv' /\ ResultInv'
    BY TasksKept DEF IInv, HandledInv, ResultInv, pubVars
  <1> QED
    BY <1>1, <1>2, <1>3

-----------------------------------------------------------------------------
\* Subscriptions.
LEMMA SubscribeIInv ==
  ASSUME IInv, NEW l \in Listener, NEW t \in Task \cup {None}, Subscribe(l, t)
  PROVE  IInv'
  <1> USE PubSubAssumption DEF Subscribe
  <1>1. TasksGoOn
    BY BlockedOK
  <1>2. TypeOK'
    BY <1>1 DEF IInv, TypeOK, TasksGoOn, AtWork, pubVars
  <1>3. VisitInv' /\ DoneInv' /\ HandledInv' /\ ResultInv'
    BY <1>1, PubsKept
  <1>4. CalledInv'
    BY <1>1, TasksKept, TaskParts DEF IInv, TypeOK, CalledInv, pubVars
  <1>5. CallerInv'
    <2>1. \A y \in Pub \cup Listener : y # l => (Pending(y)' <=> Pending(y)) /\ caller'[y] = caller[y]
      BY DEF IInv, TypeOK, Pending, pubVars
    <2>2. caller'[l] = t
      BY DEF IInv, TypeOK
    <2>3. \A y \in Pub \cup Listener : y # l /\ Pending(y) /\ caller[y] # None =>
            caller[y] # t /\ caller[y] \in Task /\ task'[caller[y]] = "calling"
      BY BlockedOK DEF IInv, TypeOK, CallerInv
    <2>4. t # None => task'[t] = "calling"
      BY BlockedOK
    <2>5. writer' # None => sub'[writer'] = "blocked"
      BY DEF IInv, TypeOK, CallerInv
    <2> QED
      BY <2>1, <2>2, <2>3, <2>4, <2>5 DEF IInv, CallerInv
  <1> QED
    BY <1>2, <1>3, <1>4, <1>5 DEF IInv

\* subscribe, with the lock: a new listener is nobody's task yet, since no
\* publication is on its way.
LEMMA AddedIInv ==
  ASSUME IInv, NEW l \in Listener, Added(l)
  PROVE  IInv'
  <1> USE PubSubAssumption DEF Added
  <1>1. Pending(l)
    BY DEF IInv, CallerInv, Pending
  <1>2. TasksGoOn /\ \A u \in Task : u # caller[l] => task'[u] = task[u]
    BY <1>1, ResumedOK
  <1>3. TypeOK'
    BY <1>2 DEF IInv, TypeOK, TasksGoOn, AtWork, pubVars
  <1>4. VisitInv' /\ DoneInv' /\ HandledInv' /\ ResultInv'
    BY <1>2, PubsKept
  <1>5. CalledInv'
    BY TaskParts DEF CalledInv, Readers, pubVars
  <1>6. CallerInv'
    <2>1. ~Pending(l)'
      BY DEF IInv, TypeOK, Pending
    <2>2. \A y \in Pub \cup Listener : y # l => (Pending(y)' <=> Pending(y))
      BY DEF IInv, TypeOK, Pending, pubVars
    <2>3. \A y \in Pub \cup Listener : y # l /\ Pending(y) /\ caller[y] # None =>
            caller[y] # caller[l] /\ caller[y] \in Task /\ task'[caller[y]] = "calling"
      BY <1>1, <1>2 DEF IInv, TypeOK, CallerInv
    <2> QED
      BY <2>1, <2>2, <2>3 DEF IInv, CallerInv
  <1> QED
    BY <1>3, <1>4, <1>5, <1>6 DEF IInv

\* subscribe begins to wait for the lock.
LEMMA LockIInv ==
  ASSUME IInv, NEW l \in Listener, LockWaits(l) \/ Cancel(l)
  PROVE  IInv'
  <1> USE DEF LockWaits, Cancel
  <1>1. TasksGoOn
    BY DEF IInv, TypeOK, TasksGoOn, AtWork
  <1>2. TypeOK'
    BY DEF IInv, TypeOK, pubVars
  <1>3. VisitInv' /\ DoneInv' /\ HandledInv' /\ ResultInv'
    BY <1>1, PubsKept
  <1>4. CalledInv'
    BY TaskParts DEF IInv, TypeOK, CalledInv, pubVars
  <1>5. CallerInv'
    <2>1. \A y \in Pub \cup Listener : Pending(y)' <=> Pending(y)
      BY DEF IInv, TypeOK, Pending, pubVars
    <2>2. writer' # None => sub'[writer'] = "blocked"
      BY DEF IInv, TypeOK, CallerInv
    <2> QED
      BY <2>1, <2>2 DEF IInv, CallerInv
  <1> QED
    BY <1>2, <1>3, <1>4, <1>5 DEF IInv

-----------------------------------------------------------------------------
\* Publications.
LEMMA HandleWrpIInv ==
  ASSUME IInv, NEW p \in Pub, NEW t \in Task \cup {None}, HandleWrp(p, t)
  PROVE  IInv'
  <1> USE PubSubAssumption
  <1>1. CASE normalizeFails(message[p])
    <2>1. /\ pc' = [pc EXCEPT ![p] = "returned"] /\ pc[p] = "idle"
          /\ result' = [result EXCEPT ![p] = "ErrNotHandled"]
          /\ UNCHANGED <<task, caller, sub, writer, visited, handled, done, stop, expired>>
      BY <1>1 DEF HandleWrp
    <2>2. TypeOK'
      BY <2>1 DEF IInv, TypeOK
    <2>3. VisitInv' /\ CalledInv'
      BY <2>1, TaskParts DEF IInv, TypeOK, VisitInv, CalledInv
    <2>4. CallerInv'
      <3>1. \A y \in Pub \cup Listener : Pending(y)' <=> Pending(y)
        BY <2>1 DEF IInv, TypeOK, Pending
      <3> QED
        BY <2>1, <3>1 DEF IInv, CallerInv
    <2>5. DoneInv' /\ HandledInv'
      BY <2>1 DEF IInv, DoneInv, HandledInv
    <2>6. ResultInv'
      BY <2>1 DEF IInv, TypeOK, VisitInv, ResultInv
    <2> QED
      BY <2>2, <2>3, <2>4, <2>5, <2>6 DEF IInv
  <1>2. CASE ~normalizeFails(message[p])
    <2>1. /\ pc' = [pc EXCEPT ![p] = "rlock"] /\ pc[p] = "idle" /\ Calls(t)
          /\ caller' = [caller EXCEPT ![p] = t] /\ task' = Blocked(t)
          /\ UNCHANGED <<sub, writer, visited, handled, done, stop, expired, result>>
      BY <1>2, SMT, SMTT(60) DEF HandleWrp
    <2>2. TasksGoOn
      BY <2>1, BlockedOK
    <2>3. TypeOK'
      BY <2>1, <2>2, SMT, SMTT(60) DEF IInv, TypeOK, TasksGoOn, AtWork
    <2>4. VisitInv' /\ CalledInv'
      BY <2>1, <2>2, TasksKept, TaskParts DEF IInv, TypeOK, VisitInv, CalledInv
    <2>5. CallerInv'
      <3>1. \A y \in Pub \cup Listener :
              y # p => (Pending(y)' <=> Pending(y)) /\ caller'[y] = caller[y]
        BY <2>1 DEF IInv, TypeOK, Pending
      <3>2. caller'[p] = t
        BY <2>1, SMT, SMTT(60) DEF IInv, TypeOK
      <3>3. \A y \in Pub \cup Listener : y # p /\ Pending(y) /\ caller[y] # None =>
              caller[y] # t /\ caller[y] \in Task /\ task'[caller[y]] = "calling"
        BY <2>1, BlockedOK, SMT, SMTT(60) DEF IInv, TypeOK, CallerInv
      <3>4. t # None => task'[t] = "calling"
        BY <2>1, BlockedOK
      <3> QED
        BY <2>1, <3>1, <3>2, <3>3, <3>4 DEF IInv, CallerInv
    <2>6. DoneInv' /\ HandledInv'
      BY <2>1, <2>2, TasksKept, SMT, SMTT(60) DEF IInv, HandledInv
    <2>7. ResultInv'
      BY <2>1, <2>2, TasksKept DEF IInv, TypeOK, ResultInv
    <2> QED
      BY <2>3, <2>4, <2>5, <2>6, <2>7 DEF IInv
  <1> QED
    BY <1>1, <1>2

\* The read lock is got, the time is over, or done is closed.
LEMMA RLockIInv ==
  ASSUME IInv, NEW p \in Pub, RLock(p)
  PROVE  IInv'
  <1> USE DEF RLock
  <1>1. TypeOK'
    BY DEF IInv, TypeOK
  <1>2. VisitInv'
    <2>1. visited[p] = 0 /\ 0 < Len(Routes(p))
      BY RoutesLen DEF IInv, VisitInv
    <2> QED
      BY <2>1 DEF IInv, TypeOK, VisitInv
  <1>3. CalledInv'
    BY TaskParts, SMT, SMTT(60) DEF IInv, TypeOK, VisitInv, CalledInv
  <1>4. CallerInv'
    <2>1. \A y \in Pub \cup Listener : Pending(y)' <=> Pending(y)
      BY DEF IInv, TypeOK, Pending
    <2> QED
      BY <2>1 DEF IInv, CallerInv
  <1>5. DoneInv' /\ HandledInv' /\ ResultInv'
    BY DEF IInv, TypeOK, DoneInv, HandledInv, ResultInv
  <1> QED
    BY <1>1, <1>2, <1>3, <1>4, <1>5 DEF IInv

\* The publish timeout.
LEMMA ExpireIInv ==
  ASSUME IInv, NEW p \in Pub, Expire(p) \/ CloseDone(p)
  PROVE  IInv'
  <1> USE DEF Expire, CloseDone
  <1>1. TypeOK'
    BY ZenonT(60) DEF IInv, TypeOK
  <1>2. VisitInv' /\ CalledInv'
    BY DEF IInv, VisitInv, CalledInv
  <1>3. CallerInv'
    <2>1. \A y \in Pub \cup Listener : Pending(y)' <=> Pending(y)
      BY DEF Pending
    <2> QED
      BY <2>1 DEF IInv, CallerInv
  <1>4. DoneInv'
    BY DEF IInv, TypeOK, DoneInv, Unfinished, Tasks, AtWork
  <1>5. HandledInv' /\ ResultInv'
    BY DEF IInv, TypeOK, HandledInv, ResultInv
  <1> QED
    BY <1>1, <1>2, <1>3, <1>4, <1>5 DEF IInv

\* The next route: its listeners get goroutines that were not there.
LEMMA VisitIInv ==
  ASSUME IInv, NEW p \in Pub, Visit(p)
  PROVE  IInv'
  <1> DEFINE k == visited[p] + 1
  <1>1. /\ pc[p] = "visit"
        /\ visited' = [visited EXCEPT ![p] = k]
        /\ pc' = [pc EXCEPT ![p] = IF k = Len(Routes(p)) THEN "wait" ELSE "visit"]
        /\ UNCHANGED <<sub, writer, caller, handled, done, stop, expired, result>>
    BY DEF Visit
  <1>2. k \in 1..3 /\ k <= Len(Routes(p)) /\ Len(Routes(p)) \in Nat
    <2>1. PICK n \in 1..3 : n = Len(Routes(p))
      BY RoutesLen
    <2>2. visited[p] \in 0..3 /\ visited[p] < n
      BY <1>1, <2>1 DEF IInv, TypeOK, VisitInv
    <2>3. k \in 1..3 /\ k <= n /\ n \in Nat
      BY <2>2
    <2> QED
      BY <2>1, <2>3
  <1>3. /\ task' \in [Task -> {"none", "refused", "ended"} \cup AtWork]
        /\ \A t \in Task :
             task'[t] = IF /\ t[1] = p /\ t[2] = k
                           /\ sub[t[3]] = "on" /\ routeOf[t[3]] = Routes(p)[k]
                        THEN "running" ELSE task[t]
    BY TaskParts DEF IInv, TypeOK, Visit, Subscribed, AtWork
  <1>4. \A t \in Task : t[1] = p /\ t[2] = k => task[t] = "none"
    BY <1>2, TaskParts DEF IInv, TypeOK, VisitInv
  <1> HIDE DEF k
  <1>5. TypeOK'
    BY <1>1, <1>2, <1>3 DEF IInv, TypeOK, AtWork
  <1>6. VisitInv'
    <2>1. ASSUME NEW q \in Pub
          PROVE  /\ pc'[q] \in {"idle", "rlock"} => visited'[q] = 0
                 /\ pc'[q] = "visit" => visited'[q] < Len(Routes(q))
                 /\ pc'[q] = "wait" => visited'[q] = Len(Routes(q))
      BY <1>1, <1>2 DEF IInv, TypeOK, VisitInv
    <2>2. ASSUME NEW t \in Task, task'[t] # "none" PROVE t[2] <= visited'[t[1]]
      BY <1>1, <1>2, <1>3, <2>2, TaskParts DEF IInv, TypeOK, VisitInv, k
    <2> QED
      BY <2>1, <2>2 DEF VisitInv
  <1>7. CalledInv'
    <2> SUFFICES ASSUME NEW t \in Task,
                        pc'[t[1]] \in {"visit", "wait"}, t[2] <= visited'[t[1]],
                        sub[t[3]] = "on", routeOf[t[3]] = Routes(t[1])[t[2]]
                 PROVE  task'[t] # "none"
      BY <1>1 DEF CalledInv
    <2>1. CASE t[1] # p
      BY <1>1, <1>3, <2>1, TaskParts DEF IInv, TypeOK, CalledInv
    <2>2. CASE t[1] = p /\ t[2] = k
      BY <1>3, <2>2, SMT, SMTT(60)
    <2>3. CASE t[1] = p /\ t[2] # k
      <3>1. t[2] <= visited[p]
        BY <1>1, <2>3, TaskParts DEF IInv, TypeOK, k
      <3> QED
        BY <1>1, <1>3, <2>3, <3>1, ZenonT(60) DEF IInv, CalledInv
    <2> QED
      BY <2>1, <2>2, <2>3, SMT, SMTT(60)
  <1>8. CallerInv'
    <2>1. \A y \in Pub \cup Listener : Pending(y)' <=> Pending(y)
      BY <1>1 DEF IInv, TypeOK, Pending
    <2>2. \A t \in Task : task[t] = "calling" => task'[t] = "calling"
      BY <1>3, <1>4
    <2> QED
      BY <1>1, <2>1, <2>2 DEF IInv, TypeOK, CallerInv
  <1>9. DoneInv'
    <2>1. ~done[p]
      BY <1>1, RoutesLen DEF IInv, TypeOK, VisitInv, DoneInv
    <2> QED
      BY <1>1, <1>3, <2>1 DEF IInv, TypeOK, DoneInv
  <1>10. HandledInv' /\ ResultInv'
    <2>1. \A t \in Task : task[t] = "ended" => task'[t] = "ended"
      BY <1>3, <1>4
    <2> QED
      BY <1>1, <2>1 DEF IInv, TypeOK, HandledInv, ResultInv
  <1> QED
    BY <1>5, <1>6, <1>7, <1>8, <1>9, <1>10 DEF IInv

\* HandleWrp returns what it has seen.
LEMMA ReturnIInv ==
  ASSUME IInv, NEW p \in Pub, Return(p)
  PROVE  IInv'
  <1> USE PubSubAssumption
  <1>1. PICK r \in {"nil", "ErrNotHandled", "ErrTimeout"} :
          /\ pc[p] = "wait" /\ pc' = [pc EXCEPT ![p] = "returned"]
          /\ result' = [result EXCEPT ![p] = r]
          /\ stop' = [stop EXCEPT ![p] = TRUE]
          /\ task' = Resumed(caller[p])
          /\ UNCHANGED <<sub, writer, visited, caller, done, expired>>
          /\ \/ r = "nil" /\ handled[p] > 0 /\ handled' = [handled EXCEPT ![p] = @ - 1]
             \/ r = "ErrNotHandled" /\ done[p] /\ UNCHANGED handled
             \/ r = "ErrTimeout" /\ expired[p] /\ UNCHANGED handled
    BY DEF Return
  <1>2. Pending(p)
    BY <1>1 DEF Pending
  <1>3. TasksGoOn /\ \A u \in Task : u # caller[p] => task'[u] = task[u]
    BY <1>1, <1>2, ResumedOK
  <1>4. TypeOK'
    BY <1>1, <1>3, SMT, SMTT(60) DEF IInv, TypeOK, TasksGoOn, AtWork
  <1>5. VisitInv'
    BY <1>1, <1>3, TasksKept, SMT, SMTT(60) DEF IInv, TypeOK, VisitInv
  <1>6. CalledInv'
    BY <1>1, <1>3, TasksKept, TaskParts, SMT, SMTT(60) DEF IInv, TypeOK, CalledInv
  <1>7. CallerInv'
    <2>1. ~Pending(p)'
      BY <1>1 DEF IInv, TypeOK, Pending
    <2>2. \A y \in Pub \cup Listener : y # p => (Pending(y)' <=> Pending(y))
      BY <1>1, SMT, SMTT(60) DEF IInv, TypeOK, Pending
    <2>3. \A y \in Pub \cup Listener : y # p /\ Pending(y) /\ caller[y] # None =>
            caller[y] # caller[p] /\ caller[y] \in Task /\ task'[caller[y]] = "calling"
      BY <1>2, <1>3 DEF IInv, TypeOK, CallerInv
    <2> QED
      BY <1>1, <2>1, <2>2, <2>3 DEF IInv, CallerInv
  <1>8. DoneInv'
    BY <1>1, <1>3, TasksKept, SMT, SMTT(60)
  <1>9. HandledInv'
    <2>1. \A q \in Pub : handled'[q] > 0 => handled[q] > 0
      BY <1>1, SMT, SMTT(60) DEF IInv, TypeOK
    <2> QED
      BY <1>1, <1>3, <2>1, TasksKept DEF IInv, HandledInv
  <1>10. ResultInv'
    BY <1>1, <1>3, TasksKept DEF IInv, TypeOK, HandledInv, ResultInv
  <1> QED
    BY <1>4, <1>5, <1>6, <1>7, <1>8, <1>9, <1>10 DEF IInv

\* A handler returns, and the goroutine signals.
LEMMA HandlerIInv ==
  ASSUME IInv, NEW t \in Task, HandlerReturns(t) \/ Signal(t)
  PROVE  IInv'
  <1>1. /\ task[t] \in {"running", "accepted"}
        /\ \E r \in {"accepted", "refused", "ended"} : task' = [task EXCEPT ![t] = r]
        /\ UNCHANGED <<sub, writer, caller, pc, visited, done, stop, expired, result>>
    BY DEF HandlerReturns, Signal, pubVars
  <1>2. TasksGoOn
    BY <1>1 DEF IInv, TypeOK, TasksGoOn, AtWork
  <1>3. handled' \in [Pub -> 0..1]
    BY TaskParts DEF IInv, TypeOK, HandlerReturns, Signal, pubVars
  <1>4. TypeOK'
    BY <1>1, <1>2, <1>3, SMT, SMTT(60) DEF IInv, TypeOK, TasksGoOn, AtWork
  <1>5. VisitInv' /\ CalledInv' /\ DoneInv'
    BY <1>1, <1>2, TasksKept DEF IInv, VisitInv, CalledInv
  <1>6. CallerInv'
    <2>1. \A y \in Pub \cup Listener : Pending(y)' <=> Pending(y)
      BY <1>1 DEF Pending
    <2>2. \A u \in Task : task[u] = "calling" => task'[u] = "calling"
      BY <1>1 DEF IInv, TypeOK
    <2> QED
      BY <1>1, <2>1, <2>2, SMT, SMTT(60) DEF IInv, TypeOK, CallerInv
  <1>7. HandledInv'
    <2>1. \A q \in Pub : handled'[q] > 0 => handled[q] > 0 \/ (q = t[1] /\ task'[t] = "ended")
      BY TaskParts DEF IInv, TypeOK, HandlerReturns, Signal, pubVars
    <2> QED
      BY <1>1, <1>2, <2>1, TasksKept DEF IInv, HandledInv
  <1>8. ResultInv'
    BY <1>1, <1>2, TasksKept DEF IInv, ResultInv
  <1> QED
    BY <1>4, <1>5, <1>6, <1>7, <1>8 DEF IInv

-----------------------------------------------------------------------------
\* Every step keeps the invariant.
LEMMA NextIInv == IInv /\ [Next]_vars => IInv'
  <1> SUFFICES ASSUME IInv, [Next]_vars PROVE IInv'
    OBVIOUS
  <1>1. CASE UNCHANGED vars
    <2>1. \A y \in Pub \cup Listener : Pending(y)' <=> Pending(y)
      BY <1>1, SMT, SMTT(60) DEF Pending, vars
    <2>2. TypeOK' /\ VisitInv' /\ CalledInv'
      BY <1>1, <2>1, SMT, SMTT(30) DEF IInv, vars, TypeOK, VisitInv, CalledInv
    <2>3. CallerInv' /\ DoneInv'
      BY <1>1, <2>1, SMT, SMTT(30) DEF IInv, vars, CallerInv, DoneInv
    <2>4. HandledInv' /\ ResultInv'
      BY <1>1, SMT, SMTT(30) DEF IInv, vars, HandledInv, ResultInv
    <2> QED
      BY <2>2, <2>3, <2>4 DEF IInv
  <1> QED
    BY <1>1, SubscribeIInv, LockIInv, AddedIInv, HandleWrpIInv, RLockIInv, VisitIInv,
       ExpireIInv, ReturnIInv, HandlerIInv DEF Next

\* The strengthened invariant holds.
THEOREM Inductive == Spec => []IInv
  BY InitIInv, NextIInv, PTL DEF Spec

\* However listeners come and go, and whoever publishes from inside a handler, a
\* publication that waits has called every listener of its routes.
THEOREM NobodyIsSkipped == Spec => []EveryListenerIsCalled
  <1>1. ASSUME IInv PROVE EveryListenerIsCalled
    <2> SUFFICES ASSUME NEW p \in Pub, pc[p] = "wait", NEW k \in 1..Len(Routes(p)),
                        NEW l \in Listener, sub[l] = "on", routeOf[l] = Routes(p)[k]
                 PROVE  task[<<p, k, l>>] # "none"
      BY DEF EveryListenerIsCalled, Subscribed
    <2>1. <<p, k, l>> \in Task
      BY RoutesLen DEF Task
    <2>2. k <= visited[p]
      BY <1>1, RoutesLen DEF IInv, VisitInv
    <2> QED
      BY <1>1, <2>1, <2>2 DEF IInv, CalledInv
  <1> QED
    BY Inductive, <1>1, PTL

\* What HandleWrp returns has a ground: an accepting handler, no handler at work any
\* more, or the timeout.
THEOREM ResultHasGround == Spec => []ResultIsFounded
  <1>1. ASSUME IInv PROVE ResultIsFounded
    <2> SUFFICES ASSUME NEW p \in Pub, visited[p] > 0
                 PROVE  /\ result[p] = "nil" => \E t \in Tasks(p) : task[t] = "ended"
                        /\ result[p] = "ErrNotHandled" => Unfinished(p) = {}
                        /\ result[p] = "ErrTimeout" => expired[p]
      BY DEF ResultIsFounded
    <2>1. result[p] = "nil" => \E t \in Tasks(p) : task[t] = "ended"
      BY <1>1 DEF IInv, ResultInv, Tasks
    <2>2. result[p] = "ErrNotHandled" => Unfinished(p) = {}
      BY <1>1 DEF IInv, TypeOK, ResultInv, DoneInv, Unfinished, Tasks, AtWork
    <2>3. result[p] = "ErrTimeout" => expired[p]
      BY <1>1 DEF IInv, ResultInv
    <2> QED
      BY <2>1, <2>2, <2>3
  <1> QED
    BY Inductive, <1>1, PTL

-----------------------------------------------------------------------------
(* The adapter (Libparodus).  OneReceiver needs that a.shutdown always is  *)
(* the one receiver that is not cancelled (ShutdownInv).  MapIsNewest      *)
(* needs that two receivers are never both past Listen, since the socket   *)
(* of the first stays bound, so that registrations do not overlap          *)
(* (BoundInv), and that the map points to externals there are (MapInv).    *)

Registering == {"dialed", "replaced"}
Bound == {"listening", "loop"} \cup Registering

External ==
  [name : Name, gen : Nat, live : BOOLEAN, gone : BOOLEAN,
   ka : {"none", "auth", "select", "send", "cancel", "done"}]

\* What the proofs need of the types.
AdapterTypes ==
  /\ shutdown \in 0..MaxStarts /\ gens \in 0..MaxStarts
  /\ canceled \subseteq Gen /\ bound \subseteq Gen
  /\ rcv \in [Gen -> {"none", "spawned", "socket", "failed", "done"} \cup Bound]
  /\ subServices \in [Name -> 0..MaxExts] /\ exts \in 0..MaxExts
  /\ ext \in [Ext -> External]

\* a.shutdown is the cancel of the one receiver that is not cancelled.
ShutdownInv ==
  /\ shutdown <= gens
  /\ \A g \in Gen : g > gens => g \notin canceled /\ rcv[g] = "none"
  /\ \A g \in 1..gens : g \notin canceled <=> g = shutdown

\* Who is past Listen has the socket to itself.
BoundInv == \A g \in Gen : rcv[g] \in Bound => bound = {g}

\* The map leads to externals that were made.
MapInv ==
  /\ \A n \in Name : subServices[n] <= exts
  /\ (\E g \in Gen : rcv[g] \in Registering) => exts > 0

AdapterInv == AdapterTypes /\ ShutdownInv /\ BoundInv /\ MapInv /\ MapIsNewest

-----------------------------------------------------------------------------
\* Before the first Start nobody is there.
LEMMA AdapterInitInv == AdapterInit => AdapterInv
  <1> USE LibparodusAssumption DEF AdapterInit, Gen, Ext
  <1>1. AdapterInit => AdapterTypes
    BY DEF AdapterTypes, External, Bound, Registering
  <1>2. AdapterInit => ShutdownInv /\ BoundInv
    BY DEF ShutdownInv, BoundInv, Bound, Registering
  <1>3. AdapterInit => MapInv /\ MapIsNewest
    BY DEF MapInv, MapIsNewest, Registering
  <1> QED
    BY <1>1, <1>2, <1>3, SMT, SMTT(60) DEF AdapterInv

\* What removes entries from the map, and begins and ends no registration, keeps
\* what is said of the map.
LEMMA MapKept ==
  ASSUME AdapterInv, exts' = exts,
         \A e \in Ext : ext'[e].name = ext[e].name,
         \A n \in Name : subServices'[n] \in {0, subServices[n]},
         \A g \in Gen : rcv'[g] \in Registering <=> rcv[g] \in Registering
  PROVE  MapInv' /\ MapIsNewest'
  <1> USE LibparodusAssumption DEF AdapterInv, AdapterTypes, Gen, Ext
  <1>1. MapInv'
    <2>1. ASSUME NEW n \in Name PROVE subServices'[n] <= exts
      <3>1. exts \in Nat /\ subServices[n] <= exts
        BY DEF MapInv
      <3>2. subServices'[n] = 0 \/ subServices'[n] = subServices[n]
        OBVIOUS
      <3> HIDE DEF AdapterInv, AdapterTypes, Gen, Ext
      <3> QED
        BY <3>1, <3>2
    <2> QED
      BY <2>1 DEF MapInv
  <1>2. 1..exts \subseteq Ext
    OBVIOUS
  <1>3. SUFFICES ASSUME NEW n \in Name, NEW e \in 1..exts,
                        subServices'[n] # 0, e > subServices'[n], ext'[e].name = n
                 PROVE  e = exts /\ \E g \in Gen : rcv'[g] \in Registering
    BY <1>1, ZenonT(60) DEF MapIsNewest, Registering
  <1>4. e = exts /\ \E g \in Gen : rcv[g] \in Registering
    BY <1>2, <1>3, ZenonT(60) DEF MapIsNewest, Registering
  <1> QED
    BY <1>4

\* What terminate and keepalive do to an external leaves its name.
LEMMA ExtChanged ==
  ASSUME AdapterTypes, NEW e \in Ext,
         NEW live \in BOOLEAN, NEW gone \in BOOLEAN,
         NEW ka \in {"none", "auth", "select", "send", "cancel", "done"},
         ext' = [ext EXCEPT ![e] = [ext[e] EXCEPT !.live = live, !.gone = gone, !.ka = ka]]
  PROVE  ext' \in [Ext -> External] /\ \A f \in Ext : ext'[f].name = ext[f].name
  BY ZenonT(60) DEF AdapterTypes, External

\* An external that terminate has ended.
LEMMA Terminated ==
  ASSUME AdapterTypes, NEW e \in Ext
  PROVE  /\ terminated(e) \in [Ext -> External]
         /\ \A f \in Ext : terminated(e)[f].name = ext[f].name
  BY ZenonT(60) DEF terminated, AdapterTypes, External

\* A step that changes only the map and the externals, and those as above.
LEMMA ServicesKept ==
  ASSUME AdapterInv, exts' = exts,
         ext' \in [Ext -> External],
         \A e \in Ext : ext'[e].name = ext[e].name,
         subServices' \in [Name -> 0..MaxExts],
         \A n \in Name : subServices'[n] \in {0, subServices[n]},
         UNCHANGED <<shutdown, gens, canceled, rcv, bound>>
  PROVE  AdapterInv'
  <1>1. AdapterTypes' /\ ShutdownInv' /\ BoundInv'
    BY DEF AdapterInv, AdapterTypes, ShutdownInv, BoundInv, Gen
  <1>2. MapInv' /\ MapIsNewest'
    BY MapKept
  <1> QED
    BY <1>1, <1>2 DEF AdapterInv

\* Start and Stop hand the place of the receiver on.
LEMMA CallsIInv ==
  ASSUME AdapterInv,
         \/ Start \/ Stop \/ StopVisited \/ StopReturns
         \/ \E g \in Gen : StartCanceled(g)
  PROVE  AdapterInv'
  <1> USE LibparodusAssumption DEF AdapterInv, services
  <1>1. CASE Start
    <2>1. AdapterTypes'
      BY <1>1 DEF Start, AdapterTypes, Gen
    <2>2. ShutdownInv'
      BY <1>1 DEF Start, AdapterTypes, ShutdownInv, Gen
    <2>3. BoundInv'
      BY <1>1 DEF Start, AdapterTypes, BoundInv, Bound, Registering, Gen
    <2>4. \A g \in Gen : rcv'[g] \in Registering <=> rcv[g] \in Registering
      BY <1>1 DEF Start, AdapterTypes, Registering, ShutdownInv, Gen
    <2>5. MapInv' /\ MapIsNewest'
      BY <1>1, <2>4, MapKept DEF Start
    <2> QED
      BY <2>1, <2>2, <2>3, <2>5
  <1>2. CASE Stop
    <2>1. AdapterTypes'
      BY <1>2 DEF Stop, AdapterTypes, Gen
    <2>2. ShutdownInv'
      BY <1>2 DEF Stop, AdapterTypes, ShutdownInv, Gen
    <2>3. BoundInv'
      BY <1>2 DEF Stop, BoundInv
    <2>4. MapInv' /\ MapIsNewest'
      BY <1>2, MapKept DEF Stop
    <2> QED
      BY <2>1, <2>2, <2>3, <2>4
  <1>3. CASE StopVisited \/ StopReturns \/ \E g \in Gen : StartCanceled(g)
    <2>1. UNCHANGED <<shutdown, gens, canceled, rcv, bound, subServices, exts, ext>>
      BY <1>3 DEF StopVisited, StopReturns, StartCanceled
    <2> QED
      BY <2>1, ServicesKept DEF AdapterTypes
  <1> QED
    BY <1>1, <1>2, <1>3

\* The receiver on its way into its loop and out of it: only the one that finds no
\* socket bound gets there.
LEMMA ReceiverIInv ==
  ASSUME AdapterInv, NEW g \in Gen,
         \/ Enter(g) \/ Listen(g) \/ ReceiveEnds(g)
         \/ \E s \in Gen : Listening(g, s)
  PROVE  AdapterInv'
  <1> USE DEF AdapterInv, calls, services
  <1>1. /\ rcv[g] \notin Registering
        /\ \E p \in {"socket", "listening", "failed", "loop", "done"} :
             /\ rcv' = [rcv EXCEPT ![g] = p]
             /\ \/ p \notin Bound /\ UNCHANGED bound
                \/ p = "listening" /\ bound = {} /\ bound' = {g}
                \/ p = "loop" /\ rcv[g] = "listening" /\ UNCHANGED bound
        /\ rcv[g] # "none"
        /\ UNCHANGED <<shutdown, gens, canceled, services>>
    BY DEF Enter, Listen, ReceiveEnds, Listening, Bound, Registering
  <1>2. AdapterTypes'
    BY <1>1 DEF AdapterTypes, Bound, Registering
  <1>3. ShutdownInv'
    BY <1>1 DEF AdapterTypes, ShutdownInv
  <1>4. BoundInv'
    BY <1>1 DEF AdapterTypes, BoundInv, Bound, Registering
  <1>5. \A h \in Gen : rcv'[h] \in Registering <=> rcv[h] \in Registering
    BY <1>1 DEF AdapterTypes, Registering
  <1>6. MapInv' /\ MapIsNewest'
    BY <1>1, <1>5, MapKept
  <1> QED
    BY <1>2, <1>3, <1>4, <1>6, SMT, SMTT(60)

\* A registration: no other is under way.
LEMMA RegisterIInv ==
  ASSUME AdapterInv, NEW g \in Gen, NEW n \in Name, Register(g, n)
  PROVE  AdapterInv'
  <1> USE LibparodusAssumption DEF AdapterInv, Register, calls
  <1>1. exts + 1 \in Ext /\ 1..exts \subseteq Ext
    BY DEF AdapterTypes, Ext
  <1>2. \A h \in Gen : rcv[h] \notin Registering
    BY SMT, SMTT(60) DEF BoundInv, Bound, Registering
  <1>3. AdapterTypes'
    BY <1>1, SMT, SMTT(60) DEF AdapterTypes, External, Bound, Registering, Gen, Ext
  <1>4. ShutdownInv' /\ BoundInv'
    BY SMT, SMTT(60) DEF AdapterTypes, ShutdownInv, BoundInv, Bound, Registering
  <1>5. MapInv'
    BY <1>3 DEF AdapterTypes, MapInv
  <1>6. MapIsNewest'
    <2> SUFFICES ASSUME NEW k \in Name, NEW e \in 1..(exts + 1),
                        subServices[k] # 0, e > subServices[k], ext'[e].name = k
                 PROVE  e = exts + 1 /\ \E h \in Gen : rcv'[h] \in Registering
      BY SMT, SMTT(60) DEF MapIsNewest, Registering
    <2>1. rcv'[g] \in Registering
      BY DEF AdapterTypes, Registering
    <2>2. e # exts + 1 => e \in 1..exts /\ ext'[e] = ext[e]
      BY <1>1, SMT, SMTT(60) DEF AdapterTypes, Ext
    <2>3. e = exts + 1
      BY <1>2, <2>2 DEF MapIsNewest, Registering
    <2> QED
      BY <2>1, <2>3, SMT, SMTT(60)
  <1> QED
    BY <1>3, <1>4, <1>5, <1>6, SMT, SMTT(60)

\* The external before it under its name is removed, and the new one entered.
LEMMA ReplaceIInv ==
  ASSUME AdapterInv, NEW g \in Gen, Replace(g)
  PROVE  AdapterInv'
  <1> USE LibparodusAssumption DEF AdapterInv, calls, Registering
  <1> DEFINE n == ext[exts].name
  <1>1. exts \in Ext /\ n \in Name
    BY DEF Replace, AdapterTypes, External, MapInv, Ext
  <1>2. subServices[n] # 0 => subServices[n] \in Ext
    BY <1>1, SMT, SMTT(60) DEF AdapterTypes, Ext
  <1>3. /\ rcv' = [rcv EXCEPT ![g] = "replaced"] /\ rcv[g] = "dialed"
        /\ UNCHANGED <<shutdown, gens, canceled, bound, exts>>
        /\ ext' \in [Ext -> External]
        /\ \A e \in Ext : ext'[e].name = ext[e].name
        /\ subServices' \in [Name -> 0..MaxExts]
        /\ \A k \in Name : subServices'[k] \in {0, subServices[k]}
    BY <1>1, <1>2, Terminated, SMT, SMTT(60) DEF Replace, AdapterTypes, without
  <1>4. AdapterTypes' /\ ShutdownInv' /\ BoundInv'
    BY <1>3, SMT, SMTT(60) DEF AdapterTypes, ShutdownInv, BoundInv, Bound
  <1>5. MapInv' /\ MapIsNewest'
    BY <1>3, MapKept DEF AdapterTypes
  <1> QED
    BY <1>4, <1>5

\* The last step of a registration puts the newest external into the map.
LEMMA RegisteredIInv ==
  ASSUME AdapterInv, NEW g \in Gen, Registered(g)
  PROVE  AdapterInv'
  <1> USE LibparodusAssumption DEF AdapterInv, calls, Registered
  <1> DEFINE n == ext[exts].name
  <1>1. exts \in Ext /\ n \in Name /\ exts \in 1..exts
    BY DEF AdapterTypes, External, MapInv, Ext, Registering
  <1>2. AdapterTypes'
    BY <1>1 DEF AdapterTypes, Bound
  <1>3. ShutdownInv' /\ BoundInv'
    BY DEF AdapterTypes, ShutdownInv, BoundInv, Bound, Registering
  <1>4. \A k \in Name : subServices'[k] = IF k = n THEN exts ELSE subServices[k]
    BY DEF AdapterTypes
  <1>5. MapInv'
    BY <1>1, <1>4 DEF AdapterTypes, MapInv
  <1>6. MapIsNewest'
    <2> SUFFICES ASSUME NEW k \in Name, NEW e \in 1..exts,
                        subServices'[k] # 0, e > subServices'[k], ext[e].name = k
                 PROVE  FALSE
      BY DEF MapIsNewest
    <2>1. k # n /\ subServices'[k] = subServices[k]
      BY <1>1, <1>4 DEF AdapterTypes
    <2>2. e = exts
      BY <2>1 DEF MapIsNewest
    <2> QED
      BY <2>1, <2>2
  <1> QED
    BY <1>2, <1>3, <1>5, <1>6

\* Keepalive, cancellation and the failing registration only remove entries.
LEMMA ServicesIInv ==
  ASSUME AdapterInv,
         \/ \E n \in Name : StopVisits(n)
         \/ \E g \in Gen, n \in Name : RegisterFails(g, n)
         \/ \E e \in Ext : Keepalive(e) \/ Gone(e)
  PROVE  AdapterInv'
  <1> USE LibparodusAssumption DEF AdapterInv, calls, services, without
  <1>1. ASSUME NEW n \in Name, StopVisits(n) PROVE AdapterInv'
    <2>1. subServices[n] # 0 => subServices[n] \in Ext
      BY SMT, SMTT(60) DEF AdapterTypes, Ext
    <2>2. /\ ext' \in [Ext -> External]
          /\ \A e \in Ext : ext'[e].name = ext[e].name
      BY <1>1, <2>1, Terminated, SMT, SMTT(60) DEF StopVisits, AdapterTypes
    <2>3. /\ subServices' \in [Name -> 0..MaxExts]
          /\ \A k \in Name : subServices'[k] \in {0, subServices[k]}
      BY <1>1, SMT, SMTT(60) DEF StopVisits, AdapterTypes
    <2> QED
      BY <1>1, <2>2, <2>3, ServicesKept DEF StopVisits
  <1>2. ASSUME NEW g \in Gen, NEW n \in Name, RegisterFails(g, n) PROVE AdapterInv'
    <2>1. /\ subServices' \in [Name -> 0..MaxExts]
          /\ \A k \in Name : subServices'[k] \in {0, subServices[k]}
      BY <1>2 DEF RegisterFails, AdapterTypes
    <2> QED
      BY <1>2, <2>1, ServicesKept DEF RegisterFails, AdapterTypes
  <1>3. ASSUME NEW e \in Ext PROVE ext[e] \in External
    BY DEF AdapterTypes
  <1>4. ASSUME NEW e \in Ext, KeepaliveCancels(e) PROVE AdapterInv'
    <2>1. ext[e].gone \in BOOLEAN /\ ext[e].name \in Name
      BY <1>3 DEF External
    <2>2. ext' = [ext EXCEPT ![e] = [ext[e] EXCEPT !.live = FALSE, !.gone = ext[e].gone,
                                                   !.ka = "done"]]
      BY <1>3, <1>4, SMT, SMTT(60) DEF KeepaliveCancels, terminated, AdapterTypes, External
    <2>3. ext' \in [Ext -> External] /\ \A f \in Ext : ext'[f].name = ext[f].name
      BY <2>1, <2>2, ExtChanged, ZenonT(60)
    <2>4. /\ subServices' \in [Name -> 0..MaxExts]
          /\ \A k \in Name : subServices'[k] \in {0, subServices[k]}
      BY <1>4, <2>1, SMT, SMTT(60) DEF KeepaliveCancels, AdapterTypes
    <2> QED
      BY <1>4, <2>3, <2>4, ServicesKept, SMT, SMTT(60) DEF KeepaliveCancels
  <1>5. ASSUME NEW e \in Ext,
               KeepaliveSends(e) \/ KeepaliveFails(e) \/ KeepaliveWaits(e) \/ Gone(e)
        PROVE  AdapterInv'
    <2>1. PICK gone \in BOOLEAN, ka \in {"none", "auth", "select", "send", "cancel", "done"} :
            ext' = [ext EXCEPT ![e] = [ext[e] EXCEPT !.live = ext[e].live, !.gone = gone,
                                                     !.ka = ka]]
      <3>1. CASE Gone(e)
        <4>1. ext' = [ext EXCEPT ![e].gone = TRUE]
          BY <3>1 DEF Gone
        <4>2. ext' = [ext EXCEPT ![e] = [ext[e] EXCEPT !.live = ext[e].live, !.gone = TRUE,
                                                       !.ka = ext[e].ka]]
          BY <1>3, <4>1, ZenonT(60) DEF AdapterTypes, External
        <4> QED
          BY <1>3, <4>2, ZenonT(60) DEF External
      <3>2. ASSUME NEW ka \in {"select", "cancel", "send"}, ext' = [ext EXCEPT ![e].ka = ka]
            PROVE  ext' = [ext EXCEPT ![e] = [ext[e] EXCEPT !.live = ext[e].live,
                                                !.gone = ext[e].gone, !.ka = ka]]
        BY <1>3, <3>2, ZenonT(60) DEF AdapterTypes, External
      <3>3. ext[e].gone \in BOOLEAN
        BY <1>3 DEF External
      <3> QED
        BY <1>5, <3>1, <3>2, <3>3, ZenonT(60) DEF KeepaliveSends, KeepaliveFails, KeepaliveWaits, Ka
    <2>2. ext[e].live \in BOOLEAN
      BY <1>3, SMT, SMTT(60) DEF External
    <2>3. ext' \in [Ext -> External] /\ \A f \in Ext : ext'[f].name = ext[f].name
      BY <2>1, <2>2, ExtChanged, ZenonT(60)
    <2>4. UNCHANGED <<calls, rcv, bound, subServices, exts>>
      BY <1>5 DEF KeepaliveSends, KeepaliveFails, KeepaliveWaits, Ka, Gone
    <2> QED
      BY <2>3, <2>4, ServicesKept, SMT, SMTT(60) DEF AdapterTypes
  <1> QED
    BY <1>1, <1>2, <1>4, <1>5, SMT, SMTT(60) DEF Keepalive

\* Every step keeps the invariant.
LEMMA AdapterNextInv == AdapterInv /\ [AdapterNext]_adapterVars => AdapterInv'
  <1> SUFFICES ASSUME AdapterInv, [AdapterNext]_adapterVars PROVE AdapterInv'
    OBVIOUS
  <1>1. CASE UNCHANGED adapterVars
    BY <1>1, ServicesKept DEF adapterVars, AdapterInv, AdapterTypes
  <1> QED
    BY <1>1, CallsIInv, ReceiverIInv, RegisterIInv, ReplaceIInv, RegisteredIInv,
       ServicesIInv, SMT, SMTT(60) DEF AdapterNext, Receive

\* In every state of Start, Stop, receive and the externals the invariant holds.
THEOREM AdapterInductive == AdapterSpec => []AdapterInv
  BY AdapterInitInv, AdapterNextInv, PTL DEF AdapterSpec

-----------------------------------------------------------------------------
\* The map leads to no external that a later registration of its name has replaced.
THEOREM MapLeadsToNewest == AdapterSpec => []MapIsNewest
  <1>1. AdapterInv => MapIsNewest
    BY DEF AdapterInv
  <1> QED
    BY AdapterInductive, <1>1, PTL

F == INSTANCE FiniteSetTheorems

\* However often Start and Stop are called, at most one receiver is not told to end.
THEOREM ReceiverIsAlone == AdapterSpec => []OneReceiver
  <1>1. ASSUME AdapterInv PROVE OneReceiver
    <2> DEFINE running == {g \in 1..gens : g \notin canceled}
    <2>1. running = {} \/ running = {shutdown}
      BY <1>1, LibparodusAssumption, SMT, SMTT(60) DEF AdapterInv, AdapterTypes, ShutdownInv
    <2>2. F!Cardinality(running) \in {0, 1}
      BY <2>1, F!FS_EmptySet, F!FS_Singleton, ZenonT(60)
    <2>3. Cardinality(running) = F!Cardinality(running)
      BY DEF Cardinality, F!Cardinality
    <2> QED
      BY <2>2, <2>3 DEF OneReceiver
  <1> QED
    BY AdapterInductive, <1>1, PTL
=============================================================================
