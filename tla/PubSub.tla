------------------------------- MODULE PubSub -------------------------------
(***************************************************************************)
(* The publish/subscribe hub (internal/pubsub/pubsub.go).  HandleWrp       *)
(* starts a goroutine per listener of the message's routes and waits, with *)
(* the read lock held, until one accepts, all are done, or the publish     *)
(* timeout is over.  A handler may publish or subscribe in turn.           *)
(*                                                                         *)
(* Each listener is subscribed once and each message published once.  A    *)
(* handler (external) returns, or not, when it likes: its error is         *)
(* ErrNotHandled ("refused") or not ("accepted").  The lock is Go's        *)
(* RWMutex: a writer that waits keeps new readers out.                     *)
(***************************************************************************)
EXTENDS Integers, Sequences

CONSTANTS
  Listener,    \* subscriptions
  routeOf,     \* [Listener -> Route]
  initially,   \* the listeners that options of New subscribe
  Pub,         \* published messages
  message,     \* [Pub -> Message]
  self,        \* the device id of this agent
  None

serviceRoute(service) == <<"service", service>>
eventRoute(event) == <<"event", event>>
egressRoute == <<"egress", "*">>

(* normalize: required validates and rewrites every message, desired only  *)
(* those of this device.  Either may fail.                                 *)
normalizeFails(msg) ==
  \/ ~msg.required
  \/ msg.source.id = self /\ ~msg.desired

routes(dest) ==
  CASE dest.id = self -> <<serviceRoute(dest.service), serviceRoute("*")>>
    [] dest.id # self /\ dest.scheme = "event" ->
         <<eventRoute(dest.authority), eventRoute("*"), egressRoute>>
    [] OTHER -> <<egressRoute>>

Routes(p) == routes(message[p].dest)

(* A task is the goroutine of one listener at one of the message's routes. *)
Task == Pub \X (1..3) \X Listener

ASSUME PubSubAssumption ==
  /\ initially \subseteq Listener
  /\ Pub \cap Listener = {}
  /\ None \notin Listener \cup Task

VARIABLES
  sub,       \* state of each listener's subscription
  writer,    \* the subscription that holds or waits for the write lock
  pc,        \* progress of each publication
  visited,   \* the number of its routes visited
  task,      \* state of each goroutine
  caller,    \* the task that called HandleWrp or subscribe, or None
  handled,   \* the number of signals in the publication's channel
  done,      \* its channels done and stop are closed, its context is over
  stop,
  expired,
  result     \* what HandleWrp returned

pubVars == <<pc, visited, handled, done, stop, expired, result>>
vars == <<sub, writer, pc, visited, task, caller, handled, done, stop,
          expired, result>>

TypeOK ==
  /\ sub \in [Listener -> {"new", "blocked", "on", "off"}]
  /\ writer \in Listener \cup {None}
  /\ pc \in [Pub -> {"idle", "rlock", "visit", "wait", "returned"}]
  /\ visited \in [Pub -> 0..3]
  /\ task \in [Task -> {"none", "running", "calling",
                        "accepted", "refused", "ended"}]
  /\ caller \in [Pub \cup Listener -> Task \cup {None}]
  /\ handled \in [Pub -> 0..1] /\ done \in [Pub -> BOOLEAN]
  /\ stop \in [Pub -> BOOLEAN] /\ expired \in [Pub -> BOOLEAN]
  /\ result \in [Pub -> {"none", "nil", "ErrNotHandled", "ErrTimeout"}]

Init ==
  /\ sub = [l \in Listener |-> IF l \in initially THEN "on" ELSE "new"]
  /\ writer = None
  /\ pc = [p \in Pub |-> "idle"]
  /\ visited = [p \in Pub |-> 0]
  /\ task = [t \in Task |-> "none"]
  /\ caller = [x \in Pub \cup Listener |-> None]
  /\ handled = [p \in Pub |-> 0] /\ done = [p \in Pub |-> FALSE]
  /\ stop = [p \in Pub |-> FALSE] /\ expired = [p \in Pub |-> FALSE]
  /\ result = [p \in Pub |-> "none"]

Readers == {p \in Pub : pc[p] \in {"visit", "wait"}}
Subscribed(route) == {l \in Listener : sub[l] = "on" /\ routeOf[l] = route}
Tasks(p) == {t \in Task : t[1] = p /\ task[t] # "none"}
Unfinished(p) == {t \in Tasks(p) : task[t] \notin {"refused", "ended"}}

-----------------------------------------------------------------------------
(* Someone outside (t = None), or a handler, calls.                        *)
Calls(t) == t # None => task[t] = "running"
Blocked(t) == [u \in Task |-> IF u = t THEN "calling" ELSE task[u]]
Resumed(t) == [u \in Task |-> IF u = t THEN "running" ELSE task[u]]

(* subscribe refuses a name that is not valid and a handler that is nil,   *)
(* and nothing changes.  Else it reaches ps.lock.Lock(), waits for its     *)
(* turn among the writers,                                                 *)
Subscribe(l, t) ==
  /\ sub[l] = "new" /\ Calls(t)
  /\ sub' = [sub EXCEPT ![l] = "blocked"]
  /\ caller' = [caller EXCEPT ![l] = t]
  /\ task' = Blocked(t)
  /\ UNCHANGED <<writer, pubVars>>

LockWaits(l) ==
  /\ sub[l] = "blocked" /\ writer = None
  /\ writer' = l
  /\ UNCHANGED <<sub, task, caller, pubVars>>

\* Mutant: the listener is added without the write lock.
AddedUnlocked(l) ==
  /\ writer = l
  /\ sub' = [sub EXCEPT ![l] = "on"]
  /\ writer' = None
  /\ task' = Resumed(caller[l])
  /\ UNCHANGED <<caller, pubVars>>

(* and adds the listener once the readers are gone.                        *)
Added(l) ==
  /\ writer = l /\ Readers = {}
  /\ sub' = [sub EXCEPT ![l] = "on"]
  /\ writer' = None
  /\ task' = Resumed(caller[l])
  /\ UNCHANGED <<caller, pubVars>>

(* CancelFunc: the eventor (external) removes the listener under a lock of *)
(* its own.                                                                *)
Cancel(l) ==
  /\ sub[l] = "on"
  /\ sub' = [sub EXCEPT ![l] = "off"]
  /\ UNCHANGED <<writer, task, caller, pubVars>>

-----------------------------------------------------------------------------
(* HandleWrp: normalize, then ps.lock.RLock().                             *)
HandleWrp(p, t) ==
  /\ pc[p] = "idle" /\ Calls(t)
  /\ IF normalizeFails(message[p])
     THEN /\ pc' = [pc EXCEPT ![p] = "returned"]
          /\ result' = [result EXCEPT ![p] = "ErrNotHandled"]
          /\ UNCHANGED <<task, caller>>
     ELSE /\ pc' = [pc EXCEPT ![p] = "rlock"]
          /\ caller' = [caller EXCEPT ![p] = t]
          /\ task' = Blocked(t)
          /\ UNCHANGED result
  /\ UNCHANGED <<sub, writer, visited, handled, done, stop, expired>>

RLock(p) ==
  /\ pc[p] = "rlock" /\ writer = None
  /\ pc' = [pc EXCEPT ![p] = "visit"]
  /\ UNCHANGED <<sub, writer, visited, task, caller, handled, done, stop,
                 expired, result>>

(* Visit of the next route starts a goroutine for each of its listeners.   *)
Visit(p) ==
  LET k == visited[p] + 1
      new == {t \in Task : /\ t[1] = p /\ t[2] = k
                           /\ t[3] \in Subscribed(Routes(p)[k])}
  IN  /\ pc[p] = "visit"
      /\ visited' = [visited EXCEPT ![p] = k]
      /\ task' = [t \in Task |-> IF t \in new THEN "running" ELSE task[t]]
      /\ pc' = [pc EXCEPT ![p] = IF k = Len(Routes(p)) THEN "wait" ELSE @]
      /\ UNCHANGED <<sub, writer, caller, handled, done, stop, expired, result>>

(* context.WithTimeout, armed once the lock is held.                       *)
Expire(p) ==
  /\ pc[p] \in {"visit", "wait"} /\ ~expired[p]
  /\ expired' = [expired EXCEPT ![p] = TRUE]
  /\ UNCHANGED <<sub, writer, pc, visited, task, caller, handled, done, stop,
                 result>>

\* Mutant: done is closed without wg.Wait().
CloseDoneEarly(p) ==
  /\ visited[p] = Len(Routes(p)) /\ ~done[p]
  /\ done' = [done EXCEPT ![p] = TRUE]
  /\ UNCHANGED <<sub, writer, pc, visited, task, caller, handled, stop, expired,
                 result>>

(* The goroutine that closes done after wg.Wait().                         *)
CloseDone(p) ==
  /\ visited[p] = Len(Routes(p)) /\ ~done[p]
  /\ Unfinished(p) = {}
  /\ done' = [done EXCEPT ![p] = TRUE]
  /\ UNCHANGED <<sub, writer, pc, visited, task, caller, handled, stop, expired,
                 result>>

\* Mutant: stop is not closed.
ReturnOpen(p) ==
  /\ pc[p] = "wait"
  /\ \/ /\ handled[p] > 0
        /\ handled' = [handled EXCEPT ![p] = @ - 1]
        /\ result' = [result EXCEPT ![p] = "nil"]
     \/ /\ done[p]
        /\ result' = [result EXCEPT ![p] = "ErrNotHandled"]
        /\ UNCHANGED handled
     \/ /\ expired[p]
        /\ result' = [result EXCEPT ![p] = "ErrTimeout"]
        /\ UNCHANGED handled
  /\ pc' = [pc EXCEPT ![p] = "returned"]
  /\ task' = Resumed(caller[p])
  /\ UNCHANGED <<sub, writer, visited, caller, done, stop, expired>>

(* The final select, close(stop), RUnlock and return to the caller.        *)
Return(p) ==
  /\ pc[p] = "wait"
  /\ \/ /\ handled[p] > 0
        /\ handled' = [handled EXCEPT ![p] = @ - 1]
        /\ result' = [result EXCEPT ![p] = "nil"]
     \/ /\ done[p]
        /\ result' = [result EXCEPT ![p] = "ErrNotHandled"]
        /\ UNCHANGED handled
     \/ /\ expired[p]
        /\ result' = [result EXCEPT ![p] = "ErrTimeout"]
        /\ UNCHANGED handled
  /\ stop' = [stop EXCEPT ![p] = TRUE]
  /\ pc' = [pc EXCEPT ![p] = "returned"]
  /\ task' = Resumed(caller[p])
  /\ UNCHANGED <<sub, writer, visited, caller, done, expired>>

-----------------------------------------------------------------------------
(* h.HandleWrp returns.                                                    *)
HandlerReturns(t) ==
  /\ task[t] = "running"
  /\ \E r \in {"accepted", "refused"} : task' = [task EXCEPT ![t] = r]
  /\ UNCHANGED <<sub, writer, caller, pubVars>>

(* The goroutine of an accepted message: handled <- or <-stop.             *)
Signal(t) ==
  /\ task[t] = "accepted"
  /\ \/ /\ handled[t[1]] < 1
        /\ handled' = [handled EXCEPT ![t[1]] = @ + 1]
     \/ /\ stop[t[1]]
        /\ UNCHANGED handled
  /\ task' = [task EXCEPT ![t] = "ended"]
  /\ UNCHANGED <<sub, writer, pc, visited, caller, done, stop, expired, result>>

Next ==
  \/ \E l \in Listener : \/ \E t \in Task \cup {None} : Subscribe(l, t)
                         \/ LockWaits(l) \/ Added(l) \/ Cancel(l)
  \/ \E p \in Pub : \/ \E t \in Task \cup {None} : HandleWrp(p, t)
                    \/ RLock(p) \/ Visit(p) \/ Expire(p) \/ CloseDone(p)
                    \/ Return(p)
  \/ \E t \in Task : HandlerReturns(t) \/ Signal(t)

Spec == Init /\ [][Next]_vars

(* The hub's own goroutines run when they can and the timeout passes.      *)
(* Nothing is assumed of the handlers: one may never return.  Weak         *)
(* fairness is enough for the lock because each listener writes once.      *)
Fairness ==
  /\ \A l \in Listener : WF_vars(LockWaits(l)) /\ WF_vars(Added(l))
  /\ \A p \in Pub : /\ WF_vars(RLock(p)) /\ WF_vars(Visit(p))
                    /\ WF_vars(Expire(p)) /\ WF_vars(Return(p))
  /\ \A t \in Task : WF_vars(Signal(t))

FairSpec == Spec /\ Fairness

-----------------------------------------------------------------------------
(* A publication calls every listener its routes have, however listeners   *)
(* come and go meanwhile: who has subscribed by the time HandleWrp waits   *)
(* has been visited, because subscribe cannot get in before.               *)
EveryListenerIsCalled ==
  \A p \in Pub : pc[p] = "wait" =>
    \A k \in 1..Len(Routes(p)) : \A l \in Subscribed(Routes(p)[k]) :
      task[<<p, k, l>>] # "none"

(* What HandleWrp reports is founded: nil when a handler accepted;         *)
(* ErrNotHandled when no handler is still at work on the message, so that  *)
(* none can accept it behind the caller's back; ErrTimeout when the time   *)
(* is over.                                                                *)
ResultIsFounded ==
  \A p \in Pub : visited[p] > 0 =>
    /\ result[p] = "nil" => \E t \in Tasks(p) : task[t] = "ended"
    /\ result[p] = "ErrNotHandled" => Unfinished(p) = {}
    /\ result[p] = "ErrTimeout" => expired[p]

(* HandleWrp returns, although its handlers may hang, publish themselves   *)
(* behind a waiting writer, or wait for the very lock it holds.            *)
PublicationReturns == \A p \in Pub : pc[p] # "idle" ~> pc[p] = "returned"

(* subscribe gets the write lock, also when it is called by a handler of a *)
(* publication that holds the lock and waits for that handler.             *)
SubscribeReturns == \A l \in Listener : sub[l] = "blocked" ~> sub[l] # "blocked"

(* The goroutine of a handler that accepted ends, although only one signal *)
(* is ever received: in the end none is left trying to send.               *)
SignalEnds == <>[](\A t \in Task : task[t] # "accepted")

(* Publishers, subscribers and the goroutines of handlers, who wait for    *)
(* the lock and for each other (pubsub.go:173, :201), all come away.       *)
NobodyStaysBlocked == PublicationReturns /\ SubscribeReturns /\ SignalEnds

-----------------------------------------------------------------------------
(* pubsub.go: HandleWrp "returns if there was at least one handler that    *)
(* accepted the message.  The error wrpkit.ErrNotHandled is returned if no *)
(* listeners were found".  Whoever gets ErrNotHandled was not handled.     *)
NotHandledIsNotHandled ==
  \A p \in Pub : result[p] = "ErrNotHandled" =>
    ~\E t \in Tasks(p) : task[t] = "ended"
=============================================================================
