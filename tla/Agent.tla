-------------------------------- MODULE Agent --------------------------------
(***************************************************************************)
(* A request on its way through the agent, as cmd/xmidt-agent wires it:    *)
(* the websocket's listener, the auth and the missing handler, the hub,    *)
(* the services behind it (the mock TR-181 handler and the crud handler    *)
(* with the log level), and the answer's way out through QOS.  Around it   *)
(* the start and the stop of the program.                                  *)
(*                                                                         *)
(* Hub and QOS appear as PubSub and QOS have them: a publication returns   *)
(* what its one handler made of it, or ErrNotHandled if the handler is     *)
(* done when it looks, or ErrTimeout; QOS takes a message while it runs.   *)
(***************************************************************************)
EXTENDS Naturals, MockTr181

CONSTANTS
    Request,    \* requests
    Local,      \* those that a service of the device may send
    Message,    \* what they may be together: functions from Request to records
                \* with partners, transaction (it requires an answer), kind and data
    partners,   \* the partners that the configuration allows
    Level,      \* log levels
    original    \* the level the program starts with

ASSUME OriginalIsLevel == original \in Level
ASSUME NamesAreSequences ==
    \A m \in Message : \A r \in Request :
      m[r].kind = "set" => m[r].names \in Seq(Seq(STRING))

VARIABLES
    phase,      \* where start and stop are
    subscriber, \* libparodus waits for the hub's lock to add a service
    req,        \* each request: how far it is in the chain, where it came from,
                \* what it is
    task,       \* the goroutine of the service that handles it
    status,     \* what the service answers
    sender,     \* the goroutine that hands that answer to QOS
    answers,    \* the status codes sent for it
    lost,       \* the requests an answer to which could not be sent
    table,      \* value and data type of each parameter: the request that wrote
                \* it, or the file
    todo,       \* the fields that the request's SET has still to write
    history,    \* the accepted SETs, each at its begin and at its end
    level,      \* the log level
    timers      \* the timer goroutines of SetLevel

chain == <<req, subscriber>>
service == <<task, status>>
egress == <<sender, answers, lost>>
tr181 == <<table, todo, history>>
log == <<level, timers>>
vars == <<phase, chain, service, egress, tr181, log>>

Field == {"value", "type"}
file == "file"
torn == "torn"

ASSUME WritersAreRequests == file \notin Request /\ torn \notin Request

Init ==
    /\ phase = "created"
    /\ subscriber = "idle"
    /\ \E m \in Message :
         req = [r \in Request |-> [at |-> "none", local |-> FALSE, msg |-> m[r]]]
    /\ task = [r \in Request |-> "none"]
    /\ status = [r \in Request |-> 0]
    /\ sender = [r \in Request |-> "none"]
    /\ answers = [r \in Request |-> <<>>]
    /\ lost = {}
    /\ table = [p \in Parameter |-> [f \in Field |-> file]]
    /\ todo = [r \in Request |-> <<>>]
    /\ history = <<>>
    /\ level = original
    /\ timers = {}

-----------------------------------------------------------------------------
(* Start and stop.                                                         *)

Goes(from, to) ==
    /\ phase = from
    /\ phase' = to
    /\ UNCHANGED <<chain, service, egress, tr181, log>>

\* onStart, its wait for credentials over: the websocket first, QOS last.  An error
\* of libparodus is returned at the end, when both are started, and there is no onStop.
StartWebsocket == Goes("created", "connecting")
StartQOS == Goes("connecting", "running")

\* onStop: the websocket first, QOS last.
StopWebsocket == Goes("running", "disconnected")
StopQOS == Goes("disconnected", "stopped")

Connected == phase \in {"connecting", "running"}
LibparodusRuns == phase \in {"connecting", "running", "disconnected"}
QOSRuns == phase \in {"running", "disconnected"}

-----------------------------------------------------------------------------
(* The hub's lock.  A publication holds it for reading until it returns; a *)
(* subscriber that waits for it keeps new readers out.                     *)

Readers == {r \in Request : req[r].at = "published" \/ task[r] = "answering"}

\* The receiver of libparodus is busy with a message it publishes.
Publishing == \E r \in Request : req[r].local /\ req[r].at \in {"publish", "published"}

Subscribe ==
    /\ LibparodusRuns
    /\ subscriber = "idle"
    /\ Readers # {}
    /\ ~Publishing
    /\ subscriber' = "waiting"
    /\ UNCHANGED <<phase, req, service, egress, tr181, log>>

Subscribed ==
    /\ subscriber = "waiting"
    /\ Readers = {}
    /\ subscriber' = "idle"
    /\ UNCHANGED <<phase, req, service, egress, tr181, log>>

-----------------------------------------------------------------------------
(* The chain.                                                              *)

InChain(r) == ~req[r].local /\ req[r].at \notin {"none", "over", "expired"}

At(r, where) == req' = [req EXCEPT ![r].at = where]

\* auth: one of the message's partners is allowed; a wild card still needs one.
Allowed(m) == \E allowed \in partners, got \in m.partners : allowed \in {got, "*"}

\* auth, otherwise: a 403, if an answer is required.
Unauthorized(m) == IF m.transaction THEN "forbid" ELSE "over"

\* A message from the websocket, whose read loop calls the listener for one after
\* the other, and drops its error.
Receive(r) ==
    /\ Connected
    /\ req[r].at = "none"
    /\ ~\E q \in Request : InChain(q)
    /\ \/ Allowed(req[r].msg) /\ At(r, "publish")
       \/ ~Allowed(req[r].msg) /\ At(r, Unauthorized(req[r].msg))
    /\ UNCHANGED <<phase, subscriber, service, egress, tr181, log>>

\* A message of a service of the device, which libparodus publishes.
ReceiveLocal(r) ==
    /\ LibparodusRuns
    /\ r \in Local
    /\ subscriber = "idle"
    /\ req[r].at = "none"
    /\ ~Publishing
    /\ req' = [req EXCEPT ![r].at = "publish", ![r].local = TRUE]
    /\ UNCHANGED <<phase, subscriber, service, egress, tr181, log>>

\* PubSub.HandleWrp starts the goroutine of the service, if there is one.
Publish(r) ==
    /\ req[r].at = "publish"
    /\ subscriber = "idle"
    /\ At(r, "published")
    /\ task' = [task EXCEPT ![r] =
                  IF req[r].msg.kind = "absent" THEN "refused" ELSE "begin"]
    /\ UNCHANGED <<phase, subscriber, status, egress, tr181, log>>

\* Mutant: the wrong messages are left without an answer.
NotHandledSwapped(r) == IF ~req[r].msg.transaction /\ ~req[r].local THEN "missing" ELSE "over"

\* missing answers ErrNotHandled, if an answer is required; libparodus does not.
NotHandled(r) == IF req[r].msg.transaction /\ ~req[r].local THEN "missing" ELSE "over"

\* PubSub.HandleWrp returns: nil, ErrNotHandled (also when it sees first that the
\* service is done, and not that it accepted), or ErrTimeout, which nobody answers.
Return(r) ==
    /\ req[r].at = "published"
    /\ \/ task[r] = "accepted" /\ At(r, "over")
       \/ task[r] \in {"accepted", "refused"} /\ At(r, NotHandled(r))
       \/ At(r, "expired")
    /\ UNCHANGED <<phase, subscriber, service, egress, tr181, log>>

Sent(r, code) == answers' = [answers EXCEPT ![r] = Append(@, code)] /\ UNCHANGED lost
Lost(r) == lost' = lost \cup {r} /\ UNCHANGED answers

\* QOS.HandleWrp of an answer.
QOSHandle(r, code) == IF QOSRuns THEN Sent(r, code) ELSE Lost(r)

\* The answers of auth and missing.
Refuse(r) ==
    /\ req[r].at \in {"forbid", "missing"}
    /\ QOSHandle(r, IF req[r].at = "forbid" THEN 403 ELSE 531)
    /\ At(r, "over")
    /\ UNCHANGED <<phase, subscriber, service, sender, tr181, log>>

-----------------------------------------------------------------------------
(* The services.                                                           *)

Task(r, at) == task' = [task EXCEPT ![r] = at]
Answer(r, code) == Task(r, "answer") /\ status' = [status EXCEPT ![r] = code]

\* mocktr181, what changes nothing: a payload that does not parse is not handled,
\* an empty one and an unknown command are failures.
Read(r) ==
    LET m == req[r].msg
    IN /\ task[r] = "begin"
       /\ \/ m.kind = "garbled" /\ Task(r, "refused") /\ UNCHANGED status
          \/ m.kind = "unsupported" /\ Answer(r, 520)
          \/ m.kind = "get" /\ Answer(r, GetStatus(Range(m.names)))
       /\ UNCHANGED <<phase, chain, egress, tr181, log>>

\* The fields that a SET of these names writes, in order.
Writes(names) ==
    [i \in 1..(2 * Len(names)) |->
       [p |-> names[(i + 1) \div 2], f |-> IF i % 2 = 1 THEN "value" ELSE "type"]]

\* Mutant: what can be written is.
SetPartly(r) ==
    /\ task[r] = "begin"
    /\ req[r].msg.kind = "set"
    /\ Task(r, "write")
    /\ todo' = [todo EXCEPT ![r] =
                  Writes(SelectSeq(req[r].msg.names, LAMBDA p : ~SetFails(p)))]
    /\ history' = Append(history, r)
    /\ UNCHANGED <<phase, chain, status, egress, table, log>>

\* set: all names are checked before the first is written.
Set(r) ==
    LET m == req[r].msg
    IN /\ task[r] = "begin"
       /\ m.kind = "set"
       /\ IF SetStatus(Range(m.names)) = 202
          THEN /\ Task(r, "write")
               /\ todo' = [todo EXCEPT ![r] = Writes(m.names)]
               /\ history' = Append(history, r)
               /\ UNCHANGED status
          ELSE Answer(r, 520) /\ UNCHANGED <<todo, history>>
       /\ UNCHANGED <<phase, chain, egress, table, log>>

\* One field written, by no lock protected.
Write(r) ==
    /\ todo[r] # <<>>
    /\ table' = [table EXCEPT ![Head(todo[r]).p][Head(todo[r]).f] = r]
    /\ todo' = [todo EXCEPT ![r] = Tail(@)]
    /\ UNCHANGED <<phase, chain, service, egress, history, log>>

\* Two SETs in the same field at once: words of both.
WriteBoth(q, r) ==
    /\ q # r
    /\ todo[q] # <<>> /\ todo[r] # <<>>
    /\ Head(todo[q]) = Head(todo[r])
    /\ table' = [table EXCEPT ![Head(todo[r]).p][Head(todo[r]).f] = torn]
    /\ todo' = [todo EXCEPT ![q] = Tail(@), ![r] = Tail(@)]
    /\ UNCHANGED <<phase, chain, service, egress, history, log>>

Written(r) ==
    /\ task[r] = "write"
    /\ todo[r] = <<>>
    /\ Answer(r, 202)
    /\ history' = Append(history, r)
    /\ UNCHANGED <<phase, chain, egress, table, todo, log>>

\* Mutant: no timer.
CrudForGood(r) ==
    /\ task[r] = "begin"
    /\ req[r].msg.kind = "loglevel"
    /\ req[r].msg.level \in Level
    /\ level' = req[r].msg.level
    /\ Answer(r, 200)
    /\ UNCHANGED <<phase, chain, egress, tr181, timers>>

\* The crud handler and its update.
Crud(r) ==
    LET m == req[r].msg
    IN /\ task[r] = "begin"
       /\ \/ m.kind = "crud" /\ Answer(r, m.code) /\ UNCHANGED level
          \/ /\ m.kind = "loglevel"
             /\ m.level \notin Level
             /\ Answer(r, 400)
             /\ UNCHANGED level
          \/ /\ m.kind = "loglevel"
             /\ m.level \in Level
             /\ level' = m.level
             /\ Task(r, "timer")
             /\ UNCHANGED status
       /\ UNCHANGED <<phase, chain, egress, tr181, timers>>

\* SetLevel: the timer, and its end.
NewTimer(r) ==
    /\ task[r] = "timer"
    /\ timers' = timers \cup {r}
    /\ Answer(r, 200)
    /\ UNCHANGED <<phase, chain, egress, tr181, level>>

RestoreLevel(r) ==
    /\ r \in timers
    /\ timers' = timers \ {r}
    /\ level' = original
    /\ UNCHANGED <<phase, chain, service, egress, tr181>>

-----------------------------------------------------------------------------
(* The answer of a service.                                                *)

IsCrud(r) == req[r].msg.kind \in {"crud", "loglevel"}

\* The crud handler writes to the websocket; its error counts as handled.
AnswerCrud(r) ==
    /\ task[r] = "answer"
    /\ IsCrud(r)
    /\ \/ Connected /\ Sent(r, status[r])
       \/ Lost(r)
    /\ Task(r, "accepted")
    /\ UNCHANGED <<phase, chain, status, sender, tr181, log>>

\* mocktr181 publishes its answer, inside the publication it is called from.
AnswerTr181(r) ==
    /\ task[r] = "answer"
    /\ ~IsCrud(r)
    /\ subscriber = "idle"
    /\ Task(r, "answering")
    /\ sender' = [sender EXCEPT ![r] = "run"]
    /\ UNCHANGED <<phase, chain, status, answers, lost, tr181, log>>

\* The goroutine of that publication: QOS takes the answer, or libparodus does for
\* a service of the device.  An error counts as handled.
Send(r) ==
    /\ sender[r] = "run"
    /\ IF req[r].local THEN Sent(r, status[r]) \/ Lost(r) ELSE QOSHandle(r, status[r])
    /\ sender' = [sender EXCEPT ![r] = "done"]
    /\ UNCHANGED <<phase, chain, service, tr181, log>>

\* The publication returns; ErrTimeout and ErrNotHandled both make the request one
\* that mocktr181 did not handle.
Answered(r) ==
    /\ task[r] = "answering"
    /\ \/ sender[r] = "done" /\ Task(r, "accepted")
       \/ Task(r, "refused")
    /\ UNCHANGED <<phase, chain, status, egress, tr181, log>>

-----------------------------------------------------------------------------
Progress(r) ==
    \/ Publish(r) \/ Return(r) \/ Refuse(r)
    \/ Read(r) \/ Set(r) \/ Write(r) \/ Written(r) \/ Crud(r)
    \/ NewTimer(r) \/ RestoreLevel(r)
    \/ AnswerCrud(r) \/ AnswerTr181(r) \/ Send(r) \/ Answered(r)

Next ==
    \/ StartWebsocket \/ StartQOS \/ StopWebsocket \/ StopQOS
    \/ Subscribe \/ Subscribed
    \/ \E r \in Request : Receive(r) \/ ReceiveLocal(r) \/ Progress(r)
    \/ \E q, r \in Request : WriteBoth(q, r)

Spec == Init /\ [][Next]_vars

\* Goroutines run, timers expire, calls of the hub return.  Nothing says that a
\* message comes or that the program stops.
FairSpec ==
    Spec /\ WF_vars(Subscribed \/ \E r \in Request : Progress(r))

-----------------------------------------------------------------------------
(* Properties.                                                             *)

\* A request of the cloud that requires an answer (missing/handler.go:22) gets one.
\* The exceptions: QOS does not run or the connection is gone (main.go:265, :282), or
\* the hub gave up on a request that the service then refused, since missing answers
\* ErrNotHandled only (missing/handler.go:61).
IsAnswered ==
    \A r \in Request :
      (InChain(r) /\ req[r].msg.transaction)
        ~> \/ answers[r] # <<>>
           \/ r \in lost
           \/ req[r].at = "expired" /\ task[r] = "refused"

Position(r) == {i \in DOMAIN history : history[i] = r}
\* SET q began after SET r was done.
Follows(q, r) == \A i \in Position(r), j \in Position(q) : i < j

\* The accepted SETs that name the parameter, without those that another followed.
LastWriters(p) ==
    LET writers == {r \in Range(history) : p \in Range(req[r].msg.names)}
    IN {r \in writers : ~\E q \in writers : Follows(q, r)}

\* mocktr181's set is all or nothing (handler.go:280, :286): when no SET is at work,
\* each field of each parameter is what the last accepted SET of it wrote, or one of
\* the last if they overlapped, when it may also be torn between them; a refused SET
\* has written nothing.
SetIsWhole ==
    (\A r \in Request : task[r] # "write") =>
      \A p \in Parameter, f \in Field :
        LET last == LastWriters(p)
            w == table[p][f]
        IN \/ last = {} /\ w = file
           \/ w \in last
           \/ w = torn /\ \E q, r \in last : q # r

\* loglevel.SetLevel restores the level the program started with, whatever updates
\* overlap (loglevel.go:45).
LevelIsRestored == <>[](level = original)

\* missing/handler.go:22: it answers a request that "was not handled by the next handler
\* in the chain".  So no request has an answer of a service and its 531.
RefusedIsNotHandled ==
    \A r \in Request : ~IsCrud(r) /\ 531 \in Range(answers[r]) => Len(answers[r]) = 1
=============================================================================
