------------------------------ MODULE Websocket ------------------------------
(***************************************************************************)
(* The websocket client (internal/websocket/ws.go) on top of a connection  *)
(* of the websocket library kept in internal/nhooyr.io/websocket.          *)
(*                                                                         *)
(* run dials, reads until something fails, closes and dials again.  For    *)
(* every read it starts a monitor, a goroutine that cancels the read when  *)
(* nothing has been heard for too long.  Stop closes the connection and    *)
(* ends run; Send writes.  Both hold the mutex ws.m meanwhile.             *)
(*                                                                         *)
(* Of the connection the model keeps what these goroutines wait for: that  *)
(* it is closed, who reads from it (the lock readMu), and the listener     *)
(* that a reader calls when a ping arrives.  Close, too, is a reader: it   *)
(* sends a close frame and reads until the peer's comes or five seconds    *)
(* are over.  Time is abstract, every timer may fire at any moment.        *)
(***************************************************************************)
EXTENDS Naturals

CONSTANTS
  Sender,              \* goroutines that call Send or HandleWrp
  once,                \* connect only once
  withIPv4, withIPv6   \* the allowed modes

ASSUME WebsocketAssumption ==
  /\ once \in BOOLEAN /\ withIPv4 \in BOOLEAN /\ withIPv6 \in BOOLEAN
  /\ withIPv4 \/ withIPv6

VARIABLES
  shutdown,  \* ws.shutdown is set
  ctxDone,   \* run's context is cancelled
  held,      \* ws.conn is set
  stop,      \* where Stop is
  snd,       \* where each sender is
  pc,        \* where run is
  mode,      \* run's mode
  res,       \* what the last read returned
  cause,     \* context.Cause of the context of the last read
  mon,       \* the monitor of the last read waits in its select
  stale,     \* so does a monitor of an earlier read
  wsConn,    \* the last connection
  cl,        \* where the calls of conn.Close by Stop and by run are
  up         \* the listeners were told of a connection, not of its end

wsVars == <<shutdown, ctxDone, held, stop, snd, pc, mode, res, cause,
            mon, stale, wsConn, cl, up>>

CloseCaller == {"stop", "run"}

WsTypeOK ==
  /\ shutdown \in BOOLEAN /\ ctxDone \in BOOLEAN /\ held \in BOOLEAN
  /\ stop \in {"no", "closing", "cancel", "waiting", "returned"}
  /\ snd \in [Sender -> {"idle", "want", "writing"}]
  /\ pc \in {"none", "spawned", "loop", "dial", "dialed", "iterate", "lock",
             "reading", "ping", "returned", "drop", "closing", "wait", "done"}
  /\ mode \in {"tcp4", "tcp6"}
  /\ res \in {"ok", "bad", "err"}
  /\ cause \in {"none", "deadline", "canceled"}
  /\ mon \in BOOLEAN /\ stale \in BOOLEAN /\ up \in BOOLEAN
  /\ wsConn \in {"none", "open", "closed"}
  /\ cl \in [CloseCaller -> {"idle", "lock", "read", "ping", "finish"}]

WsInit ==
  /\ shutdown = FALSE /\ ctxDone = FALSE /\ held = FALSE
  /\ mon = FALSE /\ stale = FALSE /\ up = FALSE
  /\ stop = "no" /\ pc = "none" /\ mode = "tcp4"
  /\ res = "ok" /\ cause = "none" /\ wsConn = "none"
  /\ snd = [s \in Sender |-> "idle"]
  /\ cl = [p \in CloseCaller |-> "idle"]

(* ws.m is held by Stop while it closes and by a sender while it writes.   *)
mFree == stop # "closing" /\ \A s \in Sender : snd[s] # "writing"

(* conn.readMu is held while a reader is inside the connection.            *)
readMuFree ==
  pc \notin {"reading", "ping"} /\ \A p \in CloseCaller : cl[p] \notin {"read", "ping"}

(* ws.wg is zero.                                                          *)
wgZero == pc \in {"none", "spawned", "done"}

callers == <<shutdown, ctxDone, held, stop, snd>>
monitors == <<mon, stale>>

-----------------------------------------------------------------------------
(* Start.                                                                  *)
Start ==
  /\ ~shutdown /\ mFree
  /\ shutdown' = TRUE /\ pc' = "spawned"
  /\ UNCHANGED <<ctxDone, held, stop, snd, mode, res, cause, monitors, wsConn,
                 cl, up>>

(* Stop, which the life cycle of cmd/xmidt-agent calls after Start, locks  *)
(* ws.m and closes the connection,                                         *)
StopCloses ==
  /\ stop = "no" /\ shutdown /\ mFree
  /\ stop' = IF held THEN "closing" ELSE "cancel"
  /\ cl' = IF held THEN [cl EXCEPT !["stop"] = "lock"] ELSE cl
  /\ UNCHANGED <<shutdown, ctxDone, held, snd, pc, mode, res, cause,
                 monitors, wsConn, up>>

(* unlocks when Close has returned,                                        *)
StopUnlocks ==
  /\ stop = "closing" /\ cl["stop"] = "idle"
  /\ stop' = "cancel"
  /\ UNCHANGED <<shutdown, ctxDone, held, snd, pc, mode, res, cause,
                 monitors, wsConn, cl, up>>

(* Mutant: the context is not cancelled.                                   *)
StopForgets ==
  /\ stop = "cancel"
  /\ stop' = "waiting"
  /\ UNCHANGED <<shutdown, ctxDone, held, snd, pc, mode, res, cause,
                 monitors, wsConn, cl, up>>

(* cancels run's context, and with it that of the read,                    *)
StopCancels ==
  /\ stop = "cancel"
  /\ stop' = "waiting" /\ ctxDone' = TRUE
  /\ cause' = IF cause = "none" THEN "canceled" ELSE cause
  /\ UNCHANGED <<shutdown, held, snd, pc, mode, res, monitors, wsConn, cl, up>>

(* and waits for run.                                                      *)
StopReturns ==
  /\ stop = "waiting" /\ wgZero
  /\ stop' = "returned"
  /\ UNCHANGED <<shutdown, ctxDone, held, snd, pc, mode, res, cause,
                 monitors, wsConn, cl, up>>

(* Send wants ws.m, and finds no connection or writes.  A write that       *)
(* fails, or takes longer than sendTimeout, closes the connection.         *)
SendCalls(s) ==
  /\ snd[s] = "idle"
  /\ snd' = [snd EXCEPT ![s] = "want"]
  /\ UNCHANGED <<shutdown, ctxDone, held, stop, pc, mode, res, cause,
                 monitors, wsConn, cl, up>>

SendLocks(s) ==
  /\ snd[s] = "want" /\ mFree
  /\ snd' = [snd EXCEPT ![s] = IF held THEN "writing" ELSE "idle"]
  /\ UNCHANGED <<shutdown, ctxDone, held, stop, pc, mode, res, cause,
                 monitors, wsConn, cl, up>>

SendReturns(s) ==
  /\ snd[s] = "writing"
  /\ snd' = [snd EXCEPT ![s] = "idle"]
  /\ wsConn' \in {wsConn, "closed"}
  /\ UNCHANGED <<shutdown, ctxDone, held, stop, pc, mode, res, cause,
                 monitors, cl, up>>

-----------------------------------------------------------------------------
(* nextMode.                                                               *)
nextMode(md) ==
  CASE md = "tcp4" /\ withIPv6 -> "tcp6"
    [] md = "tcp6" /\ withIPv4 -> "tcp4"
    [] OTHER -> md

(* run: ws.wg.Add(1) and the first mode.                                   *)
Enter ==
  /\ pc = "spawned"
  /\ pc' = "loop" /\ mode' = nextMode("tcp4")
  /\ UNCHANGED <<callers, res, cause, monitors, wsConn, cl, up>>

(* run: the next mode and the decorators, whose errors are passed over.    *)
Decorate ==
  /\ pc = "loop"
  /\ pc' = "dial" /\ mode' = nextMode(mode)
  /\ UNCHANGED <<callers, res, cause, monitors, wsConn, cl, up>>

(* Where run goes when an attempt is over.                                 *)
afterAttempt == IF once THEN "done" ELSE "wait"

(* run: dial succeeds and the connect listeners are told,                  *)
DialOk ==
  /\ pc = "dial" /\ ~ctxDone
  /\ pc' = "dialed" /\ wsConn' = "open" /\ up' = TRUE
  /\ UNCHANGED <<callers, mode, res, cause, monitors, cl>>

(* or it fails and they are told so.                                       *)
DialFails ==
  /\ pc = "dial"
  /\ pc' = afterAttempt
  /\ UNCHANGED <<callers, mode, res, cause, monitors, wsConn, cl, up>>

(* run: the connection becomes ws.conn.                                    *)
SetConn ==
  /\ pc = "dialed" /\ mFree
  /\ pc' = "iterate" /\ held' = TRUE
  /\ UNCHANGED <<shutdown, ctxDone, stop, snd, mode, res, cause, monitors,
                 wsConn, cl, up>>

(* Mutant: no new monitor after a good message.                            *)
IterateUnmonitored ==
  /\ pc = "iterate"
  /\ pc' = "lock" /\ mon' = (res # "ok")
  /\ cause' = IF ctxDone THEN "canceled" ELSE "none"
  /\ UNCHANGED <<callers, mode, res, stale, wsConn, cl, up>>

(* run: a context and a monitor for the next read.                         *)
Iterate ==
  /\ pc = "iterate"
  /\ pc' = "lock" /\ mon' = TRUE
  /\ cause' = IF ctxDone THEN "canceled" ELSE "none"
  /\ UNCHANGED <<callers, mode, res, stale, wsConn, cl, up>>

(* conn.Reader takes readMu,                                               *)
ReaderLocks ==
  /\ pc = "lock" /\ wsConn = "open" /\ readMuFree
  /\ pc' = "reading"
  /\ UNCHANGED <<callers, mode, res, cause, monitors, wsConn, cl, up>>

(* returns a message, good or of the wrong type or undecodable,            *)
ReaderReturns(r) ==
  /\ pc = "reading" /\ wsConn = "open"
  /\ pc' = "returned" /\ res' = r
  /\ UNCHANGED <<callers, mode, cause, monitors, wsConn, cl, up>>

(* or an error: the peer or the network ends the connection,               *)
ReaderFails ==
  /\ pc = "reading"
  /\ pc' = "returned" /\ res' = "err" /\ wsConn' = "closed"
  /\ UNCHANGED <<callers, mode, cause, monitors, cl, up>>

(* or the connection is closed already, or the context of the read is done *)
(* and mu.lock or timeoutLoop closes the connection.                       *)
ReaderEnds ==
  /\ pc \in {"lock", "reading"} /\ (wsConn = "closed" \/ cause # "none")
  /\ pc' = "returned" /\ res' = "err" /\ wsConn' = "closed"
  /\ UNCHANGED <<callers, mode, cause, monitors, cl, up>>

(* handleControl: a ping comes in, the listener finds the context alive    *)
(* and goes on to tell the monitor.                                        *)
ReaderPing ==
  /\ pc = "reading" /\ wsConn = "open" /\ cause = "none"
  /\ pc' = "ping"
  /\ UNCHANGED <<callers, mode, res, cause, monitors, wsConn, cl, up>>

(* Mutant: an error does not end the read loop.                            *)
ReturnedLoops ==
  /\ pc = "returned"
  /\ mon' = FALSE /\ stale' = (stale \/ mon)
  /\ pc' = IF cause = "canceled" THEN afterAttempt ELSE "iterate"
  /\ UNCHANGED <<callers, mode, res, cause, wsConn, cl, up>>

(* run: the read is over.  Its context is cancelled, so its monitor is on  *)
(* its way out; a message goes to the listeners.                           *)
Returned ==
  /\ pc = "returned"
  /\ mon' = FALSE /\ stale' = (stale \/ mon)
  /\ pc' = CASE cause = "canceled" -> afterAttempt
             [] cause = "none" /\ res = "ok" -> "iterate"
             [] OTHER -> "drop"
  /\ UNCHANGED <<callers, mode, res, cause, wsConn, cl, up>>

(* Mutant: ws.conn keeps the connection.                                   *)
DropKeeps ==
  /\ pc = "drop" /\ mFree
  /\ pc' = "closing"
  /\ cl' = [cl EXCEPT !["run"] = "lock"]
  /\ UNCHANGED <<callers, mode, res, cause, monitors, wsConn, up>>

(* run: the connection is no longer ws.conn, and is closed;                *)
Drop ==
  /\ pc = "drop" /\ mFree
  /\ pc' = "closing" /\ held' = FALSE
  /\ cl' = [cl EXCEPT !["run"] = "lock"]
  /\ UNCHANGED <<shutdown, ctxDone, stop, snd, mode, res, cause, monitors,
                 wsConn, up>>

(* when Close has returned, the disconnect listeners are told.             *)
Disconnected ==
  /\ pc = "closing" /\ cl["run"] = "idle"
  /\ pc' = afterAttempt /\ up' = FALSE
  /\ UNCHANGED <<callers, mode, res, cause, monitors, wsConn, cl>>

(* run's select: the retry timer or the context.                           *)
Retry ==
  /\ pc = "wait"
  /\ pc' = "loop"
  /\ UNCHANGED <<callers, mode, res, cause, monitors, wsConn, cl, up>>

ContextDone ==
  /\ pc = "wait" /\ ctxDone
  /\ pc' = "done"
  /\ UNCHANGED <<callers, mode, res, cause, monitors, wsConn, cl, up>>

-----------------------------------------------------------------------------
(* conn.Close, called by Stop or by run, has sent its close frame and      *)
(* takes readMu to wait for the peer's,                                    *)
CloserLocks(p) ==
  /\ cl[p] = "lock" /\ wsConn = "open" /\ readMuFree
  /\ cl' = [cl EXCEPT ![p] = "read"]
  /\ UNCHANGED <<callers, pc, mode, res, cause, monitors, wsConn, up>>

(* reads a ping meanwhile,                                                 *)
CloserPing(p) ==
  /\ cl[p] = "read" /\ wsConn = "open"
  /\ cl' = [cl EXCEPT ![p] = "ping"]
  /\ UNCHANGED <<callers, pc, mode, res, cause, monitors, wsConn, up>>

(* reads the peer's close frame, gives up after five seconds or finds the  *)
(* connection closed,                                                      *)
CloserEnds(p) ==
  /\ cl[p] \in {"lock", "read"}
  /\ cl' = [cl EXCEPT ![p] = "finish"] /\ wsConn' = "closed"
  /\ UNCHANGED <<callers, pc, mode, res, cause, monitors, up>>

(* and returns once msgReader.close and msgWriter.close have come by the   *)
(* locks of readers and writers.                                           *)
CloserReturns(p) ==
  /\ cl[p] = "finish" /\ readMuFree /\ \A s \in Sender : snd[s] # "writing"
  /\ cl' = [cl EXCEPT ![p] = "idle"]
  /\ UNCHANGED <<callers, pc, mode, res, cause, monitors, wsConn, up>>

(* A monitor takes what a ping listener sends on the channel activity.     *)
MonitorHears ==
  /\ mon \/ stale
  /\ \/ pc = "ping" /\ pc' = "reading" /\ UNCHANGED cl
     \/ \E p \in CloseCaller :
          cl[p] = "ping" /\ cl' = [cl EXCEPT ![p] = "read"] /\ UNCHANGED pc
  /\ UNCHANGED <<callers, mode, res, cause, monitors, wsConn, up>>

(* The inactivity timer fires: the read is cancelled.                      *)
MonitorTimeout ==
  /\ mon
  /\ mon' = FALSE
  /\ cause' = IF cause = "none" THEN "deadline" ELSE cause
  /\ UNCHANGED <<callers, pc, mode, res, stale, wsConn, cl, up>>

(* A monitor sees that its context is done.                                *)
MonitorEnds ==
  /\ \/ mon /\ cause # "none" /\ mon' = FALSE /\ UNCHANGED stale
     \/ stale /\ stale' = FALSE /\ UNCHANGED mon
  /\ UNCHANGED <<callers, pc, mode, res, cause, wsConn, cl, up>>

-----------------------------------------------------------------------------
Run ==
  \/ Enter \/ Decorate \/ DialOk \/ DialFails \/ SetConn \/ Iterate
  \/ ReaderLocks \/ ReaderEnds \/ Returned \/ Drop \/ Disconnected
  \/ Retry \/ ContextDone

Peer == (\E r \in {"ok", "bad"} : ReaderReturns(r)) \/ ReaderFails \/ ReaderPing

Monitor == MonitorHears \/ MonitorTimeout \/ MonitorEnds

WsNext ==
  \/ Start \/ StopCloses \/ StopUnlocks \/ StopCancels \/ StopReturns
  \/ \E s \in Sender : SendCalls(s) \/ SendLocks(s) \/ SendReturns(s)
  \/ Run \/ Peer \/ Monitor
  \/ \E p \in CloseCaller :
       CloserLocks(p) \/ CloserPing(p) \/ CloserEnds(p) \/ CloserReturns(p)

WsSpec == WsInit /\ [][WsNext]_wsVars

(* Every goroutine goes on when it can, and a sync.Mutex lets nobody wait  *)
(* for ever (SendLocks, SetConn, Drop).  A deadline that has passed stays  *)
(* passed, and select chooses at random among what is ready: what is       *)
(* possible again and again happens (CloserEnds, ContextDone).  The peer   *)
(* owes nothing, and neither does the inactivity timer of a peer that      *)
(* keeps sending pings.                                                    *)
WsFairness ==
  /\ WF_wsVars(StopUnlocks) /\ WF_wsVars(StopCancels) /\ WF_wsVars(StopReturns)
  /\ \A s \in Sender : SF_wsVars(SendLocks(s)) /\ WF_wsVars(SendReturns(s))
  /\ WF_wsVars(Run) /\ SF_wsVars(SetConn) /\ SF_wsVars(Drop) /\ SF_wsVars(ContextDone)
  /\ WF_wsVars(MonitorHears) /\ WF_wsVars(MonitorEnds)
  /\ \A p \in CloseCaller : SF_wsVars(CloserEnds(p)) /\ WF_wsVars(CloserReturns(p))

WsLiveSpec == WsSpec /\ WsFairness

-----------------------------------------------------------------------------
(* While run reads and nothing has cancelled the read, a monitor of this   *)
(* very read is there to notice a silent peer.                             *)
MonitoredRead == pc \in {"lock", "reading", "ping"} /\ cause = "none" => mon

(* When run has a new connection, the one before is closed, ws.conn does   *)
(* not show it any more, and the listeners have been told of its end.      *)
CleanDial ==
  [][pc = "dial" /\ pc' = "dialed" => wsConn # "open" /\ ~held /\ ~up]_wsVars

(* The inductive invariant behind TypeOK, MonitoredRead and CleanDial: a   *)
(* read is cancelled by Stop or not at all, its monitor goes only when it  *)
(* is; between two connections nothing of the old one is left, unless run  *)
(* is about to end; run's Close runs inside run and leaves the connection  *)
(* closed.                                                                 *)
WsInv ==
  /\ WsTypeOK
  /\ MonitoredRead
  /\ shutdown \/ pc = "none"
  /\ cause = "canceled" => ctxDone
  /\ pc \in {"none", "spawned", "loop", "dial", "wait"}
       => ctxDone \/ (wsConn # "open" /\ ~held /\ ~up)
  /\ pc = "closing" => ~held
  /\ pc # "closing" => cl["run"] = "idle"
  /\ pc = "closing" /\ cl["run"] \in {"finish", "idle"} => wsConn = "closed"

(* A ping listener sends on the channel activity and no monitor receives.  *)
Stuck ==
  ~mon /\ ~stale /\ (pc = "ping" \/ \E p \in CloseCaller : cl[p] = "ping")

(* A connection that is closed is dropped by run.                          *)
ClosedIsDropped == held /\ wsConn = "closed" ~> ~held \/ ctxDone \/ Stuck

(* Stop returns.                                                           *)
StopEnds == stop # "no" ~> stop = "returned" \/ Stuck

(* Send returns, whatever Stop, run and the peer do.                       *)
SendEnds == \A s \in Sender : snd[s] = "want" ~> snd[s] = "idle" \/ Stuck

(* Stop and Send, which wait for the same mutex and for run (ws.go:180,    *)
(* :211), both return.                                                     *)
StopAndSendEnd == StopEnds /\ SendEnds

-----------------------------------------------------------------------------
(* "The websocket gave us an unexpected message, or a message that could   *)
(* not be decoded.  Close & reconnect."  Even when nobody calls Stop.      *)
BadMessageReconnects ==
  pc = "drop" /\ stop = "no" ~> pc = "loop" \/ stop # "no"
==============================================================================
