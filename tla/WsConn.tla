------------------------------- MODULE WsConn -------------------------------
(***************************************************************************)
(* One connection of the websocket library (internal/nhooyr.io/websocket:  *)
(* conn.go, close.go, read.go, write.go): the goroutines that meet on it,  *)
(* its locks, its timeouts and its close handshake.  It is the client's    *)
(* end and has no compression, as the agent dials it.  What the frames of  *)
(* a message carry is in Framing.                                          *)
(*                                                                         *)
(* The goroutines: the reader (Read, or the goroutine of CloseRead), the   *)
(* writers (Write and Ping), the one that closes (Close or CloseNow),      *)
(* timeoutLoop, the ones timeoutLoop starts when a read times out, and the *)
(* one close starts to give the buffers back.  The network and the peer    *)
(* are external: what the peer sends arrives when it is read, header       *)
(* first; the peer may stall at any point or break the connection, and a   *)
(* write may block.                                                        *)
(***************************************************************************)
EXTENDS Naturals, Sequences

CONSTANTS
    Writer,    \* goroutines that call Write or Ping
    Timeout,   \* bounds the goroutines timeoutLoop starts
    none,      \* no goroutine
    MaxIn,     \* bound: frames the peer sends
    MaxOut     \* bound: calls of Write and Ping

Reader == "reader"
Closer == "closer"

Proc == {Reader, Closer} \cup Writer \cup Timeout

ASSUME ProcsDistinct ==
    /\ {Reader, Closer} \cap (Writer \cup Timeout) = {}
    /\ Writer \cap Timeout = {}
    /\ {none, "cleanup"} \cap Proc = {} /\ none # "cleanup"

ASSUME BoundsAreNumbers == MaxIn \in Nat /\ MaxOut \in Nat

(***************************************************************************)
(* What the peer sends: a data frame, the control frames (a close frame    *)
(* whose payload is no status is answered the same way as a good one) and  *)
(* a header that breaks the protocol (reserved bits, opcode, a control     *)
(* frame that is too long or fragmented, a continuation of nothing).       *)
(***************************************************************************)
Control == {"ping", "pong", "close"}
Header == Control \cup {"data", "bad"}

(***************************************************************************)
(* A context is the goroutine that made it and what for: the caller's      *)
(* ("call"), the 5 seconds of a control frame ("ctl"), of writing a close  *)
(* frame ("wclose") and of waiting for the peer's ("hs").  There is no     *)
(* clock: whoever looks at a context may find it done.  A caller's context *)
(* may never be, the others will.                                          *)
(***************************************************************************)
Background == <<none, "call">>

VARIABLES
    conn,      \* closed, wroteClose, readClose (readCloseFrameErr), pend
               \* (bytes of the message being read are due)
    mu,        \* holders of readMu and writeFrameMu
    loop,      \* timeoutLoop: is it running, its readCtx and its writeCtx
    cleanup,   \* the goroutine that close starts
    g,         \* each goroutine: where it is, what it reads or closes for, the
               \* frame it writes, the header it read, and whether its ping was
               \* answered
    wire,      \* broken: by the peer; out: the frames written
    sent,      \* counts for the bounds: frames of the peer, calls
    closeRead  \* the application reads with CloseRead

vars == <<conn, mu, loop, cleanup, g, wire, sent, closeRead>>

\* A goroutine between two calls.
Fresh == [pc |-> "idle", mode |-> "read", op |-> "data", hdr |-> "data",
          ponged |-> FALSE]

\* newConn.
Init ==
    /\ conn = [closed |-> FALSE, wroteClose |-> FALSE, readClose |-> FALSE,
               pend |-> FALSE]
    /\ mu = [read |-> none, frame |-> none]
    /\ loop = [up |-> TRUE, readCtx |-> Background, writeCtx |-> Background]
    /\ cleanup = "none"
    /\ g = [p \in Proc |-> Fresh]
    /\ wire = [broken |-> FALSE, out |-> <<>>]
    /\ sent = [in |-> 0, out |-> 0]
    /\ closeRead \in BOOLEAN

-----------------------------------------------------------------------------
(* Contexts, locks and close.                                              *)

At(p, place) == [g[p] EXCEPT !.pc = place]
Over(place) == [Fresh EXCEPT !.pc = place]

\* A context that is done for sure, sooner or later: it has a deadline or the
\* call it was made for is over.
Ends(ctx) ==
    /\ ctx # Background
    /\ ctx[2] # "call" \/ g[ctx[1]].pc \in {"end", "wg", "wgNow"}

\* close: under closeMu, once.
Closed(c) == [c EXCEPT !.closed = TRUE]

\* A step of p: the locks, the connection and p's new record.  Closing the
\* connection starts the goroutine that gives the buffers back.
Settled(p, m, c, r) ==
    /\ mu' = m
    /\ conn' = c
    /\ cleanup' = IF c.closed /\ cleanup = "none" THEN "writer" ELSE cleanup
    /\ g' = [g EXCEPT ![p] = r]

\* mu.unlock.
Unlocked(m, k, p) == IF m[k] = p THEN [m EXCEPT ![k] = none] ELSE m

\* Mutant of ReadCtx: the handshake's 5 seconds bound nothing.
ReadCtxUnbounded(p, place) == <<p, IF place = "control" THEN "ctl" ELSE "call">>

\* The context that bounds what p reads at a place, and what p writes.
ReadCtx(p, place) ==
    <<p, IF place = "control" THEN "ctl"
         ELSE IF g[p].mode = "hs" THEN "hs" ELSE "call">>

WriteCtx(p) ==
    <<p, CASE g[p].op = "close" -> "wclose"
           [] g[p].op = "pong" -> "ctl"
           [] OTHER -> "call">>

-----------------------------------------------------------------------------
(* Reading.                                                                *)

\* A read failed with m held and the connection c: Read returns the error, the
\* goroutine of CloseRead goes on to CloseNow, msgReader.Read closes first,
\* waitCloseHandshake unlocks and goes on to close.
ReadFails(p, m, c) ==
    LET now == g[p].mode = "read" /\ closeRead
    IN Settled(p, Unlocked(m, "read", p),
               IF g[p].mode = "body" \/ now THEN Closed(c) ELSE c,
               Over(IF now THEN "wgNow"
                    ELSE IF g[p].mode = "hs" THEN "hsEnd" ELSE "end"))

\* p waits for a header, a control frame's payload or a message's bytes: its
\* context is with timeoutLoop, which takes it as long as it runs.
Awaits(p, m, c, r) ==
    /\ loop.up
    /\ Settled(p, m, c, r)
    /\ loop' = [loop EXCEPT !.readCtx = ReadCtx(p, r.pc)]

\* Reader: a new call of the application.  (Here and in Write: on a closed
\* connection a call returns at once and changes nothing.)
Read ==
    /\ ~conn.closed
    /\ g[Reader].pc = "idle"
    /\ g' = [g EXCEPT ![Reader] = Over("rlock")]
    /\ UNCHANGED <<conn, mu, loop, cleanup, wire, sent, closeRead>>

\* mu.lock on readMu by reader, msgReader.Read and waitCloseHandshake, and what
\* each does first: the next header, the message's bytes, or the rest of a
\* message the application did not read.
RLock(p) ==
    /\ g[p].pc = "rlock"
    /\ \/ conn.closed /\ ReadFails(p, mu, conn) /\ UNCHANGED loop
       \/ /\ mu.read = none
          /\ ~conn.closed
          /\ LET m == [mu EXCEPT !.read = p]
             IN CASE g[p].mode = "hs" /\ conn.readClose ->
                         ReadFails(p, m, conn) /\ UNCHANGED loop
                  [] g[p].mode = "hs" /\ conn.pend ->
                         Settled(p, m, conn, At(p, "drain")) /\ UNCHANGED loop
                  [] g[p].mode = "body" -> Awaits(p, m, conn, At(p, "body"))
                  [] OTHER -> Awaits(p, m, conn, At(p, "header"))
    /\ UNCHANGED <<wire, sent, closeRead>>

\* The end of a successful read: timeoutLoop gets the background context.
ReadOver(p, m, c, r) ==
    /\ loop.up
    /\ Settled(p, m, c, r)
    /\ loop' = [loop EXCEPT !.readCtx = Background]

\* readFrameHeader, and readLoop and reader on the header h: the payload of a
\* control frame comes next, a protocol error is answered, a data frame is
\* returned to Read, to CloseRead (which closes) or to waitCloseHandshake.
ReadHeader(p) ==
    /\ g[p].pc = "header"
    /\ sent.in < MaxIn
    /\ sent' = [sent EXCEPT !.in = @ + 1]
    /\ \E h \in Header :
         CASE h \in Control ->
                Awaits(p, mu, conn, [At(p, "control") EXCEPT !.hdr = h])
           [] h = "bad" ->
                ReadOver(p, mu, conn, [At(p, "wclose") EXCEPT !.hdr = "bad"])
           [] g[p].mode = "hs" /\ h = "data" ->
                ReadOver(p, mu, conn, At(p, "drain"))
           [] OTHER ->
                ReadOver(p, Unlocked(mu, "read", p), [conn EXCEPT !.pend = TRUE],
                     IF closeRead
                     THEN [Over("wclose") EXCEPT !.mode = "close"]
                     ELSE [At(p, "rlock") EXCEPT !.mode = "body"])
    /\ UNCHANGED <<wire, closeRead>>

\* handleControl: a ping is answered, a pong wakes the ping it answers, a close
\* frame or a bad one is answered with a close frame.
ReadControl(p) ==
    /\ g[p].pc = "control"
    /\ CASE g[p].hdr = "ping" ->
              ReadOver(p, mu, conn, [At(p, "wlock") EXCEPT !.op = "pong"])
         [] g[p].hdr = "pong" ->
              /\ loop.up
              /\ loop' = [loop EXCEPT !.readCtx = ReadCtx(p, "header")]
              /\ \E answered \in SUBSET {w \in Writer : g[w].op = "ping"} :
                   g' = [q \in Proc |->
                           IF q = p THEN At(p, "header")
                           ELSE [g[q] EXCEPT !.ponged = @ \/ q \in answered]]
              /\ UNCHANGED <<conn, mu, cleanup>>
         [] OTHER -> ReadOver(p, mu, conn, At(p, "wclose"))
    /\ UNCHANGED <<wire, sent, closeRead>>

\* msgReader.Read: the rest of the message.
ReadBody(p) ==
    /\ g[p].pc = "body"
    /\ ReadOver(p, Unlocked(mu, "read", p), [conn EXCEPT !.pend = FALSE], Fresh)
    /\ UNCHANGED <<wire, sent, closeRead>>

\* The bytes do not come: the connection is closed or broken, and closed now
\* unless the context is done too.
ReadError(p) ==
    /\ g[p].pc \in {"header", "control", "body"}
    /\ conn.closed \/ wire.broken
    /\ \E c \in {conn, Closed(conn)} : ReadFails(p, mu, c)
    /\ UNCHANGED <<loop, wire, sent, closeRead>>

-----------------------------------------------------------------------------
(* Closing.                                                                *)

\* After writeClose: Close waits for the peer, a protocol error or a received
\* close frame closes the connection and ends the read, a timed out read just
\* closes.
AfterClose(p, m, c) ==
    CASE g[p].mode = "close" ->
             Settled(p, m, c, [Over("rlock") EXCEPT !.mode = "hs"])
      [] g[p].mode = "timeout" ->
             Settled(p, m, Closed(c), Over("end"))
      [] OTHER ->
             ReadFails(p, m, [Closed(c) EXCEPT
                                !.readClose = @ \/ g[p].hdr \in Control])

\* writeClose: the first caller writes the frame, the others return.
WriteClose(p) ==
    /\ g[p].pc = "wclose"
    /\ \/ conn.wroteClose /\ AfterClose(p, mu, conn)
       \/ /\ ~conn.wroteClose
          /\ Settled(p, mu, [conn EXCEPT !.wroteClose = TRUE],
                     [At(p, "wlock") EXCEPT !.op = "close"])
    /\ UNCHANGED <<loop, wire, sent, closeRead>>

\* Close of the application.
Close ==
    /\ g[Closer].pc = "idle"
    /\ g' = [g EXCEPT ![Closer] = [Over("wclose") EXCEPT !.mode = "close"]]
    /\ UNCHANGED <<conn, mu, loop, cleanup, wire, sent, closeRead>>

\* CloseNow of the application.
CloseNow ==
    /\ g[Closer].pc = "idle"
    /\ Settled(Closer, mu, Closed(conn), Over("wgNow"))
    /\ UNCHANGED <<loop, wire, sent, closeRead>>

\* waitCloseHandshake skips a payload byte by byte, with no context armed.
Drain(p) ==
    /\ g[p].pc = "drain"
    /\ Awaits(p, mu, conn, At(p, "header"))
    /\ UNCHANGED <<wire, sent, closeRead>>

DrainError(p) ==
    /\ g[p].pc = "drain"
    /\ conn.closed \/ wire.broken
    /\ ReadFails(p, mu, conn)
    /\ UNCHANGED <<loop, wire, sent, closeRead>>

\* waitCloseHandshake, deferred: readMu is free again, now the connection is
\* closed.  Close then waits for the goroutines of the connection.
HandshakeEnds(p) ==
    /\ g[p].pc = "hsEnd"
    /\ Settled(p, mu, Closed(conn), Over("wg"))
    /\ UNCHANGED <<loop, wire, sent, closeRead>>

\* The goroutines wg counts: timeoutLoop, the ones it started, the one close
\* started and the one of CloseRead, which leaves the group before its
\* CloseNow.
InGroup(p) ==
    \/ p \in Timeout /\ g[p].pc # "idle"
    \/ p = Reader /\ closeRead /\ g[p].pc \notin {"idle", "wgNow"}

WgWait(p) ==
    /\ g[p].pc \in {"wg", "wgNow"}
    /\ ~loop.up
    /\ cleanup = "done"
    /\ \A q \in Proc : InGroup(q) => g[q].pc = "end"
    /\ g' = [g EXCEPT ![p] = Over("end")]
    /\ UNCHANGED <<conn, mu, loop, cleanup, wire, sent, closeRead>>

\* The goroutine of close: msgWriter.close, then msgReader.close.  Each takes the
\* lock by force and keeps it, then the buffer goes back to its pool.
CleanWriter ==
    /\ cleanup = "writer"
    /\ mu.frame = none
    /\ mu' = [mu EXCEPT !.frame = "cleanup"]
    /\ cleanup' = "reader"
    /\ UNCHANGED <<conn, loop, g, wire, sent, closeRead>>

\* Mutant of CleanReader: the lock is not awaited.
CleanReaderAtOnce ==
    /\ cleanup = "reader"
    /\ mu' = [mu EXCEPT !.read = "cleanup"]
    /\ cleanup' = "done"
    /\ UNCHANGED <<conn, loop, g, wire, sent, closeRead>>

CleanReader ==
    /\ cleanup = "reader"
    /\ mu.read = none
    /\ mu' = [mu EXCEPT !.read = "cleanup"]
    /\ cleanup' = "done"
    /\ UNCHANGED <<conn, loop, g, wire, sent, closeRead>>

-----------------------------------------------------------------------------
(* Writing.                                                                *)

\* writeFrame returned: Write returns, Ping waits for its pong, a pong sent lets
\* readLoop go on, writeClose goes on as above.
WriteReturns(p, ok, m, c) ==
    CASE g[p].op = "close" -> AfterClose(p, m, c)
      [] g[p].op = "pong" /\ ~ok -> ReadFails(p, m, c)
      [] g[p].op = "pong" /\ ok ->
             Settled(p, m, c, [At(p, "header") EXCEPT !.op = "data", !.hdr = "data"])
      [] g[p].op = "ping" /\ ok -> Settled(p, m, c, At(p, "pong"))
      [] OTHER -> Settled(p, m, c, IF ok THEN Fresh ELSE Over("end"))

\* Write and Ping of the application.
Write(w) ==
    /\ ~conn.closed
    /\ g[w].pc = "idle"
    /\ sent.out < MaxOut
    /\ sent' = [sent EXCEPT !.out = @ + 1]
    /\ \E r \in {Over("wlock"), [Over("wlock") EXCEPT !.op = "ping"]} :
         g' = [g EXCEPT ![w] = r]
    /\ UNCHANGED <<conn, mu, loop, cleanup, wire, closeRead>>

\* Mutant of WLock: frames are still sent after the close frame.
WLockAfterClose(p) ==
    /\ g[p].pc = "wlock"
    /\ \/ conn.closed /\ WriteReturns(p, FALSE, mu, conn) /\ UNCHANGED loop
       \/ /\ mu.frame = none
          /\ ~conn.closed
          /\ Settled(p, [mu EXCEPT !.frame = p], conn, At(p, "wio"))
          /\ loop' = [loop EXCEPT !.writeCtx = WriteCtx(p)]
    /\ UNCHANGED <<wire, sent, closeRead>>

\* writeFrame: lock writeFrameMu and hand the context to timeoutLoop; after a
\* close frame only wait for the end.
WLock(p) ==
    /\ g[p].pc = "wlock"
    /\ \/ conn.closed /\ WriteReturns(p, FALSE, mu, conn) /\ UNCHANGED loop
       \/ /\ mu.frame = none
          /\ ~conn.closed
          /\ IF conn.wroteClose /\ g[p].op # "close"
             THEN Settled(p, mu, conn, At(p, "wwait")) /\ UNCHANGED loop
             ELSE /\ Settled(p, [mu EXCEPT !.frame = p], conn, At(p, "wio"))
                  /\ loop' = [loop EXCEPT !.writeCtx = WriteCtx(p)]
    /\ UNCHANGED <<wire, sent, closeRead>>

WWait(p) ==
    /\ g[p].pc = "wwait"
    /\ conn.closed
    /\ WriteReturns(p, FALSE, mu, conn)
    /\ UNCHANGED <<loop, wire, sent, closeRead>>

\* Header, payload and flush reach the network.
WriteBytes(p) ==
    /\ g[p].pc = "wio"
    /\ ~conn.closed
    /\ ~wire.broken
    /\ wire' = [wire EXCEPT !.out = Append(@, g[p].op)]
    /\ g' = [g EXCEPT ![p].pc = "wdisarm"]
    /\ UNCHANGED <<conn, mu, loop, cleanup, sent, closeRead>>

\* They do not: the deferred function closes the connection.
WriteError(p) ==
    /\ g[p].pc = "wio"
    /\ conn.closed \/ wire.broken
    /\ WriteReturns(p, FALSE, Unlocked(mu, "frame", p), Closed(conn))
    /\ UNCHANGED <<loop, wire, sent, closeRead>>

\* The end of writeFrame, after which readLoop waits for the next header if this
\* was its pong; a close frame counts as written even when the connection is
\* closed meanwhile.
WDisarm(p) ==
    /\ g[p].pc = "wdisarm"
    /\ \/ /\ conn.closed
          /\ WriteReturns(p, g[p].op = "close", Unlocked(mu, "frame", p), conn)
          /\ UNCHANGED loop
       \/ /\ loop.up
          /\ loop' = [loop EXCEPT !.writeCtx = Background,
                        !.readCtx = IF g[p].op = "pong" THEN ReadCtx(p, "header")
                                    ELSE @]
          /\ WriteReturns(p, TRUE, Unlocked(mu, "frame", p), conn)
    /\ UNCHANGED <<wire, sent, closeRead>>

\* ping: the pong or the end of the connection.
AwaitPong(w) ==
    /\ g[w].pc = "pong"
    /\ \/ g[w].ponged /\ Settled(w, mu, conn, Fresh)
       \/ conn.closed /\ Settled(w, mu, conn, Over("end"))
    /\ UNCHANGED <<loop, wire, sent, closeRead>>

-----------------------------------------------------------------------------
(* timeoutLoop.                                                            *)

LoopEnds ==
    /\ loop.up
    /\ conn.closed
    /\ loop' = [up |-> FALSE, readCtx |-> Background, writeCtx |-> Background]
    /\ UNCHANGED <<conn, mu, cleanup, g, wire, sent, closeRead>>

\* A read timed out: a goroutine writes the error.  The loop stays and finds the
\* context done again, so it starts another one until the connection is closed.
ReadTimesOut ==
    /\ loop.up
    /\ loop.readCtx # Background
    /\ \E t \in Timeout :
         /\ g[t].pc = "idle"
         /\ g' = [g EXCEPT ![t] = [Over("wclose") EXCEPT !.mode = "timeout"]]
    /\ UNCHANGED <<conn, mu, loop, cleanup, wire, sent, closeRead>>

\* A write timed out: the connection is closed at once.
WriteTimesOut ==
    /\ loop.up
    /\ loop.writeCtx # Background
    /\ conn' = Closed(conn)
    /\ cleanup' = IF cleanup = "none" THEN "writer" ELSE cleanup
    /\ loop' = [up |-> FALSE, readCtx |-> Background, writeCtx |-> Background]
    /\ UNCHANGED <<mu, g, wire, sent, closeRead>>

-----------------------------------------------------------------------------
(* The peer, the network and the clock.                                    *)

PeerBreaks ==
    /\ ~conn.closed /\ ~wire.broken
    /\ wire' = [wire EXCEPT !.broken = TRUE]
    /\ UNCHANGED <<conn, mu, loop, cleanup, g, sent, closeRead>>

\* The context p waits with is done: a lock or a pong that does not come closes
\* the connection, a frame that may not be sent any more is just given up.
GivesUp(p) ==
    /\ ~conn.closed
    /\ \/ g[p].pc = "rlock" /\ ReadFails(p, mu, Closed(conn))
       \/ g[p].pc = "wlock" /\ WriteReturns(p, FALSE, mu, Closed(conn))
       \/ g[p].pc = "wwait" /\ WriteReturns(p, FALSE, mu, conn)
       \/ g[p].pc = "pong" /\ Settled(p, mu, Closed(conn), Over("end"))
    /\ UNCHANGED <<loop, wire, sent, closeRead>>

WaitsWith(p) == IF g[p].pc = "rlock" THEN ReadCtx(p, "rlock") ELSE WriteCtx(p)

-----------------------------------------------------------------------------
\* What a goroutine does without waiting for the peer or the network.
Step(p) ==
    \/ RLock(p) \/ ReadError(p) \/ WriteClose(p) \/ DrainError(p)
    \/ HandshakeEnds(p) \/ WgWait(p)
    \/ WLock(p) \/ WWait(p) \/ WriteError(p) \/ WDisarm(p)

\* What the peer and the network let it do.
Arrival(p) ==
    ReadHeader(p) \/ ReadControl(p) \/ ReadBody(p) \/ Drain(p) \/ WriteBytes(p)

Loop == LoopEnds \/ ReadTimesOut \/ WriteTimesOut

\* The timers that are sure to fire.
Timers(p) == Ends(WaitsWith(p)) /\ GivesUp(p)

LoopTimers ==
    \/ Ends(loop.readCtx) /\ ReadTimesOut
    \/ Ends(loop.writeCtx) /\ WriteTimesOut

Cleanup == CleanWriter \/ CleanReader

Next ==
    \/ Read \/ Close \/ CloseNow
    \/ \E p \in Proc : Step(p) \/ Arrival(p)
    \/ \E w \in Writer : Write(w) \/ AwaitPong(w)
    \/ Loop \/ Cleanup
    \/ PeerBreaks
    \/ \E p \in Proc : GivesUp(p)

Spec == Init /\ [][Next]_vars

\* What the scheduler and the 5 second timers bring about.
System ==
    \/ \E p \in Proc : Step(p) \/ Timers(p)
    \/ \E w \in Writer : AwaitPong(w)
    \/ LoopEnds \/ LoopTimers \/ Cleanup

\* As long as a goroutine can go on or a timer is due, one of them does.  The
\* peer, the network, a caller's context and the application owe nothing.  Each
\* call makes a bounded number of such steps, so no goroutine is left behind.
FairSpec == Spec /\ WF_vars(System)

-----------------------------------------------------------------------------
(* Properties.                                                             *)

\* What the end puts on the wire is what WireSpec allows: whoever closes first
\* (Close, a close frame received, a protocol error, a timed out read), one close
\* frame at most is written, no frame follows it, and none follows the end of
\* the network connection.
Wire == INSTANCE WireSpec WITH
    Frame <- {"data", "ping", "pong"}, CloseFrame <- "close",
    out <- wire.out, shut <- conn.closed

ImplementsWire == Wire!Spec

UsesReadBuffer(p) == g[p].pc \in {"header", "control", "body", "drain"}
UsesWriteBuffer(p) == g[p].pc = "wio"

\* The buffered reader and writer are used by one goroutine at a time, and never
\* after close has given them back to the pools other connections take them from
\* (msgReader.close, msgWriter.close).
BuffersOwned ==
    \A p \in Proc :
      /\ UsesReadBuffer(p) =>
           cleanup # "done" /\ \A q \in Proc \ {p} : ~UsesReadBuffer(q)
      /\ UsesWriteBuffer(p) =>
           /\ cleanup \notin {"reader", "done"}
           /\ \A q \in Proc \ {p} : ~UsesWriteBuffer(q)

\* The goroutine of CloseRead waits in Close for the group it is itself part of.
WaitsForItself == closeRead /\ g[Reader].pc = "wg"

\* "Close will unblock all goroutines interacting with the connection once
\* complete" (close.go:102-103): once Close is called, or the connection is closed in
\* another way, everyone on it returns, Close included.  The exceptions: CloseRead's
\* goroutine after a data message, and a peer that stalls for ever between a
\* header and its payload while the close handshake skips data.
CloseUnblocks ==
    (conn.closed \/ g[Closer].pc = "wclose") ~>
        \/ \A p \in Proc : g[p].pc \in {"idle", "end"}
        \/ WaitsForItself
        \/ [](g[Closer].pc = "drain" /\ ~conn.closed)

\* "It will write a WebSocket close frame with a timeout of 5s and then wait 5s for
\* the peer to send a close frame" (close.go:91-92): Close always returns.
CloseIsTimely == g[Closer].pc = "wclose" ~> g[Closer].pc = "end"
=============================================================================
