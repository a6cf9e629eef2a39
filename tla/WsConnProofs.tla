---------------------------- MODULE WsConnProofs ----------------------------
(***************************************************************************)
(* BuffersOwned, and that a connection implements WireSpec, for any number *)
(* of writers, of goroutines of timeoutLoop and of frames.                 *)
(*                                                                         *)
(* The strengthening says what a goroutine holds at each place: readMu     *)
(* while it reads or answers a ping in the middle of reading, writeFrameMu *)
(* while it writes (LockInv); what the goroutine of close holds for good   *)
(* (CleanupInv); that one goroutine at most is to write the close frame,   *)
(* and none writes anything after it (CloseInv).                           *)
(*                                                                         *)
(* Almost every action moves one goroutine, with at most one of the locks. *)
(* Move says what such a step respects; the lemma MoveKeeps needs it once, *)
(* and the actions are shown to be moves.                                  *)
(*                                                                         *)
(* Last, the client that uses the connections (Websocket).                 *)
(***************************************************************************)
EXTENDS WsConn, Websocket, TLAPS

Reading == {"header", "control", "body", "drain"}
Writing == {"wlock", "wio", "wwait", "wdisarm"}
Op == {"data", "ping", "pong", "close"}

Routine == [pc : {"idle", "rlock", "wclose", "pong", "hsEnd", "wg", "wgNow", "end"}
                   \cup Reading \cup Writing,
            mode : {"read", "body", "hs", "close", "timeout"},
            op : Op, hdr : Header, ponged : BOOLEAN]
Locks == [read : Proc \cup {none, "cleanup"}, frame : Proc \cup {none, "cleanup"}]
Conn == [closed : BOOLEAN, wroteClose : BOOLEAN, readClose : BOOLEAN, pend : BOOLEAN]

Types ==
    /\ conn \in Conn
    /\ mu \in Locks
    /\ cleanup \in {"none", "writer", "reader", "done"}
    /\ g \in [Proc -> Routine]
    /\ wire \in [broken : BOOLEAN, out : Seq(Op)]

\* A goroutine reads the connection or will go on doing so, is about to write the
\* close frame.
HoldsRead(r) == r.pc \in Reading \/ (r.pc \in Writing /\ r.op = "pong")
WritesClose(r) == r.pc \in Writing /\ r.op = "close"

LockInv ==
    \A p \in Proc :
      /\ HoldsRead(g[p]) => mu.read = p
      /\ g[p].pc \in {"wio", "wdisarm"} => mu.frame = p

CleanupInv ==
    /\ cleanup \in {"reader", "done"} => mu.frame = "cleanup"
    /\ cleanup = "done" => mu.read = "cleanup"

\* The last frame on the wire is a close frame.
Ended == wire.out # <<>> /\ wire.out[Len(wire.out)] = "close"

CloseInv ==
    /\ \A p \in Proc : WritesClose(g[p]) =>
         /\ conn.wroteClose
         /\ \A q \in Proc : WritesClose(g[q]) => q = p
    /\ Ended =>
         /\ conn.wroteClose
         /\ \A p \in Proc : g[p].pc # "wio" /\ ~(g[p].pc = "wlock" /\ g[p].op = "close")

IInv == Types /\ LockInv /\ CleanupInv /\ CloseInv

-----------------------------------------------------------------------------
\* The locks after a step of p: it has taken or released some.
LockMove(p, m) ==
    /\ m \in Locks
    /\ \/ m.read = mu.read
       \/ mu.read = none /\ m.read = p
       \/ mu.read = p /\ m.read = none
    /\ \/ m.frame = mu.frame
       \/ mu.frame = none /\ m.frame = p
       \/ mu.frame = p /\ m.frame = none

\* The connection stays closed, and its close frame written.
ConnMove(c) ==
    /\ c \in Conn
    /\ conn.closed => c.closed
    /\ conn.wroteClose => c.wroteClose

\* Where p comes to, with the locks m and the connection c.
PlaceMove(p, m, c, r) ==
    /\ r \in Routine
    /\ HoldsRead(r) => m.read = p
    /\ r.pc \in {"wio", "wdisarm"} => m.frame = p
    /\ WritesClose(r) =>
         /\ c.wroteClose
         /\ WritesClose(g[p]) \/ ~conn.wroteClose
         /\ r.pc = "wlock" => ~conn.wroteClose
    /\ r.pc = "wio" =>
         /\ g[p].pc = "wlock" /\ g[p].op = r.op
         /\ r.op = "close" \/ ~conn.wroteClose

Move(p, m, c, r) ==
    /\ LockMove(p, m) /\ ConnMove(c) /\ PlaceMove(p, m, c, r)
    /\ mu' = m /\ conn' = c
    /\ cleanup' = cleanup \/ (cleanup = "none" /\ cleanup' = "writer")
    /\ g' \in [Proc -> Routine] /\ g'[p] = r
    /\ \A q \in Proc \ {p} : g'[q].pc = g[q].pc /\ g'[q].op = g[q].op
    /\ UNCHANGED wire

Moves(p) == \E m, c, r : Move(p, m, c, r)

\* A move keeps the invariant and sends nothing.
LEMMA MoveKeeps ==
    ASSUME IInv, NEW p \in Proc, Moves(p)
    PROVE  IInv' /\ wire' = wire /\ (conn.closed => conn'.closed)
  <1>1. PICK m, c, r : Move(p, m, c, r)
    BY DEF Moves
  <1> USE <1>1, ProcsDistinct DEF Move
  <1>2. Types'
    <2>1. cleanup' \in {"none", "writer", "reader", "done"}
      BY DEF IInv, Types
    <2> QED
      BY <2>1 DEF IInv, Types, LockMove, ConnMove
  <1>3. LockInv'
    <2>1. \A q \in Proc \ {p} : HoldsRead(g'[q]) => HoldsRead(g[q])
      BY DEF HoldsRead
    <2> QED
      BY <2>1 DEF IInv, LockInv, LockMove, PlaceMove
  <1>4. CleanupInv'
    BY DEF IInv, CleanupInv, LockMove
  <1>5. CloseInv'
    <2>1. \A q \in Proc \ {p} : WritesClose(g'[q]) <=> WritesClose(g[q])
      BY DEF WritesClose
    <2>2. ASSUME NEW q \in Proc, WritesClose(g'[q])
          PROVE  conn'.wroteClose /\ \A s \in Proc : WritesClose(g'[s]) => s = q
      BY <2>1, <2>2 DEF IInv, CloseInv, PlaceMove, ConnMove
    <2>3. ASSUME Ended
          PROVE  /\ conn'.wroteClose
                 /\ \A q \in Proc : g'[q].pc # "wio" /\ ~(g'[q].pc = "wlock" /\ g'[q].op = "close")
      BY <2>3 DEF IInv, CloseInv, PlaceMove, ConnMove, WritesClose, Writing
    <2> QED
      BY <2>2, <2>3 DEF CloseInv, Ended
  <1> QED
    BY <1>2, <1>3, <1>4, <1>5 DEF IInv, ConnMove

-----------------------------------------------------------------------------
\* Nobody has done anything.
LEMMA InitIInv == Init => IInv
  <1> SUFFICES ASSUME Init PROVE IInv
    OBVIOUS
  <1>1. Types
    BY DEF Init, Fresh, Types, Conn, Locks, Routine, Op, Header, Control
  <1>2. \A p \in Proc : g[p].pc = "idle"
    BY DEF Init, Fresh
  <1>3. LockInv /\ CleanupInv /\ CloseInv
    BY <1>2 DEF Init, LockInv, HoldsRead, Reading, Writing, CleanupInv, CloseInv, WritesClose, Ended
  <1> QED
    BY <1>1, <1>3 DEF IInv

\* Settled is a move if what it is given is one.
LEMMA SettledMoves ==
    ASSUME Types, NEW p \in Proc, NEW m, NEW c, NEW r,
           Settled(p, m, c, r), LockMove(p, m), ConnMove(c), PlaceMove(p, m, c, r),
           UNCHANGED wire
    PROVE  Moves(p)
  <1>1. Move(p, m, c, r)
    BY DEF Settled, Move, Types, PlaceMove
  <1> QED
    BY <1>1 DEF Moves

\* The places where a goroutine neither reads nor writes.
LEMMA QuietPlace ==
    ASSUME NEW p \in Proc, NEW m, NEW c, NEW r \in Routine, r.pc \notin Reading \cup Writing
    PROVE  PlaceMove(p, m, c, r)
  BY DEF PlaceMove, HoldsRead, WritesClose, Reading, Writing

\* Goroutines between two calls, and at the places Over is used for.
LEMMA FreshRoutine ==
    /\ Fresh \in Routine
    /\ \A place \in {"idle", "rlock", "wclose", "wlock", "hsEnd", "wg", "wgNow", "end"} :
         Over(place) \in Routine /\ Over(place).pc = place /\ Over(place).op = "data"
  BY ZenonT(60) DEF Fresh, Over, Routine, Op, Header, Control, Reading, Writing

\* The locks and the connection that a step is given, before it releases readMu.
Held(p, m) ==
    /\ m \in Locks
    /\ m.read = mu.read \/ (mu.read = none /\ m.read = p)
    /\ m.frame = mu.frame \/ (mu.frame = p /\ m.frame = none)

\* Such locks may be kept, and readMu released.
LEMMA HeldMoves ==
    ASSUME NEW p, NEW m, Held(p, m)
    PROVE  LockMove(p, m) /\ LockMove(p, Unlocked(m, "read", p))
  BY DEF Held, LockMove, Unlocked, Locks

\* close may always come.
LEMMA ClosedMoves ==
    ASSUME NEW c, ConnMove(c)
    PROVE  ConnMove(Closed(c))
  BY ZenonT(60) DEF ConnMove, Closed, Conn

\* A read fails.
LEMMA ReadFailsMoves ==
    ASSUME Types, NEW p \in Proc, NEW m, NEW c, Held(p, m), ConnMove(c), ReadFails(p, m, c),
           UNCHANGED wire
    PROVE  Moves(p)
  <1> DEFINE now == g[p].mode = "read" /\ closeRead
             place == IF now THEN "wgNow" ELSE IF g[p].mode = "hs" THEN "hsEnd" ELSE "end"
             d == IF g[p].mode = "body" \/ now THEN Closed(c) ELSE c
             n == Unlocked(m, "read", p)
  <1>1. Settled(p, n, d, Over(place))
    BY DEF ReadFails
  <1>2. place \in {"wgNow", "hsEnd", "end"} /\ ConnMove(d) /\ LockMove(p, n)
    BY ClosedMoves, HeldMoves
  <1> HIDE DEF now, place, d, n
  <1>3. PlaceMove(p, n, d, Over(place))
    BY <1>2, FreshRoutine, QuietPlace DEF Reading, Writing
  <1> QED
    BY <1>1, <1>2, <1>3, SettledMoves

\* writeClose returns.
LEMMA AfterCloseMoves ==
    ASSUME Types, NEW p \in Proc, NEW m, NEW c, Held(p, m), ConnMove(c), AfterClose(p, m, c),
           UNCHANGED wire
    PROVE  Moves(p)
  <1>1. CASE g[p].mode = "close"
    <2> DEFINE r == [Over("rlock") EXCEPT !.mode = "hs"]
    <2>1. Settled(p, m, c, r)
      BY <1>1 DEF AfterClose
    <2>2. r \in Routine /\ r.pc = "rlock"
      BY ZenonT(60) DEF Over, Fresh, Routine, Op, Header, Control
    <2> HIDE DEF r
    <2>3. PlaceMove(p, m, c, r)
      BY <2>2, QuietPlace DEF Reading, Writing
    <2> QED
      BY <2>1, <2>3, HeldMoves, SettledMoves
  <1>2. CASE g[p].mode = "timeout"
    <2>1. Settled(p, m, Closed(c), Over("end"))
      BY <1>2 DEF AfterClose
    <2>2. PlaceMove(p, m, Closed(c), Over("end"))
      BY FreshRoutine, QuietPlace DEF Reading, Writing
    <2> QED
      BY <2>1, <2>2, HeldMoves, ClosedMoves, SettledMoves
  <1>3. CASE g[p].mode \notin {"close", "timeout"}
    <2> DEFINE d == [Closed(c) EXCEPT !.readClose = @ \/ g[p].hdr \in Control]
    <2>1. ReadFails(p, m, d)
      BY <1>3 DEF AfterClose
    <2>2. ConnMove(d)
      BY ZenonT(60) DEF ConnMove, Closed, Conn
    <2> HIDE DEF d
    <2> QED
      BY <2>1, <2>2, ReadFailsMoves
  <1> QED
    BY <1>1, <1>2, <1>3

\* writeFrame returns: only the reader that answered a ping goes on reading, and it
\* has had readMu all the time.
LEMMA WriteReturnsMoves ==
    ASSUME IInv, NEW p \in Proc, g[p].pc \in Writing, NEW ok \in BOOLEAN, NEW m, NEW c,
           Held(p, m), ConnMove(c), WriteReturns(p, ok, m, c), UNCHANGED wire
    PROVE  Moves(p)
  <1>1. Types /\ g[p] \in Routine
    BY DEF IInv, Types
  <1>2. CASE g[p].op = "close"
    <2>1. AfterClose(p, m, c)
      BY <1>2 DEF WriteReturns
    <2> QED
      BY <1>1, <2>1, AfterCloseMoves
  <1>3. CASE g[p].op = "pong" /\ ~ok
    <2>1. ReadFails(p, m, c)
      BY <1>3 DEF WriteReturns
    <2> QED
      BY <1>1, <2>1, ReadFailsMoves
  <1>4. CASE g[p].op = "pong" /\ ok
    <2> DEFINE r == [At(p, "header") EXCEPT !.op = "data", !.hdr = "data"]
    <2>1. Settled(p, m, c, r)
      BY <1>4 DEF WriteReturns
    <2>2. r \in Routine /\ r.pc = "header"
      BY <1>1, ZenonT(60) DEF At, Routine, Op, Header, Reading
    <2>3. mu.read = p
      BY <1>4 DEF IInv, LockInv, HoldsRead
    <2>4. m.read = p
      BY <2>3, ProcsDistinct DEF Held
    <2> HIDE DEF r
    <2>5. PlaceMove(p, m, c, r)
      BY <2>2, <2>4 DEF PlaceMove, WritesClose, Writing
    <2> QED
      BY <1>1, <2>1, <2>5, HeldMoves, SettledMoves
  <1>5. CASE g[p].op \in {"ping", "data"}
    <2>1. PICK r \in {At(p, "pong"), Fresh, Over("end")} : Settled(p, m, c, r)
      BY <1>5 DEF WriteReturns
    <2>2. At(p, "pong") \in Routine /\ At(p, "pong").pc = "pong"
      BY <1>1 DEF At, Routine
    <2>3. Fresh.pc = "idle"
      BY DEF Fresh
    <2>4. r \in Routine /\ r.pc \notin Reading \cup Writing
      BY <2>1, <2>2, <2>3, FreshRoutine DEF Reading, Writing
    <2>5. PlaceMove(p, m, c, r)
      BY <2>4, QuietPlace
    <2> QED
      BY <1>1, <2>1, <2>5, HeldMoves, SettledMoves
  <1> QED
    BY <1>1, <1>2, <1>3, <1>4, <1>5 DEF Routine, Op

-----------------------------------------------------------------------------
(* The actions of a goroutine.                                             *)

\* What holds before any step of p.
LEMMA Before ==
    ASSUME IInv, NEW p \in Proc
    PROVE  /\ Types /\ g[p] \in Routine
           /\ Held(p, mu) /\ LockMove(p, mu)
           /\ ConnMove(conn) /\ ConnMove(Closed(conn))
           /\ p # none
  BY ProcsDistinct, ZenonT(60) DEF IInv, Types, Held, LockMove, ConnMove, Closed, Conn

\* Only the goroutine changes, and it is nowhere near the buffers.
LEMMA RoutineMoves ==
    ASSUME IInv, NEW p \in Proc, NEW r \in Routine, r.pc \notin Reading \cup Writing,
           g' = [g EXCEPT ![p] = r], UNCHANGED <<conn, mu, cleanup, wire>>
    PROVE  Moves(p)
  <1>1. PlaceMove(p, mu, conn, r)
    BY QuietPlace
  <1>2. Move(p, mu, conn, r)
    BY <1>1, Before DEF Move, Types
  <1> QED
    BY <1>2 DEF Moves

\* Taking readMu.
LEMMA RLockMoves ==
    ASSUME IInv, NEW p \in Proc, RLock(p)
    PROVE  Moves(p)
  <1> USE Before
  <1>1. UNCHANGED wire
    BY DEF RLock
  <1>2. CASE ReadFails(p, mu, conn)
    BY <1>1, <1>2, ReadFailsMoves
  <1>3. CASE mu.read = none /\ ~conn.closed
    <2> DEFINE m == [mu EXCEPT !.read = p]
    <2>1. Held(p, m) /\ m.read = p
      BY <1>3 DEF Held, Types, Locks
    <2>2. \/ ReadFails(p, m, conn)
          \/ \E place \in Reading : Settled(p, m, conn, At(p, place))
      BY <1>3 DEF RLock, Awaits, Reading, ReadFails, Settled
    <2> HIDE DEF m
    <2>3. ASSUME NEW place \in Reading, Settled(p, m, conn, At(p, place)) PROVE Moves(p)
      <3>1. At(p, place) \in Routine /\ At(p, place).pc = place
        BY DEF At, Routine
      <3>2. PlaceMove(p, m, conn, At(p, place))
        BY <2>1, <3>1 DEF PlaceMove, WritesClose, Reading, Writing
      <3> QED
        BY <1>1, <2>1, <2>3, <3>2, HeldMoves, SettledMoves
    <2> QED
      BY <1>1, <2>1, <2>2, <2>3, ReadFailsMoves
  <1> QED
    BY <1>2, <1>3 DEF RLock

\* Who reads goes on reading.
LEMMA ReaderMoves ==
    ASSUME IInv, NEW p \in Proc, HoldsRead(g[p]), NEW r \in Routine, r.pc \in Reading,
           Settled(p, mu, conn, r), UNCHANGED wire
    PROVE  Moves(p)
  <1>1. PlaceMove(p, mu, conn, r)
    BY DEF IInv, LockInv, PlaceMove, WritesClose, Reading, Writing
  <1> QED
    BY <1>1, Before, SettledMoves

\* Who leaves the buffers alone may take or release a lock and close the connection.
LEMMA QuietMoves ==
    ASSUME IInv, NEW p \in Proc, NEW r \in Routine, r.pc \notin Reading \cup Writing,
           NEW m, NEW c, LockMove(p, m), ConnMove(c), Settled(p, m, c, r), UNCHANGED wire
    PROVE  Moves(p)
  BY Before, QuietPlace, SettledMoves

\* A header: the reader goes on with readMu, or leaves the buffer alone.
LEMMA ReadHeaderMoves ==
    ASSUME IInv, NEW p \in Proc, ReadHeader(p)
    PROVE  Moves(p)
  <1>1. HoldsRead(g[p]) /\ UNCHANGED wire
    BY DEF ReadHeader, HoldsRead, Reading
  <1>2. PICK h \in Header :
          \/ h \in Control /\ Settled(p, mu, conn, [At(p, "control") EXCEPT !.hdr = h])
          \/ Settled(p, mu, conn, [At(p, "wclose") EXCEPT !.hdr = "bad"])
          \/ Settled(p, mu, conn, At(p, "drain"))
          \/ Settled(p, Unlocked(mu, "read", p), [conn EXCEPT !.pend = TRUE],
                     IF closeRead
                     THEN [Over("wclose") EXCEPT !.mode = "close"]
                     ELSE [At(p, "rlock") EXCEPT !.mode = "body"])
    <2>1. PICK h \in Header :
            CASE h \in Control ->
                Awaits(p, mu, conn, [At(p, "control") EXCEPT !.hdr = h])
           [] h = "bad" ->
                ReadOver(p, mu, conn, [At(p, "wclose") EXCEPT !.hdr = "bad"])
           [] g[p].mode = "hs" /\ h = "data" ->
                ReadOver(p, mu, conn, At(p, "drain"))
           [] OTHER ->
                ReadOver(p, Unlocked(mu, "read", p), [conn EXCEPT !.pend = TRUE],
                     IF closeRead
                     THEN [Over("wclose") EXCEPT !.mode = "close"]
                     ELSE [At(p, "rlock") EXCEPT !.mode = "body"])
      BY DEF ReadHeader
    <2> QED
      BY <2>1 DEF Awaits, ReadOver
  <1>3. CASE h \in Control /\ Settled(p, mu, conn, [At(p, "control") EXCEPT !.hdr = h])
    <2> DEFINE r == [At(p, "control") EXCEPT !.hdr = h]
    <2>1. r \in Routine /\ r.pc \in Reading
      BY Before, ZenonT(60) DEF At, Routine, Reading
    <2> HIDE DEF r
    <2> QED
      BY <1>1, <1>3, <2>1, ReaderMoves, ZenonT(60) DEF r
  <1>4. CASE Settled(p, mu, conn, [At(p, "wclose") EXCEPT !.hdr = "bad"])
    <2> DEFINE r == [At(p, "wclose") EXCEPT !.hdr = "bad"]
    <2>1. r \in Routine /\ r.pc \notin Reading \cup Writing
      BY Before, ZenonT(60) DEF At, Routine, Header, Reading, Writing
    <2> QED
      BY <1>1, <1>4, <2>1, Before, QuietMoves, ZenonT(60)
  <1>5. CASE Settled(p, mu, conn, At(p, "drain"))
    <2>1. At(p, "drain") \in Routine /\ At(p, "drain").pc \in Reading
      BY Before DEF At, Routine, Reading
    <2> QED
      BY <1>1, <1>5, <2>1, ReaderMoves
  <1>6. CASE Settled(p, Unlocked(mu, "read", p), [conn EXCEPT !.pend = TRUE],
                     IF closeRead
                     THEN [Over("wclose") EXCEPT !.mode = "close"]
                     ELSE [At(p, "rlock") EXCEPT !.mode = "body"])
    <2> DEFINE r == IF closeRead
                    THEN [Over("wclose") EXCEPT !.mode = "close"]
                    ELSE [At(p, "rlock") EXCEPT !.mode = "body"]
    <2>1. r \in Routine /\ r.pc \notin Reading \cup Writing
      BY Before, ZenonT(60) DEF At, Over, Fresh, Routine, Op, Header, Control, Reading, Writing
    <2>2. ConnMove([conn EXCEPT !.pend = TRUE])
      BY Before, ZenonT(60) DEF ConnMove, Conn
    <2> QED
      BY <1>1, <1>6, <2>1, <2>2, Before, HeldMoves, QuietMoves, ZenonT(60)
  <1> QED
    BY <1>2, <1>3, <1>4, <1>5, <1>6

\* handleControl.  A pong changes other goroutines, but not where they are.
LEMMA ReadControlMoves ==
    ASSUME IInv, NEW p \in Proc, ReadControl(p)
    PROVE  Moves(p)
  <1>1. HoldsRead(g[p]) /\ UNCHANGED wire /\ mu.read = p
    BY DEF ReadControl, HoldsRead, Reading, IInv, LockInv
  <1>2. CASE g[p].hdr = "ping"
    <2> DEFINE r == [At(p, "wlock") EXCEPT !.op = "pong"]
    <2>1. Settled(p, mu, conn, r)
      BY <1>2 DEF ReadControl, ReadOver
    <2>2. r \in Routine /\ r.pc = "wlock" /\ r.op = "pong"
      BY Before, ZenonT(60) DEF At, Routine, Writing, Op
    <2> HIDE DEF r
    <2>3. PlaceMove(p, mu, conn, r)
      BY <1>1, <2>2 DEF PlaceMove, WritesClose
    <2> QED
      BY <1>1, <2>1, <2>3, Before, SettledMoves
  <1>3. CASE g[p].hdr = "pong"
    <2>1. PICK answered \in SUBSET {w \in Writer : g[w].op = "ping"} :
            g' = [q \in Proc |->
                    IF q = p THEN At(p, "header")
                    ELSE [g[q] EXCEPT !.ponged = @ \/ q \in answered]]
      BY <1>3, ZenonT(60) DEF ReadControl
    <2>2. UNCHANGED <<conn, mu, cleanup>>
      BY <1>3 DEF ReadControl
    <2>3. At(p, "header") \in Routine /\ At(p, "header").pc = "header"
      BY Before DEF At, Routine, Reading
    <2>4. g' \in [Proc -> Routine] /\ g'[p] = At(p, "header")
          /\ \A q \in Proc \ {p} : g'[q].pc = g[q].pc /\ g'[q].op = g[q].op
      BY <2>1, <2>3, Before, ZenonT(60) DEF Types, Routine
    <2>5. PlaceMove(p, mu, conn, At(p, "header"))
      BY <1>1, <2>3 DEF PlaceMove, WritesClose, Writing
    <2>6. Move(p, mu, conn, At(p, "header"))
      BY <1>1, <2>2, <2>4, <2>5, Before DEF Move
    <2> QED
      BY <2>6 DEF Moves
  <1>4. CASE g[p].hdr \notin {"ping", "pong"}
    <2>1. Settled(p, mu, conn, At(p, "wclose"))
      BY <1>4 DEF ReadControl, ReadOver
    <2>2. At(p, "wclose") \in Routine /\ At(p, "wclose").pc \notin Reading \cup Writing
      BY Before DEF At, Routine, Reading, Writing
    <2> QED
      BY <1>1, <2>1, <2>2, Before, QuietMoves
  <1> QED
    BY <1>2, <1>3, <1>4

\* The other reads.
LEMMA ReadMoves ==
    ASSUME IInv, NEW p \in Proc,
           ReadBody(p) \/ ReadError(p) \/ Drain(p) \/ DrainError(p) \/ HandshakeEnds(p)
    PROVE  Moves(p)
  <1>1. UNCHANGED wire
    BY DEF ReadBody, ReadError, Drain, DrainError, HandshakeEnds
  <1>2. CASE ReadBody(p)
    <2>1. Settled(p, Unlocked(mu, "read", p), [conn EXCEPT !.pend = FALSE], Fresh)
      BY <1>2 DEF ReadBody, ReadOver
    <2>2. ConnMove([conn EXCEPT !.pend = FALSE])
      BY Before, ZenonT(60) DEF ConnMove, Conn
    <2>3. Fresh.pc \notin Reading \cup Writing
      BY DEF Fresh, Reading, Writing
    <2> QED
      BY <1>1, <2>1, <2>2, <2>3, Before, FreshRoutine, HeldMoves, QuietMoves
  <1>3. CASE ReadError(p) \/ DrainError(p)
    <2>1. PICK c \in {conn, Closed(conn)} : ReadFails(p, mu, c)
      BY <1>3 DEF ReadError, DrainError
    <2> QED
      BY <1>1, <2>1, Before, ReadFailsMoves
  <1>4. CASE Drain(p)
    <2>1. At(p, "header") \in Routine /\ At(p, "header").pc \in Reading
      BY Before DEF At, Routine, Reading
    <2>2. HoldsRead(g[p]) /\ Settled(p, mu, conn, At(p, "header"))
      BY <1>4, SMT, SMTT(60) DEF Drain, Awaits, HoldsRead, Reading
    <2> QED
      BY <1>1, <2>1, <2>2, ReaderMoves
  <1>5. CASE HandshakeEnds(p)
    <2>1. Settled(p, mu, Closed(conn), Over("wg"))
      BY <1>5 DEF HandshakeEnds
    <2> QED
      BY <1>1, <2>1, Before, FreshRoutine, QuietMoves DEF Reading, Writing
  <1> QED
    BY <1>2, <1>3, <1>4, <1>5

\* writeClose: only who finds wroteClose unset goes on to write the frame.
LEMMA WriteCloseMoves ==
    ASSUME IInv, NEW p \in Proc, WriteClose(p)
    PROVE  Moves(p)
  <1>1. UNCHANGED wire
    BY DEF WriteClose
  <1>2. CASE AfterClose(p, mu, conn)
    BY <1>1, <1>2, Before, AfterCloseMoves
  <1>3. CASE ~conn.wroteClose
    <2> DEFINE c == [conn EXCEPT !.wroteClose = TRUE]
               r == [At(p, "wlock") EXCEPT !.op = "close"]
    <2>1. Settled(p, mu, c, r)
      BY <1>3 DEF WriteClose
    <2>2. ConnMove(c) /\ c.wroteClose
      BY Before, ZenonT(60) DEF ConnMove, Conn
    <2>3. r \in Routine /\ r.pc = "wlock" /\ r.op = "close"
      BY Before, ZenonT(60) DEF At, Routine, Writing, Op
    <2> HIDE DEF c, r
    <2>4. PlaceMove(p, mu, c, r)
      BY <1>3, <2>2, <2>3 DEF PlaceMove, HoldsRead, Reading, Writing
    <2> QED
      BY <1>1, <2>1, <2>2, <2>4, Before, SettledMoves
  <1> QED
    BY <1>2, <1>3 DEF WriteClose

\* Writing.
LEMMA WLockMoves ==
    ASSUME IInv, NEW p \in Proc, WLock(p)
    PROVE  Moves(p)
  <1>1. UNCHANGED wire /\ g[p].pc = "wlock" /\ g[p].pc \in Writing
    BY DEF WLock, Writing
  <1>2. CASE WriteReturns(p, FALSE, mu, conn)
    BY <1>1, <1>2, Before, WriteReturnsMoves, ZenonT(60)
  <1>3. CASE mu.frame = none /\ conn.wroteClose /\ g[p].op # "close"
             /\ Settled(p, mu, conn, At(p, "wwait"))
    <2> DEFINE r == At(p, "wwait")
    <2>1. r \in Routine /\ r.pc = "wwait" /\ r.op = g[p].op
      BY Before DEF At, Routine, Writing
    <2>2. HoldsRead(r) => HoldsRead(g[p])
      BY <1>1, <2>1 DEF HoldsRead, Reading
    <2> HIDE DEF r
    <2>3. PlaceMove(p, mu, conn, r)
      BY <1>3, <2>1, <2>2 DEF PlaceMove, WritesClose, IInv, LockInv
    <2> QED
      BY <1>1, <1>3, <2>3, Before, SettledMoves DEF r
  <1>4. CASE /\ mu.frame = none /\ (~conn.wroteClose \/ g[p].op = "close")
             /\ Settled(p, [mu EXCEPT !.frame = p], conn, At(p, "wio"))
    <2> DEFINE r == At(p, "wio")
               m == [mu EXCEPT !.frame = p]
    <2>1. r \in Routine /\ r.pc = "wio" /\ r.op = g[p].op
      BY Before DEF At, Routine, Writing
    <2>2. HoldsRead(r) => HoldsRead(g[p])
      BY <1>1, <2>1 DEF HoldsRead, Reading
    <2>3. LockMove(p, m) /\ m.frame = p /\ m.read = mu.read
      BY <1>4, Before DEF LockMove, Types, Locks
    <2>4. WritesClose(r) => WritesClose(g[p]) /\ conn.wroteClose
      BY <1>1, <2>1 DEF WritesClose, IInv, CloseInv
    <2> HIDE DEF r, m
    <2>5. PlaceMove(p, m, conn, r)
      BY <1>1, <1>4, <2>1, <2>2, <2>3, <2>4 DEF PlaceMove, IInv, LockInv
    <2> QED
      BY <1>1, <1>4, <2>3, <2>5, Before, SettledMoves DEF r, m
  <1> QED
    BY <1>2, <1>3, <1>4, ZenonT(60) DEF WLock

\* The other places where writeFrame returns or gives up.
LEMMA WriteMoves ==
    ASSUME IInv, NEW p \in Proc, WWait(p) \/ WriteError(p) \/ WDisarm(p)
    PROVE  Moves(p)
  <1>1. UNCHANGED wire /\ g[p].pc \in Writing
    BY ZenonT(60) DEF WWait, WriteError, WDisarm, Writing
  <1>2. CASE WWait(p)
    BY <1>1, <1>2, Before, WriteReturnsMoves, ZenonT(60) DEF WWait
  <1>3. Held(p, Unlocked(mu, "frame", p))
    BY Before DEF Held, Unlocked, Types, Locks
  <1>4. CASE WriteError(p)
    BY <1>1, <1>3, <1>4, Before, WriteReturnsMoves, ZenonT(60) DEF WriteError
  <1>5. CASE WDisarm(p)
    <2>1. PICK ok \in BOOLEAN : WriteReturns(p, ok, Unlocked(mu, "frame", p), conn)
      BY <1>5, ZenonT(60) DEF WDisarm
    <2> QED
      BY <1>1, <1>3, <2>1, Before, WriteReturnsMoves
  <1> QED
    BY <1>2, <1>4, <1>5

\* A context is done while p waits for a lock or a pong.
LEMMA GivesUpMoves ==
    ASSUME IInv, NEW p \in Proc, GivesUp(p)
    PROVE  Moves(p)
  <1>1. UNCHANGED wire
    BY DEF GivesUp
  <1>2. CASE ReadFails(p, mu, Closed(conn))
    BY <1>1, <1>2, Before, ReadFailsMoves
  <1>3. CASE g[p].pc = "wlock" /\ WriteReturns(p, FALSE, mu, Closed(conn))
    BY <1>1, <1>3, Before, WriteReturnsMoves, ZenonT(60) DEF Writing
  <1>4. CASE g[p].pc = "wwait" /\ WriteReturns(p, FALSE, mu, conn)
    BY <1>1, <1>4, Before, WriteReturnsMoves, ZenonT(60) DEF Writing
  <1>5. CASE Settled(p, mu, Closed(conn), Over("end"))
    BY <1>1, <1>5, Before, FreshRoutine, QuietMoves DEF Reading, Writing
  <1> QED
    BY <1>2, <1>3, <1>4, <1>5, ZenonT(60) DEF GivesUp

\* A call of the application, a goroutine of timeoutLoop, the end of a wait.
LEMMA CallMoves ==
    ASSUME IInv
    PROVE  /\ Read => Moves(Reader)
           /\ Close \/ CloseNow => Moves(Closer)
           /\ ReadTimesOut => \E t \in Proc : Moves(t)
           /\ \A p \in Proc : WgWait(p) => Moves(p)
           /\ \A w \in Writer : AwaitPong(w) => Moves(w)
           /\ \A w \in Writer : Write(w) => Moves(w)
  <1>1. Reader \in Proc /\ Closer \in Proc /\ Writer \subseteq Proc /\ Timeout \subseteq Proc
    BY DEF Proc
  <1>2. \A place \in {"rlock", "wclose", "wgNow", "end"} :
          Over(place) \in Routine /\ Over(place).pc \notin Reading \cup Writing
    BY FreshRoutine DEF Reading, Writing
  <1>3. ASSUME Read PROVE Moves(Reader)
    BY <1>1, <1>2, <1>3, RoutineMoves, ZenonT(60) DEF Read
  <1>4. \A m \in {"close", "timeout"} :
          /\ [Over("wclose") EXCEPT !.mode = m] \in Routine
          /\ [Over("wclose") EXCEPT !.mode = m].pc \notin Reading \cup Writing
    BY ZenonT(60) DEF Over, Fresh, Routine, Op, Header, Control, Reading, Writing
  <1>5. ASSUME Close PROVE Moves(Closer)
    BY <1>1, <1>4, <1>5, RoutineMoves, ZenonT(60) DEF Close
  <1>6. ASSUME CloseNow PROVE Moves(Closer)
    BY <1>1, <1>2, <1>6, Before, QuietMoves DEF CloseNow
  <1>7. ASSUME ReadTimesOut PROVE \E t \in Proc : Moves(t)
    <2>1. PICK t \in Timeout : g' = [g EXCEPT ![t] = [Over("wclose") EXCEPT !.mode = "timeout"]]
      BY <1>7, ZenonT(60) DEF ReadTimesOut
    <2>2. Moves(t)
      BY <1>1, <1>4, <1>7, <2>1, RoutineMoves, ZenonT(60) DEF ReadTimesOut
    <2> QED
      BY <1>1, <2>2
  <1>8. ASSUME NEW p \in Proc, WgWait(p) PROVE Moves(p)
    BY <1>2, <1>8, RoutineMoves, ZenonT(60) DEF WgWait
  <1>9. ASSUME NEW w \in Writer, AwaitPong(w) PROVE Moves(w)
    <2>1. Fresh \in Routine /\ Fresh.pc \notin Reading \cup Writing
      BY FreshRoutine DEF Fresh, Reading, Writing
    <2> QED
      BY <1>1, <1>2, <1>9, <2>1, Before, QuietMoves DEF AwaitPong
  <1>10. ASSUME NEW w \in Writer, Write(w) PROVE Moves(w)
    <2>1. PICK r \in {Over("wlock"), [Over("wlock") EXCEPT !.op = "ping"]} :
            g' = [g EXCEPT ![w] = r]
      BY <1>10, ZenonT(60) DEF Write
    <2>2. r \in Routine /\ r.pc = "wlock" /\ r.op \in {"data", "ping"}
      BY <2>1, ZenonT(60) DEF Over, Fresh, Routine, Op, Header, Control, Writing
    <2>3. PlaceMove(w, mu, conn, r)
      BY <2>2 DEF PlaceMove, HoldsRead, WritesClose, Reading
    <2>4. Move(w, mu, conn, r)
      BY <1>1, <1>10, <2>1, <2>2, <2>3, Before DEF Move, Types, Write
    <2> QED
      BY <2>4 DEF Moves
  <1> QED
    BY <1>3, <1>5, <1>6, <1>7, <1>8, <1>9, <1>10

-----------------------------------------------------------------------------
(* The steps that are not moves.                                           *)

\* A frame reaches the network: whoever writes has writeFrameMu, and the frame is
\* the first close frame or comes before it.
LEMMA WriteBytesIInv ==
    ASSUME IInv, NEW p \in Proc, WriteBytes(p)
    PROVE  IInv' /\ ~Ended
  <1> USE DEF WriteBytes
  <1>1. g[p] \in Routine /\ g[p].op \in Op /\ wire.out \in Seq(Op)
    BY DEF IInv, Types, Routine
  <1>2. /\ g'[p].pc = "wdisarm" /\ g'[p].op = g[p].op
        /\ \A q \in Proc \ {p} : g'[q] = g[q]
    BY <1>1 DEF IInv, Types, Routine
  <1>3. Types'
    <2>1. g' \in [Proc -> Routine]
      BY <1>1, ZenonT(60) DEF IInv, Types, Routine, Writing
    <2>2. wire' \in [broken : BOOLEAN, out : Seq(Op)]
      <3>1. PICK o \in Seq(Op) : o = Append(wire.out, g[p].op)
        <4> HIDE DEF WriteBytes
        <4>1. \A S, s, e : s \in Seq(S) /\ e \in S => Append(s, e) \in Seq(S)
          OBVIOUS
        <4> QED
          BY <1>1, <4>1, ZenonT(60)
      <3>2. wire' = [wire EXCEPT !.out = o]
        BY <3>1
      <3>3. wire \in [broken : BOOLEAN, out : Seq(Op)]
        BY DEF IInv, Types
      <3> HIDE DEF WriteBytes
      <3> QED
        BY <3>2, <3>3
    <2> QED
      BY <2>1, <2>2 DEF IInv, Types
  <1>4. LockInv'
    <2>1. \A q \in Proc : HoldsRead(g'[q]) => HoldsRead(g[q])
      BY <1>2 DEF HoldsRead, Reading, Writing
    <2> QED
      BY <1>2, <2>1 DEF IInv, LockInv
  <1>5. CleanupInv'
    BY DEF IInv, CleanupInv
  <1>6. ~Ended
    BY DEF IInv, CloseInv
  <1>7. CloseInv'
    <2>1. \A q \in Proc : WritesClose(g'[q]) <=> WritesClose(g[q])
      BY <1>2 DEF WritesClose, Writing
    <2>2. Ended' => g[p].op = "close"
      BY <1>1 DEF Ended
    <2>3. ASSUME g[p].op = "close"
          PROVE  /\ conn.wroteClose
                 /\ \A q \in Proc : g'[q].pc # "wio" /\ ~(g'[q].pc = "wlock" /\ g'[q].op = "close")
      <3>1. WritesClose(g[p])
        BY <2>3 DEF WritesClose, Writing
      <3>2. \A q \in Proc : g[q].pc = "wio" => q = p
        BY DEF IInv, LockInv
      <3>3. \A q \in Proc : g[q].pc = "wlock" /\ g[q].op = "close" => q = p
        BY <3>1 DEF IInv, CloseInv, WritesClose, Writing
      <3> QED
        BY <1>2, <3>1, <3>2, <3>3 DEF IInv, CloseInv
    <2> QED
      BY <2>1, <2>2, <2>3 DEF IInv, CloseInv
  <1> QED
    BY <1>3, <1>4, <1>5, <1>6, <1>7 DEF IInv

\* timeoutLoop, the goroutine of close and the peer leave the goroutines where
\* they are; a lock the goroutine of close takes was free.
LEMMA OthersIInv ==
    ASSUME IInv, LoopEnds \/ WriteTimesOut \/ CleanWriter \/ CleanReader \/ PeerBreaks \/ UNCHANGED vars
    PROVE  IInv' /\ wire'.out = wire.out /\ (conn.closed => conn'.closed)
  <1>1. UNCHANGED g /\ wire'.out = wire.out
    BY DEF LoopEnds, WriteTimesOut, CleanWriter, CleanReader, PeerBreaks, vars, IInv, Types
  <1>2. /\ conn' \in Conn /\ (conn.closed => conn'.closed)
        /\ conn'.wroteClose = conn.wroteClose
    BY ZenonT(60) DEF LoopEnds, WriteTimesOut, CleanWriter, CleanReader, PeerBreaks, vars,
       IInv, Types, Closed, Conn
  <1>3. mu' \in Locks /\ CleanupInv' /\ cleanup' \in {"none", "writer", "reader", "done"}
    BY ProcsDistinct DEF LoopEnds, WriteTimesOut, CleanWriter, CleanReader, PeerBreaks, vars,
                         IInv, Types, Locks, CleanupInv
  <1>4. wire' \in [broken : BOOLEAN, out : Seq(Op)]
    BY ZenonT(60) DEF LoopEnds, WriteTimesOut, CleanWriter, CleanReader, PeerBreaks, vars,
       IInv, Types
  <1>5. (mu'.read = mu.read \/ mu.read = none) /\ (mu'.frame = mu.frame \/ mu.frame = none)
    BY DEF LoopEnds, WriteTimesOut, CleanWriter, CleanReader, PeerBreaks, vars, IInv, Types, Locks
  <1>6. LockInv'
    BY <1>1, <1>5, ProcsDistinct DEF IInv, LockInv
  <1>7. CloseInv'
    BY <1>1, <1>2 DEF IInv, CloseInv, Ended
  <1> QED
    BY <1>1, <1>2, <1>3, <1>4, <1>6, <1>7 DEF IInv, Types

-----------------------------------------------------------------------------
\* What every step does: a move, a frame on the wire, or neither.
LEMMA NextCases ==
    ASSUME IInv, [Next]_vars
    PROVE  \/ \E p \in Proc : Moves(p)
           \/ \E p \in Proc : WriteBytes(p)
           \/ LoopEnds \/ WriteTimesOut \/ CleanWriter \/ CleanReader \/ PeerBreaks \/ UNCHANGED vars
  <1>1. Reader \in Proc /\ Closer \in Proc /\ Writer \subseteq Proc
    BY DEF Proc
  <1>2. ASSUME NEW p \in Proc, Step(p) PROVE Moves(p)
    BY <1>2, RLockMoves, ReadMoves, WriteCloseMoves, WLockMoves, WriteMoves, CallMoves DEF Step
  <1>3. ASSUME NEW p \in Proc, Arrival(p) PROVE Moves(p) \/ WriteBytes(p)
    BY <1>3, ReadHeaderMoves, ReadControlMoves, ReadMoves DEF Arrival
  <1>4. CASE Read \/ Close \/ CloseNow
    BY <1>1, <1>4, CallMoves
  <1>5. CASE \E p \in Proc : Step(p) \/ Arrival(p)
    BY <1>2, <1>3, <1>5
  <1>6. CASE \E w \in Writer : Write(w) \/ AwaitPong(w)
    BY <1>1, <1>6, CallMoves
  <1>7. CASE \E p \in Proc : GivesUp(p)
    BY <1>7, GivesUpMoves
  <1>8. CASE Loop \/ Cleanup
    BY <1>8, CallMoves DEF Loop, Cleanup
  <1> QED
    BY <1>4, <1>5, <1>6, <1>7, <1>8 DEF Next

\* Every step keeps the invariant.
LEMMA NextIInv == IInv /\ [Next]_vars => IInv'
  BY NextCases, MoveKeeps, WriteBytesIInv, OthersIInv

\* In every state of a connection the locks are held by those who use what they
\* protect, and no frame is on its way once the close frame is written.
THEOREM Inductive == Spec => []IInv
  BY InitIInv, NextIInv, PTL DEF Spec

\* Whatever the number of goroutines that read, write, close and time out on a
\* connection, the pooled buffers of msgReader.close and msgWriter.close have one
\* user at a time and none after they went back.
THEOREM BuffersHaveOneUser == Spec => []BuffersOwned
  <1>1. IInv => BuffersOwned
    <2> SUFFICES ASSUME IInv PROVE BuffersOwned
      OBVIOUS
    <2>1. \A p \in Proc : UsesReadBuffer(p) => mu.read = p
      BY DEF IInv, LockInv, HoldsRead, Reading, UsesReadBuffer
    <2>2. \A p \in Proc : UsesWriteBuffer(p) => mu.frame = p
      BY DEF IInv, LockInv, UsesWriteBuffer
    <2> QED
      BY <2>1, <2>2, ProcsDistinct DEF IInv, CleanupInv, BuffersOwned
  <1> QED
    BY <1>1, Inductive, PTL

\* A connection implements WireSpec: whoever writes the close frame (Close, the
\* answer to the peer's, a protocol error, a timed out read), writeFrame puts one
\* at most on the wire, nothing after it and nothing after close.
THEOREM FramesEndWithClose == Spec => ImplementsWire
  <1>1. Init => Wire!Init
    BY DEF Init, Wire!Init
  <1>2. IInv /\ [Next]_vars => [Wire!Next]_<<wire.out, conn.closed>>
    <2> SUFFICES ASSUME IInv, [Next]_vars
                 PROVE  [Wire!Next]_<<wire.out, conn.closed>>
      OBVIOUS
    <2>1. CASE wire'.out = wire.out /\ (conn.closed => conn'.closed)
      <3>1. conn.closed \in BOOLEAN /\ conn'.closed \in BOOLEAN
        BY NextIInv DEF IInv, Types, Conn
      <3> QED
        BY <2>1, <3>1 DEF Wire!Next, Wire!Shut
    <2>2. ASSUME NEW p \in Proc, WriteBytes(p)
          PROVE  Wire!Next
      <3>1. ~Wire!Ended
        BY <2>2, WriteBytesIInv DEF Ended, Wire!Ended
      <3>2. g[p].op \in {"data", "ping", "pong"} \cup {"close"}
        BY DEF IInv, Types, Routine, Op
      <3>3. wire'.out = Append(wire.out, g[p].op) /\ UNCHANGED conn /\ ~conn.closed
        BY <2>2 DEF WriteBytes, IInv, Types
      <3>4. Wire!Send(g[p].op)
        BY <3>1, <3>3 DEF Wire!Send
      <3> QED
        BY <3>2, <3>4 DEF Wire!Next
    <2> QED
      BY <2>1, <2>2, NextCases, MoveKeeps, OthersIInv
  <1> QED
    BY <1>1, <1>2, Inductive, PTL DEF Spec, ImplementsWire, Wire!Spec

-----------------------------------------------------------------------------
(* The client that works with such connections (Websocket): its invariant  *)
(* is inductive as it stands, for any set of senders and any options.      *)

(* The initial state satisfies the invariant.                              *)
LEMMA ClientInit == WsInit => WsInv
  BY ZenonT(60) DEF WsInit, WsInv, WsTypeOK, MonitoredRead, CloseCaller

(* What Start, Stop and Send do preserves it.                              *)
LEMMA CallersKeepInv ==
  ASSUME WsInv,
         \/ Start \/ StopCloses \/ StopUnlocks \/ StopCancels \/ StopReturns
         \/ \E s \in Sender : SendCalls(s) \/ SendLocks(s) \/ SendReturns(s)
  PROVE  WsInv'
<1> USE DEF WsInv, WsTypeOK, MonitoredRead, monitors
<1>1. CASE Start
  BY <1>1, SMT, SMTT(60) DEF Start
<1>2. CASE StopCloses
  BY <1>2, SMT, SMTT(60) DEF StopCloses, CloseCaller
<1>3. CASE StopUnlocks
  BY <1>3, SMT, SMTT(60) DEF StopUnlocks
<1>4. CASE StopCancels
  BY <1>4, SMT, SMTT(60) DEF StopCancels
<1>5. CASE StopReturns
  BY <1>5, SMT, SMTT(60) DEF StopReturns
<1>6. ASSUME NEW s \in Sender, SendCalls(s) PROVE WsInv'
  BY <1>6, SMT, SMTT(60) DEF SendCalls
<1>7. ASSUME NEW s \in Sender, SendLocks(s) PROVE WsInv'
  BY <1>7, SMT, SMTT(60) DEF SendLocks
<1>8. ASSUME NEW s \in Sender, SendReturns(s) PROVE WsInv'
  BY <1>8, SMT, SMTT(60) DEF SendReturns
<1> QED BY <1>1, <1>2, <1>3, <1>4, <1>5, <1>6, <1>7, <1>8, ZenonT(60)

(* So do the steps of run.                                                 *)
LEMMA RunKeepsInv ==
  ASSUME WsInv, Run
  PROVE  WsInv'
<1> USE DEF WsInv, WsTypeOK, MonitoredRead, callers, monitors, CloseCaller
<1>1. CASE Enter
  BY <1>1 DEF Enter, nextMode
<1>2. CASE Decorate
  BY <1>2, SMT, SMTT(60) DEF Decorate, nextMode
<1>3. CASE DialOk
  BY <1>3 DEF DialOk
<1>4. CASE DialFails
  BY <1>4 DEF DialFails, afterAttempt
<1>5. CASE SetConn
  BY <1>5 DEF SetConn
<1>6. CASE Iterate
  BY <1>6, SMT, SMTT(60) DEF Iterate
<1>7. CASE ReaderLocks
  BY <1>7, SMT, SMTT(60) DEF ReaderLocks
<1>8. CASE ReaderEnds
  BY <1>8 DEF ReaderEnds
<1>9. CASE Returned
  <2>0. mon' \in BOOLEAN /\ stale' \in BOOLEAN
    BY <1>9, Zenon DEF Returned
  <2>1. WsTypeOK'
    BY <1>9, <2>0 DEF Returned, afterAttempt
  <2>2. MonitoredRead'
    BY <1>9, SMT, SMTT(60) DEF Returned, afterAttempt
  <2> QED BY <1>9, <2>1, <2>2 DEF Returned, afterAttempt
<1>10. CASE Drop
  <2>0. held' \in BOOLEAN
    BY <1>10, Zenon DEF Drop
  <2>1. WsTypeOK'
    BY <1>10, <2>0, SMT, SMTT(60) DEF Drop
  <2>2. MonitoredRead'
    BY <1>10, SMT, SMTT(60) DEF Drop
  <2> QED BY <1>10, <2>1, <2>2 DEF Drop
<1>11. CASE Disconnected
  <2>0. up' \in BOOLEAN
    BY <1>11, Zenon DEF Disconnected
  <2>1. WsTypeOK'
    BY <1>11, <2>0, SMT, SMTT(60) DEF Disconnected, afterAttempt
  <2>2. MonitoredRead'
    BY <1>11, SMT, SMTT(60) DEF Disconnected, afterAttempt
  <2> QED BY <1>11, <2>1, <2>2 DEF Disconnected, afterAttempt
<1>12. CASE Retry
  BY <1>12, SMT, SMTT(60) DEF Retry
<1>13. CASE ContextDone
  BY <1>13, SMT, SMTT(60) DEF ContextDone
<1> QED
  BY <1>1, <1>2, <1>3, <1>4, <1>5, <1>6, <1>7, <1>8, <1>9, <1>10, <1>11, <1>12,
     <1>13, ZenonT(60) DEF Run

(* And those of the peer, of the monitors and of Close.                    *)
LEMMA PeerKeepsInv ==
  ASSUME WsInv, Peer
  PROVE  WsInv'
<1> USE DEF WsInv, WsTypeOK, MonitoredRead, callers, monitors
<1>1. ASSUME NEW r \in {"ok", "bad"}, ReaderReturns(r) PROVE WsInv'
  BY <1>1, SMT, SMTT(60) DEF ReaderReturns
<1>2. CASE ReaderFails
  BY <1>2 DEF ReaderFails
<1>3. CASE ReaderPing
  BY <1>3, SMT, SMTT(60) DEF ReaderPing
<1> QED BY <1>1, <1>2, <1>3, SMT, SMTT(60) DEF Peer

\* The monitors: one that ends has cancelled the read or was told to end.
LEMMA MonitorKeepsInv ==
  ASSUME WsInv, Monitor
  PROVE  WsInv'
<1> USE DEF WsInv, WsTypeOK, MonitoredRead, callers, monitors, CloseCaller
<1>1. CASE MonitorHears
  <2>0. mon' \in BOOLEAN /\ stale' \in BOOLEAN
    BY <1>1, Zenon DEF MonitorHears
  <2>1. WsTypeOK'
    BY <1>1, <2>0, SMT, SMTT(60) DEF MonitorHears
  <2>2. MonitoredRead'
    BY <1>1, SMT, SMTT(60) DEF MonitorHears
  <2> QED BY <1>1, <2>1, <2>2 DEF MonitorHears
<1>2. CASE MonitorTimeout
  <2>0. mon' \in BOOLEAN
    BY <1>2, Zenon DEF MonitorTimeout
  <2>1. WsTypeOK'
    BY <1>2, <2>0 DEF MonitorTimeout
  <2>2. MonitoredRead'
    BY <1>2, SMT, SMTT(60) DEF MonitorTimeout
  <2> QED BY <1>2, <2>1, <2>2 DEF MonitorTimeout
<1>3. CASE MonitorEnds
  <2>0. mon' \in BOOLEAN /\ stale' \in BOOLEAN
    BY <1>3, Zenon DEF MonitorEnds
  <2>1. WsTypeOK'
    BY <1>3, <2>0 DEF MonitorEnds
  <2>2. MonitoredRead'
    BY <1>3, SMT, SMTT(60) DEF MonitorEnds
  <2> QED BY <1>3, <2>1, <2>2 DEF MonitorEnds
<1> QED BY <1>1, <1>2, <1>3, SMT, SMTT(60) DEF Monitor

\* conn.Close, called by Stop or by run.
LEMMA CloserKeepsInv ==
  ASSUME WsInv, NEW p \in CloseCaller,
         CloserLocks(p) \/ CloserPing(p) \/ CloserEnds(p) \/ CloserReturns(p)
  PROVE  WsInv'
<1> USE DEF WsInv, WsTypeOK, MonitoredRead, callers, monitors, CloseCaller
<1>1. CASE CloserLocks(p)
  BY <1>1, SMT, SMTT(60) DEF CloserLocks
<1>2. CASE CloserPing(p)
  BY <1>2, SMT, SMTT(60) DEF CloserPing
<1>3. CASE CloserEnds(p)
  BY <1>3, SMT, SMTT(60) DEF CloserEnds
<1>4. CASE CloserReturns(p)
  BY <1>4, SMT, SMTT(60) DEF CloserReturns
<1> QED BY <1>1, <1>2, <1>3, <1>4, ZenonT(60)

(* A step that changes nothing preserves it.                               *)
LEMMA StutterKeepsInv ==
  ASSUME WsInv, UNCHANGED wsVars
  PROVE  WsInv'
  BY DEF WsInv, WsTypeOK, MonitoredRead, wsVars

(* Every step of the client preserves the invariant.                       *)
LEMMA ClientNext == WsInv /\ [WsNext]_wsVars => WsInv'
  BY CallersKeepInv, RunKeepsInv, PeerKeepsInv, MonitorKeepsInv,
     CloserKeepsInv, StutterKeepsInv DEF WsNext

(* The websocket client keeps its inductive invariant.                     *)
THEOREM ClientInductive == WsSpec => []WsInv
  BY ClientInit, ClientNext, PTL DEF WsSpec

(* A read that nothing has cancelled has its monitor (ws.go:294), whatever *)
(* Stop, the senders and the peer do.                                      *)
THEOREM Monitored == WsSpec => []MonitoredRead
<1>1. WsInv => MonitoredRead
  BY DEF WsInv
<1> QED BY <1>1, ClientInductive, PTL

(* A new connection never takes the place of one that is still open, held  *)
(* in ws.conn or announced to the listeners (ws.go:257).                   *)
THEOREM DialIsClean == WsSpec => CleanDial
<1>1. ASSUME WsInv, WsNext, pc = "dial", pc' = "dialed"
      PROVE  wsConn # "open" /\ ~held /\ ~up
  <2>1. ~ctxDone
    BY <1>1 DEF WsNext, Start, StopCloses, StopUnlocks, StopCancels, StopReturns,
       SendCalls, SendLocks, SendReturns, Run, Enter, Decorate, DialOk,
       DialFails, SetConn, Iterate, ReaderLocks, ReaderEnds, Returned, Drop,
       Disconnected, Retry, ContextDone, afterAttempt, Peer, ReaderReturns,
       ReaderFails, ReaderPing, Monitor, MonitorHears, MonitorTimeout,
       MonitorEnds, CloserLocks, CloserPing, CloserEnds, CloserReturns
  <2> QED BY <1>1, <2>1, SMT, SMTT(60) DEF WsInv
<1>2. WsInv /\ [WsNext]_wsVars
        => [pc = "dial" /\ pc' = "dialed" => wsConn # "open" /\ ~held /\ ~up]_wsVars
  BY <1>1
<1> QED BY <1>2, ClientInductive, PTL DEF WsSpec, CleanDial
=============================================================================
