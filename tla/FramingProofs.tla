---------------------------- MODULE FramingProofs ----------------------------
(***************************************************************************)
(* The other half of the proof, what the writers do, and the theorems: for *)
(* any writers, messages and chunks, any cut into frames and short reads,  *)
(* any size of the buffer and of the window, and any limit.                *)
(*                                                                         *)
(* That a payload is masked right although the bufio.Writer takes it in    *)
(* pieces is an induction on the pieces.  It is done with a least piece    *)
(* that went wrong, and comes after the steps, which assume it (Masks).    *)
(***************************************************************************)
EXTENDS FramingReadProofs

-----------------------------------------------------------------------------
(* The steps of the writer.                                                *)

\* What the reader knows of its message holds on while the writer writes.
LEMMA ReaderKept ==
    ASSUME TypeOK, TypeOK', WriterInv, ReaderInv, LimitInv, rd.msg <= WriterAt.msg,
           Keeps(out, out', WriterAt.msg), cfg' = cfg, rd' = rd, limit' = limit
    PROVE  ReaderInv' /\ LimitInv'
<1> DEFINE m == rd.msg
<1>1. m \in Nat /\ WriterAt.msg \in Nat /\ WriterAt.msg <= Len(out)
  BY WriterAtType, Zenon DEF TypeOK, RD, WriterInv
<1>2. CASE m = 0
  <2>1. rd.pc \notin {"next", "data", "toobig"}
    BY <1>2 DEF ReaderInv, LimitInv
  <2>2. End(out', m) = End(out, m)
    BY <1>2 DEF End
  <2>3. ReaderInv'
    BY <1>2, <2>1, <2>2 DEF ReaderInv, Live
  <2>4. LimitInv'
    BY <1>2, <2>1 DEF LimitInv, Live
  <2> QED  BY <2>3, <2>4
<1>3. CASE m # 0
  <2>1. m \in 1..WriterAt.msg /\ m \in 1..Len(out)
    BY <1>1, <1>3
  <2>2. /\ m \in 1..Len(out') /\ out'[m].flate = out[m].flate /\ out'[m].win = out[m].win
        /\ out'[m].len >= out[m].len /\ (out[m].done => out'[m] = out[m])
    BY <2>1 DEF Keeps
  <2>3. out[m] \in Message /\ out'[m] \in Message
    BY <2>1, <2>2 DEF TypeOK
  <2>4. out[m].len \in Nat /\ out'[m].len \in Nat
    BY <2>3 DEF Message
  <2>5. out[m].done => End(out', m) = End(out, m) /\ Total(out', m) = Total(out, m)
                       /\ out'[m].len = out[m].len /\ out'[m].done
    BY <2>2 DEF End, Total
  <2>6. rd.raw \in Nat /\ rd.left \in Nat /\ rd.got \in Nat /\ rd.limit \in Int
    BY DEF TypeOK, RD
  <2> HIDE DEF m
  <2>7. LimitInv'
    <3>1. rd.pc = "toobig" => out'[m].len > rd.limit
      BY <2>2, <2>4, <2>6 DEF LimitInv, m
    <3> QED  BY <3>1 DEF LimitInv, Live, m
  <2>8. /\ rd.pc = "data" /\ ~rd.flate => rd.raw + rd.left <= out'[m].len
        /\ rd.pc = "data" /\ rd.tail => rd.got <= out'[m].len
    BY <2>2, <2>4, <2>6, SMT, SMTT(60) DEF ReaderInv, m
  <2>9. ReaderInv'
    <3>1. (rd.pc \in {"next", "data"} =>
             /\ rd.msg > 0
             /\ rd.flate = out[rd.msg].flate
             /\ ~rd.flate => rd.got = rd.raw
             /\ rd.flate /\ ~rd.tail => rd.got = 0
             /\ cfg.client => rd.rot = rd.off % KeyLen
             /\ cfg.takeover =>
                  rd.dict = Window(out[rd.msg].win.hi + IF rd.flate THEN rd.got ELSE 0))'
      BY <2>2 DEF ReaderInv, m
    <3>2. (rd.pc = "data" =>
             /\ ~rd.flate => rd.raw + rd.left <= out[rd.msg].len
             /\ rd.fin => out[rd.msg].done /\ rd.raw + rd.left = Total(out, rd.msg)
             /\ rd.tail => /\ rd.flate /\ rd.fin /\ rd.left = 0
                           /\ rd.got <= out[rd.msg].len)'
      BY <2>5, <2>8 DEF ReaderInv, m
    <3>3. (rd.pc \in {"eof", "header"} =>
             /\ rd.msg > 0 => out[rd.msg].done
             /\ cfg.takeover => rd.dict = Window(End(out, rd.msg)))'
      BY <1>1, <1>3, <2>5 DEF ReaderInv, m
    <3>4. (rd.pc = "eof" /\ rd.msg > 0 => rd.got = out[rd.msg].len)'
      BY <2>5 DEF ReaderInv, m
    <3>5. (rd.pc # "garbled" /\ (rd.pc = "next" => ~rd.tail))'
      BY DEF ReaderInv
    <3> QED  BY <3>1, <3>2, <3>3, <3>4, <3>5, Zenon DEF ReaderInv
  <2> QED  BY <2>7, <2>9
<1> QED  BY <1>2, <1>3

\* What a step of the writer has to keep.
GoesOn ==
    /\ TypeOK' /\ WriterInv' /\ WindowInv'
    /\ Keeps(out, out', WriterAt.msg)
    /\ WriterAt.msg <= (WriterAt').msg
    /\ Leads(out', wire', WriterAt')

\* What is to show of a step of a writer is GoesOn; the reader is left alone.
LEMMA WriterStep ==
    ASSUME IInv, cfg' = cfg, rd' = rd, limit' = limit, GoesOn, (WriterAt').msg \in Nat
    PROVE  IInv'
<1>1. ReaderInv' /\ LimitInv'
  BY ReaderKept DEF IInv, WireInv, GoesOn
<1>2. WireInv'
  <2>1. Live' = Live /\ ReaderAt' = ReaderAt
    BY DEF Live, ReaderAt
  <2>2. Leads(out, wire, WriterAt)'
    BY <2>1, LeadsPrimed DEF Leads, GoesOn
  <2>3. rd.msg <= (WriterAt').msg
    <3>1. rd.msg \in Nat /\ WriterAt.msg \in Nat /\ rd.msg <= WriterAt.msg
      BY WriterAtType DEF IInv, TypeOK, RD, WireInv
    <3>2. WriterAt.msg <= (WriterAt').msg
      BY DEF GoesOn
    <3> DEFINE x == WriterAt.msg
               y == (WriterAt').msg
    <3> HIDE DEF x, y
    <3>3. rd.msg \in Nat /\ x \in Nat /\ rd.msg <= x /\ x <= y /\ y \in Nat
      BY <3>1, <3>2 DEF x, y
    <3>4. rd.msg <= y
      BY ONLY <3>3
    <3> QED  BY <3>4 DEF y
  <2> QED  BY <2>2, <2>3 DEF WireInv
<1> QED  BY <1>1, <1>2 DEF IInv, GoesOn

\* A step that sends no frame leaves the wire as it is.
LEMMA SentNothing ==
    ASSUME TypeOK, WriterInv
    PROVE  Sent(wire, mw) = wire
<1>1. mw.frames = <<>> /\ wire \in Seq(Frame)
  BY DEF TypeOK, WriterInv
<1>2. wire \o <<>> = wire
  BY <1>1
<1> QED  BY <1>1, <1>2, Zenon DEF Sent

\* The texts of the messages before are not changed by a new one.
LEMMA EndAppend ==
    ASSUME NEW o \in Seq(Message), NEW e \in Message, NEW m \in 0..Len(o)
    PROVE  End(Append(o, e), m) = End(o, m)
<1>1. m # 0 => Append(o, e)[m] = o[m]
  OBVIOUS
<1> QED  BY <1>1 DEF End

\* A message that is begun, or written whole without compression.
LEMMA WindowAppend ==
    ASSUME TypeOK, WindowInv, cfg' = cfg, NEW e \in Message, e.win = EncoderWindow,
           ~e.flate, out' = Append(out, e), mw'.text = mw.text
    PROVE  WindowInv'
<1> DEFINE L == Len(out)
<1>1. L \in Nat /\ Len(out') = L + 1 /\ out'[L + 1] = e
      /\ \A m \in 1..L : out'[m] = out[m]
  BY DEF TypeOK
<1>2. \A m \in 0..L : End(out', m) = End(out, m)
  BY EndAppend DEF TypeOK
<1>3. mw.text = End(out, L) /\ mw.text \in Nat /\ e.win.hi = mw.text
  BY DEF WindowInv, TypeOK, MW, EncoderWindow
<1>4. cfg.takeover => e.win = Window(e.win.hi)
  BY <1>3 DEF EncoderWindow, Window
<1> HIDE DEF L
<1>5. End(out', L + 1) = mw.text
  BY <1>1, <1>3 DEF End
<1>6. ASSUME NEW m \in 1..(L + 1)
      PROVE  /\ out'[m].win.hi = End(out', m - 1)
             /\ cfg'.takeover => out'[m].win = Window(out'[m].win.hi)
  <2>1. CASE m \in 1..L
    <3>1. m - 1 \in 0..L
      BY <1>1, <2>1
    <3>2. out[m].win.hi = End(out, m - 1)
          /\ (cfg.takeover => out[m].win = Window(out[m].win.hi))
      BY <2>1 DEF WindowInv, L
    <3> QED  BY <1>1, <1>2, <2>1, <3>1, <3>2
  <2>2. CASE m = L + 1
    <3>1. m - 1 = L /\ L \in 0..L
      BY <1>1, <2>2
    <3> QED  BY <1>1, <1>2, <1>3, <1>4, <2>2, <3>1
  <2> QED  BY <1>1, <2>1, <2>2
<1> QED  BY <1>1, <1>3, <1>5, <1>6 DEF WindowInv

\* The message that is being written changes.
LEMMA WindowChange ==
    ASSUME TypeOK, WindowInv, cfg' = cfg, NEW L \in Nat, L = Len(out), Len(out') = L,
           \A m \in 1..(L - 1) : out'[m] = out[m], L > 0, out'[L].win = out[L].win,
           mw'.text = End(out', L)
    PROVE  WindowInv'
<1>1. \A m \in 0..(L - 1) : End(out', m) = End(out, m)
  <2>1. \A m \in 0..(L - 1) : m = 0 \/ m \in 1..(L - 1)
    OBVIOUS
  <2> QED  BY <2>1 DEF End
<1>2. ASSUME NEW m \in 1..L
      PROVE  /\ out'[m].win.hi = End(out', m - 1)
             /\ cfg'.takeover => out'[m].win = Window(out'[m].win.hi)
  <2>1. m - 1 \in 0..(L - 1) /\ (m \in 1..(L - 1) \/ m = L)
    OBVIOUS
  <2>2. out'[m].win = out[m].win
    BY <2>1
  <2>3. out[m].win.hi = End(out, m - 1)
        /\ (cfg.takeover => out[m].win = Window(out[m].win.hi))
    BY DEF WindowInv
  <2> QED  BY <1>1, <2>1, <2>2, <2>3
<1> QED  BY <1>2 DEF WindowInv

\* The frames of s went out.
Clear(s) == [s EXCEPT !.frames = <<>>]

\* The same, field by field.
Settled(t, s) == t.opcode = s.opcode /\ t.frames = <<>> /\ t.tail = s.tail /\ t.z = s.z

\* The frames have been handed to the wire.
LEMMA ClearType ==
    ASSUME NEW s \in MW, NEW t, t = Clear(s)
    PROVE  t \in MW /\ Same(t, s) /\ Settled(t, s)
<1>1. <<>> \in Seq(Frame)
  OBVIOUS
<1> DEFINE fs == <<>>
<1>2. t = [s EXCEPT !.frames = fs] /\ fs \in Seq(Frame)
  BY <1>1 DEF Clear
<1> HIDE DEF fs
<1>3. /\ t \in MW /\ t.mu = s.mu /\ t.once = s.once /\ t.msg = s.msg
      /\ t.flate = s.flate /\ t.flushed = s.flushed /\ t.text = s.text
      /\ t.opcode = s.opcode /\ t.tail = s.tail /\ t.z = s.z /\ t.frames = fs
  BY <1>2, Zenon DEF MW
<1> QED  BY <1>3 DEF fs, Same, Settled

\* msgWriter.reset.
Begin(s, w, once) ==
    [s EXCEPT !.mu = w, !.once = once, !.msg = @ + 1, !.opcode = opText,
              !.flate = FALSE, !.tail = 0, !.z = 0, !.flushed = 0]

\* The same, field by field.
Fresh(t, s, w) ==
    /\ t.mu = w /\ t.msg = s.msg + 1 /\ t.opcode = opText /\ t.flate = FALSE
    /\ t.tail = 0 /\ t.z = 0 /\ t.flushed = 0 /\ t.text = s.text /\ t.frames = s.frames

\* msgWriter.reset gives a writer that has sent nothing.
LEMMA BeginType ==
    ASSUME NEW s \in MW, NEW w \in Writer, NEW once \in BOOLEAN,
           NEW t, t = Begin(s, w, once)
    PROVE  t \in MW /\ Fresh(t, s, w)
<1>1. s.msg + 1 \in Nat /\ 0 \in 0..4 /\ 0 \in Nat
  BY DEF MW
<1> QED  BY <1>1, Zenon DEF MW, Begin, Fresh

\* Writer: a message begins, and nothing is sent.
LEMMA ResetGoesOn ==
    ASSUME IInv, NEW w \in Writer, Reset(w)
    PROVE  GoesOn /\ (WriterAt').msg \in Nat
<1> DEFINE e == [len |-> 0, flate |-> FALSE, z |-> 0, win |-> EncoderWindow, done |-> FALSE]
           L == Len(out)
<1>0. TypeOK /\ WriterInv /\ WindowInv /\ WireInv
  BY DEF IInv
<1>1. PICK once \in {cfg.flate, FALSE} :
        mw' = [mw EXCEPT !.mu = w, !.once = once, !.msg = @ + 1, !.opcode = opText,
                         !.flate = FALSE, !.tail = 0, !.z = 0, !.flushed = 0]
  BY Zenon DEF Reset
<1>2. out' = Append(out, e) /\ wire' = wire /\ cfg' = cfg /\ rd' = rd /\ limit' = limit
  BY DEF Reset
<1>3. e \in Message /\ e.win = EncoderWindow /\ e.flate = FALSE /\ e.done = FALSE /\ e.len = 0
  <2>1. mw.text \in Nat
    BY <1>0 DEF TypeOK, MW
  <2>2. EncoderWindow \in [lo : Nat, hi : Nat]
    BY <2>1, SizesAreNumbers DEF EncoderWindow, Larger
  <2> QED  BY <2>2 DEF Message
<1>4. /\ mw' \in MW /\ mw'.mu = w /\ mw'.msg = mw.msg + 1 /\ mw'.opcode = opText
      /\ mw'.flate = FALSE /\ mw'.tail = 0 /\ mw'.z = 0 /\ mw'.flushed = 0
      /\ mw'.text = mw.text /\ mw'.frames = mw.frames
  <2>1. once \in BOOLEAN /\ mw \in MW
    BY <1>0, Zenon DEF TypeOK, CFG
  <2>2. mw' = Begin(mw, w, once)
    BY <1>1 DEF Begin
  <2>3. mw' \in MW /\ Fresh(mw', mw, w)
    BY <2>1, <2>2, BeginType
  <2> QED  BY <2>3 DEF Fresh
<1> HIDE DEF e
<1>5. L = mw.msg /\ mw.msg \in Nat /\ mw.mu = none /\ w # none /\ mw.frames = <<>>
  BY <1>0, NoneIsNoWriter DEF WriterInv, TypeOK, MW, Reset
<1>6. /\ out' \in Seq(Message) /\ Len(out') = L + 1 /\ out'[L + 1] = e
      /\ \A m \in 1..L : out'[m] = out[m]
  BY <1>0, <1>2, <1>3 DEF TypeOK
<1>7. TypeOK'
  BY <1>0, <1>2, <1>4, <1>6 DEF TypeOK
<1>8. WriterInv'
  <2>1. out'[mw'.msg] = e /\ mw'.msg > 0 /\ Len(out') = mw'.msg /\ Smaller(0, 4) = 0
    BY <1>4, <1>5, <1>6 DEF Smaller
  <2>2. Len(out') = mw'.msg /\ mw'.frames = <<>>
    BY <1>4, <1>5, <2>1
  <2>3. ~out'[mw'.msg].done /\ out'[mw'.msg].flate = mw'.flate /\ out'[mw'.msg].len = 0
    BY <1>3, <1>4, <2>1, Zenon
  <2> QED  BY <1>4, <2>1, <2>2, <2>3 DEF WriterInv
<1>9. WindowInv'
  BY <1>0, <1>2, <1>3, <1>4, WindowAppend
<1>10. WriterAt = Position(mw.msg, 0, FALSE) /\ WriterAt.msg = mw.msg
       /\ WriterAt \in Positions
  <2>1. ~Writing
    BY <1>5 DEF Writing
  <2>2. WriterAt = Position(mw.msg, 0, FALSE) /\ WriterAt \in Positions
    BY <1>0, <2>1, WriterAtType, Zenon
  <2> QED  BY <2>2 DEF Position
<1>11. WriterAt' = WriterAt
  <2>1. WriterAt' = Position(mw'.msg - 1, 0, FALSE)
    BY <1>4, <1>5 DEF WriterAt, Writing, opText, opContinuation
  <2>2. mw'.msg - 1 = mw.msg
    BY <1>4, <1>5
  <2> QED  BY <1>10, <2>1, <2>2, Zenon
<1>12. Keeps(out, out', WriterAt.msg)
  <2>1. \A m \in 1..L : out[m] \in Message /\ m \in 1..Len(out')
    BY <1>0, <1>6 DEF TypeOK
  <2>2. \A m \in 1..L : out[m].len \in Nat
    BY <2>1 DEF Message
  <2> HIDE DEF L
  <2>3. \A m \in 1..L : out'[m].len >= out[m].len
    BY <1>6, <2>2
  <2>4. WriterAt.msg = L
    BY <1>5, <1>10, Zenon
  <2> QED  BY <1>6, <2>1, <2>3, <2>4, Zenon DEF Keeps
<1>13. Leads(out', wire', WriterAt')
  BY <1>0, <1>2, <1>6, <1>10, <1>11, <1>12, LeadsKept, Zenon DEF TypeOK, WireInv
<1>14. WriterAt.msg \in Nat /\ WriterAt.msg <= (WriterAt').msg
  <2>1. WriterAt.msg = mw.msg /\ (WriterAt').msg = mw.msg
    BY <1>10, <1>11, Zenon
  <2> QED  BY <1>5, <2>1
<1> QED  BY <1>7, <1>8, <1>9, <1>11, <1>12, <1>13, <1>14 DEF GoesOn

\* The message being written after n more bytes.
Longer(x, n, fl) == [x EXCEPT !.len = @ + n, !.flate = fl]

\* The same, field by field.
Grew(y, x, n, fl) == /\ y.len = x.len + n /\ y.flate = fl /\ y.done = x.done /\ y.win = x.win
                     /\ y.z = x.z

\* A message that grows is a message.
LEMMA LongerType ==
    ASSUME NEW x \in Message, NEW n \in Nat, NEW fl \in BOOLEAN, NEW y, y = Longer(x, n, fl)
    PROVE  y \in Message /\ Grew(y, x, n, fl)
<1> DEFINE l == x.len + n
<1>1. l \in Nat
  BY DEF Message
<1>2. y = [x EXCEPT !.len = l, !.flate = fl]
  BY DEF Longer
<1> HIDE DEF l
<1>3. y \in Message
  BY <1>1, <1>2, Zenon DEF Message
<1>4. y.len = l /\ y.flate = fl /\ y.done = x.done /\ y.win = x.win /\ y.z = x.z
  BY <1>2 DEF Message
<1> QED  BY <1>3, <1>4 DEF Grew, l

\* The last message is another.
Changed(o2, o, y) ==
    /\ o2 \in Seq(Message) /\ Len(o2) = Len(o) /\ o2[Len(o)] = y
    /\ \A m \in 1..(Len(o) - 1) : o2[m] = o[m]

\* And so are they all.
LEMMA ChangedType ==
    ASSUME NEW o \in Seq(Message), Len(o) > 0, NEW y \in Message,
           NEW o2, o2 = [o EXCEPT ![Len(o)] = y]
    PROVE  Changed(o2, o, y)
BY DEF Changed

\* Messages that the writer is past are kept.
LEMMA ChangedKeeps ==
    ASSUME TypeOK, WriterInv, Writing, NEW y \in Message, Changed(out', out, y),
           y.win = out[mw.msg].win,
           y.len >= out[mw.msg].len,
           WriterAt.msg = mw.msg => y.flate = out[mw.msg].flate
    PROVE  Keeps(out, out', WriterAt.msg)
<1> DEFINE L == mw.msg
<1>1. L \in Nat /\ L > 0 /\ Len(out) = L /\ ~out[L].done /\ Len(out') = L
      /\ out'[L] = y /\ \A m \in 1..(L - 1) : out'[m] = out[m]
  BY DEF TypeOK, WriterInv, MW, Changed
<1>2. WriterAt.msg <= L /\ WriterAt.msg \in Nat
  BY WriterAtType
<1>3. \A m \in 1..L : out[m] \in Message
  BY <1>1 DEF TypeOK
<1>4. \A m \in 1..L : out[m].len \in Nat
  BY <1>3 DEF Message
<1> SUFFICES ASSUME NEW m \in 1..WriterAt.msg
             PROVE  /\ m \in 1..Len(out) => m \in 1..Len(out')
                    /\ out'[m].flate = out[m].flate /\ out'[m].win = out[m].win
                    /\ out'[m].len >= out[m].len
                    /\ out[m].done => out'[m] = out[m]
  BY Zenon DEF Keeps
<1>5. m \in 1..(L - 1) \/ (m = L /\ WriterAt.msg = L)
  BY <1>1, <1>2
<1> HIDE DEF L
<1>6. CASE m \in 1..(L - 1)
  <2>1. out'[m] = out[m] /\ m \in 1..L /\ out[m].len \in Nat
    BY <1>1, <1>4, <1>6
  <2> QED  BY <1>1, <2>1
<1>7. CASE m = L /\ WriterAt.msg = L
  BY <1>1, <1>7 DEF L
<1> QED  BY <1>5, <1>6, <1>7

\* What msgWriter.Write does to the message.
LEMMA OutGrows ==
    ASSUME TypeOK, WriterInv, WindowInv, Writing, NEW n \in Nat, NEW fl \in BOOLEAN,
           mw.flate => fl, fl # mw.flate => mw.opcode # opContinuation,
           out' = [out EXCEPT ![Len(out)].len = @ + n, ![Len(out)].flate = fl]
    PROVE  \E y \in Message : /\ Changed(out', out, y) /\ Grew(y, out[mw.msg], n, fl)
                              /\ Keeps(out, out', WriterAt.msg)
                              /\ End(out', mw.msg) = mw.text + IF fl THEN n ELSE 0
<1> DEFINE L == mw.msg
           x == out[L]
           y == Longer(x, n, fl)
<1>1. L \in Nat /\ L > 0 /\ Len(out) = L /\ x \in Message /\ x.flate = mw.flate
      /\ mw.flate \in BOOLEAN /\ mw.text \in Nat /\ out \in Seq(Message)
  BY WriterAtType DEF TypeOK, WriterInv, MW
<1>2. out' = [out EXCEPT ![L] = y]
  BY <1>1, Zenon DEF Longer
<1>3. x.len \in Nat /\ x.win.hi \in Nat
  BY <1>1, Zenon DEF Message
<1> HIDE DEF x, y
<1>4. y \in Message /\ Grew(y, x, n, fl)
  BY <1>1, LongerType DEF y
<1>5. Changed(out', out, y)
  BY <1>1, <1>2, <1>4, ChangedType, Zenon
<1>6. y.len = x.len + n /\ y.flate = fl /\ y.win = x.win
  BY <1>4 DEF Grew
<1>7. Keeps(out, out', WriterAt.msg)
  <2>1. y.len >= x.len
    BY <1>3, <1>6
  <2>2. WriterAt.msg = L => y.flate = x.flate
    <3>1. mw.opcode # opContinuation => WriterAt.msg = L - 1
      BY WriterAtType
    <3> QED  BY <1>1, <1>6, <3>1
  <2> QED  BY <1>4, <1>5, <1>6, <2>1, <2>2, ChangedKeeps, Zenon DEF x
<1>8. End(out', L) = mw.text + IF fl THEN n ELSE 0
  <2>1. out'[L] = y
    BY <1>1, <1>5 DEF Changed
  <2>2. mw.text = x.win.hi + IF x.flate THEN x.len ELSE 0
    BY <1>1 DEF WindowInv, End, x
  <2>3. fl /\ ~x.flate => x.len = 0
    BY <1>1, Zenon DEF WriterInv, x
  <2>4. End(out', L) = x.win.hi + IF fl THEN x.len + n ELSE 0
    <3>1. End(out', L) = out'[L].win.hi + IF out'[L].flate THEN out'[L].len ELSE 0
      BY <1>1 DEF End
    <3>2. out'[L].win = x.win /\ out'[L].flate = fl /\ out'[L].len = x.len + n
      BY <1>6, <2>1, Zenon
    <3> HIDE DEF L
    <3> QED  BY <3>1, <3>2
  <2> QED  BY <1>1, <1>3, <2>2, <2>3, <2>4, SMT, SMTT(60)
<1> QED  BY <1>4, <1>5, <1>7, <1>8 DEF x

\* A step within a message.
LEMMA StillWriting ==
    ASSUME TypeOK, WriterInv, WindowInv, Writing, cfg' = cfg, rd' = rd, limit' = limit,
           NEW y \in Message, Changed(out', out, y), Keeps(out, out', WriterAt.msg),
           y.win = out[mw.msg].win, ~y.done, y.flate = mw'.flate,
           mw' \in MW, mw'.mu = mw.mu, mw'.msg = mw.msg, mw'.frames = <<>>,
           IF mw'.flate THEN cfg.flate ELSE mw'.z = 0,
           mw'.tail = Smaller(mw'.z, 4), mw'.flushed <= mw'.z,
           mw'.opcode # opContinuation =>
             /\ mw.opcode # opContinuation
             /\ mw'.z = mw'.tail
             /\ ~mw'.flate => y.len = 0,
           mw'.text = End(out', mw.msg), wire' \in Seq(Frame),
           Leads(out', wire', At(mw', IF mw'.flate THEN mw'.z - mw'.tail ELSE y.len))
    PROVE  GoesOn /\ (WriterAt').msg \in Nat
<1> DEFINE L == mw.msg
<1>1. /\ L \in Nat /\ L > 0 /\ Len(out) = L /\ Len(out') = L /\ out'[L] = y
      /\ out' \in Seq(Message) /\ \A m \in 1..(L - 1) : out'[m] = out[m]
  BY DEF TypeOK, WriterInv, MW, Changed
<1>2. TypeOK'
  BY <1>1, SMT, SMTT(60) DEF TypeOK
<1>3. WriterInv'
  <2>1. out'[mw'.msg] = y /\ Len(out') = mw'.msg /\ mw'.msg > 0
    BY <1>1
  <2> HIDE DEF L
  <2> QED  BY <2>1 DEF WriterInv
<1>4. WindowInv'
  <2>1. out'[L].win = out[L].win
    BY <1>1
  <2> QED  BY <1>1, <2>1, WindowChange, SMT, SMTT(60)
<1>5. mw'.msg = L /\ mw'.mu # none /\ out'[mw'.msg] = y
  BY <1>1, SMT, SMTT(60) DEF Writing
<1>6. CASE mw'.opcode = opContinuation
  <2> DEFINE a == IF mw'.flate THEN mw'.z - mw'.tail ELSE y.len
  <2>1. WriterAt' = Position(L, a, TRUE)
    BY <1>5, <1>6, Zenon DEF WriterAt, Writing
  <2>2. At(mw', a) = Position(L, a, TRUE)
    BY <1>5, <1>6, Zenon DEF At
  <2> HIDE DEF a
  <2>3. Position(L, a, TRUE).msg = L
    BY DEF Position
  <2>4. (WriterAt').msg = L
    BY <2>1, <2>3, Zenon
  <2>5. WriterAt.msg <= L
    BY WriterAtType
  <2>6. Leads(out', wire', WriterAt')
    BY <2>1, <2>2, Zenon DEF a
  <2> QED  BY <1>1, <1>2, <1>3, <1>4, <2>4, <2>5, <2>6 DEF GoesOn
<1>7. CASE mw'.opcode # opContinuation
  <2> DEFINE a == IF mw'.flate THEN mw'.z - mw'.tail ELSE y.len
  <2>1. WriterAt' = Position(L - 1, 0, FALSE)
    BY <1>5, <1>7, Zenon DEF WriterAt, Writing
  <2>2. At(mw', a) = Position(L - 1, 0, FALSE)
    BY <1>5, <1>7, Zenon DEF At
  <2> HIDE DEF a
  <2>3. Position(L - 1, 0, FALSE).msg = L - 1
    BY DEF Position
  <2>4. (WriterAt').msg = L - 1
    BY <2>1, <2>3, Zenon
  <2>5. WriterAt.msg = L - 1
    BY <1>7, WriterAtType
  <2>6. Leads(out', wire', WriterAt')
    BY <2>1, <2>2, Zenon DEF a
  <2>7. L - 1 \in Nat
    BY <1>1, SMT, SMTT(60)
  <2>8. (WriterAt').msg \in Nat /\ WriterAt.msg <= (WriterAt').msg
    BY <2>4, <2>5, <2>7
  <2> QED  BY <1>2, <1>3, <1>4, <2>8, <2>6 DEF GoesOn
<1> QED  BY <1>6, <1>7, SMT, SMTT(60)

\* What the wire holds after the frames were sent are frames.
LEMMA SentType ==
    ASSUME NEW w \in Seq(Frame), NEW s \in MW
    PROVE  Sent(w, s) \in Seq(Frame)
<1>1. s.frames \in Seq(Frame)
  BY DEF MW
<1> QED  BY <1>1 DEF Sent

\* What the frames on their way lead to when the writer begins a step.
LEMMA LeadsOn ==
    ASSUME TypeOK, WriterInv, WireInv, out' \in Seq(Message),
           Keeps(out, out', WriterAt.msg)
    PROVE  Leads(out', Sent(wire, mw), WriterAt)
BY WriterAtType, SentNothing, LeadsKept DEF TypeOK, WireInv

\* Write without compression: one frame of what was written.
LEMMA PlainGoesOn ==
    ASSUME Masks, TypeOK, WriterInv, WindowInv, WireInv, Writing,
           cfg' = cfg, rd' = rd, limit' = limit, NEW n \in Length, ~mw.flate,
           out' = [out EXCEPT ![Len(out)].len = @ + n, ![Len(out)].flate = FALSE],
           NEW t, t = PutFrame(mw, FALSE, out[Len(out)].len, n),
           mw' = Clear(t), wire' = Sent(wire, t)
    PROVE  GoesOn /\ (WriterAt').msg \in Nat
<1> DEFINE L == mw.msg
           l == out[L].len
<1>1. n \in Nat /\ mw \in MW /\ cfg \in CFG /\ wire \in Seq(Frame)
  BY DEF Length, TypeOK
<1>2. /\ L \in 1..Len(out) /\ Len(out) = L /\ out[L].flate = FALSE /\ out[L].done = FALSE
      /\ mw.flate = FALSE /\ mw.z = 0 /\ mw.tail = 0 /\ mw.flushed = 0
      /\ mw.mu # none
  <2>1. L \in 1..Len(out) /\ out[L] \in Message
    BY WriterAtType
  <2>2. mw.flate \in BOOLEAN /\ mw.flushed \in Nat
    BY <1>1 DEF MW
  <2>3. out[L].done \in BOOLEAN
    BY <2>1 DEF Message
  <2> HIDE DEF L
  <2>4. /\ mw.z = 0 /\ mw.tail = Smaller(mw.z, 4) /\ mw.flushed <= mw.z /\ Len(out) = L
        /\ out[L].flate = mw.flate /\ ~out[L].done
    BY DEF WriterInv, L
  <2> QED  BY <2>1, <2>2, <2>3, <2>4 DEF Smaller, Writing
<1>3. WriterAt = At(mw, l) /\ l \in Nat /\ Base(At(mw, l)) = l
  BY <1>2, WriterAtType DEF Sending
<1>4. PICK y \in Message :
             /\ Changed(out', out, y) /\ Grew(y, out[L], n, FALSE)
             /\ Keeps(out, out', WriterAt.msg)
             /\ End(out', L) = mw.text + IF FALSE THEN n ELSE 0
  BY <1>1, <1>2, OutGrows, Zenon
<1>5. out' \in Seq(Message) /\ out'[L] = y /\ Len(out') = L
  BY <1>2, <1>4, SMT, SMTT(60) DEF Changed
<1>6. y.len = l + n /\ y.flate = FALSE /\ ~y.done /\ y.win = out[L].win
  BY <1>2, <1>4 DEF Grew
<1>7. mw.text \in Nat /\ End(out', L) = mw.text
  BY <1>1, <1>4 DEF MW
<1> HIDE DEF l
<1>8. Fits(mw, out', FALSE, l, n, l)
  <2>1. out'[L].len = l + n
    BY <1>5, <1>6, Zenon
  <2>2. l + n <= out'[L].len /\ L \in 1..Len(out')
    BY <1>1, <1>2, <1>3, <1>5, <2>1
  <2>3. mw.flate = out'[L].flate /\ ~mw.flate
    BY <1>2, <1>5, <1>6, Zenon
  <2> QED  BY <1>3, <2>2, <2>3, Zenon DEF Fits
<1>9. /\ t \in MW /\ Begun(t) /\ Same(t, mw) /\ Held(t, mw.tail, mw.z)
      /\ Leads(out', Sent(wire, t), After(mw, FALSE, n, l))
  <2>1. Leads(out', Sent(wire, mw), At(mw, l))
    BY <1>3, <1>4, <1>5, LeadsOn
  <2>2. t = PutFrame(mw, FALSE, l, n)
    BY <1>2 DEF l
  <2> HIDE DEF L
  <2> QED  BY <1>1, <1>3, <1>5, <1>8, <2>1, <2>2, PutLeads, Zenon
<1>10. mw' \in MW /\ Same(mw', t) /\ Settled(mw', t)
  BY <1>9, ClearType, Zenon
<1>11. /\ mw'.mu = mw.mu /\ mw'.msg = L /\ mw'.frames = <<>> /\ mw'.flate = FALSE
       /\ mw'.z = 0 /\ mw'.tail = 0 /\ mw'.flushed = 0 /\ mw'.text = mw.text
       /\ mw'.opcode = opContinuation
  BY <1>2, <1>9, <1>10, Zenon DEF Same, Settled, Held, Begun
<1>12. Leads(out', wire', At(mw', y.len))
  <2>1. After(mw, FALSE, n, l) = Position(L, l + n, TRUE)
    BY <1>3, Zenon DEF After
  <2>2. At(mw', y.len) = Position(L, l + n, TRUE)
    BY <1>6, <1>11, Zenon DEF At
  <2> QED  BY <1>9, <2>1, <2>2, Zenon
<1>13. wire' \in Seq(Frame)
  BY <1>1, <1>9, SentType, Zenon
<1>14. (IF mw'.flate THEN mw'.z - mw'.tail ELSE y.len) = y.len
  BY <1>11, Zenon
<1> HIDE DEF L
<1>15. /\ mw'.tail = Smaller(mw'.z, 4) /\ mw'.flushed <= mw'.z
       /\ y.flate = mw'.flate /\ mw'.text = End(out', L)
  <2>1. Smaller(0, 4) = 0 /\ 0 <= 0
    BY DEF Smaller
  <2> QED  BY <1>6, <1>7, <1>11, <2>1, Zenon
<1>17. IF mw'.flate THEN cfg.flate ELSE mw'.z = 0
  BY <1>11, Zenon
<1>16. Leads(out', wire', At(mw', IF mw'.flate THEN mw'.z - mw'.tail ELSE y.len))
  BY <1>12, <1>14, ZenonT(60)
<1> QED  BY <1>4, <1>6, <1>10, <1>11, <1>13, <1>15, <1>16, <1>17, StillWriting, Zenon DEF L

\* The msgWriter with the message compressed.
Alike(s, r) ==
    /\ s.mu = r.mu /\ s.msg = r.msg /\ s.opcode = r.opcode /\ s.tail = r.tail
    /\ s.z = r.z /\ s.flushed = r.flushed /\ s.frames = r.frames /\ s.flate = TRUE

\* A step that leaves all of t but the frames and the count of the flush.
Follows(u, t) ==
    /\ u.mu = t.mu /\ u.msg = t.msg /\ u.flate = t.flate /\ u.text = t.text
    /\ u.opcode = t.opcode /\ u.frames = <<>> /\ u.tail = t.tail /\ u.z = t.z

\* What compress/flate emits passes the trim writer, which keeps the last four bytes.
LEMMA TrimGoesOn ==
    ASSUME Masks, TypeOK, WriterInv, WindowInv, WireInv, Writing,
           cfg' = cfg, rd' = rd, limit' = limit, cfg.flate,
           mw.flate \/ mw.opcode # opContinuation,
           NEW y \in Message, Changed(out', out, y), Keeps(out, out', WriterAt.msg),
           y.win = out[mw.msg].win, ~y.done, y.flate = TRUE,
           NEW s \in MW, Alike(s, mw), s.text = End(out', mw.msg),
           NEW e \in Length, NEW t, t = Trim(s, e),
           t \in MW /\ Same(t, s) =>
             /\ mw' \in MW /\ Follows(mw', t) /\ mw'.flushed <= mw.z + e
             /\ wire' = Sent(wire, t)
    PROVE  GoesOn /\ (WriterAt').msg \in Nat
<1> DEFINE L == mw.msg
           z == mw.z
           zz == z + e
           tl == Smaller(zz, 4)
<1>1. e \in Nat /\ mw \in MW /\ cfg \in CFG /\ wire \in Seq(Frame) /\ z \in Nat
  BY ZenonT(60) DEF Length, TypeOK, MW
<1>2. /\ s.msg = L /\ s.flate = TRUE /\ s.z = z /\ s.tail = mw.tail
      /\ s.opcode = mw.opcode /\ s.frames = mw.frames /\ s.mu = mw.mu
  BY SMT, SMTT(60) DEF Alike
<1>3. L \in 1..Len(out') /\ out'[L] = y /\ out' \in Seq(Message) /\ Len(out) = L
  <2>1. L \in 1..Len(out) /\ Len(out) = L
    BY WriterAtType, SMT, SMTT(60) DEF WriterInv
  <2> QED  BY <2>1, SMT, SMTT(60) DEF Changed
<1>4. mw.tail = Smaller(z, 4) /\ (mw.opcode # opContinuation => z = mw.tail)
  BY SMT, SMTT(60) DEF WriterInv
<1>5. At(s, z - mw.tail) = WriterAt
  <2>1. WriterAt = At(mw, Sending)
    BY WriterAtType
  <2>2. CASE mw.flate
    BY <1>2, <2>1, <2>2, Zenon DEF At, Sending
  <2>3. CASE mw.opcode # opContinuation
    BY <1>2, <2>1, <2>3, Zenon DEF At
  <2> QED  BY <2>2, <2>3
<1>6. Leads(out', Sent(wire, s), At(s, z - mw.tail))
  <2>1. Sent(wire, s) = Sent(wire, mw)
    BY <1>2, Zenon DEF Sent
  <2>2. Leads(out', Sent(wire, mw), WriterAt)
    BY <1>3, LeadsOn
  <2> QED  BY <1>5, <2>1, <2>2, Zenon
<1>7. /\ t \in MW /\ Same(t, s) /\ Held(t, tl, zz)
      /\ Begun(t) \/ zz = tl
      /\ Begun(s) => Begun(t)
      /\ Leads(out', Sent(wire, t), At(t, zz - tl))
  <2>1. s.msg \in 1..Len(out') /\ out'[s.msg].flate = TRUE
    BY <1>2, <1>3
  <2>2. s.tail = Smaller(s.z, 4) /\ (s.opcode # opContinuation => s.z = s.tail) /\ s.flate
    BY <1>2, <1>4, Zenon
  <2>3. Leads(out', Sent(wire, s), At(s, s.z - s.tail))
    BY <1>2, <1>6, Zenon
  <2>4. /\ t \in MW /\ Same(t, s) /\ Held(t, Smaller(s.z + e, 4), s.z + e)
        /\ Begun(t) \/ s.z + e = Smaller(s.z + e, 4)
        /\ Begun(s) => Begun(t)
        /\ Leads(out', Sent(wire, t), At(t, (s.z + e) - Smaller(s.z + e, 4)))
    BY <1>1, <1>3, <2>1, <2>2, <2>3, TrimLeads, ZenonT(60)
  <2> QED  BY <1>2, <2>4, Zenon
<1>f. mw' \in MW /\ Follows(mw', t) /\ mw'.flushed <= mw.z + e /\ wire' = Sent(wire, t)
  BY <1>7, SMT, SMTT(60)
<1>8. /\ mw'.mu = mw.mu /\ mw'.msg = L /\ mw'.flate = TRUE /\ mw'.text = s.text
      /\ mw'.tail = tl /\ mw'.z = zz /\ mw'.frames = <<>>
  <2> HIDE DEF L, zz, tl
  <2> QED  BY <1>2, <1>7, <1>f, ZenonT(60) DEF Same, Held, Follows
<1>9. mw'.opcode # opContinuation => ~Begun(t) /\ mw.opcode # opContinuation
  <2>1. mw'.opcode = t.opcode
    BY <1>f, SMT, SMTT(60) DEF Follows
  <2>2. mw.opcode = opContinuation => Begun(t)
    BY <1>2, <1>7 DEF Begun
  <2> QED  BY <2>1, <2>2, SMT, SMTT(60) DEF Begun
<1>10. At(mw', zz - tl) = At(t, zz - tl)
  BY <1>f, ZenonT(60) DEF At, Follows
<1> HIDE DEF zz, tl
<1>11. wire' \in Seq(Frame)
  BY <1>1, <1>7, <1>f, SentType
<1>12. (IF mw'.flate THEN mw'.z - mw'.tail ELSE y.len) = zz - tl
  BY <1>8, Zenon
<1>13. Leads(out', wire', At(mw', IF mw'.flate THEN mw'.z - mw'.tail ELSE y.len))
  BY <1>7, <1>10, <1>12, <1>f, Zenon
<1>14. /\ mw'.tail = Smaller(mw'.z, 4) /\ mw'.flushed <= mw'.z
       /\ y.flate = mw'.flate /\ mw'.text = End(out', L)
  BY <1>8, <1>f, Zenon DEF zz, tl
<1>15. mw'.opcode # opContinuation =>
         /\ mw.opcode # opContinuation /\ mw'.z = mw'.tail
         /\ ~mw'.flate => y.len = 0
  BY <1>7, <1>8, <1>9, Zenon
<1>16. IF mw'.flate THEN cfg.flate ELSE mw'.z = 0
  BY <1>8, Zenon
<1> QED  BY <1>8, <1>f, <1>11, <1>13, <1>14, <1>15, <1>16, StillWriting, ZenonT(60)

\* Write, with compression and without.
LEMMA WriteGoesOn ==
    ASSUME Masks, IInv, NEW w \in Writer, Write(w)
    PROVE  GoesOn /\ (WriterAt').msg \in Nat
<1>0. TypeOK /\ WriterInv /\ WindowInv /\ WireInv /\ Writing
      /\ cfg' = cfg /\ rd' = rd /\ limit' = limit
  BY NoneIsNoWriter DEF IInv, Write, Writing
<1> DEFINE flate(n) == \/ mw.flate
                       \/ cfg.flate /\ mw.opcode # opContinuation /\ n >= Threshold
<1>1. PICK n \in Chunk :
         /\ out' = [out EXCEPT ![Len(out)].len = @ + n, ![Len(out)].flate = flate(n)]
         /\ IF flate(n)
            THEN \E e \in Emit :
                   Written(Trim([mw EXCEPT !.flate = TRUE, !.text = @ + n], e))
            ELSE Written(PutFrame(mw, FALSE, out[Len(out)].len, n))
  BY Zenon DEF Write
<1>2. n \in Length /\ n \in Nat
  BY SizesAreNumbers DEF Length
<1>3. CASE ~flate(n)
  <2> DEFINE t == PutFrame(mw, FALSE, out[Len(out)].len, n)
  <2>1. flate(n) = FALSE /\ ~mw.flate
    BY <1>3
  <2>2. out' = [out EXCEPT ![Len(out)].len = @ + n, ![Len(out)].flate = FALSE]
    BY <1>1, <2>1, Zenon
  <2>3. mw' = Clear(t) /\ wire' = Sent(wire, t)
    BY <1>1, <1>3, Zenon DEF Written, Clear, Sent
  <2>4. t = PutFrame(mw, FALSE, out[Len(out)].len, n)
    OBVIOUS
  <2> HIDE DEF t
  <2> QED  BY <1>0, <1>2, <2>1, <2>2, <2>3, <2>4, PlainGoesOn, Zenon
<1>4. CASE flate(n)
  <2>1. flate(n) = TRUE /\ cfg.flate /\ (mw.flate \/ mw.opcode # opContinuation)
    <3>1. mw.flate => cfg.flate
      BY <1>0 DEF WriterInv
    <3> QED  BY <1>4, <3>1, SMT, SMTT(60)
  <2>2. out' = [out EXCEPT ![Len(out)].len = @ + n, ![Len(out)].flate = TRUE]
    BY <1>1, <2>1, Zenon
  <2> DEFINE s == [mw EXCEPT !.flate = TRUE, !.text = @ + n]
  <2>3. PICK e \in Emit : Written(Trim(s, e))
    BY <1>1, <1>4, Zenon
  <2> HIDE DEF flate
  <2>4. mw \in MW /\ mw.text \in Nat /\ mw.z \in Nat /\ mw.flate \in BOOLEAN
        /\ mw.flushed \in Nat
    BY <1>0 DEF TypeOK, MW
  <2>5. s \in MW /\ Alike(s, mw) /\ s.text = mw.text + n /\ s.flushed = mw.flushed
    <3>1. mw.text + n \in Nat
      BY <1>2, <2>4
    <3> QED  BY <2>4, <3>1, Zenon DEF MW, Alike
  <2>6. PICK y \in Message :
             /\ Changed(out', out, y) /\ Grew(y, out[mw.msg], n, TRUE)
             /\ Keeps(out, out', WriterAt.msg)
             /\ End(out', mw.msg) = mw.text + IF TRUE THEN n ELSE 0
    <3>1. TRUE # mw.flate => mw.opcode # opContinuation
      BY <2>1, <2>4, Zenon
    <3> QED  BY <1>0, <1>2, <2>2, <3>1, OutGrows, Zenon
  <2>7. s.text = End(out', mw.msg)
    BY <2>5, <2>6, Zenon
  <2>8. y.win = out[mw.msg].win /\ ~y.done /\ y.flate = TRUE
    BY <1>0, <2>6 DEF Grew, WriterInv
  <2>9. e \in Length /\ e \in Nat
    BY SizesAreNumbers DEF Length
  <2> DEFINE t == Trim(s, e)
  <2>10. mw' = Clear(t) /\ wire' = Sent(wire, t)
    BY <2>3, Zenon DEF Written, Clear, Sent
  <2>11. t = Trim(s, e)
    OBVIOUS
  <2> HIDE DEF s, t
  <2>12. t \in MW /\ Same(t, s) =>
           /\ mw' \in MW /\ Follows(mw', t) /\ mw'.flushed <= mw.z + e
           /\ wire' = Sent(wire, t)
    <3> SUFFICES ASSUME t \in MW, Same(t, s)
                 PROVE  mw' \in MW /\ Follows(mw', t) /\ mw'.flushed <= mw.z + e
      BY <2>10
    <3>1. mw' \in MW /\ Same(mw', t) /\ Settled(mw', t)
      BY <2>10, ClearType
    <3>2. mw'.flushed = mw.flushed
      BY <2>5, <3>1 DEF Same
    <3>3. mw.flushed <= mw.z
      BY <1>0 DEF WriterInv
    <3>4. mw'.flushed <= mw.z + e
      BY <2>4, <2>9, <3>2, <3>3
    <3> QED  BY <3>1, <3>4 DEF Same, Settled, Follows
  <2> QED  BY <1>0, <2>1, <2>5, <2>6, <2>7, <2>8, <2>9, <2>10, <2>11, <2>12, TrimGoesOn, Zenon
<1> QED  BY <1>3, <1>4

\* Close, before its last write: a piece of what the flush of the compressor writes.
LEMMA FlushGoesOn ==
    ASSUME Masks, IInv, NEW w \in Writer, Flush(w)
    PROVE  GoesOn /\ (WriterAt').msg \in Nat
<1>0. TypeOK /\ WriterInv /\ WindowInv /\ WireInv /\ Writing /\ mw.flate /\ cfg.flate
      /\ cfg' = cfg /\ rd' = rd /\ limit' = limit /\ out' = out
  BY NoneIsNoWriter, Zenon DEF IInv, Flush, Writing, WriterInv
<1>1. PICK e \in FlushEmit : Written([Trim(mw, e) EXCEPT !.flushed = @ + e])
  BY DEF Flush
<1>2. e \in Length /\ e \in Nat
  BY SizesAreNumbers DEF Length
<1>3. mw \in MW /\ mw.z \in Nat /\ mw.flushed \in Nat /\ mw.flushed <= mw.z
      /\ mw.flate = TRUE
  BY <1>0 DEF TypeOK, MW, WriterInv
<1> DEFINE y == out[mw.msg]
           t == Trim(mw, e)
           u == [t EXCEPT !.flushed = @ + e]
<1>4. y \in Message /\ mw.msg = Len(out) /\ mw.msg \in 1..Len(out) /\ y.flate = TRUE
      /\ ~y.done
  BY <1>0, <1>3, WriterAtType, Zenon DEF WriterInv
<1>5. Changed(out', out, y)
  BY <1>0, <1>4 DEF Changed, TypeOK
<1>6. Keeps(out, out', WriterAt.msg)
  <2>1. y.len >= y.len
    BY <1>4 DEF Message
  <2> QED  BY <1>0, <1>4, <1>5, <2>1, ChangedKeeps, SMT, SMTT(60)
<1>7. Alike(mw, mw) /\ mw.text = End(out', mw.msg)
  BY <1>0, <1>3, <1>4 DEF Alike, WindowInv
<1>8. mw' = Clear(u) /\ wire' = wire \o u.frames /\ t = Trim(mw, e)
  BY <1>1, Zenon DEF Written, Clear
<1> HIDE DEF t
<1>9. t \in MW /\ Same(t, mw) =>
        /\ mw' \in MW /\ Follows(mw', t) /\ mw'.flushed <= mw.z + e
        /\ wire' = Sent(wire, t)
  <2> SUFFICES ASSUME t \in MW, Same(t, mw)
               PROVE  /\ mw' \in MW /\ Follows(mw', t) /\ mw'.flushed <= mw.z + e
                      /\ wire' = Sent(wire, t)
    OBVIOUS
  <2>1. t.flushed = mw.flushed
    BY DEF Same
  <2>2. t.flushed + e \in Nat /\ t.flushed + e <= mw.z + e
    BY <1>2, <1>3, <2>1
  <2>3. /\ u \in MW /\ u.mu = t.mu /\ u.msg = t.msg /\ u.flate = t.flate
        /\ u.text = t.text /\ u.opcode = t.opcode /\ u.tail = t.tail /\ u.z = t.z
        /\ u.flushed = t.flushed + e /\ u.frames = t.frames
    BY <2>2 DEF MW
  <2> HIDE DEF u
  <2>4. mw' \in MW /\ Same(mw', u) /\ Settled(mw', u)
    BY <1>8, <2>3, ClearType
  <2>5. wire' = Sent(wire, t)
    BY <1>8, <2>3, Zenon DEF Sent
  <2> QED  BY <2>2, <2>3, <2>4, <2>5 DEF Same, Settled, Follows
<1> HIDE DEF y
<1>10. y.win = out[mw.msg].win
  BY DEF y
<1> QED  BY <1>0, <1>2, <1>3, <1>4, <1>5, <1>6, <1>7, <1>8, <1>9, <1>10, TrimGoesOn, Zenon

\* A step that ends a message.
LEMMA EndsMessage ==
    ASSUME TypeOK, cfg' = cfg, rd' = rd, limit' = limit, mw' \in MW, mw'.mu = none,
           mw'.frames = <<>>, out' \in Seq(Message), Len(out') = mw'.msg, WindowInv',
           Keeps(out, out', WriterAt.msg), wire' \in Seq(Frame),
           WriterAt.msg <= mw'.msg, Leads(out', wire', Position(mw'.msg, 0, FALSE))
    PROVE  GoesOn /\ (WriterAt').msg \in Nat
<1>1. TypeOK'
  BY SMT, SMTT(60) DEF TypeOK
<1>2. WriterInv'
  BY DEF WriterInv, Writing
<1>3. WriterAt' = Position(mw'.msg, 0, FALSE)
  BY Zenon DEF WriterAt, Writing
<1>4. (WriterAt').msg = mw'.msg /\ mw'.msg \in Nat
  BY <1>3, SMT, SMTT(60) DEF Position, MW
<1> QED  BY <1>1, <1>2, <1>3, <1>4, Zenon DEF GoesOn

\* Close: the last frame has fin, and the tail of the deflate stream is not sent.
LEMMA CloseGoesOn ==
    ASSUME Masks, IInv, NEW w \in Writer, Close(w)
    PROVE  GoesOn /\ (WriterAt').msg \in Nat
<1>0. TypeOK /\ WriterInv /\ WindowInv /\ WireInv /\ Writing
      /\ cfg' = cfg /\ rd' = rd /\ limit' = limit /\ (mw.flate => mw.flushed > 4)
  BY NoneIsNoWriter DEF IInv, Close, Writing
<1> DEFINE L == mw.msg
           x == out[L]
           y == [x EXCEPT !.z = mw.z, !.done = TRUE]
           a == Sending
           t == PutFrame(mw, TRUE, 0, 0)
           u == [t EXCEPT !.mu = none]
<1>1. out' = [out EXCEPT ![Len(out)].z = mw.z, ![Len(out)].done = TRUE]
  BY DEF Close
<1>2. mw' = Clear(u) /\ wire' = wire \o u.frames /\ t = PutFrame(mw, TRUE, 0, 0)
  BY ZenonT(60) DEF Close, Written, Clear
<1>3. /\ x \in Message /\ L = Len(out) /\ L \in 1..Len(out) /\ a \in Nat
      /\ WriterAt = At(mw, a) /\ Base(At(mw, a)) = a /\ WriterAt.msg <= L
      /\ x.flate = mw.flate
  BY <1>0, WriterAtType DEF WriterInv
<1>4. mw \in MW /\ mw.z \in Nat /\ cfg \in CFG /\ wire \in Seq(Frame)
      /\ mw.flushed \in Nat /\ out \in Seq(Message) /\ L \in Nat
  BY <1>0, SMT, SMTT(60) DEF TypeOK, MW
<1>5. mw.flate => cfg.flate /\ mw.flushed <= mw.z /\ mw.tail = Smaller(mw.z, 4)
  BY <1>0 DEF WriterInv
<1>6. /\ y \in Message /\ y.len = x.len /\ y.flate = x.flate /\ y.win = x.win
      /\ y.done = TRUE /\ y.z = mw.z
  BY <1>3, <1>4, Zenon DEF Message
<1>7. out' = [out EXCEPT ![Len(out)] = y]
  BY <1>1, <1>3, <1>4, Zenon
<1> HIDE DEF x, y, a, t
<1>8. Changed(out', out, y)
  <2>1. Len(out) > 0
    BY <1>3, <1>4
  <2>2. y \in Message
    BY <1>6
  <2> QED  BY <1>4, <1>7, <2>1, <2>2, ChangedType, Zenon
<1>9. out' \in Seq(Message) /\ out'[L] = y /\ Len(out') = L
      /\ \A m \in 1..(L - 1) : out'[m] = out[m]
  BY <1>3, <1>8, SMT, SMTT(60) DEF Changed
<1>10. Keeps(out, out', WriterAt.msg)
  <2>1. y.len >= x.len
    BY <1>3, <1>6 DEF Message
  <2> QED  BY <1>0, <1>6, <1>8, <2>1, ChangedKeeps DEF x
<1>11. Fits(mw, out', TRUE, 0, 0, a)
  <2>1. a + 0 = Total(out', L)
    <3>1. CASE mw.flate
      <4>1. mw.tail = 4
        BY <1>0, <1>4, <1>5, <3>1 DEF Smaller
      <4>2. a = mw.z - 4
        BY <3>1, <4>1 DEF a, Sending
      <4>3. Total(out', L) = y.z - 4
        BY <1>3, <1>6, <1>9, <3>1, Zenon DEF Total
      <4> QED  BY <1>3, <1>6, <4>2, <4>3
    <3>2. CASE ~mw.flate
      <4>1. a = x.len
        BY <3>2 DEF a, Sending, x
      <4>2. Total(out', L) = y.len
        BY <1>3, <1>6, <1>9, <3>2 DEF Total
      <4> QED  BY <1>3, <1>6, <4>1, <4>2
    <3> QED  BY <3>1, <3>2, SMT, SMTT(60)
  <2>2. L \in 1..Len(out') /\ ~(0 > 0)
    BY <1>3, <1>9
  <2>3. out'[L].flate = mw.flate /\ out'[L].done
    BY <1>3, <1>6, <1>9, Zenon
  <2>4. ~mw.flate => a + 0 <= out'[L].len
    <3>1. ~mw.flate => Total(out', L) = out'[L].len
      BY <2>3 DEF Total
    <3> QED  BY <1>3, <2>1, <3>1, SMT, SMTT(60)
  <2> QED  BY <1>3, <1>5, <2>1, <2>2, <2>3, <2>4, Zenon DEF Fits
<1>12. /\ t \in MW /\ Same(t, mw) /\ Leads(out', Sent(wire, t), After(mw, TRUE, 0, a))
  <2>1. Leads(out', Sent(wire, mw), At(mw, a))
    BY <1>0, <1>3, <1>9, <1>10, LeadsOn
  <2>2. 0 \in Length /\ 0 \in Nat
    BY SMT DEF Length, MaxLength
  <2> QED  BY <1>2, <1>3, <1>4, <1>9, <1>11, <2>1, <2>2, PutLeads, ZenonT(60)
<1>13. /\ u \in MW /\ u.mu = none /\ u.msg = t.msg /\ u.frames = t.frames
       /\ u.text = t.text
  BY <1>12 DEF MW
<1> HIDE DEF u
<1>14. mw' \in MW /\ Same(mw', u) /\ Settled(mw', u)
  BY <1>2, <1>13, ClearType, SMT, SMTT(60)
<1>15. mw'.mu = none /\ mw'.msg = L /\ mw'.frames = <<>> /\ mw'.text = mw.text
  BY <1>12, <1>13, <1>14 DEF Same, Settled
<1>16. wire' = Sent(wire, t) /\ wire' \in Seq(Frame)
  <2>1. wire' = Sent(wire, t)
    BY <1>2, <1>13, Zenon DEF Sent
  <2> QED  BY <1>4, <1>12, <2>1, SentType
<1>17. WindowInv'
  <2>1. out'[L].win = out[L].win
    BY <1>6, <1>9 DEF x
  <2>2. mw'.text = End(out', L)
    <3>1. mw.text = End(out, L)
      BY <1>0, <1>3 DEF WindowInv
    <3>2. out'[L].flate = x.flate /\ out'[L].len = x.len /\ out'[L].win = x.win
      BY <1>6, <1>9, Zenon
    <3>3. End(out', L) = End(out, L)
      BY <3>2 DEF End, x
    <3> QED  BY <1>15, <3>1, <3>3, SMT, SMTT(60)
  <2> HIDE DEF L
  <2>3. L > 0
    BY <1>3, <1>4
  <2> QED  BY <1>0, <1>3, <1>4, <1>9, <2>1, <2>2, <2>3, WindowChange, SMT, SMTT(60)
<1>18. Leads(out', wire', Position(mw'.msg, 0, FALSE))
  <2>1. After(mw, TRUE, 0, a) = Position(L, 0, FALSE)
    BY ZenonT(60) DEF After
  <2> QED  BY <1>12, <1>15, <1>16, <2>1, Zenon
<1> QED  BY <1>0, <1>3, <1>9, <1>10, <1>14, <1>15, <1>16, <1>17, <1>18, EndsMessage, ZenonT(60)

\* Conn.Write without compression: a message in one frame.
LEMMA WriteOnceGoesOn ==
    ASSUME Masks, IInv, NEW w \in Writer, WriteOnce(w)
    PROVE  GoesOn /\ (WriterAt').msg \in Nat
<1>0. TypeOK /\ WriterInv /\ WindowInv /\ WireInv /\ mw.mu = none
      /\ cfg' = cfg /\ rd' = rd /\ limit' = limit
  BY DEF IInv, WriteOnce
<1> DEFINE L == mw.msg
           e(n) == [len |-> n, flate |-> FALSE, z |-> 0, win |-> EncoderWindow,
                    done |-> TRUE]
           s == [mw EXCEPT !.msg = @ + 1, !.opcode = opText, !.flate = FALSE]
<1>1. PICK n \in Chunk : out' = Append(out, e(n)) /\ Written(PutFrame(s, TRUE, 0, n))
  BY Zenon DEF WriteOnce
<1> DEFINE y == e(n)
           t == PutFrame(s, TRUE, 0, n)
<1>2. n \in Length /\ n \in Nat
  BY SizesAreNumbers DEF Length
<1>3. mw' = Clear(t) /\ wire' = Sent(wire, t) /\ t = PutFrame(s, TRUE, 0, n)
  BY <1>1, Zenon DEF Written, Clear, Sent
<1>4. /\ y \in Message /\ y.win = EncoderWindow /\ y.flate = FALSE /\ y.done = TRUE
      /\ y.len = n
  <2>1. mw.text \in Nat
    BY <1>0 DEF TypeOK, MW
  <2>2. EncoderWindow \in [lo : Nat, hi : Nat]
    BY <2>1, SizesAreNumbers DEF EncoderWindow, Larger
  <2> QED  BY <1>2, <2>2 DEF Message
<1>5. out' = Append(out, y)
  BY <1>1, SMT, SMTT(60)
<1> HIDE DEF e, y, t
<1>6. mw \in MW /\ cfg \in CFG /\ wire \in Seq(Frame) /\ out \in Seq(Message)
      /\ L \in Nat /\ Len(out) = L /\ mw.frames = <<>>
  BY <1>0 DEF TypeOK, MW, WriterInv
<1>7. /\ s \in MW /\ s.msg = L + 1 /\ s.opcode = opText /\ s.flate = FALSE
      /\ s.frames = mw.frames /\ s.text = mw.text /\ s.mu = none
  <2>1. L + 1 \in Nat
    BY <1>6
  <2> QED  BY <1>0, <1>6, <2>1, Zenon DEF MW
<1> HIDE DEF s
<1>8. /\ out' \in Seq(Message) /\ Len(out') = L + 1 /\ out'[L + 1] = y
      /\ \A m \in 1..L : out'[m] = out[m]
  BY <1>4, <1>5, <1>6
<1>9. WriterAt = Position(L, 0, FALSE) /\ WriterAt.msg = L /\ WriterAt \in Positions
  <2>1. ~Writing
    BY <1>0 DEF Writing
  <2>2. WriterAt = Position(L, 0, FALSE) /\ WriterAt \in Positions
    BY <1>0, <2>1, WriterAtType, Zenon
  <2> QED  BY <2>2 DEF Position
<1>10. Keeps(out, out', WriterAt.msg)
  <2>1. \A m \in 1..L : out[m] \in Message /\ m \in 1..Len(out')
    BY <1>6, <1>8
  <2>2. \A m \in 1..L : out[m].len \in Nat
    BY <2>1 DEF Message
  <2> HIDE DEF L
  <2>3. \A m \in 1..L : out'[m].len >= out[m].len
    BY <1>8, <2>2
  <2> QED  BY <1>8, <1>9, <2>1, <2>3, Zenon DEF Keeps
<1>11. At(s, 0) = WriterAt /\ Base(At(s, 0)) = 0
  <2>1. At(s, 0) = Position(s.msg - 1, 0, FALSE)
    BY <1>7 DEF At, opText, opContinuation
  <2>2. s.msg - 1 = L
    BY <1>6, <1>7
  <2>3. At(s, 0) = Position(L, 0, FALSE)
    BY <2>1, <2>2, Zenon
  <2> QED  BY <1>9, <2>3, SMT, SMTT(60) DEF Base, Position
<1>12. Fits(s, out', TRUE, 0, n, 0)
  <2>1. s.msg \in 1..Len(out') /\ out'[s.msg] = y
    BY <1>6, <1>7, <1>8
  <2>2. out'[s.msg].flate = FALSE /\ out'[s.msg].done /\ out'[s.msg].len = n
    BY <1>4, <2>1, Zenon
  <2>3. Total(out', s.msg) = n
    BY <2>2 DEF Total
  <2>4. 0 + n <= n /\ 0 + n = n
    BY <1>2
  <2> QED  BY <1>7, <1>11, <2>1, <2>2, <2>3, <2>4, Zenon DEF Fits
<1>13. t \in MW /\ Same(t, s) /\ Leads(out', Sent(wire, t), After(s, TRUE, n, 0))
  <2>1. Leads(out', Sent(wire, mw), At(s, 0))
    BY <1>0, <1>8, <1>10, <1>11, LeadsOn
  <2>2. Leads(out', Sent(wire, s), At(s, 0))
    BY <1>7, <2>1, Zenon DEF Sent
  <2>3. 0 \in Nat
    OBVIOUS
  <2> QED  BY <1>2, <1>3, <1>6, <1>7, <1>8, <1>12, <2>2, <2>3, PutLeads, ZenonT(60)
<1>14. mw' \in MW /\ Same(mw', t) /\ Settled(mw', t)
  BY <1>3, <1>13, ClearType, ZenonT(60)
<1>15. mw'.mu = none /\ mw'.msg = L + 1 /\ mw'.frames = <<>> /\ mw'.text = mw.text
  BY <1>7, <1>13, <1>14, SMT, SMTT(60) DEF Same, Settled
<1>16. WindowInv'
  BY <1>0, <1>4, <1>5, <1>15, WindowAppend
<1>17. wire' \in Seq(Frame)
  BY <1>3, <1>6, <1>13, SentType, Zenon
<1>18. Leads(out', wire', Position(mw'.msg, 0, FALSE))
  <2>1. After(s, TRUE, n, 0) = Position(s.msg, 0, FALSE)
    BY Zenon DEF After
  <2> QED  BY <1>3, <1>7, <1>13, <1>15, <2>1, Zenon
<1>19. Len(out') = mw'.msg /\ WriterAt.msg <= mw'.msg
  <2>1. L <= L + 1
    BY <1>6
  <2> QED  BY <1>8, <1>9, <1>15, <2>1, Zenon
<1> QED  BY <1>0, <1>8, <1>10, <1>14, <1>15, <1>16, <1>17, <1>18, <1>19, EndsMessage, SMT, SMTT(60)

\* A header that the reader skips or refuses where the writer is.
Passing(h) ==
    Refused(h) \/ h.opcode >= opClose \/ WriterAt.open # (h.opcode = opContinuation)

\* Control frames and what breaks the protocol are no part of a message.
LEMMA ControlHeaders ==
    ASSUME TypeOK, NEW hdr \in {WriteFrameHeader(ControlHeader)} \cup Breach
    PROVE  hdr \in Seq(Nat) /\ Passing(ReadFrameHeader(hdr))
<1>1. cfg.client \in BOOLEAN /\ 0 \in Length
  BY SMT, SMTT(60) DEF TypeOK, CFG, Length, MaxLength
<1>2. ControlHeader \in Header
  BY <1>1 DEF ControlHeader, Header, opPing
<1> DEFINE c == ControlHeader
           h1 == [c EXCEPT !.rsv2 = TRUE]
           h2 == [c EXCEPT !.rsv1 = TRUE]
           h3 == [c EXCEPT !.opcode = 3]
           h4 == [c EXCEPT !.masked = FALSE, !.opcode = IF cfg.client THEN opText ELSE 3]
           h5 == [c EXCEPT !.opcode =
                    IF mw.mu # none /\ mw.opcode = opContinuation THEN opText
                    ELSE opContinuation]
           raw == <<130, 127, 255, 0, 0, 0, 0, 0, 0, 1>>
<1>3. c.opcode = opPing
  BY DEF ControlHeader
<1>4. \/ \E h \in {c, h1, h2, h3, h4, h5} : hdr = WriteFrameHeader(h)
      \/ hdr = raw
  BY ZenonT(60) DEF Breach
<1> HIDE DEF c
<1>5. \A h \in {c, h1, h2, h3, h4, h5} : h \in Header
  <2>1. h1 \in Header /\ h2 \in Header
    BY <1>2, Zenon DEF Header, c
  <2>2. h3 \in Header
    BY <1>2 DEF Header, c
  <2>4. h4 \in Header
    <3> DEFINE op == IF cfg.client THEN opText ELSE 3
    <3>1. op \in 0..15 /\ c \in Header /\ h4 = [c EXCEPT !.masked = FALSE, !.opcode = op]
      BY <1>2 DEF opText, c
    <3> HIDE DEF op, h4
    <3> QED  BY <3>1, Zenon DEF Header
  <2>3. h5 \in Header
    BY <1>2 DEF Header, c, opText, opContinuation
  <2> HIDE DEF h1, h2, h3, h4, h5
  <2> QED  BY <1>2, <2>1, <2>2, <2>3, <2>4, Zenon DEF c
<1>6. Passing(c) /\ Passing(h1) /\ Passing(h2)
  <2>1. h1.opcode = opPing /\ h2.opcode = opPing
    BY <1>2, <1>3 DEF Header, c
  <2>2. opPing >= opClose
    BY DEF opPing, opClose
  <2> HIDE DEF h1, h2
  <2> QED  BY <1>3, <2>1, <2>2 DEF Passing
<1>7. Passing(h3)
  <2>1. h3.opcode = 3
    BY <1>2 DEF Header, c
  <2> HIDE DEF h3
  <2> QED  BY <2>1 DEF Passing, Refused, opContinuation, opText, opBinary, opClose, opPing,
                       opPong
<1>8. Passing(h4)
  <2>1. h4.masked = FALSE /\ h4.opcode = IF cfg.client THEN opText ELSE 3
    BY <1>2 DEF Header, c
  <2> HIDE DEF h4
  <2> QED  BY <2>1 DEF Passing, Refused, opContinuation, opText, opBinary, opClose, opPing,
                       opPong
<1>9. Passing(h5)
  <2>1. h5.opcode = IF mw.mu # none /\ mw.opcode = opContinuation THEN opText
                    ELSE opContinuation
    BY <1>2 DEF Header, c
  <2>2. WriterAt.open = (mw.mu # none /\ mw.opcode = opContinuation)
    BY Zenon DEF WriterAt, Writing, Position
  <2> HIDE DEF h5
  <2> QED  BY <2>1, <2>2 DEF Passing, opContinuation, opText
<1>10. raw \in Seq(Nat) /\ Passing(ReadFrameHeader(raw))
  <2>1. raw \in Seq(Nat) /\ raw[2] = 127 /\ raw[3] = 255
    BY SMT
  <2> HIDE DEF raw
  <2>2. ReadFrameHeader(raw).payloadLength = -1
    <3>1. 127 % 128 = 127 /\ 255 >= 128 /\ 2 + 1 = 3
      OBVIOUS
    <3>2. Int64(raw, 2) = -1
      BY <2>1, <3>1 DEF Int64
    <3> QED  BY <2>1, <3>1, <3>2 DEF ReadFrameHeader
  <2> QED  BY <2>1, <2>2 DEF Passing, Refused
<1>11. ASSUME NEW h \in {c, h1, h2, h3, h4, h5}, hdr = WriteFrameHeader(h)
       PROVE  hdr \in Seq(Nat) /\ Passing(ReadFrameHeader(hdr))
  <2>1. h \in Header /\ Passing(h)
    <3> HIDE DEF h1, h2, h3, h4, h5
    <3> QED  BY <1>5, <1>6, <1>7, <1>8, <1>9, Zenon
  <2> QED  BY <1>11, <2>1, HeaderRoundTrip
<1> HIDE DEF h1, h2, h3, h4, h5, raw
<1> QED  BY <1>4, <1>10, <1>11, Zenon

\* So they can stand anywhere on the path.
LEMMA ControlGoesOn ==
    ASSUME IInv, ControlFrame
    PROVE  GoesOn /\ (WriterAt').msg \in Nat
<1>0. TypeOK /\ WriterInv /\ WindowInv /\ WireInv /\ out' = out
      /\ cfg' = cfg /\ rd' = rd /\ limit' = limit /\ mw' = [mw EXCEPT !.buf = 0]
  BY DEF IInv, ControlFrame
<1> DEFINE f(hdr) == [hdr |-> hdr, msg |-> 0, from |-> 0, len |-> 0, sound |-> TRUE]
<1>1. PICK hdr \in {WriteFrameHeader(ControlHeader)} \cup Breach :
             wire' = Append(wire, f(hdr))
  BY Zenon DEF ControlFrame
<1>2. hdr \in Seq(Nat) /\ Passing(ReadFrameHeader(hdr))
  BY <1>0, ControlHeaders, SMT, SMTT(60)
<1> DEFINE g == f(hdr)
<1>3. g \in Frame /\ g.msg = 0 /\ g.hdr = hdr
  BY <1>2 DEF Frame
<1>4. wire' = Append(wire, g) /\ wire \in Seq(Frame) /\ mw \in MW /\ out \in Seq(Message)
  BY <1>0, <1>1 DEF TypeOK
<1> HIDE DEF f, g
<1>5. Step(out, g, WriterAt, WriterAt)
  BY <1>2, <1>3, Zenon DEF Step, Skipped, Passing
<1>6. WriterAt \in Positions /\ WriterAt.msg \in Nat
  BY <1>0, WriterAtType
<1>7. Leads(out', wire', WriterAt)
  <2>1. Leads(out, wire, WriterAt)
    BY <1>0 DEF WireInv
  <2>2. Leads(out, Append(wire, g), WriterAt)
    BY <1>3, <1>4, <1>5, <1>6, <2>1, LeadsAppend
  <2> QED  BY <1>0, <1>4, <2>2, Zenon
<1>8. /\ mw' \in MW /\ mw'.mu = mw.mu /\ mw'.msg = mw.msg /\ mw'.opcode = mw.opcode
      /\ mw'.flate = mw.flate /\ mw'.tail = mw.tail /\ mw'.z = mw.z
      /\ mw'.flushed = mw.flushed /\ mw'.text = mw.text /\ mw'.frames = mw.frames
  <2>1. 0 \in 0..BufLen
    BY SizesAreNumbers
  <2> QED  BY <1>0, <1>4, <2>1, Zenon DEF MW
<1>9. WriterAt' = WriterAt
  <2>1. CASE mw.mu # none /\ mw.opcode = opContinuation
    BY <1>0, <1>8, <2>1 DEF WriterAt, Writing
  <2>2. CASE ~(mw.mu # none /\ mw.opcode = opContinuation)
    BY <1>0, <1>8, <2>2 DEF WriterAt, Writing
  <2> QED  BY <2>1, <2>2
<1>10. TypeOK'
  BY <1>0, <1>3, <1>4, <1>8 DEF TypeOK
<1>11. WriterInv' /\ WindowInv'
  BY <1>0, <1>8 DEF WriterInv, Writing, WindowInv
<1>12. Keeps(out, out', WriterAt.msg)
  <2>1. WriterAt.msg <= Len(out) /\ Len(out) \in Nat
    <3>1. Len(out) = mw.msg /\ mw.msg \in Nat
      BY <1>0 DEF WriterInv, TypeOK, MW
    <3>2. WriterAt.msg <= mw.msg
      BY <1>0, WriterAtType
    <3> QED  BY <3>1, <3>2
  <2>2. \A m \in 1..WriterAt.msg : out[m] \in Message
    BY <1>4, <1>6, <2>1
  <2>3. \A m \in 1..WriterAt.msg : out[m].len >= out[m].len
    BY <2>2 DEF Message
  <2> QED  BY <1>0, <2>3, Zenon DEF Keeps
<1>13. WriterAt.msg <= WriterAt.msg
  BY <1>6
<1> QED  BY <1>6, <1>7, <1>9, <1>10, <1>11, <1>12, <1>13, Zenon DEF GoesOn

-----------------------------------------------------------------------------
(* The masking, by induction on the pieces.                                *)

LOCAL INSTANCE WellFoundedInduction

\* Induction: a set of numbers has a least one.
LEMMA Least ==
    ASSUME NEW S \in SUBSET Nat, S # {}
    PROVE  \E n \in S : \A k \in S : n <= k
<1>1. ASSUME NEW i \in Nat, NEW j \in Nat
      PROVE  <<i, j>> \in OpToRel(<, Nat) <=> i < j
  <2>1. <<i, j>> \in Nat \X Nat /\ <<i, j>>[1] = i /\ <<i, j>>[2] = j
    OBVIOUS
  <2> QED  BY <2>1, Zenon DEF OpToRel
<1>2. PICK n \in S : \A k \in S : <<k, n>> \notin OpToRel(<, Nat)
  BY NatLessThanWellFounded, WFMin, Zenon
<1>3. \A k \in S : ~(k < n)
  BY <1>1, <1>2, Zenon
<1> QED  BY <1>3

\* A payload that is masked piece by piece is masked as a whole.
LEMMA MaskChain ==
    ASSUME NEW r \in Nat, NEW start, NEW rot,
           \A k \in 1..r : start[k] \in Nat,
           \A k \in 2..r : start[k - 1] <= start[k],
           r > 0 => start[1] = 0,
           \A k \in 1..r : rot[k] = IF k = 1 THEN 0
                                     ELSE Mask(rot[k - 1], start[k] - start[k - 1])
    PROVE  \A k \in 1..r : rot[k] = start[k] % KeyLen
<1> DEFINE Bad == {k \in 1..r : rot[k] # start[k] % KeyLen}
<1> SUFFICES ASSUME Bad # {} PROVE FALSE
  OBVIOUS
<1>1. PICK n \in Bad : \A k \in Bad : n <= k
  <2>1. Bad \in SUBSET Nat
    OBVIOUS
  <2> QED  BY <2>1, Least, Zenon
<1>2. n \in 2..r
  BY <1>1, SMT, SMTT(60) DEF KeyLen
<1>3. n - 1 \in 1..r /\ n - 1 \notin Bad
  BY <1>1, <1>2, SMT, SMTT(60)
<1>4. rot[n - 1] = start[n - 1] % KeyLen
  BY <1>3, SMT, SMTT(60)
<1> DEFINE a == start[n - 1]
           b == start[n]
<1>5. a \in Nat /\ b \in Nat /\ a <= b
  BY <1>2, <1>3, SMT, SMTT(60)
<1>6. rot[n] = Mask(a % KeyLen, b - a)
  BY <1>2, <1>4, SMT, SMTT(60)
<1> HIDE DEF a, b
<1>7. Mask(a % KeyLen, b - a) = b % KeyLen
  <2>1. a % KeyLen \in Nat /\ b - a \in Nat
    BY <1>5 DEF KeyLen
  <2> QED  BY <1>5, <2>1, MaskAdds, SMT, SMTT(60) DEF KeyLen
<1> QED  BY <1>1, <1>6, <1>7 DEF b

\* A payload is masked right wherever it begins in the buffer, and however long it is.
LEMMA MaskedRight ==
    ASSUME NEW b \in 0..BufLen, NEW n \in Nat
    PROVE  MaskedInPieces(b, n)
<1> DEFINE first == Smaller(n, IF b = BufLen THEN BufLen ELSE BufLen - b)
           pieces == 1 + (n - first + BufLen - 1) \div BufLen
           start == [k \in 1..pieces |-> IF k = 1 THEN 0 ELSE first + (k - 2) * BufLen]
           D(f) == [k \in 1..pieces |->
                      IF k = 1 THEN 0 ELSE Mask(f[k - 1], start[k] - start[k - 1])]
           rot == CHOOSE f : f = D(f)
           whole == [k \in 1..pieces |-> start[k] % KeyLen]
<1>1. BufLen \in Nat \ {0}
  BY SizesAreNumbers
<1>2. first \in 0..n
  BY <1>1 DEF Smaller
<1>3. pieces \in Nat
  <2> HIDE DEF first
  <2>1. n - first + BufLen - 1 \in Nat
    BY <1>1, <1>2
  <2>2. (n - first + BufLen - 1) \div BufLen \in Nat
    BY <1>1, <2>1
  <2> QED  BY <2>2
<1> HIDE DEF first, pieces
<1>4. /\ \A k \in 1..pieces : start[k] \in Nat
      /\ \A k \in 2..pieces : start[k - 1] <= start[k]
      /\ pieces > 0 => start[1] = 0
  <2>1. \A k \in 2..pieces : (k - 2) * BufLen \in Nat
    BY <1>1, <1>3
  <2>2. \A k \in 3..pieces : (k - 2) * BufLen = (k - 3) * BufLen + BufLen
    BY <1>1, <1>3
  <2>3. \A k \in 1..pieces : start[k] \in Nat
    BY <1>1, <1>2, <1>3, <2>1, SMT, SMTT(60)
  <2>4. \A k \in 2..pieces : start[k - 1] <= start[k]
    <3> SUFFICES ASSUME NEW k \in 2..pieces PROVE start[k - 1] <= start[k]
      BY Zenon
    <3>1. CASE k = 2
      BY <1>1, <1>2, <1>3, <3>1, SMT, SMTT(60)
    <3>2. CASE k # 2
      <4>1. k \in 3..pieces /\ k - 1 \in 2..pieces /\ (k - 1) - 2 = k - 3
        BY <1>3, <3>2
      <4>2. (k - 3) * BufLen \in Nat
        BY <4>1, <1>1, <1>3, SMT, SMTT(60)
      <4> QED  BY <1>1, <1>2, <1>3, <2>1, <2>2, <4>1, <4>2, SMT, SMTT(60)
    <3> QED  BY <3>1, <3>2
  <2>5. pieces > 0 => start[1] = 0
    BY <1>3
  <2> HIDE DEF start
  <2> QED  BY <2>3, <2>4, <2>5, Zenon
<1> HIDE DEF start
<1>5. \A k \in 2..pieces : whole[k] = Mask(whole[k - 1], start[k] - start[k - 1])
  <2> SUFFICES ASSUME NEW k \in 2..pieces
               PROVE  whole[k] = Mask(whole[k - 1], start[k] - start[k - 1])
    BY Zenon
  <2> DEFINE s == start[k - 1]
             t == start[k]
  <2>1. k \in 1..pieces /\ k - 1 \in 1..pieces
    BY <1>3
  <2>2. s \in Nat /\ t \in Nat /\ s <= t
    BY <1>4, <2>1, SMT, SMTT(60)
  <2>3. whole[k - 1] = s % KeyLen /\ whole[k] = t % KeyLen
    BY <2>1
  <2> HIDE DEF s, t, whole
  <2>4. s % KeyLen \in Nat /\ t - s \in Nat
    BY <2>2 DEF KeyLen
  <2>5. t % KeyLen = Mask(s % KeyLen, t - s)
    BY <2>2, <2>4, MaskAdds DEF KeyLen
  <2> QED  BY <2>3, <2>5 DEF s, t
<1>6. pieces > 0 => whole[1] = 0
  BY <1>3, <1>4 DEF KeyLen
<1>7. whole = D(whole)
  <2>1. \A k \in 1..pieces : whole[k] = IF k = 1 THEN 0
                                         ELSE Mask(whole[k - 1], start[k] - start[k - 1])
    <3> HIDE DEF whole
    <3> QED  BY <1>3, <1>5, <1>6
  <2> QED  BY <2>1, Zenon
<1>8. rot = D(rot)
  BY <1>7, Zenon
<1>9. \A k \in 1..pieces : rot[k] = start[k] % KeyLen
  <2>1. \A k \in 1..pieces : rot[k] = IF k = 1 THEN 0
                                       ELSE Mask(rot[k - 1], start[k] - start[k - 1])
    BY <1>8, Zenon
  <2> HIDE DEF rot
  <2> QED  BY ONLY <1>3, <1>4, <2>1, MaskChain
<1> QED  BY <1>9, Zenon DEF MaskedInPieces, first, pieces, start

-----------------------------------------------------------------------------
(* The theorems.                                                           *)

\* Whatever msgWriter, the trim writer, control frames, msgReader and SetReadLimit do,
\* the frames on the wire lead from the reader to the writer, and the count of the
\* limit and both windows are what the messages say.
THEOREM Inductive == Spec => []IInv
<1>0. Masks
  BY MaskedRight DEF Masks
<1>1. Init => IInv
  BY InitInv
<1>2. IInv /\ [Next]_vars => IInv'
  <2> SUFFICES ASSUME IInv, [Next]_vars PROVE IInv'
    OBVIOUS
  <2>1. ASSUME NEW w \in Writer,
               Reset(w) \/ Write(w) \/ Flush(w) \/ Close(w) \/ WriteOnce(w)
        PROVE  IInv'
    <3>1. GoesOn /\ (WriterAt').msg \in Nat
      BY <1>0, <2>1, ResetGoesOn, WriteGoesOn, FlushGoesOn, CloseGoesOn, WriteOnceGoesOn,
         SMT, SMTT(60)
    <3>2. cfg' = cfg /\ rd' = rd /\ limit' = limit
      BY <2>1, Zenon DEF Reset, Write, Flush, Close, WriteOnce
    <3> QED  BY <3>1, <3>2, WriterStep, SMT, SMTT(60)
  <2>2. CASE ControlFrame
    <3>1. cfg' = cfg /\ rd' = rd /\ limit' = limit
      BY <2>2 DEF ControlFrame
    <3> QED  BY <2>2, <3>1, ControlGoesOn, WriterStep
  <2>3. CASE \/ Reader \/ ReadHeader \/ TooBig \/ ReadPlain \/ ReadRaw \/ ReadText
             \/ ReadFails \/ SetReadLimit
    BY <2>3, ReaderMoves
  <2>4. CASE UNCHANGED vars
    BY <2>4, Stutter
  <2> QED  BY <2>1, <2>2, <2>3, <2>4 DEF Next
<1> QED  BY <1>1, <1>2, PTL DEF Spec

\* msgReader gives the bytes of each message in order, unmasked and decompressed, and
\* ends it where Close of msgWriter did: read.go and write.go fit together.
THEOREM MessagesArrive == Spec => []ReadsWhatWasWritten
<1>1. IInv => ReadsWhatWasWritten
  BY SMT, SMTT(60) DEF IInv, ReaderInv, ReadsWhatWasWritten
<1> QED  BY <1>1, Inductive, PTL

\* With context takeover the decompressor begins a message with the very window that the
\* compressor had, over any number of messages, compressed or not (compress.go).
THEOREM WindowsInStep == Spec => []WindowsAgree
<1>1. IInv => WindowsAgree
  <2> SUFFICES ASSUME IInv, rd.pc = "data", rd.flate, rd.got = 0, cfg.takeover
               PROVE  rd.dict = out[rd.msg].win
    BY SMT, SMTT(60) DEF WindowsAgree
  <2>1. rd.msg > 0 /\ rd.dict = Window(out[rd.msg].win.hi + IF rd.flate THEN rd.got ELSE 0)
    BY DEF IInv, ReaderInv
  <2>2. rd.msg \in 1..Len(out) /\ out[rd.msg] \in Message
    BY <2>1, ReadingOne, SMT, SMTT(60)
  <2>3. out[rd.msg].win = Window(out[rd.msg].win.hi)
    BY <2>2 DEF IInv, WindowInv
  <2>4. out[rd.msg].win.hi \in Nat
    BY <2>2 DEF Message
  <2>5. out[rd.msg].win.hi + (IF rd.flate THEN rd.got ELSE 0) = out[rd.msg].win.hi
    BY <2>4, SMT, SMTT(60)
  <2> QED  BY <2>1, <2>3, <2>5, SMT, SMTT(60)
<1> QED  BY <1>1, Inductive, PTL

\* limitReader refuses a message if and only if it is longer than the limit that was
\* set when its reading began, at the boundary too (read.go, SetReadLimit).
THEOREM LimitExact == Spec => []LimitIsExact
<1>1. IInv => LimitIsExact
  <2> SUFFICES ASSUME IInv PROVE LimitIsExact
    OBVIOUS
  <2>1. rd.pc = "toobig" => rd.limit >= 0 /\ out[rd.msg].len > rd.limit
    BY DEF IInv, LimitInv
  <2>2. ASSUME rd.pc = "eof", rd.msg > 0, rd.limit >= 0
        PROVE  out[rd.msg].len <= rd.limit
    <3>1. rd.n = rd.limit + 1 - rd.got /\ rd.n >= 0 /\ rd.n # 0
      BY <2>2, SMT, SMTT(60) DEF IInv, LimitInv, Live
    <3>2. rd.got = out[rd.msg].len
      BY <2>2 DEF IInv, ReaderInv
    <3>3. rd.got \in Nat /\ rd.limit \in Int
      BY DEF IInv, TypeOK, RD
    <3>4. rd.got <= rd.limit
      BY <3>1, <3>3
    <3> QED  BY <3>2, <3>4, SMT, SMTT(60)
  <2> QED  BY <2>1, <2>2 DEF LimitIsExact
<1> QED  BY <1>1, Inductive, PTL
=============================================================================
