-------------------------- MODULE FramingReadProofs --------------------------
(***************************************************************************)
(* The inductive invariant of Framing, and half of its proof: what the     *)
(* reader does, and what the frames are worth that the writer sends.       *)
(*                                                                         *)
(* The properties say what the reader has got at the end of a message.     *)
(* They are not inductive: what it will get is on the wire.  The invariant *)
(* says that the frames on the wire lead, one after the other, from where  *)
(* the reader is to where the writer is (Path), and what the window and    *)
(* the limit are in the middle of a message.                               *)
(***************************************************************************)
EXTENDS Framing, TLAPS

-----------------------------------------------------------------------------
(* The invariant.                                                          *)

\* The window after h bytes of text.
Window(h) == [lo |-> Larger(0, h - WindowLen), hi |-> h]

(* Where a frame stream is: after how many bytes of which message, and whether *)
(* frames of that message are to come.                                         *)
Positions == [msg : Nat, at : Nat, open : BOOLEAN]

\* After a bytes of message m, or between message m and the next (o is FALSE).
Position(m, a, o) == [msg |-> m, at |-> a, open |-> o]

\* Where the next frame of a message begins.
Base(p) == IF p.open THEN p.at ELSE 0

\* The bytes of a message on the wire once it is complete.
Total(o, m) == IF o[m].flate THEN o[m].z - 4 ELSE o[m].len

\* A frame that is no part of a message: the reader skips it or fails.
Skipped(f, p) ==
    LET h == ReadFrameHeader(f.hdr)
    IN /\ f.msg = 0
       /\ \/ Refused(h)
          \/ h.opcode >= opClose
          \/ p.open # (h.opcode = opContinuation)

\* A frame that carries the stream from p to q.
Carries(o, f, p, q) ==
    LET h == ReadFrameHeader(f.hdr)
        to == Base(p) + f.len
    IN /\ f.msg \in 1..Len(o)
       /\ f.sound
       /\ ~Refused(h)
       /\ h.opcode < opClose
       /\ f.len = h.payloadLength
       /\ p.open = (h.opcode = opContinuation)
       /\ f.msg = IF p.open THEN p.msg ELSE p.msg + 1
       /\ h.rsv1 = (~p.open /\ o[f.msg].flate)
       /\ f.len > 0 => f.from = Base(p)
       /\ ~o[f.msg].flate => to <= o[f.msg].len
       /\ h.fin => o[f.msg].done /\ to = Total(o, f.msg)
       /\ q = Position(f.msg, IF h.fin THEN 0 ELSE to, ~h.fin)

\* What the frame f does to a reader at p.
Step(o, f, p, q) == (Skipped(f, p) /\ q = p) \/ Carries(o, f, p, q)

\* The frames of w carry the stream from p to q.
Path(o, w, p, q) ==
    \E pos \in [1..(Len(w) + 1) -> Positions] :
        /\ pos[1] = p /\ pos[Len(w) + 1] = q
        /\ \A k \in 1..Len(w) : Step(o, w[k], pos[k], pos[k + 1])

\* What the variables hold.
Frame == [hdr : Seq(Nat), msg : Nat, from : Nat, len : Nat, sound : BOOLEAN]

Message == [len : Nat, flate : BOOLEAN, z : Nat, win : [lo : Nat, hi : Nat],
            done : BOOLEAN]

\* How far the writer got.
Writing == mw.mu # none

\* Compressed, the four bytes that the trim writer keeps have not been sent.
WriterAt ==
    IF Writing /\ mw.opcode = opContinuation
    THEN Position(mw.msg, IF mw.flate THEN mw.z - mw.tail ELSE out[mw.msg].len, TRUE)
    ELSE Position(IF Writing THEN mw.msg - 1 ELSE mw.msg, 0, FALSE)

\* How far the reader got.
Live == rd.pc \in {"eof", "header", "next", "data"}

\* After the payload of the frame that it is reading.
ReaderAt ==
    CASE rd.pc = "next" -> Position(rd.msg, rd.raw, TRUE)
      [] rd.pc = "data" /\ ~rd.fin -> Position(rd.msg, rd.raw + rd.left, TRUE)
      [] OTHER -> Position(rd.msg, 0, FALSE)

\* The text up to the end of a message.
End(o, m) == IF m = 0 THEN 0
             ELSE o[m].win.hi + IF o[m].flate THEN o[m].len ELSE 0

\* The types of the writer, of the reader and of the options.
MW == [mu : Writer \cup {none}, once : BOOLEAN, msg : Nat,
       opcode : {opContinuation, opText}, flate : BOOLEAN, tail : 0..4,
       buf : 0..BufLen, z : Nat, flushed : Nat, text : Nat, frames : Seq(Frame)]

PC == {"eof", "header", "next", "data", "failed", "lost", "toobig", "garbled"}

Windows == [lo : Int, hi : Int]

RD == [pc : PC, fin : BOOLEAN, left : Nat, rot : Nat, off : Nat, flate : BOOLEAN,
       tail : BOOLEAN, n : Int, limit : Int, msg : Nat, raw : Nat, got : Nat,
       dict : Windows]

CFG == [client : BOOLEAN, flate : BOOLEAN, takeover : BOOLEAN]

\* What the variables hold; what was used of the bounds does not matter.
TypeOK ==
    /\ cfg \in CFG
    /\ mw \in MW
    /\ out \in Seq(Message)
    /\ wire \in Seq(Frame)
    /\ rd \in RD
    /\ limit \in [asked : Int, n : Int]

\* The message that is written is the last one; the trim writer keeps four bytes or
\* all there are, and what it lets go has been sent.
WriterInv ==
    /\ mw.frames = <<>>
    /\ Len(out) = mw.msg
    /\ Writing =>
         /\ mw.msg > 0
         /\ ~out[mw.msg].done
         /\ out[mw.msg].flate = mw.flate
         /\ IF mw.flate THEN cfg.flate ELSE mw.z = 0
         /\ mw.tail = Smaller(mw.z, 4)
         /\ mw.flushed <= mw.z
         /\ mw.opcode # opContinuation =>
              mw.z = mw.tail /\ (~mw.flate => out[mw.msg].len = 0)

\* Each message was compressed with the window that the texts before it leave.
WindowInv ==
    /\ mw.text = End(out, Len(out))
    /\ \A m \in 1..Len(out) : /\ out[m].win.hi = End(out, m - 1)
                              /\ cfg.takeover => out[m].win = Window(out[m].win.hi)

\* The frames of w lead the reader to q.
Leads(o, w, q) ==
    /\ \A k \in 1..Len(w) : w[k].msg <= q.msg
    /\ Live => Path(o, w, ReaderAt, q)

\* The reader is behind the writer, and what is on the wire lies between them.
WireInv ==
    /\ rd.msg <= WriterAt.msg
    /\ Leads(out, wire, WriterAt)

\* The count of the limit is what is left of it, one more than a message may use: it
\* is used up only by a message that is too long.
LimitInv ==
    /\ IF limit.asked >= 0 THEN limit.n = limit.asked + 1 ELSE limit.n < 0
    /\ Live /\ rd.msg > 0 => IF rd.limit >= 0
                             THEN rd.n = rd.limit + 1 - rd.got /\ rd.n >= 0
                             ELSE rd.n < 0
    /\ rd.pc = "eof" /\ rd.msg > 0 => rd.n # 0
    /\ rd.pc = "toobig" => /\ rd.msg > 0 /\ rd.limit >= 0
                           /\ out[rd.msg].len > rd.limit

\* What the reader has got of a message, what is still to come of it in this frame,
\* how far the key is rotated and what the window is.
ReaderInv ==
    /\ rd.pc # "garbled"
    /\ rd.pc \in {"next", "data"} => 
         /\ rd.msg > 0
         /\ rd.flate = out[rd.msg].flate
         /\ ~rd.flate => rd.got = rd.raw
         /\ rd.flate /\ ~rd.tail => rd.got = 0
         /\ cfg.client => rd.rot = rd.off % KeyLen
         /\ cfg.takeover =>
              rd.dict = Window(out[rd.msg].win.hi + IF rd.flate THEN rd.got ELSE 0)
    /\ rd.pc = "next" => ~rd.tail
    /\ rd.pc = "data" =>
         /\ ~rd.flate => rd.raw + rd.left <= out[rd.msg].len
         /\ rd.fin => out[rd.msg].done /\ rd.raw + rd.left = Total(out, rd.msg)
         /\ rd.tail => rd.flate /\ rd.fin /\ rd.left = 0 /\ rd.got <= out[rd.msg].len
    /\ rd.pc \in {"eof", "header"} =>
         /\ rd.msg > 0 => out[rd.msg].done
         /\ cfg.takeover => rd.dict = Window(End(out, rd.msg))
    /\ rd.pc = "eof" /\ rd.msg > 0 => rd.got = out[rd.msg].len

\* The strengthening of ReadsWhatWasWritten, WindowsAgree and LimitIsExact.
IInv ==
    /\ TypeOK /\ WriterInv /\ WindowInv /\ WireInv /\ LimitInv /\ ReaderInv

\* Where the stream is in the message that s writes, after a bytes of it.
At(s, a) == IF s.opcode = opContinuation THEN Position(s.msg, a, TRUE)
            ELSE Position(s.msg - 1, 0, FALSE)

\* The bytes of the message on the wire.
Sending == IF mw.flate THEN mw.z - mw.tail ELSE out[mw.msg].len

\* The writer is between two messages, or in the one that it writes.
LEMMA WriterAtType ==
    ASSUME TypeOK, WriterInv
    PROVE  /\ WriterAt \in Positions /\ WriterAt.msg <= mw.msg /\ WriterAt.msg \in Nat
           /\ ~Writing => WriterAt = Position(mw.msg, 0, FALSE)
           /\ Writing => /\ WriterAt = At(mw, Sending) /\ Sending \in Nat
                         /\ mw.msg \in 1..Len(out) /\ out[mw.msg] \in Message
                         /\ Base(WriterAt) = Sending
                         /\ mw.opcode # opContinuation => WriterAt.msg = mw.msg - 1
<1>1. mw.msg \in Nat /\ mw.z \in Nat /\ mw.tail \in 0..4 /\ Len(out) = mw.msg
      /\ mw.flate \in BOOLEAN
  BY DEF TypeOK, MW, WriterInv
<1>2. CASE ~Writing
  <2>1. WriterAt = Position(mw.msg, 0, FALSE)
    BY <1>2 DEF WriterAt
  <2>2. Position(mw.msg, 0, FALSE) \in Positions /\ Position(mw.msg, 0, FALSE).msg = mw.msg
    BY <1>1 DEF Position, Positions
  <2>3. WriterAt \in Positions /\ WriterAt.msg = mw.msg
    BY <2>1, <2>2, Zenon
  <2>4. WriterAt.msg \in Nat /\ WriterAt.msg <= mw.msg
    BY <1>1, <2>3
  <2> QED  BY <1>2, <2>1, <2>3, <2>4, Zenon
<1>3. CASE Writing
  <2>1. mw.msg \in 1..Len(out) /\ out[mw.msg] \in Message
    <3>1. mw.msg > 0
      BY <1>3 DEF WriterInv
    <3> QED  BY <1>1, <3>1 DEF TypeOK
  <2>2. out[mw.msg].len \in Nat
    BY <2>1 DEF Message
  <2>3. mw.tail <= mw.z
    BY <1>1, <1>3 DEF WriterInv, Smaller
  <2>4. Sending \in Nat
    BY <1>1, <2>2, <2>3 DEF Sending
  <2>5. CASE mw.opcode = opContinuation
    <3>1. WriterAt = Position(mw.msg, Sending, TRUE) /\ At(mw, Sending) = WriterAt
      BY <1>3, <2>5 DEF WriterAt, Sending, At
    <3>2. Position(mw.msg, Sending, TRUE) \in Positions
          /\ Position(mw.msg, Sending, TRUE).msg = mw.msg
          /\ Base(Position(mw.msg, Sending, TRUE)) = Sending
      BY <1>1, <2>4 DEF Position, Positions, Base
    <3>3. WriterAt \in Positions /\ WriterAt.msg = mw.msg /\ Base(WriterAt) = Sending
      BY <3>1, <3>2, Zenon
    <3>4. WriterAt.msg \in Nat /\ WriterAt.msg <= mw.msg
      BY <1>1, <3>3
    <3> QED  BY <1>3, <2>1, <2>4, <2>5, <3>1, <3>3, <3>4, Zenon
  <2>6. CASE mw.opcode # opContinuation
    <3>1. WriterAt = Position(mw.msg - 1, 0, FALSE) /\ At(mw, Sending) = WriterAt
      BY <1>3, <2>6 DEF WriterAt, At
    <3>2. mw.msg - 1 \in Nat /\ mw.msg - 1 <= mw.msg
      BY <1>1, <2>1
    <3>3. Position(mw.msg - 1, 0, FALSE) \in Positions
          /\ Position(mw.msg - 1, 0, FALSE).msg = mw.msg - 1
          /\ Base(Position(mw.msg - 1, 0, FALSE)) = 0
      BY <3>2 DEF Position, Positions, Base
    <3>4. Sending = 0
      BY <1>1, <1>3, <2>6 DEF Sending, WriterInv
    <3> QED  BY <1>3, <2>1, <2>4, <2>6, <3>1, <3>2, <3>3, <3>4, Zenon
  <2> QED  BY <2>5, <2>6, Zenon
<1> QED  BY <1>2, <1>3, Zenon

\* A path depends on the options, which do not change, and on nothing else.
LEMMA LeadsPrimed ==
    ASSUME cfg' = cfg, Live' => Path(out', wire', ReaderAt', WriterAt'),
           \A k \in 1..Len(wire') : (wire'[k]).msg <= (WriterAt').msg
    PROVE  Leads(out, wire, WriterAt)'
  <1>1. Path(out', wire', ReaderAt', WriterAt') => Path(out, wire, ReaderAt, WriterAt)'
  <2>1. ASSUME NEW h
        PROVE  Refused(h)' <=> Refused(h)
    BY DEF Refused
  <2>2. ASSUME NEW f, NEW p
        PROVE  Skipped(f, p)' <=> Skipped(f, p)
    BY <2>1 DEF Skipped
  <2>3. ASSUME NEW o, NEW f, NEW p, NEW q
        PROVE  Carries(o, f, p, q)' <=> Carries(o, f, p, q)
    BY <2>1, Zenon DEF Carries
  <2>4. ASSUME NEW o, NEW f, NEW p, NEW q
        PROVE  Step(o, f, p, q)' <=> Step(o, f, p, q)
    BY <2>2, <2>3, Zenon DEF Step
  <2>5. ASSUME NEW o, NEW w, NEW p, NEW q
        PROVE  Path(o, w, p, q)' <=> Path(o, w, p, q)
    BY <2>4, Zenon DEF Path
  <2> QED  BY <2>5, Zenon
<1> QED  BY <1>1 DEF Leads

\* Nothing on the wire: the reader is where the writer is.
LEMMA PathEmpty ==
    ASSUME NEW o, NEW p \in Positions
    PROVE  Path(o, <<>>, p, p)
<1> DEFINE pos == [k \in 1..1 |-> p]
<1>1. pos \in [1..1 -> Positions] /\ pos[1] = p
  OBVIOUS
<1>2. Len(<<>>) + 1 = 1 /\ \A k \in 1..Len(<<>>) : FALSE
  OBVIOUS
<1> HIDE DEF pos
<1> QED  BY <1>1, <1>2, Zenon DEF Path

\* Nothing was written, and nothing is to be read.
LEMMA InitInv ==
    ASSUME Init
    PROVE  IInv
<1>1. TypeOK
  BY SizesAreNumbers DEF Init, TypeOK, CFG, MW, RD, PC, Windows, opText,
     opContinuation
<1>2. WriterInv /\ WindowInv
  BY DEF Init, WriterInv, WindowInv, Writing, End
<1>3. WireInv
  <2>1. WriterAt = Position(0, 0, FALSE) /\ ReaderAt = Position(0, 0, FALSE)
    BY SMT DEF Init, WriterAt, ReaderAt, Writing
  <2>2. Position(0, 0, FALSE) \in Positions /\ Position(0, 0, FALSE).msg = 0
    BY DEF Position, Positions
  <2>3. wire = <<>> /\ Len(wire) = 0 /\ rd.msg = 0
    BY SMT DEF Init
  <2>4. Path(out, <<>>, Position(0, 0, FALSE), Position(0, 0, FALSE))
    BY <2>2, PathEmpty, Zenon
  <2>5. Path(out, wire, ReaderAt, WriterAt)
    BY <2>1, <2>3, <2>4, Zenon
  <2>6. rd.msg <= WriterAt.msg
    <3>1. WriterAt.msg = 0 /\ rd.msg = 0
      BY <2>1, <2>2, <2>3, Zenon
    <3> QED  BY <3>1
  <2>7. \A k \in 1..Len(wire) : FALSE
    BY <2>3
  <2> QED  BY <2>5, <2>6, <2>7, Zenon DEF WireInv, Leads
<1>4. LimitInv
  BY SMT, SMTT(60) DEF Init, LimitInv
<1>5. ReaderInv
  BY SizesAreNumbers DEF Init, ReaderInv, Window, End, Larger
<1> QED  BY <1>1, <1>2, <1>3, <1>4, <1>5 DEF IInv

-----------------------------------------------------------------------------
(* The steps of the reader.                                                *)

\* What is to show of a step of the reader: that what is left on the wire leads from
\* where it is now to the writer, and what the step makes of limit and reader.
LEMMA ReaderStep ==
    ASSUME IInv, cfg' = cfg, mw' = mw, out' = out, rd' \in RD, wire' \in Seq(Frame),
           limit' \in [asked : Int, n : Int], rd'.msg <= WriterAt.msg,
           \A k \in 1..Len(wire') : (wire'[k]).msg <= WriterAt.msg,
           Live' => Path(out, wire', ReaderAt', WriterAt),
           LimitInv', ReaderInv'
    PROVE  IInv'
<1>1. TypeOK /\ WriterInv /\ WindowInv
  BY DEF IInv
<1>2. TypeOK'
  BY <1>1 DEF TypeOK
<1>3. WriterInv' /\ WindowInv'
  BY <1>1 DEF WriterInv, WindowInv, Writing
<1>4. WriterAt' = WriterAt
  BY DEF WriterAt, Writing
<1>5. WireInv'
  <2>1. Live' => Path(out', wire', ReaderAt', WriterAt')
    BY <1>4, Zenon
  <2>2. \A k \in 1..Len(wire') : (wire'[k]).msg <= (WriterAt').msg
    BY <1>4, Zenon
  <2>3. Leads(out, wire, WriterAt)'
    BY <2>1, <2>2, LeadsPrimed
  <2>4. rd'.msg <= (WriterAt').msg
    BY <1>4, Zenon
  <2> QED  BY <2>3, <2>4 DEF WireInv
<1> QED  BY <1>2, <1>3, <1>5 DEF IInv

\* Nothing is taken from the wire, and the reader is where it was.
LEMMA ReaderStays ==
    ASSUME IInv, cfg' = cfg, mw' = mw, out' = out, wire' = wire,
           limit' \in [asked : Int, n : Int], rd' \in RD, rd'.msg = rd.msg,
           Live' => Live /\ ReaderAt' = ReaderAt, LimitInv', ReaderInv'
    PROVE  IInv'
<1>1. TypeOK /\ WireInv
  BY DEF IInv
<1>2. rd'.msg <= WriterAt.msg
  BY <1>1 DEF WireInv
<1>3. /\ \A k \in 1..Len(wire') : (wire'[k]).msg <= WriterAt.msg
      /\ Live' => Path(out, wire', ReaderAt', WriterAt)
  BY <1>1 DEF WireInv, Leads
<1>4. wire' \in Seq(Frame)
  BY <1>1 DEF TypeOK
<1> QED  BY <1>2, <1>3, <1>4, ReaderStep

\* The invariant is about the variables of vars.
LEMMA Stutter ==
    ASSUME IInv, UNCHANGED vars
    PROVE  IInv'
<1>0. /\ TypeOK /\ LimitInv /\ ReaderInv /\ cfg' = cfg /\ mw' = mw
      /\ out' = out /\ wire' = wire /\ rd' = rd /\ limit' = limit
  BY DEF IInv, vars
<1>1. Live' = Live /\ ReaderAt' = ReaderAt
  BY <1>0 DEF Live, ReaderAt
<1>2. LimitInv' /\ ReaderInv'
  BY <1>0, <1>1, ZenonT(60) DEF LimitInv, ReaderInv
<1>3. rd' \in RD /\ rd'.msg = rd.msg /\ limit' \in [asked : Int, n : Int]
  BY <1>0 DEF TypeOK
<1> QED  BY <1>0, <1>1, <1>2, <1>3, ReaderStays

\* The message being read is one that was begun.
LEMMA ReadingOne ==
    ASSUME IInv
    PROVE  /\ rd.msg \in 0..Len(out) /\ rd.msg \in Nat
           /\ rd.msg > 0 => rd.msg \in 1..Len(out) /\ out[rd.msg] \in Message
<1>1. TypeOK /\ WriterInv /\ WireInv
  BY DEF IInv
<1>2. rd.msg \in Nat /\ mw.msg \in Nat /\ Len(out) = mw.msg /\ out \in Seq(Message)
  BY <1>1 DEF TypeOK, RD, MW, WriterInv
<1>3. WriterAt.msg <= mw.msg /\ WriterAt.msg \in Nat
  BY <1>1, WriterAtType
<1>4. rd.msg <= WriterAt.msg
  BY <1>1 DEF WireInv
<1>5. rd.msg <= mw.msg
  BY <1>2, <1>3, <1>4
<1> QED  BY <1>2, <1>5

\* mask rotates the key by the bytes it masked.
LEMMA MaskAdds ==
    ASSUME NEW r \in Nat, NEW n \in Nat
    PROVE  Mask(r, n) = (r + n) % KeyLen
<1>1. ((((((n % 128) % 64) % 32) % 16) % 8) % 4) = n % 4
  OBVIOUS
<1> QED  BY <1>1 DEF Mask, KeyLen

\* The reader at another point of the code.
Goes(r, pc) == [r EXCEPT !.pc = pc]

\* The same, field by field.
But(r2, r, pc) ==
    /\ r2.pc = pc /\ r2.fin = r.fin /\ r2.left = r.left /\ r2.rot = r.rot
    /\ r2.off = r.off /\ r2.flate = r.flate /\ r2.tail = r.tail /\ r2.n = r.n
    /\ r2.limit = r.limit /\ r2.msg = r.msg /\ r2.raw = r.raw /\ r2.got = r.got
    /\ r2.dict = r.dict

\* The reader after the header of a frame of its message.
Framed(r2, r, h) ==
    /\ r2.pc = "data" /\ r2.fin = h.fin /\ r2.left = h.payloadLength /\ r2.rot = 0
    /\ r2.off = 0 /\ r2.flate = r.flate /\ r2.tail = r.tail /\ r2.n = r.n
    /\ r2.limit = r.limit /\ r2.msg = r.msg /\ r2.raw = r.raw /\ r2.got = r.got
    /\ r2.dict = r.dict

\* And after msgReader.reset.
Anew(r, h) ==
    /\ r.flate = h.rsv1 /\ r.tail = FALSE /\ r.n = limit.n /\ r.limit = limit.asked
    /\ r.msg = rd.msg + 1 /\ r.raw = 0 /\ r.got = 0 /\ r.dict = rd.dict

\* A reader that is ready for the next bytes of message m, b bytes of which it took.
Ready(r, m, b) ==
    /\ r.msg = m /\ r.raw = b /\ ~r.tail /\ r.flate = out[m].flate
    /\ r.got = IF r.flate THEN 0 ELSE r.raw
    /\ cfg.takeover => r.dict = Window(out[m].win.hi)
    /\ IF r.limit >= 0 THEN r.n = r.limit + 1 - r.got /\ r.n >= 0 ELSE r.n < 0

\* readFramePayload of k bytes that the frame has, unmasked right.
Paid(r2, r, k) ==
    /\ r2.pc = "data" /\ r2.fin = r.fin /\ r2.left = r.left - k /\ r2.off = r.off + k
    /\ (cfg.client => r2.rot = r2.off % KeyLen)
    /\ r2.flate = r.flate /\ r2.tail = r.tail /\ r2.n = r.n
    /\ r2.limit = r.limit /\ r2.msg = r.msg /\ r2.raw = r.raw + k /\ r2.got = r.got
    /\ r2.dict = r.dict

\* What the reader does keeps the invariant.
LEMMA ReaderMoves ==
    IInv /\ (\/ Reader \/ ReadHeader \/ TooBig \/ ReadPlain \/ ReadRaw \/ ReadText
             \/ ReadFails \/ SetReadLimit) => IInv'
<1>GoesType.
      ASSUME NEW r \in RD, NEW pc \in PC, NEW r2, r2 = Goes(r, pc)
      PROVE  r2 \in RD /\ But(r2, r, pc)
  <2> USE <1>GoesType
  <2>1. r2 \in RD
    BY DEF RD, Goes
  <2>2. But(r2, r, pc)
    BY DEF RD, Goes, But
  <2> QED  BY <2>1, <2>2
<1>WireOn.
      ASSUME IInv, wire' = wire
      PROVE  wire' \in Seq(Frame) /\ \A k \in 1..Len(wire') : (wire'[k]).msg <= WriterAt.msg
  BY <1>WireOn DEF IInv, TypeOK, WireInv, Leads
\* The reader gives up.
<1>Dead.
      ASSUME IInv, cfg' = cfg, mw' = mw, out' = out, limit' = limit, wire' \in Seq(Frame),
             \A k \in 1..Len(wire') : (wire'[k]).msg <= WriterAt.msg,
             NEW pc \in {"failed", "lost"}, rd' = Goes(rd, pc)
      PROVE  IInv'
  <2> USE <1>Dead
  <2>1. TypeOK /\ WireInv /\ LimitInv /\ rd \in RD /\ limit' \in [asked : Int, n : Int]
    BY DEF IInv, TypeOK
  <2>2. pc \in PC
    BY DEF PC
  <2>3. rd' \in RD /\ But(rd', rd, pc)
    BY <2>1, <2>2, <1>GoesType
  <2>4. rd'.pc = pc /\ rd'.msg = rd.msg
    BY <2>3 DEF But
  <2>5. ~Live'
    BY <2>4 DEF Live
  <2>6. LimitInv'
    BY <2>1, <2>4, <2>5 DEF LimitInv
  <2>7. ReaderInv'
    BY <2>4 DEF ReaderInv
  <2>8. rd'.msg <= WriterAt.msg
    BY <2>1, <2>4 DEF WireInv
  <2> QED  BY <2>1, <2>3, <2>5, <2>6, <2>7, <2>8, ReaderStep
<1>ReaderKeeps.
      ASSUME IInv, Reader
      PROVE  IInv'
  <2> USE <1>ReaderKeeps
  <2>0. /\ TypeOK /\ LimitInv /\ ReaderInv /\ rd \in RD /\ cfg' = cfg /\ mw' = mw
        /\ out' = out /\ wire' = wire /\ limit' = limit
        /\ limit' \in [asked : Int, n : Int]
    BY DEF IInv, TypeOK, Reader
  <2> DEFINE pc == CASE rd.pc = "data" /\ ~rd.fin -> "failed"
                     [] rd.pc = "data" /\ rd.fin /\ (rd.left > 0 \/ rd.flate) -> "lost"
                     [] OTHER -> "header"
  <2>1. rd' = Goes(rd, pc) /\ rd.pc \in {"eof", "data"}
    BY DEF Reader, Goes
  <2>2. pc \in {"failed", "lost"} \/
          /\ pc = "header" /\ (rd.pc = "data" => rd.fin /\ ~(rd.left > 0) /\ ~rd.flate)
    OBVIOUS
  <2> HIDE DEF pc
  <2>3. CASE pc \in {"failed", "lost"}
    BY <2>0, <2>1, <2>3, <1>WireOn, <1>Dead
  <2>4. CASE pc = "header" /\ (rd.pc = "data" => rd.fin /\ ~(rd.left > 0) /\ ~rd.flate)
    <3>1. pc \in PC
      BY <2>4 DEF PC
    <3>2. rd' \in RD /\ But(rd', rd, pc)
      BY <2>0, <2>1, <3>1, <1>GoesType
    <3>3. /\ rd'.pc = "header" /\ rd'.msg = rd.msg /\ rd'.n = rd.n /\ rd'.got = rd.got
          /\ rd'.limit = rd.limit /\ rd'.dict = rd.dict
      BY <2>4, <3>2 DEF But
    <3>4. Live /\ ReaderAt' = ReaderAt
      <4>1. ReaderAt' = Position(rd.msg, 0, FALSE)
        BY <3>3 DEF ReaderAt
      <4>2. ReaderAt = Position(rd.msg, 0, FALSE)
        BY <2>1, <2>4, Zenon DEF ReaderAt
      <4> QED  BY <2>1, <4>1, <4>2 DEF Live
    <3>5. LimitInv'
      BY <2>0, <3>3, <3>4 DEF LimitInv, Live
    <3>6. ReaderInv'
      <4>1. rd.msg > 0 => out[rd.msg].done
        BY <2>0, <2>1, <2>4 DEF ReaderInv
      <4>2. cfg.takeover => rd.dict = Window(End(out, rd.msg))
        <5>1. CASE rd.pc = "eof"
          BY <2>0, <5>1 DEF ReaderInv
        <5>2. CASE rd.pc = "data"
          BY <2>0, <2>4, <5>2 DEF ReaderInv, End
        <5> QED  BY <2>1, <5>1, <5>2
      <4> QED  BY <2>0, <3>3, <4>1, <4>2 DEF ReaderInv
    <3> QED  BY <2>0, <3>2, <3>3, <3>4, <3>5, <3>6, ReaderStays
  <2> QED  BY <2>2, <2>3, <2>4
<1>TooBigKeeps.
      ASSUME IInv, TooBig
      PROVE  IInv'
  <2> USE <1>TooBigKeeps
  <2>0. /\ TypeOK /\ LimitInv /\ ReaderInv /\ rd \in RD /\ cfg' = cfg /\ mw' = mw
        /\ out' = out /\ wire' = wire /\ limit' = limit /\ rd.pc = "data" /\ rd.n = 0
        /\ limit' \in [asked : Int, n : Int]
    BY DEF IInv, TypeOK, TooBig
  <2>1. rd' = Goes(rd, "toobig") /\ "toobig" \in PC
    BY DEF TooBig, Goes, PC
  <2>2. rd' \in RD /\ But(rd', rd, "toobig")
    BY <2>0, <2>1, <1>GoesType
  <2>3. rd'.pc = "toobig" /\ rd'.msg = rd.msg /\ rd'.limit = rd.limit
    BY <2>2 DEF But
  <2>4. ~Live' /\ Live
    BY <2>0, <2>3 DEF Live
  <2>5. rd.msg > 0 /\ rd.limit >= 0 /\ rd.got = rd.limit + 1
    BY <2>0, <2>4 DEF LimitInv, ReaderInv, RD
  <2>6. out[rd.msg].len > rd.limit
    <3>1. out[rd.msg].len \in Nat
      BY <2>5, ReadingOne DEF Message
    <3>2. rd.raw \in Nat /\ rd.left \in Nat /\ rd.got \in Nat /\ rd.limit \in Int
      BY <2>0 DEF RD
    <3>3. CASE ~rd.flate
      <4>1. rd.got = rd.raw /\ rd.raw + rd.left <= out[rd.msg].len
        BY <2>0, <3>3 DEF ReaderInv
      <4> QED  BY <2>5, <3>1, <3>2, <4>1
    <3>4. CASE rd.flate /\ rd.tail
      <4>1. rd.got <= out[rd.msg].len
        BY <2>0, <3>4 DEF ReaderInv
      <4> QED  BY <2>5, <3>1, <3>2, <4>1
    <3>5. CASE rd.flate /\ ~rd.tail
      <4>1. rd.got = 0
        BY <2>0, <3>5 DEF ReaderInv
      <4> QED  BY <2>5, <3>2, <4>1
    <3> QED  BY <3>3, <3>4, <3>5
  <2>7. LimitInv'
    BY <2>0, <2>3, <2>4, <2>5, <2>6 DEF LimitInv
  <2>8. ReaderInv'
    BY <2>3 DEF ReaderInv
  <2> QED  BY <2>0, <2>2, <2>3, <2>4, <2>7, <2>8, ReaderStays
<1>ReadFailsKeeps.
      ASSUME IInv, ReadFails
      PROVE  IInv'
  <2> USE <1>ReadFailsKeeps
  <2>1. /\ cfg' = cfg /\ mw' = mw /\ out' = out /\ wire' = wire /\ limit' = limit
        /\ rd' = Goes(rd, "failed")
    BY DEF ReadFails, Goes
  <2> QED  BY <2>1, <1>WireOn, <1>Dead
<1>SetReadLimitKeeps.
      ASSUME IInv, SetReadLimit
      PROVE  IInv'
  <2> USE <1>SetReadLimitKeeps
  <2>0. /\ TypeOK /\ LimitInv /\ ReaderInv /\ cfg' = cfg /\ mw' = mw
        /\ out' = out /\ wire' = wire /\ rd' = rd
    BY DEF IInv, SetReadLimit
  <2>1. PICK n \in Limit : limit' = [asked |-> n, n |-> IF n >= 0 THEN n + 1 ELSE n]
    BY DEF SetReadLimit
  <2>2. n \in Int
    BY SizesAreNumbers
  <2>3. /\ limit' \in [asked : Int, n : Int]
        /\ IF limit'.asked >= 0 THEN limit'.n = limit'.asked + 1 ELSE limit'.n < 0
    BY <2>1, <2>2
  <2>4. Live' = Live /\ ReaderAt' = ReaderAt
    BY <2>0 DEF Live, ReaderAt
  <2>5. LimitInv'
    BY <2>0, <2>3, <2>4, SMT, SMTT(60) DEF LimitInv
  <2>6. ReaderInv'
    BY <2>0 DEF ReaderInv
  <2>7. rd' \in RD /\ rd'.msg = rd.msg
    BY <2>0 DEF TypeOK
  <2> QED  BY <2>0, <2>3, <2>4, <2>5, <2>6, <2>7, ReaderStays
<1>ReadHeaderKeeps.
      ASSUME IInv, ReadHeader
      PROVE  IInv'
  \* The first frame goes to the reader.
  <2>PathTail.
        ASSUME NEW o, NEW w \in Seq(Frame), w # <<>>, NEW p, NEW q, Path(o, w, p, q)
        PROVE  \E r \in Positions : Step(o, Head(w), p, r) /\ Path(o, Tail(w), r, q)
    <3> USE <2>PathTail
    <3>1. PICK pos \in [1..(Len(w) + 1) -> Positions] :
                 /\ pos[1] = p /\ pos[Len(w) + 1] = q
                 /\ \A k \in 1..Len(w) : Step(o, w[k], pos[k], pos[k + 1])
      BY DEF Path
    <3> DEFINE n == Len(w)
               v == Tail(w)
               new == [k \in 1..(Len(v) + 1) |-> pos[k + 1]]
    <3>2. n \in Nat \ {0} /\ Len(v) = n - 1 /\ Head(w) = w[1]
          /\ \A k \in 1..(n - 1) : v[k] = w[k + 1]
      OBVIOUS
    <3> HIDE DEF n, v
    <3>3. new \in [1..(Len(v) + 1) -> Positions] /\ new[1] = pos[2] /\ new[Len(v) + 1] = q
      BY <3>1, <3>2 DEF n
    <3>4. ASSUME NEW k \in 1..Len(v)
          PROVE  Step(o, v[k], new[k], new[k + 1])
      <4>1. new[k] = pos[k + 1] /\ new[k + 1] = pos[(k + 1) + 1] /\ k + 1 \in 1..n
        BY <3>2
      <4> QED  BY <3>1, <3>2, <4>1 DEF n
    <3>5. Step(o, Head(w), p, pos[2]) /\ pos[2] \in Positions
      BY <3>1, <3>2 DEF n
    <3> HIDE DEF new
    <3>6. Path(o, v, pos[2], q)
      BY <3>3, <3>4, Zenon DEF Path
    <3> QED  BY <3>5, <3>6 DEF v
  \* The frame that the reader is at, when it is one of a message.
  <2>FrameDue.
        ASSUME IInv, rd.pc \in {"header", "next"}, wire # <<>>,
               NEW f, f = Head(wire), NEW h, h = ReadFrameHeader(f.hdr),
               ~Refused(h), h.opcode < opClose, (rd.pc = "next") = (h.opcode = opContinuation)
        PROVE  \E r \in Positions :
                 Carries(out, f, ReaderAt, r) /\ Path(out, Tail(wire), r, WriterAt)
    <3> USE <2>FrameDue
    <3>1. wire \in Seq(Frame) /\ Path(out, wire, ReaderAt, WriterAt)
      BY DEF IInv, TypeOK, WireInv, Leads, Live
    <3>2. PICK r \in Positions :
                 Step(out, Head(wire), ReaderAt, r) /\ Path(out, Tail(wire), r, WriterAt)
      BY <3>1, <2>PathTail
    <3>3. ReaderAt.open = (rd.pc = "next")
      <4>1. CASE rd.pc = "next"
        BY <4>1, Zenon DEF ReaderAt, Position
      <4>2. CASE rd.pc = "header"
        BY <4>2, Zenon DEF ReaderAt, Position
      <4> QED  BY <4>1, <4>2
    <3>4. ~(h.opcode >= opClose)
      <4>1. h.opcode \in Int
        BY DEF Refused, opContinuation, opText, opBinary, opClose, opPing, opPong
      <4> QED  BY <4>1 DEF opClose
    <3>5. ~Skipped(f, ReaderAt)
      BY <3>3, <3>4, Zenon DEF Skipped
    <3>6. Carries(out, f, ReaderAt, r)
      BY <3>2, <3>5, Zenon DEF Step
    <3> QED  BY <3>2, <3>6
  <2>SetFrameType.
        ASSUME NEW r \in RD, NEW h, NEW f, h.fin \in BOOLEAN, h.payloadLength \in Nat,
               f.sound, f.msg = r.msg, f.len = h.payloadLength, f.len > 0 => f.from = r.raw,
               NEW r2, r2 = SetFrame(r, h, f)
        PROVE  r2 \in RD /\ Framed(r2, r, h)
    <3> USE <2>SetFrameType
    <3> DEFINE fin == h.fin
               left == h.payloadLength
    <3>1. r2 = [r EXCEPT !.pc = "data", !.fin = fin, !.left = left, !.rot = 0, !.off = 0]
      BY Zenon DEF SetFrame
    <3>2. fin \in BOOLEAN /\ left \in Nat /\ "data" \in PC /\ 0 \in Nat
      BY DEF PC
    <3> HIDE DEF fin, left
    <3>3. r2 \in RD
      BY <3>1, <3>2, ZenonT(60) DEF RD
    <3>4. /\ r2.pc = "data" /\ r2.fin = fin /\ r2.left = left /\ r2.rot = 0
          /\ r2.off = 0 /\ r2.flate = r.flate /\ r2.tail = r.tail /\ r2.n = r.n
          /\ r2.limit = r.limit /\ r2.msg = r.msg /\ r2.raw = r.raw /\ r2.got = r.got
          /\ r2.dict = r.dict
      BY <3>1 DEF RD
    <3> QED  BY <3>3, <3>4 DEF Framed, fin, left
  <2>ResetReaderType.
        ASSUME TypeOK, NEW h, h.rsv1 \in BOOLEAN, NEW r, r = ResetReader(h)
        PROVE  r \in RD /\ Anew(r, h)
    <3> USE <2>ResetReaderType
    <3> DEFINE b == h.rsv1
               nn == limit.n
               la == limit.asked
               m == rd.msg + 1
    <3>1. rd \in RD /\ b \in BOOLEAN /\ nn \in Int /\ la \in Int /\ m \in Nat
      BY DEF TypeOK, RD
    <3>2. r = [rd EXCEPT !.flate = b, !.tail = FALSE, !.n = nn, !.limit = la,
                         !.msg = m, !.raw = 0, !.got = 0]
      BY DEF ResetReader
    <3> HIDE DEF b, nn, la, m
    <3>3. r \in RD
      <4> DEFINE q == [rd EXCEPT !.flate = b, !.tail = FALSE, !.n = nn, !.limit = la]
      <4>1. q \in RD
        BY <3>1, Zenon DEF RD
      <4>2. r = [q EXCEPT !.msg = m, !.raw = 0, !.got = 0]
        BY <3>1, <3>2 DEF RD
      <4> HIDE DEF q
      <4>3. m \in Nat /\ 0 \in Nat
        BY <3>1
      <4> QED  BY ONLY <4>1, <4>2, <4>3, Zenon DEF RD
    <3>4. /\ r.flate = b /\ r.tail = FALSE /\ r.n = nn /\ r.limit = la
          /\ r.msg = m /\ r.raw = 0 /\ r.got = 0 /\ r.dict = rd.dict
      BY <3>1, <3>2 DEF RD
    <3> QED  BY <3>3, <3>4 DEF Anew, b, nn, la, m
  <2>FramedKeeps.
        ASSUME IInv, cfg' = cfg, mw' = mw, out' = out, limit' = limit,
               wire' \in Seq(Frame),
               \A k \in 1..Len(wire') : (wire'[k]).msg <= WriterAt.msg,
               NEW r \in RD, NEW m \in 1..Len(out), NEW b \in Nat, Ready(r, m, b),
               NEW h, h.payloadLength \in Nat, h.fin \in BOOLEAN,
               ~out[m].flate => b + h.payloadLength <= out[m].len,
               h.fin => out[m].done /\ b + h.payloadLength = Total(out, m),
               m <= WriterAt.msg, rd' \in RD, Framed(rd', r, h),
               Path(out, wire', Position(m, IF h.fin THEN 0 ELSE b + h.payloadLength, ~h.fin),
                    WriterAt)
        PROVE  IInv'
    <3> USE <2>FramedKeeps
    <3> DEFINE left == h.payloadLength
    <3>0. TypeOK /\ LimitInv /\ limit' \in [asked : Int, n : Int]
      BY DEF IInv, TypeOK
    <3>1. /\ r.msg = m /\ r.raw = b /\ ~r.tail /\ r.flate = out[m].flate
          /\ r.got = IF r.flate THEN 0 ELSE r.raw
          /\ cfg.takeover => r.dict = Window(out[m].win.hi)
          /\ IF r.limit >= 0 THEN r.n = r.limit + 1 - r.got /\ r.n >= 0 ELSE r.n < 0
      BY Zenon DEF Ready
    <3>2. /\ rd'.pc = "data" /\ rd'.fin = h.fin /\ rd'.left = left /\ rd'.rot = 0
          /\ rd'.off = 0 /\ rd'.flate = r.flate /\ rd'.tail = r.tail /\ rd'.n = r.n
          /\ rd'.limit = r.limit /\ rd'.msg = m /\ rd'.raw = b /\ rd'.got = r.got
          /\ rd'.dict = r.dict
      BY <3>1, Zenon DEF Framed
    <3>3. m \in Nat /\ m > 0 /\ out[m] \in Message
      BY <3>0 DEF TypeOK
    <3>4. LimitInv'
      <4>1. IF rd'.limit >= 0 THEN rd'.n = rd'.limit + 1 - rd'.got /\ rd'.n >= 0 ELSE rd'.n < 0
        BY <3>1, <3>2, Zenon
      <4>2. rd'.pc # "eof" /\ rd'.pc # "toobig"
        BY <3>2
      <4> QED  BY <3>0, <4>1, <4>2, Zenon DEF LimitInv
    <3>5. ReaderInv'
      <4>1. 0 = 0 % KeyLen
        BY DEF KeyLen
      <4>2. cfg.takeover => rd'.dict = Window(out[m].win.hi + IF rd'.flate THEN rd'.got ELSE 0)
        <5>1. (IF rd'.flate THEN rd'.got ELSE 0) = 0
          BY <3>1, <3>2, Zenon
        <5>2. out[m].win.hi + 0 = out[m].win.hi
          BY <3>3 DEF Message
        <5>3. out[m].win.hi + (IF rd'.flate THEN rd'.got ELSE 0) = out[m].win.hi
          BY <5>1, <5>2, Zenon
        <5> QED  BY <3>1, <3>2, <5>3, Zenon
      <4>3. /\ rd'.pc = "data" /\ rd'.msg > 0 /\ rd'.flate = out'[rd'.msg].flate
            /\ (~rd'.flate => rd'.got = rd'.raw) /\ (rd'.flate => rd'.got = 0)
            /\ rd'.rot = rd'.off % KeyLen /\ ~rd'.tail
        BY <3>1, <3>2, <3>3, <4>1, Zenon
      <4>4. (~rd'.flate => rd'.raw + rd'.left <= out'[rd'.msg].len)
            /\ (rd'.fin => out'[rd'.msg].done /\ rd'.raw + rd'.left = Total(out', rd'.msg))
        BY <3>1, <3>2, Zenon
      <4>5. cfg'.takeover => rd'.dict = Window(out'[rd'.msg].win.hi + IF rd'.flate THEN rd'.got ELSE 0)
        BY <3>2, <4>2, Zenon
      <4>6. rd'.pc # "garbled" /\ rd'.pc # "next" /\ rd'.pc # "eof" /\ rd'.pc # "header"
        BY <3>2
      <4> QED  BY <4>3, <4>4, <4>5, <4>6 DEF ReaderInv
    <3>6. ReaderAt' = Position(m, IF h.fin THEN 0 ELSE b + left, ~h.fin)
      <4>1. CASE h.fin
        <5>1. ReaderAt' = Position(rd'.msg, 0, FALSE)
          BY <3>2, <4>1 DEF ReaderAt
        <5> QED  BY <3>2, <4>1, <5>1, Zenon
      <4>2. CASE ~h.fin
        <5>1. ReaderAt' = Position(rd'.msg, rd'.raw + rd'.left, TRUE)
          BY <3>2, <4>2 DEF ReaderAt
        <5> QED  BY <3>2, <4>2, <5>1, Zenon
      <4> QED  BY <4>1, <4>2
    <3>7. Live' => Path(out, wire', ReaderAt', WriterAt)
      BY <3>6, Zenon
    <3>8. rd'.msg <= WriterAt.msg
      BY <3>2, Zenon
    <3> QED  BY <3>0, <3>4, <3>5, <3>7, <3>8, ReaderStep
  <2> USE <1>ReadHeaderKeeps
  <2>0. /\ TypeOK /\ LimitInv /\ ReaderInv /\ WindowInv /\ WireInv /\ cfg' = cfg /\ mw' = mw
        /\ out' = out /\ limit' = limit /\ wire # <<>> /\ wire' = Tail(wire)
        /\ rd.pc \in {"header", "next"} /\ wire \in Seq(Frame) /\ rd \in RD
    BY DEF IInv, TypeOK, ReadHeader
  <2> DEFINE f == Head(wire)
             h == ReadFrameHeader(f.hdr)
  <2>1. rd' = CASE Refused(h) -> [rd EXCEPT !.pc = "failed"]
                [] ~Refused(h) /\ h.opcode >= opClose -> rd
                [] ~Refused(h) /\ h.opcode < opClose ->
                     IF (rd.pc = "next") # (h.opcode = opContinuation)
                     THEN [rd EXCEPT !.pc = "failed"]
                     ELSE SetFrame(IF rd.pc = "next" THEN rd ELSE ResetReader(h), h, f)
    BY Zenon DEF ReadHeader
  <2>2. /\ f \in Frame /\ wire' \in Seq(Frame) /\ f.msg <= WriterAt.msg
        /\ \A k \in 1..Len(wire') : (wire'[k]).msg <= WriterAt.msg
    <3>1. \A k \in 1..Len(wire) : wire[k].msg <= WriterAt.msg
      BY <2>0 DEF WireInv, Leads
    <3>2. f = wire[1] /\ 1 \in 1..Len(wire) /\ Len(wire') = Len(wire) - 1
          /\ \A k \in 1..Len(wire') : wire'[k] = wire[k + 1] /\ k + 1 \in 1..Len(wire)
      BY <2>0
    <3> QED  BY <2>0, <3>1, <3>2
  <2>3. f = Head(wire) /\ h = ReadFrameHeader(f.hdr) /\ h.fin \in BOOLEAN
    BY DEF ReadFrameHeader, HasBit
  <2> HIDE DEF f, h
  <2>4. CASE Refused(h)
    <3>1. rd' = Goes(rd, "failed")
      BY <2>1, <2>4, Zenon DEF Goes
    <3> QED  BY <2>0, <2>2, <3>1, <1>Dead
  <2>5. ~Refused(h) => h.opcode \in Int
    BY DEF Refused, opContinuation, opText, opBinary, opClose, opPing, opPong
  <2>6. CASE ~Refused(h) /\ h.opcode >= opClose
    <3>3. ~(h.opcode < opClose)
      BY <2>5, <2>6 DEF opClose
    <3>1. rd' = rd
      BY <2>1, <2>6, <3>3, Zenon
    <3>2. PICK r \in Positions : Step(out, f, ReaderAt, r) /\ Path(out, Tail(wire), r, WriterAt)
      BY <2>0, <2>3, <2>PathTail DEF WireInv, Leads, Live
    <3>4. r = ReaderAt
      BY <2>3, <3>2, <3>3, Zenon DEF Step, Carries
    <3>5. Live' = Live /\ ReaderAt' = ReaderAt
      BY <3>1, SMT, SMTT(60) DEF Live, ReaderAt
    <3>6. LimitInv' /\ ReaderInv'
      BY <2>0, <3>1, <3>5, ZenonT(60) DEF LimitInv, ReaderInv
    <3>7. Live' => Path(out, wire', ReaderAt', WriterAt)
      BY <2>0, <3>2, <3>4, <3>5, Zenon
    <3>8. rd' \in RD /\ rd'.msg <= WriterAt.msg /\ limit' \in [asked : Int, n : Int]
      BY <2>0, <3>1 DEF WireInv, TypeOK
    <3> QED  BY <2>0, <2>2, <3>6, <3>7, <3>8, ReaderStep
  <2>9. ~Refused(h) /\ h.opcode < opClose => ~(h.opcode >= opClose)
    BY <2>5 DEF opClose
  <2>7. CASE ~Refused(h) /\ h.opcode < opClose
    <3>1. CASE (rd.pc = "next") # (h.opcode = opContinuation)
      <4>1. rd' = Goes(rd, "failed")
        BY <2>1, <2>7, <2>9, <3>1, Zenon DEF Goes
      <4> QED  BY <2>0, <2>2, <4>1, <1>Dead
    <3>2. CASE (rd.pc = "next") = (h.opcode = opContinuation)
      <4>1. PICK q \in Positions :
                   Carries(out, f, ReaderAt, q) /\ Path(out, Tail(wire), q, WriterAt)
        BY <2>0, <2>3, <2>7, <3>2, <2>FrameDue
      <4> DEFINE m == f.msg
                 b == Base(ReaderAt)
                 r == IF rd.pc = "next" THEN rd ELSE ResetReader(h)
      <4>2. rd' = SetFrame(r, h, f)
        BY <2>1, <2>7, <2>9, <3>2, Zenon
      <4>3. /\ m \in 1..Len(out) /\ f.sound /\ f.len = h.payloadLength
            /\ m = (IF ReaderAt.open THEN ReaderAt.msg ELSE ReaderAt.msg + 1)
            /\ h.rsv1 = (~ReaderAt.open /\ out[m].flate)
            /\ (f.len > 0 => f.from = b)
            /\ (~out[m].flate => b + f.len <= out[m].len)
            /\ (h.fin => out[m].done /\ b + f.len = Total(out, m))
            /\ q = Position(m, IF h.fin THEN 0 ELSE b + f.len, ~h.fin)
        BY <2>3, <4>1, Zenon DEF Carries
      <4>4. r \in RD /\ Ready(r, m, b) /\ b \in Nat
        <5>1. CASE rd.pc = "next"
          <6>1. ReaderAt = Position(rd.msg, rd.raw, TRUE) /\ r = rd
            BY <5>1 DEF ReaderAt
          <6>2. ReaderAt.open /\ ReaderAt.msg = rd.msg /\ b = rd.raw
            BY <6>1 DEF Position, Base
          <6>3. m = rd.msg
            BY <4>3, <6>2, Zenon
          <6> HIDE DEF m, b
          <6>4. rd.raw \in Nat /\ out[m] \in Message
            <7>1. rd \in RD /\ out \in Seq(Message)
              BY <2>0, Zenon DEF TypeOK
            <7>2. m \in 1..Len(out)
              BY <4>3, Zenon
            <7> QED  BY ONLY <7>1, <7>2 DEF RD
          <6>5. /\ ~rd.tail /\ rd.flate = out[m].flate /\ (~rd.flate => rd.got = rd.raw)
                /\ (rd.flate => rd.got = 0)
                /\ (cfg.takeover =>
                      rd.dict = Window(out[m].win.hi + IF rd.flate THEN rd.got ELSE 0))
            BY <2>0, <5>1, <6>3 DEF ReaderInv
          <6>6. out[m].win.hi + (IF rd.flate THEN rd.got ELSE 0) = out[m].win.hi
            <7>1. (IF rd.flate THEN rd.got ELSE 0) = 0
              BY <6>5, Zenon
            <7>2. out[m].win.hi + 0 = out[m].win.hi
              BY <6>4, SMT, SMTT(60) DEF Message
            <7> QED  BY <7>1, <7>2, Zenon
          <6>7. IF rd.limit >= 0 THEN rd.n = rd.limit + 1 - rd.got /\ rd.n >= 0 ELSE rd.n < 0
            BY <2>0, <5>1 DEF LimitInv, ReaderInv, Live
          <6>8. Ready(rd, m, b)
            BY <6>2, <6>3, <6>5, <6>6, <6>7, Zenon DEF Ready
          <6> QED  BY <2>0, <6>1, <6>2, <6>4, <6>8
        <5>2. CASE rd.pc = "header"
          <6>1. ReaderAt = Position(rd.msg, 0, FALSE) /\ r = ResetReader(h)
            BY <5>2 DEF ReaderAt
          <6>2. ~ReaderAt.open /\ ReaderAt.msg = rd.msg /\ b = 0
            BY <6>1 DEF Position, Base
          <6>3. m = rd.msg + 1 /\ h.rsv1 = (TRUE /\ out[m].flate)
            BY <4>3, <6>2, Zenon
          <6> HIDE DEF m, b, r
          <6>4. out[m] \in Message /\ out[m].flate \in BOOLEAN
            <7>1. out[m] \in Message
              BY <2>0, <4>3 DEF TypeOK
            <7> QED  BY <7>1, SMT, SMTT(60) DEF Message
          <6>5. h.rsv1 = out[m].flate /\ h.rsv1 \in BOOLEAN
            BY <6>3, <6>4
          <6>6. r \in RD /\ Anew(r, h)
            BY <2>0, <6>1, <6>5, <2>ResetReaderType
          <6>7. cfg.takeover => rd.dict = Window(out[m].win.hi)
            <7>1. cfg.takeover => rd.dict = Window(End(out, rd.msg))
              BY <2>0, <5>2 DEF ReaderInv
            <7>2. rd.msg \in Nat
              BY <2>0 DEF RD
            <7>3. m - 1 = rd.msg
              BY <6>3, <7>2, SMT, SMTT(60)
            <7>4. out[m].win.hi = End(out, m - 1)
              BY <2>0, <4>3, SMT, SMTT(60) DEF WindowInv
            <7> QED  BY <7>1, <7>3, <7>4, SMT, SMTT(60)
          <6>8. /\ r.flate = out[m].flate /\ r.tail = FALSE /\ r.n = limit.n
                /\ r.limit = limit.asked /\ r.msg = m /\ r.raw = 0 /\ r.got = 0
                /\ r.dict = rd.dict
            BY <6>3, <6>5, <6>6, Zenon DEF Anew
          <6>9. IF r.limit >= 0 THEN r.n = r.limit + 1 - r.got /\ r.n >= 0 ELSE r.n < 0
            <7>1. limit.n \in Int /\ limit.asked \in Int
              BY <2>0 DEF TypeOK
            <7>2. IF limit.asked >= 0 THEN limit.n = limit.asked + 1 ELSE limit.n < 0
              BY <2>0 DEF LimitInv
            <7> QED  BY <6>8, <7>1, <7>2
          <6>10. Ready(r, m, b)
            BY <6>2, <6>7, <6>8, <6>9, Zenon DEF Ready
          <6> QED  BY <6>2, <6>6, <6>10
        <5> QED  BY <2>0, <5>1, <5>2
      <4>5. f.msg = r.msg /\ (f.len > 0 => f.from = r.raw) /\ m <= WriterAt.msg
        BY <2>2, <4>3, <4>4, Zenon DEF Ready
      <4>6. f.len \in Nat
        BY <2>2, SMT, SMTT(60) DEF Frame
      <4> HIDE DEF r, m, b
      <4>7. rd' \in RD /\ Framed(rd', r, h)
        BY <2>3, <4>2, <4>3, <4>4, <4>5, <4>6, <2>SetFrameType
      <4>8. Path(out, wire', Position(m, IF h.fin THEN 0 ELSE b + h.payloadLength, ~h.fin),
                 WriterAt)
        BY <2>0, <4>1, <4>3, Zenon
      <4>9. h.payloadLength \in Nat
        BY <4>3, <4>6
      <4>10. /\ ~out[m].flate => b + h.payloadLength <= out[m].len
             /\ h.fin => out[m].done /\ b + h.payloadLength = Total(out, m)
        BY <4>3, Zenon
      <4> QED  BY <2>0, <2>2, <2>3, <4>3, <4>4, <4>5, <4>7, <4>8, <4>9, <4>10,
                  <2>FramedKeeps, ZenonT(60)
    <3> QED  BY <3>1, <3>2
  <2>8. \/ Refused(h)
        \/ ~Refused(h) /\ h.opcode >= opClose
        \/ ~Refused(h) /\ h.opcode < opClose
    BY <2>5 DEF opClose
  <2> QED  BY <2>4, <2>6, <2>7, <2>8
<1>PayloadType.
      ASSUME NEW r \in RD, r.pc = "data", NEW k \in Nat, k <= r.left,
             cfg.client => r.rot = r.off % KeyLen,
             NEW r2, r2 = Payload(r, k)
      PROVE  r2 \in RD /\ Paid(r2, r, k)
  <2> USE <1>PayloadType
  <2> DEFINE left == r.left - k
             raw == r.raw + k
             off == r.off + k
             rot == IF cfg.client THEN Mask(r.rot, k) ELSE r.rot
  <2>1. r.left \in Nat /\ r.raw \in Nat /\ r.off \in Nat /\ r.rot \in Nat
    BY DEF RD
  <2>2. left \in Nat /\ raw \in Nat /\ off \in Nat
    BY <2>1
  <2>3. Mask(r.rot, k) = (r.rot + k) % KeyLen
    BY <2>1, MaskAdds
  <2>4. (r.rot + k) % KeyLen \in Nat
    BY <2>1 DEF KeyLen
  <2>5. rot \in Nat
    BY <2>1, <2>3, <2>4, Zenon
  <2>6. cfg.client => rot = off % KeyLen
    <3>1. ((r.off % 4) + k) % 4 = (r.off + k) % 4
      BY <2>1
    <3>2. cfg.client => rot = ((r.off % 4) + k) % 4
      BY <2>3 DEF KeyLen
    <3> QED  BY <3>1, <3>2 DEF KeyLen
  <2>7. r2 = [r EXCEPT !.left = left, !.raw = raw, !.off = off, !.rot = rot, !.pc = r.pc]
    BY Zenon DEF Payload
  <2> HIDE DEF left, raw, off, rot
  <2>8. r2 = [r EXCEPT !.left = left, !.raw = raw, !.off = off, !.rot = rot]
    BY <2>7, Zenon DEF RD
  <2>9. r2 \in RD
    <3> DEFINE q == [r EXCEPT !.left = left, !.raw = raw]
    <3>1. q \in RD
      BY <2>2, Zenon DEF RD
    <3>2. r2 = [q EXCEPT !.off = off, !.rot = rot]
      BY <2>8 DEF RD
    <3> HIDE DEF q
    <3> QED  BY ONLY <2>2, <2>5, <3>1, <3>2, Zenon DEF RD
  <2>10. /\ r2.pc = "data" /\ r2.fin = r.fin /\ r2.left = left /\ r2.off = off
         /\ r2.rot = rot /\ r2.flate = r.flate /\ r2.tail = r.tail /\ r2.n = r.n
         /\ r2.limit = r.limit /\ r2.msg = r.msg /\ r2.raw = raw /\ r2.got = r.got
         /\ r2.dict = r.dict
    BY <2>8 DEF RD
  <2>11. cfg.client => r2.rot = r2.off % KeyLen
    BY <2>6, <2>10, Zenon
  <2> QED  BY <2>9, <2>10, <2>11, Zenon DEF Paid, left, raw, off
\* The bytes a buffer takes: no more than there are, no more than the limit leaves.
<1>Taken.
      ASSUME rd \in RD, NEW p \in ReadBuf, NEW c \in Nat, NEW k, k = Smaller(Allowed(p), c)
      PROVE  k \in Nat /\ k <= c /\ (rd.n >= 0 => k <= rd.n)
  <2> USE <1>Taken
  <2>1. p \in Nat /\ rd.n \in Int
    BY SizesAreNumbers DEF RD
  <2> QED  BY <2>1 DEF Smaller, Allowed
\* The limit counts them.
<1>Counted.
      ASSUME TypeOK, LimitInv, Live, rd.msg > 0, NEW k \in Nat, rd.n >= 0 => k <= rd.n,
             limit' = limit, rd'.pc = "data", rd'.limit = rd.limit, rd'.got = rd.got + k,
             rd'.n = Spent(k)
      PROVE  LimitInv'
  <2> USE <1>Counted
  <2>1. rd.n \in Int /\ rd.limit \in Int /\ rd.got \in Nat
    BY DEF TypeOK, RD
  <2>2. IF rd.limit >= 0 THEN rd.n = rd.limit + 1 - rd.got /\ rd.n >= 0 ELSE rd.n < 0
    BY DEF LimitInv
  <2>3. IF rd'.limit >= 0 THEN rd'.n = rd'.limit + 1 - rd'.got /\ rd'.n >= 0 ELSE rd'.n < 0
    <3>1. CASE rd.limit >= 0
      <4>1. rd'.n = rd.n - k
        BY <2>1, <2>2, <3>1 DEF Spent
      <4> QED  BY <2>1, <2>2, <3>1, <4>1
    <3>2. CASE ~(rd.limit >= 0)
      BY <2>1, <2>2, <3>2 DEF Spent
    <3> QED  BY <3>1, <3>2
  <2>4. rd'.pc # "eof" /\ rd'.pc # "toobig"
    OBVIOUS
  <2>5. IF limit.asked >= 0 THEN limit.n = limit.asked + 1 ELSE limit.n < 0
    BY DEF LimitInv
  <2> QED  BY <2>3, <2>4, <2>5 DEF LimitInv
\* The end of a frame, within a message or at its end.
<1>FrameEnds.
      ASSUME IInv, cfg' = cfg, mw' = mw, out' = out, wire' = wire, limit' = limit,
             rd.pc = "data", rd.n # 0, rd.left = 0 \/ rd.fin,
             NEW pc \in {"eof", "next"}, rd' = Goes(rd, pc),
             pc = "next" => ~rd.fin /\ ~rd.tail,
             pc = "eof" => rd.fin /\ rd.got = out[rd.msg].len
      PROVE  IInv'
  <2> USE <1>FrameEnds
  <2>0. /\ TypeOK /\ LimitInv /\ ReaderInv /\ rd \in RD
        /\ limit' \in [asked : Int, n : Int] /\ pc \in PC
    BY DEF IInv, TypeOK, PC
  <2>1. rd' \in RD /\ But(rd', rd, pc)
    BY <2>0, <1>GoesType
  <2>2. /\ rd'.pc = pc /\ rd'.fin = rd.fin /\ rd'.left = rd.left /\ rd'.rot = rd.rot
        /\ rd'.off = rd.off /\ rd'.flate = rd.flate /\ rd'.tail = rd.tail /\ rd'.n = rd.n
        /\ rd'.limit = rd.limit /\ rd'.msg = rd.msg /\ rd'.raw = rd.raw
        /\ rd'.got = rd.got /\ rd'.dict = rd.dict
    BY <2>1, ZenonT(60) DEF But
  <2>3. Live /\ Live' /\ rd.msg > 0
    BY <2>0, <2>2 DEF Live, ReaderInv
  <2>4. ReaderAt' = ReaderAt
    <3>1. CASE pc = "next"
      <4>1. ReaderAt' = Position(rd.msg, rd.raw, TRUE)
        BY <2>2, <3>1 DEF ReaderAt
      <4>2. ReaderAt = Position(rd.msg, rd.raw + rd.left, TRUE)
        BY <3>1, Zenon DEF ReaderAt
      <4>3. rd.raw + rd.left = rd.raw
        BY <2>0, <3>1 DEF RD
      <4> QED  BY <4>1, <4>2, <4>3, Zenon
    <3>2. CASE pc = "eof"
      BY <2>2, <3>2 DEF ReaderAt
    <3> QED  BY <3>1, <3>2
  <2>5. LimitInv'
    <3>1. IF rd'.limit >= 0 THEN rd'.n = rd'.limit + 1 - rd'.got /\ rd'.n >= 0 ELSE rd'.n < 0
      BY <2>0, <2>2, <2>3 DEF LimitInv
    <3>2. rd'.pc # "toobig" /\ rd'.n # 0
      BY <2>2
    <3> QED  BY <2>0, <3>1, <3>2 DEF LimitInv
  <2>6. ReaderInv'
    <3>1. CASE pc = "next"
      BY <2>0, <2>2, <3>1, ZenonT(60) DEF ReaderInv
    <3>2. CASE pc = "eof"
      <4>1. out[rd.msg].done
        BY <2>0, <3>2 DEF ReaderInv
      <4>2. cfg.takeover => rd.dict = Window(End(out, rd.msg))
        <5>1. cfg.takeover =>
                rd.dict = Window(out[rd.msg].win.hi + IF rd.flate THEN rd.got ELSE 0)
          BY <2>0 DEF ReaderInv
        <5>2. rd.flate = out[rd.msg].flate /\ rd.got = out[rd.msg].len /\ rd.msg # 0
          BY <2>0, <2>3, <3>2 DEF ReaderInv, RD
        <5>3. End(out, rd.msg) = out[rd.msg].win.hi + IF rd.flate THEN rd.got ELSE 0
          BY <5>2 DEF End
        <5> QED  BY <5>1, <5>3
      <4> QED  BY <2>0, <2>2, <3>2, <4>1, <4>2, ZenonT(60) DEF ReaderInv
    <3> QED  BY <3>1, <3>2, Zenon
  <2> QED  BY <2>0, <2>1, <2>2, <2>3, <2>4, <2>5, <2>6, ReaderStays
\* Bytes of the payload: g of them are text of a message that is not compressed.
<1>PaidKeeps.
      ASSUME IInv, cfg' = cfg, mw' = mw, out' = out, wire' = wire, limit' = limit,
             rd.pc = "data", ~rd.tail, NEW k \in Nat, k <= rd.left,
             NEW g \in {0, k}, g = IF rd.flate THEN 0 ELSE k,
             rd' \in RD, LimitInv', rd'.pc = "data", rd'.fin = rd.fin, rd'.left = rd.left - k,
             cfg.client => rd'.rot = rd'.off % KeyLen, rd'.flate = rd.flate,
             rd'.tail = rd.tail, rd'.msg = rd.msg, rd'.raw = rd.raw + k,
             rd'.got = rd.got + g, rd'.dict = rd.dict
      PROVE  IInv'
  <2> USE <1>PaidKeeps
  <2>0. /\ TypeOK /\ ReaderInv /\ rd \in RD /\ limit' \in [asked : Int, n : Int]
    BY DEF IInv, TypeOK
  <2>1. rd.raw \in Nat /\ rd.left \in Nat /\ rd.got \in Nat
    BY <2>0 DEF RD
  <2>2. rd'.raw + rd'.left = rd.raw + rd.left
    BY <2>1
  <2>3. Live /\ ReaderAt' = ReaderAt
    <3>1. CASE rd.fin
      BY <3>1 DEF ReaderAt, Live
    <3>2. CASE ~rd.fin
      <4>1. ReaderAt' = Position(rd.msg, rd'.raw + rd'.left, TRUE)
        BY <3>2 DEF ReaderAt
      <4>2. ReaderAt = Position(rd.msg, rd.raw + rd.left, TRUE)
        BY <3>2 DEF ReaderAt
      <4>3. ReaderAt' = ReaderAt
        BY <2>2, <4>1, <4>2, Zenon
      <4> QED  BY <4>3 DEF Live
    <3> QED  BY <3>1, <3>2
  <2>4. ReaderInv'
    <3>1. /\ rd.msg > 0 /\ rd.flate = out[rd.msg].flate /\ (~rd.flate => rd.got = rd.raw)
          /\ (rd.flate => rd.got = 0)
          /\ (cfg.takeover =>
                rd.dict = Window(out[rd.msg].win.hi + IF rd.flate THEN rd.got ELSE 0))
          /\ (~rd.flate => rd.raw + rd.left <= out[rd.msg].len)
          /\ (rd.fin => out[rd.msg].done /\ rd.raw + rd.left = Total(out, rd.msg))
      BY <2>0 DEF ReaderInv
    <3>2. (~rd'.flate => rd'.got = rd'.raw) /\ (rd'.flate => rd'.got = 0)
      BY <2>1, <3>1
    <3>3. (IF rd'.flate THEN rd'.got ELSE 0) = IF rd.flate THEN rd.got ELSE 0
      BY <3>1, <3>2, Zenon
    <3>4. cfg.takeover =>
            rd'.dict = Window(out[rd.msg].win.hi + IF rd'.flate THEN rd'.got ELSE 0)
      BY <3>1, <3>3, Zenon
    <3>5. /\ ~rd'.flate => rd'.raw + rd'.left <= out'[rd'.msg].len
          /\ rd'.fin => out'[rd'.msg].done /\ rd'.raw + rd'.left = Total(out', rd'.msg)
      BY <2>2, <3>1, Zenon
    <3>6. rd'.pc # "garbled" /\ rd'.pc # "next" /\ rd'.pc # "eof" /\ rd'.pc # "header"
          /\ rd'.pc \in {"next", "data"} /\ rd'.pc \notin {"eof", "header"}
      OBVIOUS
    <3>7. /\ rd'.msg > 0 /\ rd'.flate = out'[rd'.msg].flate /\ ~rd'.tail
          /\ (cfg'.client => rd'.rot = rd'.off % KeyLen)
          /\ (cfg'.takeover =>
                rd'.dict = Window(out'[rd'.msg].win.hi + IF rd'.flate THEN rd'.got ELSE 0))
      BY <3>1, <3>4, Zenon
    <3> QED  BY <3>2, <3>5, <3>6, <3>7, ZenonT(60) DEF ReaderInv
  <2> QED  BY <2>0, <2>3, <2>4, ReaderStays
<1>ReadPlainKeeps.
      ASSUME IInv, ReadPlain
      PROVE  IInv'
  <2> USE <1>ReadPlainKeeps
  <2>0. /\ TypeOK /\ LimitInv /\ ReaderInv /\ rd \in RD /\ cfg' = cfg /\ mw' = mw
        /\ out' = out /\ wire' = wire /\ limit' = limit
        /\ rd.pc = "data" /\ ~rd.flate /\ rd.n # 0
    BY Zenon DEF IInv, TypeOK, ReadPlain
  <2>1. /\ rd.msg > 0 /\ Live /\ ~rd.tail /\ rd.got = rd.raw /\ rd.flate = out[rd.msg].flate
        /\ (cfg.client => rd.rot = rd.off % KeyLen)
    BY <2>0 DEF ReaderInv, Live
  <2>2. ASSUME NEW p \in ReadBuf, NEW k, k = Smaller(Allowed(p), rd.left),
               rd' = [Payload(rd, k) EXCEPT !.got = @ + k, !.n = Spent(k)]
        PROVE  IInv'
    <3>1. rd.left \in Nat /\ rd.got \in Nat /\ rd.n \in Int
      BY <2>0 DEF RD
    <3>2. k \in Nat /\ k <= rd.left /\ (rd.n >= 0 => k <= rd.n)
      BY <2>0, <2>2, <3>1, <1>Taken
    <3> DEFINE u == Payload(rd, k)
               g == rd.got + k
               nn == Spent(k)
    <3>3. g \in Nat /\ nn \in Int
      BY <3>1, <3>2 DEF Spent
    <3>4. u = Payload(rd, k) /\ rd' = [u EXCEPT !.got = @ + k, !.n = nn]
      BY <2>2
    <3> HIDE DEF u, nn
    <3>5. u \in RD /\ Paid(u, rd, k)
      BY <2>0, <2>1, <3>2, <3>4, <1>PayloadType
    <3>6. /\ u.pc = "data" /\ u.fin = rd.fin /\ u.left = rd.left - k /\ u.off = rd.off + k
          /\ (cfg.client => u.rot = u.off % KeyLen)
          /\ u.flate = rd.flate /\ u.tail = rd.tail /\ u.n = rd.n
          /\ u.limit = rd.limit /\ u.msg = rd.msg /\ u.raw = rd.raw + k /\ u.got = rd.got
          /\ u.dict = rd.dict
      BY <3>5, Zenon DEF Paid
    <3>7. rd' = [u EXCEPT !.got = g, !.n = nn]
      BY <3>4, <3>5, <3>6 DEF RD
    <3> HIDE DEF g
    <3>8. rd' \in RD
      BY ONLY <3>3, <3>5, <3>7, Zenon DEF RD
    <3>9. /\ rd'.pc = u.pc /\ rd'.fin = u.fin /\ rd'.left = u.left /\ rd'.off = u.off
          /\ rd'.rot = u.rot /\ rd'.flate = u.flate /\ rd'.tail = u.tail /\ rd'.n = nn
          /\ rd'.limit = u.limit /\ rd'.msg = u.msg /\ rd'.raw = u.raw /\ rd'.got = g
          /\ rd'.dict = u.dict
      BY ONLY <3>5, <3>7 DEF RD
    <3>10. /\ rd'.pc = "data" /\ rd'.fin = rd.fin /\ rd'.left = rd.left - k
           /\ (cfg.client => rd'.rot = rd'.off % KeyLen) /\ rd'.flate = rd.flate
           /\ rd'.tail = rd.tail /\ rd'.msg = rd.msg /\ rd'.raw = rd.raw + k
           /\ rd'.got = rd.got + k /\ rd'.dict = rd.dict /\ rd'.limit = rd.limit
           /\ rd'.n = Spent(k)
      BY <3>6, <3>9, Zenon DEF g, nn
    <3>11. LimitInv'
      BY <2>0, <2>1, <3>2, <3>10, <1>Counted
    <3>12. k \in {0, k} /\ k = IF rd.flate THEN 0 ELSE k
      BY <2>0
    <3> QED  BY <2>0, <2>1, <3>2, <3>8, <3>10, <3>11, <3>12, <1>PaidKeeps
  <2>3. CASE rd.left = 0 /\ rd' = [rd EXCEPT !.pc = IF rd.fin THEN "eof" ELSE "next"]
    <3> DEFINE pc == IF rd.fin THEN "eof" ELSE "next"
    <3>1. pc \in {"eof", "next"} /\ rd' = Goes(rd, pc) /\ (pc = "next" => ~rd.fin /\ ~rd.tail)
          /\ (pc = "eof" => rd.fin)
      BY <2>1, <2>3 DEF Goes
    <3>2. rd.fin => rd.got = out[rd.msg].len
      <4>1. rd.fin => rd.raw + rd.left = Total(out, rd.msg)
        BY <2>0 DEF ReaderInv
      <4>2. Total(out, rd.msg) = out[rd.msg].len
        BY <2>0, <2>1 DEF Total
      <4>3. rd.raw \in Nat
        BY <2>0 DEF RD
      <4> QED  BY <2>1, <2>3, <4>1, <4>2, <4>3
    <3> HIDE DEF pc
    <3> QED  BY <2>0, <2>3, <3>1, <3>2, <1>FrameEnds
  <2> QED  BY <2>2, <2>3, Zenon DEF ReadPlain
<1>ReadRawKeeps.
      ASSUME IInv, ReadRaw
      PROVE  IInv'
  <2> USE <1>ReadRawKeeps
  <2>0. /\ TypeOK /\ LimitInv /\ ReaderInv /\ rd \in RD /\ cfg' = cfg /\ mw' = mw
        /\ out' = out /\ wire' = wire /\ limit' = limit
        /\ limit' \in [asked : Int, n : Int]
        /\ rd.pc = "data" /\ rd.flate /\ rd.n # 0 /\ ~rd.tail
        /\ rd' = IF rd.left > 0 THEN Payload(rd, Smaller(4096, rd.left))
                 ELSE IF rd.fin THEN [rd EXCEPT !.tail = TRUE]
                 ELSE [rd EXCEPT !.pc = "next"]
    BY SMT, SMTT(60) DEF IInv, TypeOK, ReadRaw
  <2>1. /\ rd.msg > 0 /\ Live /\ rd.got = 0 /\ rd.flate = out[rd.msg].flate
        /\ (cfg.client => rd.rot = rd.off % KeyLen)
    BY <2>0, Zenon DEF ReaderInv, Live
  <2>2. rd.left \in Nat /\ rd.got \in Nat /\ rd.n \in Int /\ rd.limit \in Int
    BY <2>0 DEF RD
  <2>a. /\ IF rd.limit >= 0 THEN rd.n = rd.limit + 1 - rd.got /\ rd.n >= 0 ELSE rd.n < 0
        /\ IF limit.asked >= 0 THEN limit.n = limit.asked + 1 ELSE limit.n < 0
    BY <2>0, <2>1, SMT, SMTT(60) DEF LimitInv
  <2>3. CASE rd.left > 0
    <3> DEFINE k == Smaller(4096, rd.left)
    <3>1. k \in Nat /\ k <= rd.left
      BY <2>2 DEF Smaller
    <3>2. rd' = Payload(rd, k)
      BY <2>0, <2>3, SMT, SMTT(60)
    <3> HIDE DEF k
    <3>3. rd' \in RD /\ Paid(rd', rd, k)
      BY <2>0, <2>1, <3>1, <3>2, <1>PayloadType, Zenon
    <3>4. /\ rd'.pc = "data" /\ rd'.fin = rd.fin /\ rd'.left = rd.left - k
          /\ (cfg.client => rd'.rot = rd'.off % KeyLen) /\ rd'.flate = rd.flate
          /\ rd'.tail = rd.tail /\ rd'.msg = rd.msg /\ rd'.raw = rd.raw + k
          /\ rd'.got = rd.got /\ rd'.dict = rd.dict /\ rd'.limit = rd.limit
          /\ rd'.n = rd.n
      BY <3>3, Zenon DEF Paid
    <3>5. LimitInv'
      <4>1. rd'.pc # "eof" /\ rd'.pc # "toobig"
        BY <3>4
      <4> QED  BY <2>0, <2>a, <3>4, <4>1 DEF LimitInv
    <3>6. rd'.got = rd.got + 0 /\ 0 = IF rd.flate THEN 0 ELSE k
      BY <2>0, <2>2, <3>4
    <3> QED  BY <2>0, <3>1, <3>3, <3>4, <3>5, <3>6, <1>PaidKeeps, Zenon
  <2>4. CASE ~(rd.left > 0) /\ rd.fin
    <3>1. rd' = [rd EXCEPT !.tail = TRUE] /\ rd.left = 0
      BY <2>0, <2>2, <2>4, SMT, SMTT(60)
    <3>2. rd' \in RD
      BY <2>0, <3>1, Zenon DEF RD
    <3>3. /\ rd'.pc = "data" /\ rd'.fin = rd.fin /\ rd'.left = 0 /\ rd'.rot = rd.rot
          /\ rd'.off = rd.off /\ rd'.flate = rd.flate /\ rd'.tail = TRUE /\ rd'.n = rd.n
          /\ rd'.limit = rd.limit /\ rd'.msg = rd.msg /\ rd'.raw = rd.raw
          /\ rd'.got = rd.got /\ rd'.dict = rd.dict
      BY <2>0, <3>1, Zenon DEF RD
    <3>4. LimitInv'
      <4>1. rd'.pc # "eof" /\ rd'.pc # "toobig"
        BY <3>3
      <4> QED  BY <2>0, <2>a, <3>3, <4>1, SMT, SMTT(60) DEF LimitInv
    <3>5. rd'.got <= out[rd.msg].len
      <4>1. out[rd.msg].len \in Nat
        BY <2>1, ReadingOne DEF Message
      <4> QED  BY <2>1, <3>3, <4>1
    <3>6. ReaderInv'
      BY <2>0, <2>1, <2>4, <3>1, <3>3, <3>5 DEF ReaderInv
    <3>7. ReaderAt' = ReaderAt
      <4>1. ReaderAt = Position(rd.msg, 0, FALSE)
        BY <2>0, <2>4 DEF ReaderAt
      <4>2. ReaderAt' = Position(rd'.msg, 0, FALSE)
        BY <2>4, <3>3 DEF ReaderAt
      <4> QED  BY <3>3, <4>1, <4>2, Zenon
    <3> QED  BY <2>0, <2>1, <3>2, <3>3, <3>4, <3>6, <3>7, ReaderStays
  <2>5. CASE ~(rd.left > 0) /\ ~rd.fin
    <3>1. rd' = Goes(rd, "next") /\ rd.left = 0
      BY <2>0, <2>2, <2>5 DEF Goes
    <3>2. "next" \in {"eof", "next"} /\ "next" # "eof"
      OBVIOUS
    <3> QED  BY <2>0, <2>5, <3>1, <3>2, <1>FrameEnds
  <2> QED  BY <2>3, <2>4, <2>5
\* Text that goes into the window of a reader that is at a position.
<1>SlideWindow.
      ASSUME NEW p \in Nat, NEW k \in Nat
      PROVE  Slide(Window(p), p, k) = Window(p + k)
  BY <1>SlideWindow, SizesAreNumbers DEF Slide, Window, Larger
<1>ReadTextKeeps.
      ASSUME IInv, ReadText
      PROVE  IInv'
  <2> USE <1>ReadTextKeeps
  <2> DEFINE m == out[rd.msg]
  <2>0. /\ TypeOK /\ LimitInv /\ ReaderInv /\ rd \in RD /\ cfg' = cfg /\ mw' = mw
        /\ out' = out /\ wire' = wire /\ limit' = limit
        /\ limit' \in [asked : Int, n : Int]
        /\ rd.pc = "data" /\ rd.flate /\ rd.n # 0 /\ rd.tail
    BY Zenon DEF IInv, TypeOK, ReadText
  <2>1. /\ rd.msg > 0 /\ Live /\ rd.flate = m.flate /\ rd.fin /\ rd.left = 0
        /\ rd.got <= m.len /\ m.done /\ rd.raw + rd.left = Total(out, rd.msg)
        /\ (cfg.client => rd.rot = rd.off % KeyLen)
        /\ (cfg.takeover => rd.dict = Window(m.win.hi + IF rd.flate THEN rd.got ELSE 0))
    BY <2>0, Zenon DEF ReaderInv, Live
  <2>2. rd.left \in Nat /\ rd.got \in Nat /\ rd.n \in Int /\ rd.limit \in Int /\ rd.raw \in Nat
    BY <2>0 DEF RD
  <2>3. m \in Message /\ m.len \in Nat /\ m.z \in Nat /\ m.win.hi \in Nat
    <3>1. m \in Message
      BY <2>1, ReadingOne
    <3> HIDE DEF m
    <3> QED  BY <3>1 DEF Message
  <2>4. rd.raw = m.z - 4
    <3>1. Total(out, rd.msg) = m.z - 4
      BY <2>0, <2>1 DEF Total
    <3> QED  BY <2>1, <2>2, <2>3, <3>1
  <2>5. \/ rd.got = m.len /\ rd' = [rd EXCEPT !.pc = "eof"]
        \/ \E p \in ReadBuf :
              LET k == Smaller(Allowed(p), m.len - rd.got)
              IN rd' = [rd EXCEPT !.got = @ + k, !.n = Spent(k),
                          !.dict = IF cfg.takeover THEN Slide(@, m.win.hi + rd.got, k)
                                   ELSE @]
    BY <2>4, Zenon DEF ReadText
  <2>6. CASE rd.got = m.len /\ rd' = [rd EXCEPT !.pc = "eof"]
    <3>1. rd' = Goes(rd, "eof") /\ "eof" \in {"eof", "next"} /\ "eof" # "next"
      BY <2>6 DEF Goes
    <3> QED  BY <2>0, <2>1, <2>6, <3>1, <1>FrameEnds
  <2>7. ASSUME NEW p \in ReadBuf, NEW k, k = Smaller(Allowed(p), m.len - rd.got),
               rd' = [rd EXCEPT !.got = @ + k, !.n = Spent(k),
                        !.dict = IF cfg.takeover THEN Slide(@, m.win.hi + rd.got, k)
                                 ELSE @]
        PROVE  IInv'
    <3>1. m.len - rd.got \in Nat
      BY <2>1, <2>2, <2>3
    <3>2. k \in Nat /\ k <= m.len - rd.got /\ (rd.n >= 0 => k <= rd.n)
      BY <2>0, <2>7, <3>1, <1>Taken
    <3> DEFINE g == rd.got + k
               nn == Spent(k)
               at == m.win.hi + rd.got
               d == IF cfg.takeover THEN Slide(rd.dict, at, k) ELSE rd.dict
    <3>3. g \in Nat /\ nn \in Int /\ g <= m.len /\ at \in Nat
      BY <2>2, <2>3, <3>2 DEF Spent
    <3>4. cfg.takeover => d = Window(m.win.hi + g)
      <4>1. cfg.takeover => rd.dict = Window(at)
        BY <2>0, <2>1
      <4>2. Slide(Window(at), at, k) = Window(at + k)
        BY <3>2, <3>3, <1>SlideWindow
      <4>3. at + k = m.win.hi + g
        BY <2>2, <2>3, <3>2
      <4> QED  BY <4>1, <4>2, <4>3, Zenon
    <3>5. d \in Windows
      <4>1. CASE cfg.takeover
        <5>1. m.win.hi + g \in Nat
          BY <2>3, <3>3
        <5>2. Window(m.win.hi + g) \in Windows
          <6> DEFINE x == m.win.hi + g
          <6>1. x \in Nat
            BY <5>1
          <6> HIDE DEF x
          <6>2. Window(x) \in Windows
            BY <6>1, SizesAreNumbers DEF Window, Windows, Larger
          <6> QED  BY <6>2 DEF x
        <5> QED  BY <3>4, <4>1, <5>2
      <4>2. CASE ~cfg.takeover
        BY <2>0, <4>2 DEF RD
      <4> QED  BY <4>1, <4>2
    <3>6. rd' = [rd EXCEPT !.got = g, !.n = nn, !.dict = d]
      BY <2>7, Zenon
    <3> HIDE DEF g, nn, d, at, m
    <3>7. rd' \in RD
      BY ONLY <2>0, <3>3, <3>5, <3>6, Zenon DEF RD
    <3>8. /\ rd'.pc = "data" /\ rd'.fin = rd.fin /\ rd'.left = rd.left /\ rd'.rot = rd.rot
          /\ rd'.off = rd.off /\ rd'.flate = rd.flate /\ rd'.tail = rd.tail /\ rd'.n = nn
          /\ rd'.limit = rd.limit /\ rd'.msg = rd.msg /\ rd'.raw = rd.raw
          /\ rd'.got = g /\ rd'.dict = d
      BY <2>0, <3>6, ZenonT(60) DEF RD
    <3>9. LimitInv'
      <4>1. rd'.got = rd.got + k /\ rd'.n = Spent(k)
        BY <3>8 DEF g, nn
      <4> QED  BY <2>0, <2>1, <3>2, <3>8, <4>1, <1>Counted
    <3>10. ReaderInv'
      <4>1. cfg'.takeover =>
              rd'.dict = Window(out'[rd'.msg].win.hi + IF rd'.flate THEN rd'.got ELSE 0)
        <5>1. (IF rd'.flate THEN rd'.got ELSE 0) = g /\ out'[rd'.msg] = m
          BY <2>0, <3>8, Zenon DEF m
        <5> QED  BY <2>0, <3>4, <3>8, <5>1, Zenon
      <4>2. rd'.got <= out'[rd'.msg].len /\ rd'.raw + rd'.left = Total(out', rd'.msg)
            /\ out'[rd'.msg].done /\ rd'.flate = out'[rd'.msg].flate /\ rd'.msg > 0
        BY <2>0, <2>1, <3>3, <3>8, Zenon DEF m
      <4>3. rd'.pc = "data" /\ rd'.tail /\ rd'.flate /\ rd'.fin /\ rd'.left = 0
            /\ (cfg'.client => rd'.rot = rd'.off % KeyLen)
        BY <2>0, <2>1, <3>8, Zenon
      <4> QED  BY <4>1, <4>2, <4>3 DEF ReaderInv
    <3>11. ReaderAt' = ReaderAt
      <4>1. ReaderAt = Position(rd.msg, 0, FALSE)
        BY <2>0, <2>1 DEF ReaderAt
      <4>2. ReaderAt' = Position(rd'.msg, 0, FALSE)
        BY <2>1, <3>8 DEF ReaderAt
      <4> QED  BY <3>8, <4>1, <4>2, Zenon
    <3> QED  BY <2>0, <2>1, <3>7, <3>8, <3>9, <3>10, <3>11, ReaderStays, SMT, SMTT(60)
  <2> HIDE DEF m
  <2> QED  BY <2>5, <2>6, <2>7, Zenon
<1> QED  BY <1>ReaderKeeps, <1>ReadHeaderKeeps, <1>TooBigKeeps, <1>ReadPlainKeeps,
            <1>ReadRawKeeps, <1>ReadTextKeeps, <1>ReadFailsKeeps, <1>SetReadLimitKeeps

-----------------------------------------------------------------------------
(* What the writer sends.                                                  *)

\* The headers that writeFrameHeader can write.
Header == [fin : BOOLEAN, rsv1 : BOOLEAN, rsv2 : BOOLEAN, opcode : 0..15,
           masked : BOOLEAN, payloadLength : Length]

\* readFrameHeader gives back what writeFrameHeader was given.
LEMMA HeaderRoundTrip ==
    \A h \in Header : /\ WriteFrameHeader(h) \in Seq(Nat)
                      /\ ReadFrameHeader(WriteFrameHeader(h)) = h
\* A length comes out of its bytes as it went in.
<1>LengthBytes.
      ASSUME NEW n \in Length
      PROVE /\ 256 * ((n \div 256) % 256) + (n % 256) = n % 65536
            /\ 65536 * (256 * ((n \div 16777216) % 256) + ((n \div 65536) % 256))
                 + (256 * ((n \div 256) % 256) + (n % 256)) = n
            /\ n <= MaxUint16 => n % 65536 = n
  BY <1>LengthBytes DEF MaxUint16, MaxLength, Length
\* The two bytes of a header and those that follow them.
<1>HeaderBytes.
      ASSUME NEW h \in Header,
             NEW n, n = h.payloadLength,
             NEW b, b = WriteFrameHeader(h)
      PROVE  /\ b \in Seq(Nat)
             /\ b[1] = Bit(h.fin, 128) + Bit(h.rsv1, 64) + Bit(h.rsv2, 32) + h.opcode
             /\ b[2] = Bit(h.masked, 128) + LengthByte(n)
             /\ n > 125 /\ n <= MaxUint16 =>
                  b[3] = (n \div 256) % 256 /\ b[4] = n % 256
             /\ n > MaxUint16 =>
                  /\ b[3] = 0 /\ b[4] = 0 /\ b[5] = 0 /\ b[6] = 0
                  /\ b[7] = (n \div 16777216) % 256 /\ b[8] = (n \div 65536) % 256
                  /\ b[9] = (n \div 256) % 256 /\ b[10] = n % 256
  <2> USE <1>HeaderBytes
  <2> DEFINE x == Bit(h.fin, 128) + Bit(h.rsv1, 64) + Bit(h.rsv2, 32) + h.opcode
             y == Bit(h.masked, 128) + LengthByte(n)
             e == BigEndian(n, Extended(n))
             k == [i \in 1..(IF h.masked THEN KeyLen ELSE 0) |-> 0]
  <2>0. b = <<x, y>> \o e \o k
    BY DEF WriteFrameHeader
  <2>1. n \in Length /\ x \in Nat /\ y \in Nat
    BY SMT DEF Header, Bit, LengthByte, Extended, MaxUint16, MaxLength, Length
  <2>2. k \in Seq(Nat)
    <3>1. (IF h.masked THEN KeyLen ELSE 0) \in Nat
      BY DEF KeyLen
    <3> QED  BY <3>1
  <2>3. CASE n <= 125
    <3>1. e = <<>>
      BY <2>1, <2>3, SMT DEF BigEndian, Extended, MaxUint16, MaxLength, Length
    <3> HIDE DEF x, y, e, k
    <3>2. b \in Seq(Nat) /\ b[1] = x /\ b[2] = y
      BY <2>0, <2>1, <2>2, <3>1
    <3> QED  BY <2>1, <2>3, <3>2, SMT, SMTT(60) DEF x, y, MaxUint16, MaxLength, Length
  <2>4. CASE n > 125 /\ n <= MaxUint16
    <3>1. e = <<(n \div 256) % 256, n % 256>>
      <4>1. Extended(n) = 2
        BY <2>1, <2>4, SMT DEF Extended, MaxUint16, MaxLength, Length
      <4> QED  BY <4>1, SMT DEF BigEndian
    <3>2. (n \div 256) % 256 \in Nat /\ n % 256 \in Nat
      BY <2>1, SMT DEF MaxLength, Length
    <3> HIDE DEF x, y, e, k
    <3>3. /\ b \in Seq(Nat) /\ b[1] = x /\ b[2] = y
             /\ b[3] = (n \div 256) % 256 /\ b[4] = n % 256
      BY <2>0, <2>1, <2>2, <3>1, <3>2, SMT
    <3>4. ~(n > MaxUint16)
      BY <2>1, <2>4 DEF MaxUint16, Length
    <3> QED  BY ONLY <2>4, <3>3, <3>4, SMT DEF x, y
  <2>5. CASE n > MaxUint16
    <3>1. e = <<0, 0, 0, 0, (n \div 16777216) % 256, (n \div 65536) % 256,
                (n \div 256) % 256, n % 256>>
      <4>1. Extended(n) = 8
        BY <2>1, <2>5, SMT DEF Extended, MaxUint16, MaxLength, Length
      <4> QED  BY <4>1, SMT DEF BigEndian
    <3>2. /\ (n \div 16777216) % 256 \in Nat /\ (n \div 65536) % 256 \in Nat
          /\ (n \div 256) % 256 \in Nat /\ n % 256 \in Nat
      BY <2>1, SMT DEF MaxLength, Length
    <3> HIDE DEF x, y, e, k
    <3>3. /\ b \in Seq(Nat) /\ b[1] = x /\ b[2] = y
             /\ b[3] = 0 /\ b[4] = 0 /\ b[5] = 0 /\ b[6] = 0
             /\ b[7] = (n \div 16777216) % 256 /\ b[8] = (n \div 65536) % 256
             /\ b[9] = (n \div 256) % 256 /\ b[10] = n % 256
      BY <2>0, <2>1, <2>2, <3>1, <3>2, SMT
    <3>4. ~(n <= MaxUint16)
      BY <2>1, <2>5, SMT DEF MaxUint16, Length
    <3> QED  BY ONLY <2>5, <3>3, <3>4, SMT DEF x, y
  <2> QED
    <3>1. n <= 125 \/ (n > 125 /\ n <= MaxUint16) \/ n > MaxUint16
      BY <2>1, SMT DEF MaxUint16, Length
    <3> QED  BY ONLY <3>1, <2>3, <2>4, <2>5
\* The bits of a byte.
<1>Bits.
      ASSUME NEW f \in {0, 1}, NEW r \in {0, 1}, NEW s \in {0, 1}, NEW o \in 0..15,
             NEW x, x = 128 * f + 64 * r + 32 * s + o
      PROVE  /\ (x \div 128) % 2 = f /\ (x \div 64) % 2 = r
             /\ (x \div 32) % 2 = s /\ x % 16 = o
  BY <1>Bits, SMT
<1>1.
      ASSUME NEW h \in Header
      PROVE  /\ WriteFrameHeader(h) \in Seq(Nat)
             /\ ReadFrameHeader(WriteFrameHeader(h)) = h
  <2> USE <1>1
  <2> DEFINE n == h.payloadLength
             b == WriteFrameHeader(h)
  <2>1. n \in Length /\ h.opcode \in 0..15
    BY DEF Header
  <2>2. /\ b \in Seq(Nat)
        /\ b[1] = Bit(h.fin, 128) + Bit(h.rsv1, 64) + Bit(h.rsv2, 32) + h.opcode
        /\ b[2] = Bit(h.masked, 128) + LengthByte(n)
    BY <1>HeaderBytes, SMT
  <2> DEFINE One(t) == IF t THEN 1 ELSE 0
  <2>a. LengthByte(n) \in 0..127
    BY <2>1, SMT DEF LengthByte, Extended, MaxUint16, MaxLength, Length
  <2>b. /\ One(h.fin) \in {0, 1} /\ One(h.rsv1) \in {0, 1} /\ One(h.rsv2) \in {0, 1}
        /\ One(h.masked) \in {0, 1}
        /\ Bit(h.fin, 128) = 128 * One(h.fin) /\ Bit(h.rsv1, 64) = 64 * One(h.rsv1)
        /\ Bit(h.rsv2, 32) = 32 * One(h.rsv2)
        /\ Bit(h.masked, 128) = 128 * One(h.masked)
        /\ (One(h.fin) = 1 <=> h.fin) /\ (One(h.rsv1) = 1 <=> h.rsv1)
        /\ (One(h.rsv2) = 1 <=> h.rsv2) /\ (One(h.masked) = 1 <=> h.masked)
    BY SMT DEF Bit, Header
  <2>c. h.fin \in BOOLEAN /\ h.rsv1 \in BOOLEAN /\ h.rsv2 \in BOOLEAN /\ h.masked \in BOOLEAN
    BY DEF Header
  <2>3. /\ HasBit(b[1], 128) = h.fin /\ HasBit(b[1], 64) = h.rsv1
        /\ HasBit(b[1], 32) = h.rsv2 /\ b[1] % 16 = h.opcode
    <3> HIDE DEF b, n, One
    <3>1. /\ (b[1] \div 128) % 2 = One(h.fin) /\ (b[1] \div 64) % 2 = One(h.rsv1)
          /\ (b[1] \div 32) % 2 = One(h.rsv2) /\ b[1] % 16 = h.opcode
      <4>1. b[1] = 128 * One(h.fin) + 64 * One(h.rsv1) + 32 * One(h.rsv2) + h.opcode
        BY ONLY <2>2, <2>b, ZenonT(60)
      <4> QED  BY ONLY <2>1, <2>b, <4>1, <1>Bits, SMT
    <3> QED  BY <3>1, <2>b, <2>c, SMT, SMTT(60) DEF HasBit
  <2>4. /\ HasBit(b[2], 128) = h.masked
        /\ b[2] % 128 = LengthByte(n)
    <3> HIDE DEF b, n, One
    <3>1. (b[2] \div 128) % 2 = One(h.masked) /\ b[2] % 128 = LengthByte(n)
      <4>1. b[2] = 128 * One(h.masked) + LengthByte(n)
        BY ONLY <2>2, <2>b, Zenon
      <4> QED  BY ONLY <2>a, <2>b, <4>1, SMT
    <3> QED  BY <3>1, <2>b, <2>c, SMT DEF HasBit
  <2>5. ReadFrameHeader(b).payloadLength = n
    <3>1. CASE n <= 125
      BY <2>1, <2>4, <3>1, SMT DEF ReadFrameHeader, LengthByte, Extended, MaxUint16,
         MaxLength, Length
    <3>2. CASE n > 125 /\ n <= MaxUint16
      <4>1. b[3] = (n \div 256) % 256 /\ b[4] = n % 256
        BY <3>2, <1>HeaderBytes, SMT
      <4>2. LengthByte(n) = 126
        BY <2>1, <3>2, SMT DEF LengthByte, Extended, MaxUint16, MaxLength, Length
      <4> HIDE DEF b, n
      <4>3. ReadFrameHeader(b).payloadLength = 256 * b[3] + b[4]
        BY <2>4, <4>2, SMT DEF ReadFrameHeader, Uint16
      <4> QED  BY <2>1, <3>2, <4>1, <4>3, <1>LengthBytes
    <3>3. CASE n > MaxUint16
      <4>1. /\ b[3] = 0 /\ b[4] = 0 /\ b[5] = 0 /\ b[6] = 0
            /\ b[7] = (n \div 16777216) % 256 /\ b[8] = (n \div 65536) % 256
            /\ b[9] = (n \div 256) % 256 /\ b[10] = n % 256
        BY <3>3, <1>HeaderBytes, SMT
      <4>2. LengthByte(n) = 127
        BY <2>1, <3>3, SMT DEF LengthByte, Extended, MaxUint16, MaxLength, Length
      <4> HIDE DEF b, n
      <4>3. ReadFrameHeader(b).payloadLength = Int64(b, 2)
        BY <2>4, <4>2, SMT DEF ReadFrameHeader
      <4>4. Int64(b, 2) = 65536 * (256 * b[7] + b[8]) + (256 * b[9] + b[10])
        BY <2>1, <4>1, SMT DEF Int64, Uint16, MaxLength, Length
      <4> QED  BY <2>1, <4>1, <4>3, <4>4, <1>LengthBytes
    <3> QED
      <4>1. n <= 125 \/ (n > 125 /\ n <= MaxUint16) \/ n > MaxUint16
        BY <2>1, SMT DEF MaxUint16, Length
      <4> QED  BY ONLY <4>1, <3>1, <3>2, <3>3, SMT
  <2> DEFINE short == b[2] % 128
             len == CASE short < 126 -> short
                      [] short = 126 -> Uint16(b, 2)
                      [] short = 127 -> Int64(b, 2)
  <2>6. ReadFrameHeader(b) = [fin |-> h.fin, rsv1 |-> h.rsv1, rsv2 |-> h.rsv2,
                              opcode |-> h.opcode, masked |-> h.masked,
                              payloadLength |-> len]
    <3>1. ReadFrameHeader(b) =
            [fin |-> HasBit(b[1], 128), rsv1 |-> HasBit(b[1], 64),
             rsv2 |-> HasBit(b[1], 32), opcode |-> b[1] % 16,
             masked |-> HasBit(b[2], 128), payloadLength |-> len]
      BY DEF ReadFrameHeader
    <3> HIDE DEF b, len
    <3> QED  BY <2>3, <2>4, <3>1, Zenon
  <2>7. h = [fin |-> h.fin, rsv1 |-> h.rsv1, rsv2 |-> h.rsv2, opcode |-> h.opcode,
             masked |-> h.masked, payloadLength |-> n]
    BY DEF Header
  <2> QED
    <3> HIDE DEF b, n, len
    <3>1. ReadFrameHeader(b).payloadLength = len
      BY <2>6
    <3>2. ReadFrameHeader(b) = h
      BY <2>5, <2>6, <2>7, <3>1, Zenon
    <3> QED  BY <2>2, <3>2 DEF b
<1> QED  BY <1>1

\* Another frame at the end of a path makes it longer.
LEMMA LeadsAppend ==
    \A o : \A w \in Seq(Frame), q, r \in Positions, f \in Frame :
       Leads(o, w, q) /\ Step(o, f, q, r) => Leads(o, Append(w, f), r)
\* A frame more at the writer's end.
<1>PathAppend.
      ASSUME NEW o, NEW w \in Seq(Frame), NEW f \in Frame, NEW p, NEW q,
             NEW r \in Positions, Path(o, w, p, q), Step(o, f, q, r)
      PROVE  Path(o, Append(w, f), p, r)
  <2> USE <1>PathAppend
  <2>1. PICK pos \in [1..(Len(w) + 1) -> Positions] :
               /\ pos[1] = p /\ pos[Len(w) + 1] = q
               /\ \A k \in 1..Len(w) : Step(o, w[k], pos[k], pos[k + 1])
    BY DEF Path
  <2> DEFINE n == Len(w)
             v == Append(w, f)
             new == [k \in 1..(Len(v) + 1) |-> IF k <= n + 1 THEN pos[k] ELSE r]
  <2>2. n \in Nat /\ Len(v) = n + 1 /\ v[n + 1] = f
        /\ \A k \in 1..n : v[k] = w[k]
    OBVIOUS
  <2> HIDE DEF n, v
  <2>3. new \in [1..(Len(v) + 1) -> Positions] /\ new[1] = p /\ new[Len(v) + 1] = r
    BY <2>1, <2>2 DEF n
  <2>4. ASSUME NEW k \in 1..Len(v)
        PROVE  Step(o, v[k], new[k], new[k + 1])
    <3>1. CASE k <= n
      <4>1. new[k] = pos[k] /\ new[k + 1] = pos[k + 1] /\ k \in 1..n
        BY <2>2, <3>1
      <4> QED  BY <2>1, <2>2, <4>1 DEF n
    <3>2. CASE k = n + 1
      <4>1. new[k] = q /\ new[k + 1] = r
        BY <2>1, <2>2, <3>2 DEF n
      <4> QED  BY <2>2, <3>2, <4>1
    <3> QED  BY <2>2, <3>1, <3>2
  <2> HIDE DEF new
  <2> QED  BY <2>3, <2>4, Zenon DEF Path, v
<1>1.
      ASSUME NEW o, NEW w \in Seq(Frame), NEW q \in Positions, NEW r \in Positions,
             NEW f \in Frame, Leads(o, w, q), Step(o, f, q, r)
      PROVE  Leads(o, Append(w, f), r)
  <2> USE <1>1
  <2>1. f.msg <= r.msg /\ q.msg <= r.msg
    <3>1. CASE Skipped(f, q) /\ r = q
      BY <3>1 DEF Skipped, Positions
    <3>2. CASE Carries(o, f, q, r)
      <4>1. f.msg = IF q.open THEN q.msg ELSE q.msg + 1
        BY <3>2, Zenon DEF Carries
      <4>2. \E x, y : r = Position(f.msg, x, y)
        BY <3>2, Zenon DEF Carries
      <4>3. r.msg = f.msg
        BY <4>2 DEF Position
      <4>4. q.msg \in Nat
        BY DEF Positions
      <4> QED  BY <4>1, <4>3, <4>4
    <3> QED  BY <3>1, <3>2 DEF Step
  <2>2. \A k \in 1..Len(Append(w, f)) : Append(w, f)[k].msg <= r.msg
    <3>1. \A k \in 1..Len(w) : w[k] \in Frame /\ w[k].msg <= q.msg
      BY DEF Leads
    <3>2. \A k \in 1..Len(w) : w[k].msg <= r.msg
      <4>1. \A k \in 1..Len(w) : w[k].msg \in Nat
        BY <3>1, Zenon DEF Frame
      <4>2. q.msg \in Nat /\ r.msg \in Nat
        BY DEF Positions
      <4> QED  BY <2>1, <3>1, <4>1, <4>2
    <3> QED  BY <2>1, <3>2
  <2>3. Live => Path(o, Append(w, f), ReaderAt, r)
    BY <1>PathAppend DEF Leads
  <2> QED  BY <2>2, <2>3 DEF Leads
<1> QED  BY <1>1

\* What is known of the messages up to one stays so.
Keeps(o, o2, last) ==
    \A m \in 1..last :
        /\ m \in 1..Len(o) => m \in 1..Len(o2)
        /\ o2[m].flate = o[m].flate /\ o2[m].win = o[m].win
        /\ o2[m].len >= o[m].len
        /\ o[m].done => o2[m] = o[m]

\* A path stays one while the last message grows.
LEMMA LeadsKept ==
    \A o, o2 \in Seq(Message), w \in Seq(Frame), q \in Positions :
       Keeps(o, o2, q.msg) /\ Leads(o, w, q) => Leads(o2, w, q)
<1>StepKept.
      ASSUME NEW o \in Seq(Message), NEW o2 \in Seq(Message), NEW f \in Frame,
             NEW p \in Positions, NEW q, NEW last \in Nat,
             f.msg <= last, Keeps(o, o2, last), Step(o, f, p, q)
      PROVE  Step(o2, f, p, q)
  <2> USE <1>StepKept
  <2>1. CASE Skipped(f, p) /\ q = p
    BY <2>1 DEF Step
  <2>2. CASE Carries(o, f, p, q)
    <3> DEFINE m == f.msg
               to == Base(p) + f.len
    <3>1. m \in 1..Len(o) /\ m \in 1..last
      <4>1. m \in 1..Len(o) /\ m <= last
        BY <2>2, ZenonT(60) DEF Carries
      <4>2. Len(o) \in Nat
        BY ONLY o \in Seq(Message)
      <4> HIDE DEF m
      <4> QED  BY ONLY <4>1, <4>2, last \in Nat
    <3>2. /\ m \in 1..Len(o2) /\ o2[m].flate = o[m].flate
          /\ o2[m].len >= o[m].len /\ (o[m].done => o2[m] = o[m])
      BY <3>1, ZenonT(60) DEF Keeps
    <3>3. o[m].len \in Nat /\ o2[m].len \in Nat /\ to \in Nat
      <4>1. o[m] \in Message /\ o2[m] \in Message
        <5> HIDE DEF m
        <5> QED  BY ONLY <3>1, <3>2, o \in Seq(Message), o2 \in Seq(Message)
      <4>2. to \in Nat
        BY DEF Base, Positions, Frame
      <4> HIDE DEF m, to
      <4> QED  BY <4>1, <4>2, Zenon DEF Message
    <3>4. ~o[m].flate => to <= o[m].len
      BY <2>2, ZenonT(60) DEF Carries
    <3>5. ~o2[m].flate => to <= o2[m].len
      <4> HIDE DEF m, to
      <4> QED  BY <3>2, <3>3, <3>4
    <3>6. ReadFrameHeader(f.hdr).fin => o2[m].done /\ to = Total(o2, m)
      <4>1. ReadFrameHeader(f.hdr).fin => o[m].done /\ to = Total(o, m)
        BY <2>2, ZenonT(60) DEF Carries
      <4> HIDE DEF m, to
      <4> QED  BY <3>2, <4>1, ZenonT(60) DEF Total
    <3>7. Carries(o2, f, p, q)
      BY <2>2, <3>2, <3>5, <3>6, ZenonT(60) DEF Carries
    <3> QED  BY <3>7, SMT, SMTT(60) DEF Step
  <2> QED  BY <2>1, <2>2 DEF Step
<1>PathKept.
      ASSUME NEW o \in Seq(Message), NEW o2 \in Seq(Message), NEW w \in Seq(Frame),
             NEW p, NEW q, NEW last \in Nat,
             \A k \in 1..Len(w) : w[k].msg <= last,
             Keeps(o, o2, last), Path(o, w, p, q)
      PROVE  Path(o2, w, p, q)
  <2> USE <1>PathKept
  <2>1. PICK pos \in [1..(Len(w) + 1) -> Positions] :
               /\ pos[1] = p /\ pos[Len(w) + 1] = q
               /\ \A k \in 1..Len(w) : Step(o, w[k], pos[k], pos[k + 1])
    BY ZenonT(60) DEF Path
  <2>2. ASSUME NEW k \in 1..Len(w)
        PROVE  Step(o2, w[k], pos[k], pos[k + 1])
    <3>1. w[k] \in Frame /\ pos[k] \in Positions /\ w[k].msg <= last
      OBVIOUS
    <3> QED  BY <2>1, <3>1, <1>StepKept, ZenonT(60)
  <2> QED  BY <2>1, <2>2, Zenon DEF Path
<1>1.
      ASSUME NEW o \in Seq(Message), NEW o2 \in Seq(Message), NEW w \in Seq(Frame),
             NEW q \in Positions, Keeps(o, o2, q.msg), Leads(o, w, q)
      PROVE  Leads(o2, w, q)
  <2> USE <1>1
  <2>1. q.msg \in Nat
    BY DEF Positions
  <2> QED  BY <2>1, <1>PathKept, Zenon DEF Leads
<1> QED  BY <1>1

\* A payload masked in the pieces that fit the bufio.Writer is masked as a whole.
Masks == \A b \in 0..BufLen, n \in Nat : MaskedInPieces(b, n)

\* A frame that is due: of the message o has, from where the stream is, within the
\* message, and final only at its end.
Fits(s, o, fin, from, n, a) ==
    LET base == Base(At(s, a))
    IN /\ s.msg \in 1..Len(o)
       /\ s.flate = o[s.msg].flate
       /\ s.flate => cfg.flate
       /\ n > 0 => from = base
       /\ ~s.flate => base + n <= o[s.msg].len
       /\ fin => o[s.msg].done /\ base + n = Total(o, s.msg)

\* Where the stream is after it.
After(s, fin, n, a) ==
    Position(s.msg, IF fin THEN 0 ELSE Base(At(s, a)) + n, ~fin)

\* The msgWriter after a frame.
Put(s, b, frames) ==
    [s EXCEPT !.opcode = opContinuation, !.buf = b, !.frames = frames]

\* The frames on their way once those of s are sent.
Sent(w, s) == w \o s.frames

\* Two states of the msgWriter within a write: the same message; what of it is held
\* back and what compress/flate wrote; a frame of it was written.
Same(t, s) ==
    /\ t.mu = s.mu /\ t.once = s.once /\ t.msg = s.msg /\ t.flate = s.flate
    /\ t.flushed = s.flushed /\ t.text = s.text

\* What the trim writer holds of the compressed bytes.
Held(t, tl, zz) == t.tail = tl /\ t.z = zz

\* A frame of the message has been sent.
Begun(t) == t.opcode = opContinuation

\* writeFrame, with the frames that are on their way.
LEMMA PutLeads ==
    Masks /\ cfg \in CFG =>
      \A s \in MW, o \in Seq(Message), fin \in BOOLEAN, from \in Nat, n \in Length,
         a \in Nat, w \in Seq(Frame) : \A t :
        /\ t = PutFrame(s, fin, from, n)
        /\ Fits(s, o, fin, from, n, a) /\ Leads(o, Sent(w, s), At(s, a))
        => /\ t \in MW /\ Begun(t) /\ Same(t, s) /\ Held(t, s.tail, s.z)
           /\ Leads(o, Sent(w, t), After(s, fin, n, a))
\* The bufio.Writer holds what fits.
<1>FilledFits.
      ASSUME NEW b \in 0..BufLen, NEW k \in Nat
      PROVE  Filled(b, k) \in 0..BufLen
  BY <1>FilledFits, SizesAreNumbers DEF Filled
<1>PutType.
      ASSUME NEW s \in MW, NEW b \in 0..BufLen, NEW fs \in Seq(Frame),
             NEW t, t = Put(s, b, fs)
      PROVE  /\ t \in MW /\ t.opcode = opContinuation /\ t.buf = b /\ t.frames = fs
             /\ t.mu = s.mu /\ t.once = s.once /\ t.msg = s.msg /\ t.flate = s.flate
             /\ t.tail = s.tail /\ t.z = s.z /\ t.flushed = s.flushed /\ t.text = s.text
  BY <1>PutType, ZenonT(60) DEF MW, Put
\* writeFrame puts a frame that carries the stream on.
<1>PutStep.
      ASSUME Masks, cfg \in CFG, NEW s \in MW, NEW o \in Seq(Message), NEW fin \in BOOLEAN,
             NEW from \in Nat, NEW n \in Length, NEW a \in Nat,
             Fits(s, o, fin, from, n, a)
      PROVE  \E f \in Frame, b \in 0..BufLen :
               /\ PutFrame(s, fin, from, n) = Put(s, b, Append(s.frames, f))
               /\ Step(o, f, At(s, a), After(s, fin, n, a))
  <2> USE <1>PutStep
  <2> DEFINE base == Base(At(s, a))
             h == [fin |-> fin, rsv1 |-> s.flate /\ s.opcode # opContinuation,
                   rsv2 |-> FALSE, opcode |-> s.opcode, masked |-> cfg.client,
                   payloadLength |-> n]
             hdr == WriteFrameHeader(h)
             b1 == Filled(s.buf, Len(hdr))
             b2 == IF fin THEN 0 ELSE Filled(b1, n)
             f == [hdr |-> hdr, msg |-> s.msg, from |-> from, len |-> n,
                   sound |-> cfg.client => MaskedInPieces(b1, n)]
  <2>0. n \in Nat
    BY DEF Length
  <2>f. /\ s.msg \in 1..Len(o) /\ s.flate = o[s.msg].flate /\ (s.flate => cfg.flate)
        /\ (n > 0 => from = base) /\ (~s.flate => base + n <= o[s.msg].len)
        /\ (fin => o[s.msg].done /\ base + n = Total(o, s.msg))
    BY ZenonT(60) DEF Fits
  <2> HIDE DEF base
  <2>1. h \in Header
    BY DEF Header, MW, CFG, opContinuation, opText
  <2>2. hdr \in Seq(Nat) /\ ReadFrameHeader(hdr) = h
    <3> HIDE DEF h
    <3> QED  BY <2>1, HeaderRoundTrip
  <2>3. b1 \in 0..BufLen
    <3>1. Len(hdr) \in Nat /\ s.buf \in 0..BufLen
      <4> HIDE DEF hdr
      <4> QED  BY <2>2 DEF MW
    <3> HIDE DEF hdr
    <3> QED  BY <3>1, <1>FilledFits, Zenon
  <2>4. b2 \in 0..BufLen
    <3> HIDE DEF b1
    <3>1. Filled(b1, n) \in 0..BufLen
      BY <2>0, <2>3, <1>FilledFits
    <3>2. 0 \in 0..BufLen
      BY SizesAreNumbers
    <3> QED  BY <3>1, <3>2, Zenon
  <2>5. MaskedInPieces(b1, n)
    <3> HIDE DEF b1
    <3> QED  BY <2>0, <2>3 DEF Masks
  <2>6. f \in Frame /\ f.sound /\ f.msg = s.msg /\ f.len = n /\ f.from = from
        /\ f.hdr = hdr
    <3> HIDE DEF hdr, b1
    <3> QED  BY <2>0, <2>2, <2>5, Zenon DEF Frame, MW
  <2>7. PutFrame(s, fin, from, n) = Put(s, b2, Append(s.frames, f))
    BY DEF PutFrame, Put
  <2>8. /\ h.fin = fin /\ h.rsv1 = (s.flate /\ s.opcode # opContinuation)
        /\ h.rsv2 = FALSE /\ h.opcode = s.opcode /\ h.masked = cfg.client
        /\ h.payloadLength = n
    BY Zenon
  <2>9. ~Refused(h) /\ h.opcode < opClose
    <3>1. s.opcode \in {0, 1} /\ s.flate \in BOOLEAN /\ cfg.client \in BOOLEAN
          /\ cfg.flate \in BOOLEAN
      BY DEF MW, CFG, opContinuation, opText
    <3> HIDE DEF h
    <3>2. h.opcode < opClose /\ ~(h.payloadLength < 0)
          /\ h.opcode \in {opContinuation, opText, opBinary, opClose, opPing, opPong}
      BY <2>0, <2>8, <3>1 DEF opContinuation, opText, opBinary, opClose
    <3>3. ~(h.rsv1 /\ (~cfg.flate \/ h.opcode \notin {opText, opBinary}))
      BY <2>f, <2>8, <3>1, Zenon DEF opContinuation, opText
    <3> QED  BY <2>8, <3>1, <3>2, <3>3, Zenon DEF Refused
  <2>10. /\ At(s, a).open = (s.opcode = opContinuation)
         /\ s.msg = IF At(s, a).open THEN At(s, a).msg ELSE At(s, a).msg + 1
    <3>1. s.msg \in Nat
      BY DEF MW
    <3>2. CASE s.opcode = opContinuation
      BY <3>1, <3>2, Zenon DEF At, Position
    <3>3. CASE s.opcode # opContinuation
      <4>1. At(s, a).open = FALSE /\ At(s, a).msg = s.msg - 1
        BY <3>3 DEF At, Position
      <4>2. s.msg = (s.msg - 1) + 1
        BY <3>1
      <4> QED  BY <3>3, <4>1, <4>2, Zenon
    <3> QED  BY <3>2, <3>3
  <2>11. Carries(o, f, At(s, a), After(s, fin, n, a))
    <3> HIDE DEF h, hdr, b1, b2, f
    <3> USE <2>0, <2>2, <2>6, <2>8, <2>f
    <3>1. s.msg \in 1..Len(o) /\ ~Refused(h) /\ h.opcode < opClose
      BY <2>9
    <3>2. At(s, a).open = (h.opcode = opContinuation)
      BY <2>10, ZenonT(60)
    <3>3. h.rsv1 = (~At(s, a).open /\ o[s.msg].flate)
      BY <2>10, ZenonT(60)
    <3>4. h.fin => o[s.msg].done /\ base + n = Total(o, s.msg)
      BY Zenon
    <3> QED  BY <2>10, <3>1, <3>2, <3>3, <3>4, ZenonT(60) DEF Carries, After, base
  <2> HIDE DEF f, b2
  <2> QED  BY <2>4, <2>6, <2>7, <2>11, ZenonT(60) DEF Step
<1>ConcatAppend.
      ASSUME NEW S, NEW u \in Seq(S), NEW v \in Seq(S), NEW e \in S
      PROVE  u \o Append(v, e) = Append(u \o v, e)
  <2> USE <1>ConcatAppend
  <2> DEFINE x == u \o Append(v, e)
             y == Append(u \o v, e)
  <2>1. x \in Seq(S) /\ y \in Seq(S)
    OBVIOUS
  <2>2. Len(x) = Len(y)
    OBVIOUS
  <2>3. \A k \in 1..Len(x) : x[k] = y[k]
    OBVIOUS
  <2> HIDE DEF x, y
  <2> QED  BY <2>1, <2>2, <2>3 DEF x, y
<1>1.
      ASSUME Masks, cfg \in CFG, NEW s \in MW, NEW o \in Seq(Message), NEW fin \in BOOLEAN,
             NEW from \in Nat, NEW n \in Length, NEW a \in Nat,
             Fits(s, o, fin, from, n, a),
             NEW w \in Seq(Frame), Leads(o, Sent(w, s), At(s, a)),
             NEW t, t = PutFrame(s, fin, from, n)
      PROVE  /\ t \in MW /\ Begun(t) /\ Same(t, s) /\ Held(t, s.tail, s.z)
             /\ Leads(o, Sent(w, t), After(s, fin, n, a))
  <2> USE <1>1
  <2> DEFINE r == After(s, fin, n, a)
  <2>1. PICK f \in Frame, b \in 0..BufLen :
               t = Put(s, b, Append(s.frames, f)) /\ Step(o, f, At(s, a), r)
    BY <1>PutStep
  <2>2. s.frames \in Seq(Frame) /\ s.msg \in Nat
    BY DEF MW
  <2>3. /\ t \in MW /\ t.frames = Append(s.frames, f) /\ t.opcode = opContinuation
        /\ t.mu = s.mu /\ t.once = s.once /\ t.msg = s.msg /\ t.flate = s.flate
        /\ t.tail = s.tail /\ t.z = s.z /\ t.flushed = s.flushed /\ t.text = s.text
    <3> DEFINE fs == Append(s.frames, f)
    <3>1. fs \in Seq(Frame)
      BY <2>2
    <3>2. t = Put(s, b, fs)
      BY <2>1
    <3> HIDE DEF fs
    <3>3. /\ t \in MW /\ t.frames = fs /\ t.opcode = opContinuation
          /\ t.mu = s.mu /\ t.once = s.once /\ t.msg = s.msg /\ t.flate = s.flate
          /\ t.tail = s.tail /\ t.z = s.z /\ t.flushed = s.flushed /\ t.text = s.text
      BY ONLY <3>1, <3>2, s \in MW, b \in 0..BufLen, <1>PutType
    <3> QED  BY <3>3 DEF fs
  <2>4. w \o t.frames = Append(w \o s.frames, f)
    <3> DEFINE g == s.frames
    <3>1. g \in Seq(Frame) /\ t.frames = Append(g, f)
      BY <2>2, <2>3
    <3> HIDE DEF g
    <3>2. w \o Append(g, f) = Append(w \o g, f)
      BY ONLY <3>1, w \in Seq(Frame), f \in Frame, <1>ConcatAppend, SMT, SMTT(60)
    <3> QED  BY <3>1, <3>2, Zenon DEF g
  <2>5. w \o s.frames \in Seq(Frame)
    BY <2>2
  <2>6. At(s, a) \in Positions /\ Base(At(s, a)) \in Nat
    <3>1. s.msg - 1 \in Nat
      <4>1. s.msg \in 1..Len(o)
        BY ZenonT(60) DEF Fits
      <4> QED  BY ONLY <2>2, <4>1
    <3>2. At(s, a) \in Positions
      BY <2>2, <3>1, ZenonT(60) DEF At, Position, Positions
    <3> QED  BY <3>2 DEF Base, Positions
  <2>7. r \in Positions
    <3>1. Base(At(s, a)) + n \in Nat
      BY <2>6 DEF Length
    <3> QED  BY <2>2, <3>1, ZenonT(60) DEF After, Position, Positions
  <2> HIDE DEF r
  <2>8. Leads(o, Sent(w, t), r)
    <3> DEFINE v == w \o s.frames
    <3>1. v \in Seq(Frame) /\ Leads(o, v, At(s, a)) /\ Sent(w, t) = Append(v, f)
      BY <2>4, <2>5 DEF Sent
    <3> HIDE DEF v
    <3> QED  BY <2>1, <2>6, <2>7, <3>1, LeadsAppend
  <2> QED  BY <2>3, <2>8 DEF r, Begun, Same, Held
<1> QED  BY <1>1

\* Nothing was sent.
Copied(t, s) == t.opcode = s.opcode /\ t.frames = s.frames

\* A frame, and what the trim writer holds back after it.
Moved(s, tl, zz) == [s EXCEPT !.tail = tl, !.z = zz]

\* The four bytes that are held back, in numbers: of z bytes l are, k more come, x of
\* those l and k are to be written, e of them from the l.
Fours(z, l, k, x, e) ==
    /\ l <= z /\ (l < 4 => l = z) /\ z - l \in Nat /\ x \in Int /\ e \in Int
    /\ z + k \in Nat /\ (k <= 4 \/ k > 4) /\ (k > 4 => ~(k <= 4))
    /\ x <= 0 => /\ l + k \in 0..4 /\ l + k = Smaller(z + k, 4)
                 /\ (z + k) - (l + k) = z - l
    /\ ~(x <= 0) => e \in 0..l /\ e \in 0..4 /\ 4 = Smaller(z + k, 4)
    /\ ~(x <= 0) /\ k <= 4 => /\ e = x /\ e > 0 /\ l - e + k = 4
                              /\ (z + k) - 4 = (z - l) + e
    /\ ~(x <= 0) /\ k > 4 => /\ e = l /\ l - e = 0 /\ (z - l) + e = z
                             /\ (z + k) - 4 = z + (k - 4)
                             /\ ~(e > 0) => l = 0 /\ z = 0 /\ z - l = z

\* trimLastFourBytesWriter.Write: the stream is four bytes behind compress/flate,
\* or has not begun.
LEMMA TrimLeads ==
    Masks /\ cfg \in CFG /\ cfg.flate =>
      \A s \in MW, o \in Seq(Message), n \in Length, w \in Seq(Frame) : \A t :
        /\ t = Trim(s, n)
        /\ s.msg \in 1..Len(o) /\ s.flate /\ o[s.msg].flate = TRUE
        /\ s.tail = Smaller(s.z, 4)
        /\ s.opcode # opContinuation => s.z = s.tail
        /\ Leads(o, Sent(w, s), At(s, s.z - s.tail))
        => /\ t \in MW /\ Same(t, s) /\ Held(t, Smaller(s.z + n, 4), s.z + n)
           /\ Begun(t) \/ s.z + n = Smaller(s.z + n, 4)
           /\ Begun(s) => Begun(t)
           /\ Leads(o, Sent(w, t), At(t, (s.z + n) - Smaller(s.z + n, 4)))
<1>Fours.
      ASSUME NEW z \in Nat, NEW l \in 0..4, NEW k \in Nat, NEW x, NEW e,
             l = Smaller(z, 4), x = l + k - 4, e = Smaller(x, l)
      PROVE  Fours(z, l, k, x, e)
  BY <1>Fours DEF Fours, Smaller
<1>MovedType.
      ASSUME NEW s \in MW, NEW tl \in 0..4, NEW zz \in Nat, NEW t, t = Moved(s, tl, zz)
      PROVE  t \in MW /\ Same(t, s) /\ Held(t, tl, zz) /\ Copied(t, s)
  BY <1>MovedType, Zenon DEF MW, Moved, Same, Held, Copied
<1>PutMoved.
      ASSUME Masks, cfg \in CFG, NEW s \in MW, NEW o \in Seq(Message),
             NEW n \in Length, NEW a \in Nat, Fits(s, o, FALSE, a, n, a), Base(At(s, a)) = a,
             NEW w \in Seq(Frame), Leads(o, Sent(w, s), At(s, a)),
             NEW tl \in 0..4, NEW zz \in Nat,
             NEW t, t = Moved(PutFrame(s, FALSE, a, n), tl, zz)
      PROVE  /\ t \in MW /\ Begun(t) /\ Same(t, s) /\ Held(t, tl, zz)
             /\ Leads(o, Sent(w, t), At(t, a + n))
  <2> USE <1>PutMoved
  <2> DEFINE u == PutFrame(s, FALSE, a, n)
  <2>1. t = Moved(u, tl, zz) /\ u = PutFrame(s, FALSE, a, n)
    OBVIOUS
  <2> HIDE DEF u
  <2>2. /\ u \in MW /\ Begun(u) /\ Same(u, s)
        /\ Leads(o, Sent(w, u), After(s, FALSE, n, a))
    BY <2>1, PutLeads, Zenon
  <2>3. t \in MW /\ Same(t, u) /\ Held(t, tl, zz) /\ Copied(t, u)
    BY <2>1, <2>2, <1>MovedType, Zenon
  <2>4. Begun(t) /\ Same(t, s)
    BY <2>2, <2>3, Zenon DEF Begun, Same, Copied
  <2>5. After(s, FALSE, n, a) = At(t, a + n)
    BY <2>4, Zenon DEF After, At, Begun, Same
  <2>6. Sent(w, t) = Sent(w, u)
    BY <2>3, ZenonT(60) DEF Sent, Copied
  <2> QED  BY <2>2, <2>3, <2>4, <2>5, <2>6, Zenon
<1>1.
      ASSUME Masks, cfg \in CFG, cfg.flate, NEW s \in MW, NEW o \in Seq(Message),
             s.msg \in 1..Len(o), s.flate, o[s.msg].flate = TRUE, s.tail = Smaller(s.z, 4),
             s.opcode # opContinuation => s.z = s.tail,
             NEW n \in Length, NEW w \in Seq(Frame),
             Leads(o, Sent(w, s), At(s, s.z - s.tail)),
             NEW t, t = Trim(s, n)
      PROVE  /\ t \in MW /\ Same(t, s) /\ Held(t, Smaller(s.z + n, 4), s.z + n)
             /\ Begun(t) \/ s.z + n = Smaller(s.z + n, 4)
             /\ Begun(s) => Begun(t)
             /\ Leads(o, Sent(w, t), At(t, (s.z + n) - Smaller(s.z + n, 4)))
  <2> USE <1>1
  <2> DEFINE extra == s.tail + n - 4
             e == Smaller(extra, s.tail)
             a == s.z - s.tail
             s1 == IF e > 0 THEN [PutFrame(s, FALSE, a, e) EXCEPT !.tail = @ - e] ELSE s
  <2>1. /\ n \in Nat /\ s.z \in Nat /\ s.tail \in 0..4 /\ s.tail = Smaller(s.z, 4)
        /\ a = s.z - s.tail /\ extra = s.tail + n - 4 /\ e = Smaller(extra, s.tail)
    BY DEF Length, MW
  <2>3. /\ extra <= 0 => t = [s EXCEPT !.tail = @ + n, !.z = @ + n]
        /\ ~(extra <= 0) /\ n <= 4 => t = [s1 EXCEPT !.tail = @ + n, !.z = @ + n]
        /\ ~(extra <= 0) /\ ~(n <= 4) =>
             t = [PutFrame(s1, FALSE, s.z, n - 4) EXCEPT !.tail = @ + 4, !.z = @ + n]
    BY Zenon DEF Trim
  <2>4. Leads(o, Sent(w, s), At(s, a))
    OBVIOUS
  <2> HIDE DEF extra, a, e
  <2>6. Fours(s.z, s.tail, n, extra, e)
    BY ONLY <2>1, <1>Fours, Zenon
  <2>7. a \in Nat
    BY <2>1, <2>6, Zenon DEF Fours
  <2>2. Base(At(s, a)) = a
    <3>1. CASE s.opcode = opContinuation
      BY <3>1, ZenonT(60) DEF Base, At, Position
    <3>2. CASE s.opcode # opContinuation
      <4>1. Base(At(s, a)) = 0
        BY <3>2, ZenonT(60) DEF Base, At, Position
      <4>2. a = 0
        BY <3>2, <2>1, SMT, SMTT(60)
      <4> QED  BY <4>1, <4>2
    <3> QED  BY <3>1, <3>2
  <2>5. CASE extra <= 0
    <3>1. t = [s EXCEPT !.tail = @ + n, !.z = @ + n]
      BY <2>3, <2>5
    <3>2. s.tail + n \in 0..4 /\ s.z + n \in Nat
      BY <2>5, <2>6, Zenon DEF Fours
    <3>3. /\ t \in MW /\ t.mu = s.mu /\ t.once = s.once /\ t.msg = s.msg
          /\ t.flate = s.flate /\ t.flushed = s.flushed /\ t.text = s.text
          /\ t.z = s.z + n /\ t.tail = s.tail + n /\ t.opcode = s.opcode
          /\ t.frames = s.frames
      BY <3>1, <3>2, ZenonT(60) DEF MW
    <3>4. s.tail + n = Smaller(s.z + n, 4) /\ (s.z + n) - (s.tail + n) = a
      BY <2>1, <2>5, <2>6, Zenon DEF Fours
    <3>5. At(t, a) = At(s, a)
      BY <3>3 DEF At
    <3>a. Sent(w, t) = Sent(w, s)
      BY <3>3 DEF Sent
    <3>6. (Begun(t) \/ s.z + n = s.tail + n) /\ (Begun(s) => Begun(t))
      BY <2>1, <3>3 DEF Begun
    <3>7. Same(t, s) /\ Held(t, s.tail + n, s.z + n)
      BY <3>3 DEF Same, Held
    <3>8. Leads(o, Sent(w, t), At(t, a))
      BY <2>4, <3>5, <3>a
    <3> HIDE DEF a
    <3> QED  BY <3>3, <3>4, <3>6, <3>7, <3>8
  <2>8. ~(extra <= 0) => e \in Length /\ Fits(s, o, FALSE, a, e, a)
    <3>1. ~(extra <= 0) => e \in Length
      <4>1. \A i \in 0..4 : i \in Length
        BY SMT DEF Length, MaxLength
      <4> QED  BY <2>6, <4>1, Zenon DEF Fours
    <3>2. Fits(s, o, FALSE, a, e, a)
      BY <2>2, Zenon DEF Fits
    <3> QED  BY <3>1, <3>2, Zenon
  <2> DEFINE p1 == PutFrame(s, FALSE, a, e)
  <2>9. ~(extra <= 0) => p1 \in MW /\ p1.tail = s.tail /\ p1.z = s.z
    <3> SUFFICES ASSUME ~(extra <= 0) PROVE p1 \in MW /\ p1.tail = s.tail /\ p1.z = s.z
      BY Zenon
    <3>1. p1 = PutFrame(s, FALSE, a, e)
      OBVIOUS
    <3> HIDE DEF p1
    <3>2. p1 \in MW /\ Held(p1, s.tail, s.z)
      BY <2>1, <2>4, <2>7, <2>8, <3>1, PutLeads, Zenon
    <3> QED  BY <3>2 DEF Held
  <2>10. CASE ~(extra <= 0) /\ n <= 4
    <3>1. t = Moved(p1, 4, s.z + n)
      <4>1. s1 = [p1 EXCEPT !.tail = @ - e]
        <5>1. e > 0
          BY <2>6, <2>10, Zenon DEF Fours
        <5> QED  BY <5>1, Zenon
      <4>2. t = [s1 EXCEPT !.tail = @ + n, !.z = @ + n]
        BY <2>3, <2>10
      <4> HIDE DEF p1, s1
      <4>3. t = [p1 EXCEPT !.tail = p1.tail - e + n, !.z = p1.z + n]
        BY <2>9, <2>10, <4>1, <4>2, Zenon DEF MW
      <4>4. p1.tail - e + n = 4 /\ p1.z + n = s.z + n
        BY <2>6, <2>9, <2>10, Zenon DEF Fours
      <4> QED  BY <4>3, <4>4, Zenon DEF Moved
    <3>2. 4 \in 0..4 /\ s.z + n \in Nat /\ 4 = Smaller(s.z + n, 4)
          /\ (s.z + n) - 4 = a + e
      <4>1. 4 \in 0..4
        OBVIOUS
      <4> QED  BY <2>1, <2>6, <2>10, <4>1, Zenon DEF Fours
    <3>3. /\ t \in MW /\ Begun(t) /\ Same(t, s) /\ Held(t, 4, s.z + n)
          /\ Leads(o, Sent(w, t), At(t, a + e))
      <4> DEFINE zz == s.z + n
      <4>1. zz \in Nat /\ t = Moved(PutFrame(s, FALSE, a, e), 4, zz)
        BY <3>1, <3>2
      <4> HIDE DEF zz
      <4>2. /\ t \in MW /\ Begun(t) /\ Same(t, s) /\ Held(t, 4, zz)
            /\ Leads(o, Sent(w, t), At(t, a + e))
        BY <2>2, <2>4, <2>7, <2>8, <2>10, <3>2, <4>1, <1>PutMoved, Zenon
      <4> QED  BY <4>2 DEF zz
    <3> QED  BY <3>2, <3>3, Zenon
  <2>11. CASE ~(extra <= 0) /\ n > 4
    <3>1. s1 \in MW /\ Held(s1, 0, s.z) /\ Same(s1, s)
          /\ Leads(o, Sent(w, s1), At(s1, s.z))
          /\ Base(At(s1, s.z)) = s.z
      <4>1. CASE e > 0
        <5>1. s1 = Moved(p1, 0, s.z)
          <6>1. s1 = [p1 EXCEPT !.tail = @ - e]
            BY <4>1
          <6>2. p1.tail - e = 0 /\ p1.z = s.z /\ p1 \in MW
            <7>1. e = s.tail /\ p1 \in MW /\ p1.tail = s.tail /\ p1.z = s.z
              BY <2>6, <2>9, <2>11, Zenon DEF Fours
            <7> HIDE DEF p1
            <7> QED  BY <2>1, <7>1
          <6> HIDE DEF p1, s1
          <6>3. s1 = [p1 EXCEPT !.tail = 0]
            BY <6>1, <6>2
          <6>4. [p1 EXCEPT !.tail = 0] = [p1 EXCEPT !.tail = 0, !.z = s.z]
            BY <6>2, Zenon DEF MW
          <6> QED  BY <6>3, <6>4, Zenon DEF Moved
        <5>2. 0 \in 0..4 /\ a + e = s.z
          <6>1. 0 \in 0..4
            OBVIOUS
          <6> QED  BY <2>1, <2>6, <2>11, <6>1, Zenon DEF Fours
        <5> HIDE DEF s1
        <5>3. /\ s1 \in MW /\ Begun(s1) /\ Same(s1, s) /\ Held(s1, 0, s.z)
              /\ Leads(o, Sent(w, s1), At(s1, a + e))
          <6>1. s.z \in Nat
            BY <2>1, Zenon
          <6> QED  BY <2>2, <2>4, <2>7, <2>8, <2>11, <5>1, <5>2, <6>1, <1>PutMoved, ZenonT(60)
        <5>4. Base(At(s1, s.z)) = s.z
          BY <5>3, ZenonT(60) DEF Base, At, Position, Begun
        <5> QED  BY <5>2, <5>3, <5>4, Zenon
      <4>2. CASE ~(e > 0)
        <5>1. s1 = s
          BY <4>2
        <5>2. s.tail = 0 /\ s.z = 0 /\ a = s.z
          BY <2>1, <2>6, <2>11, <4>2, Zenon DEF Fours
        <5>3. Same(s, s) /\ Held(s, 0, s.z)
          BY <5>2 DEF Same, Held
        <5> HIDE DEF s1
        <5> QED  BY <2>2, <2>4, <5>1, <5>2, <5>3
      <4> QED  BY <4>1, <4>2
    <3> DEFINE p2 == PutFrame(s1, FALSE, s.z, n - 4)
    <3>2. t = [p2 EXCEPT !.tail = @ + 4, !.z = @ + n]
      <4>1. ~(n <= 4)
        BY <2>1, <2>11
      <4> QED  BY <2>3, <2>11, <4>1
    <3> HIDE DEF s1
    <3>3. n - 4 \in Length
      BY <2>1, <2>11, SMT DEF Length, MaxLength
    <3>4. Fits(s1, o, FALSE, s.z, n - 4, s.z)
      BY <3>1, Zenon DEF Fits, Same
    <3>5. p2 \in MW /\ p2.tail = 0 /\ p2.z = s.z
      <4> DEFINE k == n - 4
      <4>1. k \in Length /\ Fits(s1, o, FALSE, s.z, k, s.z)
            /\ p2 = PutFrame(s1, FALSE, s.z, k)
        BY <3>3, <3>4, Zenon
      <4> HIDE DEF p2, k
      <4>2. p2 \in MW /\ Held(p2, s1.tail, s1.z)
        BY <2>1, <3>1, <4>1, PutLeads, Zenon
      <4> QED  BY <3>1, <4>2 DEF Held
    <3>6. t = Moved(p2, 4, s.z + n)
      <4> HIDE DEF p2
      <4>1. t = [p2 EXCEPT !.tail = p2.tail + 4, !.z = p2.z + n]
        BY <3>2, <3>5 DEF MW
      <4>2. p2.tail + 4 = 4 /\ p2.z + n = s.z + n
        BY <3>5
      <4> QED  BY <4>1, <4>2, Zenon DEF Moved
    <3>7. 4 \in 0..4 /\ s.z + n \in Nat /\ 4 = Smaller(s.z + n, 4)
          /\ (s.z + n) - 4 = s.z + (n - 4)
      <4>1. s.z \in Nat /\ n \in Nat /\ n > 4
        BY <2>1, <2>11
      <4> QED  BY <4>1, SMT, SMTT(60) DEF Smaller
    <3>8. /\ t \in MW /\ Begun(t) /\ Same(t, s) /\ Held(t, 4, s.z + n)
          /\ Leads(o, Sent(w, t), At(t, s.z + (n - 4)))
      <4> DEFINE zz == s.z + n
                 k == n - 4
      <4>1. zz \in Nat /\ t = Moved(PutFrame(s1, FALSE, s.z, k), 4, zz)
            /\ k \in Length /\ Fits(s1, o, FALSE, s.z, k, s.z)
        BY <3>3, <3>4, <3>6, <3>7, Zenon
      <4> HIDE DEF zz, k
      <4>2. /\ t \in MW /\ Begun(t) /\ Same(t, s1) /\ Held(t, 4, zz)
            /\ Leads(o, Sent(w, t), At(t, s.z + k))
        BY <2>1, <3>1, <3>7, <4>1, <1>PutMoved, ZenonT(60)
      <4>3. Same(t, s)
        BY <3>1, <4>2 DEF Same
      <4> QED  BY <4>2, <4>3 DEF zz, k
    <3> QED  BY <3>7, <3>8, Zenon
  <2> QED
    <3>1. n <= 4 \/ n > 4
      BY <2>1
    <3> QED  BY <2>5, <2>10, <2>11, <3>1
<1> HAVE Masks /\ cfg \in CFG /\ cfg.flate
<1> TAKE s \in MW, o \in Seq(Message), n \in Length, w \in Seq(Frame)
<1> TAKE t
<1> QED  BY <1>1, Zenon
==============================================================================
