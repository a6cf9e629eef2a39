------------------------------- MODULE Framing -------------------------------
(***************************************************************************)
(* A message from one end of a websocket connection to the other           *)
(* (internal/nhooyr.io/websocket: write.go, read.go, compress.go, with the *)
(* bytes of FrameHeader): msgWriter cuts it into frames and masks them,    *)
(* msgReader puts it together again, with permessage-deflate or without.   *)
(*                                                                         *)
(* Bytes are their positions: a payload is an interval of the message (or  *)
(* of its compressed form), a window of the compressor an interval of all  *)
(* the text it compressed.  compress/flate is external: how much it writes *)
(* at a time is open, but for the four bytes a flush ends with.            *)
(***************************************************************************)
EXTENDS Integers, Sequences, FrameHeader

CONSTANTS
    Writer,     \* goroutines that write messages
    none,       \* no goroutine
    Chunk,      \* sizes the application writes
    Emit,       \* sizes compress/flate writes, 0 for nothing
    FlushEmit,  \* sizes compress/flate writes when it is flushed
    ReadBuf,    \* sizes of the buffer the application reads into
    Limit,      \* read limits the application sets, -1 for none
    BufLen,     \* size of the bufio.Writer
    WindowLen,  \* size of the sliding window
    MaxMessages, MaxChunks,  \* bounds: messages, writes of one
    MaxFlush,   \* bound: bytes of a flush before its last write
    MaxWire,    \* bound: frames on their way
    MaxExtras   \* bound: control frames, short reads and changes of the limit

ASSUME SizesAreNumbers ==
    /\ Chunk \cup Emit \cup FlushEmit \subseteq Length
    /\ ReadBuf \subseteq Nat \ {0}
    /\ BufLen \in Nat \ {0} /\ WindowLen \in Nat \ {0}
    /\ Limit \subseteq Nat \cup {-1}

ASSUME NoneIsNoWriter == none \notin Writer

VARIABLES
    cfg,     \* is the writer the client, is there compression, context takeover
    mw,      \* msgWriter: mu, opcode, flate, the tail of the trim writer; buf:
             \* bytes in the bufio.Writer; z: bytes of compress/flate for this
             \* message; flushed: those of its flush; text: all it compressed;
             \* once: the call is Conn.Write
    out,     \* the messages begun: len, flate, its compressed length z, the
             \* compressor's window at its start, and whether it is done
    wire,    \* frames on their way
    rd,      \* msgReader and its limitReader, the frame and the message it is at
    limit,   \* limitReader.limit: what SetReadLimit was given, what it stores
    used     \* counts for the bounds

vars == <<cfg, mw, out, wire, rd, limit, used>>

Smaller(a, b) == IF a < b THEN a ELSE b
Larger(a, b) == IF a > b THEN a ELSE b

\* flateThreshold as newConn sets it.
Threshold == IF cfg.takeover THEN 128 ELSE 512

\* newConn on both ends, whatever was negotiated.
Init ==
    /\ cfg \in {c \in [client : BOOLEAN, flate : BOOLEAN, takeover : BOOLEAN] :
                  c.takeover => c.flate}
    /\ mw = [mu |-> none, once |-> FALSE, msg |-> 0, opcode |-> opText,
             flate |-> FALSE, tail |-> 0, buf |-> 0, z |-> 0, flushed |-> 0,
             text |-> 0, frames |-> <<>>]
    /\ out = <<>>
    /\ wire = <<>>
    /\ rd = [pc |-> "eof", fin |-> TRUE, left |-> 0, rot |-> 0, off |-> 0,
             flate |-> FALSE, tail |-> FALSE, n |-> 0, limit |-> 0, msg |-> 0,
             raw |-> 0, got |-> 0, dict |-> [lo |-> 0, hi |-> 0]]
    /\ limit = [asked |-> 32768, n |-> 32768 + 1]
    /\ used = [chunks |-> 0, extras |-> 0]

-----------------------------------------------------------------------------
(* Writing.                                                                *)

\* The bufio.Writer after k more bytes: it flushes when it is full and more
\* comes.
Filled(b, k) == IF k = 0 THEN b ELSE ((b + k - 1) % BufLen) + 1

\* writeFramePayload: the payload goes into the buffer by pieces that fit, each
\* masked where it lies with the key as the one before left it.  Whether every
\* byte met the byte of the key that is due to it.
MaskedInPieces(b, n) ==
    LET first == Smaller(n, IF b = BufLen THEN BufLen ELSE BufLen - b)
        pieces == 1 + (n - first + BufLen - 1) \div BufLen
        start[k \in 1..pieces] == IF k = 1 THEN 0 ELSE first + (k - 2) * BufLen
        rot[k \in 1..pieces] ==
            IF k = 1 THEN 0 ELSE Mask(rot[k - 1], start[k] - start[k - 1])
    IN \A k \in 1..pieces : rot[k] = start[k] % KeyLen

\* writeFrame, called by write and Close: n bytes from the position from; the
\* next frame of the message is a continuation.
PutFrame(s, fin, from, n) ==
    LET hdr == WriteFrameHeader(
                 [fin |-> fin, rsv1 |-> s.flate /\ s.opcode # opContinuation,
                  rsv2 |-> FALSE, opcode |-> s.opcode, masked |-> cfg.client,
                  payloadLength |-> n])
        b == Filled(s.buf, Len(hdr))
    IN [s EXCEPT
          !.opcode = opContinuation,
          !.buf = IF fin THEN 0 ELSE Filled(b, n),
          !.frames = Append(@, [hdr |-> hdr, msg |-> s.msg, from |-> from,
                                len |-> n,
                                sound |-> cfg.client => MaskedInPieces(b, n)])]

\* trimLastFourBytesWriter.Write of n bytes: the last four are held back.
Trim(s, n) ==
    LET extra == s.tail + n - 4
        e == Smaller(extra, s.tail)
        s1 == IF e > 0
              THEN [PutFrame(s, FALSE, s.z - s.tail, e) EXCEPT !.tail = @ - e]
              ELSE s
    IN IF extra <= 0 THEN [s EXCEPT !.tail = @ + n, !.z = @ + n]
       ELSE IF n <= 4 THEN [s1 EXCEPT !.tail = @ + n, !.z = @ + n]
       ELSE [PutFrame(s1, FALSE, s.z, n - 4) EXCEPT !.tail = @ + 4, !.z = @ + n]

\* The frames of a step reach the connection.
Written(s) ==
    /\ mw' = [s EXCEPT !.frames = <<>>]
    /\ wire' = wire \o s.frames

\* The window of compress/flate: the last text it compressed, nothing when the
\* compressor is new to the message.
EncoderWindow ==
    [lo |-> IF cfg.takeover THEN Larger(0, mw.text - WindowLen) ELSE mw.text,
     hi |-> mw.text]

\* msgWriter.reset: one message at a time.
Reset(w) ==
    /\ mw.mu = none
    /\ Len(out) < MaxMessages
    /\ Len(wire) < MaxWire
    /\ out' = Append(out, [len |-> 0, flate |-> FALSE, z |-> 0,
                           win |-> EncoderWindow, done |-> FALSE])
    /\ used' = [used EXCEPT !.chunks = 0]
    /\ \E once \in {cfg.flate, FALSE} :
         mw' = [mw EXCEPT !.mu = w, !.once = once, !.msg = @ + 1, !.opcode = opText,
                          !.flate = FALSE, !.tail = 0, !.z = 0, !.flushed = 0]
    /\ UNCHANGED <<cfg, wire, rd, limit>>

\* msgWriter.Write: the length of the first frame decides on compression.
Write(w) ==
    /\ mw.mu = w /\ mw.flushed = 0
    /\ Len(wire) < MaxWire
    /\ used.chunks < IF mw.once THEN 1 ELSE MaxChunks
    /\ used' = [used EXCEPT !.chunks = @ + 1]
    /\ \E n \in Chunk :
         LET flate == \/ mw.flate
                      \/ cfg.flate /\ mw.opcode # opContinuation /\ n >= Threshold
         IN /\ out' = [out EXCEPT ![Len(out)].len = @ + n, ![Len(out)].flate = flate]
            /\ IF flate
               THEN \E e \in Emit :
                      Written(Trim([mw EXCEPT !.flate = TRUE, !.text = @ + n], e))
               ELSE Written(PutFrame(mw, FALSE, out[Len(out)].len, n))
    /\ UNCHANGED <<cfg, rd, limit>>

\* msgWriter.Close: flush the compressor, which writes by pieces,
Flush(w) ==
    /\ mw.mu = w /\ mw.flate
    /\ mw.once => used.chunks = 1
    /\ mw.flushed < MaxFlush
    /\ Len(wire) < MaxWire
    /\ \E e \in FlushEmit : Written([Trim(mw, e) EXCEPT !.flushed = @ + e])
    /\ UNCHANGED <<cfg, out, rd, limit, used>>

\* then the final frame; a flush writes more than the four bytes it ends with.
Close(w) ==
    /\ mw.mu = w
    /\ mw.once => used.chunks = 1
    /\ mw.flate => mw.flushed > 4
    /\ Len(wire) < MaxWire
    /\ Written([PutFrame(mw, TRUE, 0, 0) EXCEPT !.mu = none])
    /\ out' = [out EXCEPT ![Len(out)].z = mw.z, ![Len(out)].done = TRUE]
    /\ UNCHANGED <<cfg, rd, limit, used>>

\* Conn.Write without compression: one frame.
WriteOnce(w) ==
    /\ ~cfg.flate
    /\ mw.mu = none
    /\ Len(wire) < MaxWire
    /\ Len(out) < MaxMessages
    /\ \E n \in Chunk :
         /\ out' = Append(out, [len |-> n, flate |-> FALSE, z |-> 0,
                                win |-> EncoderWindow, done |-> TRUE])
         /\ Written(PutFrame([mw EXCEPT !.msg = @ + 1, !.opcode = opText,
                                         !.flate = FALSE], TRUE, 0, n))
    /\ UNCHANGED <<cfg, rd, limit, used>>

\* writeControl between the frames of a message, and a frame of a peer that
\* breaks the protocol (external): a reserved bit, an opcode there is not, a
\* length with its top bit set, an unmasked frame for a server, a message within
\* a message or the rest of none.
ControlHeader ==
    [fin |-> TRUE, rsv1 |-> FALSE, rsv2 |-> FALSE, opcode |-> opPing,
     masked |-> cfg.client, payloadLength |-> 0]

Breach ==
    {WriteFrameHeader(h) : h \in
       {[ControlHeader EXCEPT !.rsv2 = TRUE],
        [ControlHeader EXCEPT !.rsv1 = TRUE],
        [ControlHeader EXCEPT !.opcode = 3],
        [ControlHeader EXCEPT !.masked = FALSE, !.opcode =
            IF cfg.client THEN opText ELSE 3],
        [ControlHeader EXCEPT !.opcode =
            IF mw.mu # none /\ mw.opcode = opContinuation THEN opText
            ELSE opContinuation]}}
    \cup {<<130, 127, 255, 0, 0, 0, 0, 0, 0, 1>>}

ControlFrame ==
    /\ used.extras < MaxExtras
    /\ Len(wire) < MaxWire
    /\ used' = [used EXCEPT !.extras = @ + 1]
    /\ \E hdr \in {WriteFrameHeader(ControlHeader)} \cup Breach :
         wire' = Append(wire, [hdr |-> hdr, msg |-> 0, from |-> 0, len |-> 0,
                               sound |-> TRUE])
    /\ mw' = [mw EXCEPT !.buf = 0]
    /\ UNCHANGED <<cfg, out, rd, limit>>

-----------------------------------------------------------------------------
(* Reading.                                                                *)

\* Mutant of Slide: the oldest bytes are not dropped.
SlideKeepsOldest(d, from, n) ==
    IF n >= WindowLen
    THEN [lo |-> from + n - WindowLen, hi |-> from + n]
    ELSE [lo |-> d.lo, hi |-> d.hi + n]

\* slidingWindow.write of n bytes of text from a position.
Slide(d, from, n) ==
    IF n >= WindowLen
    THEN [lo |-> from + n - WindowLen, hi |-> from + n]
    ELSE LET left == WindowLen - (d.hi - d.lo)
         IN [lo |-> d.lo + IF left < n THEN n - left ELSE 0, hi |-> d.hi + n]

\* reader: while the previous message has frames to come the connection is
\* closed; that its last frame has bytes to come is not noticed, and they are
\* taken for a header.
Reader ==
    /\ rd.pc \in {"eof", "data"}
    /\ rd' = [rd EXCEPT !.pc =
                CASE rd.pc = "data" /\ ~rd.fin -> "failed"
                  [] rd.pc = "data" /\ rd.fin /\ (rd.left > 0 \/ rd.flate) -> "lost"
                  [] OTHER -> "header"]
    /\ UNCHANGED <<cfg, mw, out, wire, limit, used>>

\* readLoop's refusal of a header: readFrameHeader's error, reserved bits,
\* readRSV1Illegal, no mask for a server, an unknown opcode.
Refused(h) ==
    \/ h.payloadLength < 0
    \/ h.rsv2
    \/ h.rsv1 /\ (~cfg.flate \/ h.opcode \notin {opText, opBinary})
    \/ cfg.client /\ ~h.masked
    \/ h.opcode \notin {opContinuation, opText, opBinary, opClose, opPing, opPong}

\* msgReader.setFrame, and the position the frame's payload has: what comes next
\* of the message, or something else.
SetFrame(r, h, f) ==
    [r EXCEPT !.pc = IF f.sound /\ f.msg = r.msg /\ f.len = h.payloadLength
                        /\ (f.len > 0 => f.from = r.raw)
                     THEN "data" ELSE "garbled",
              !.fin = h.fin, !.left = h.payloadLength, !.rot = 0, !.off = 0]

\* msgReader.reset.
ResetReader(h) ==
    [rd EXCEPT !.flate = h.rsv1, !.tail = FALSE, !.n = limit.n, !.limit = limit.asked,
               !.msg = @ + 1, !.raw = 0, !.got = 0]

\* readLoop: the header of a new message, or of the next frame of one.
ReadHeader ==
    /\ rd.pc \in {"header", "next"}
    /\ wire # <<>>
    /\ wire' = Tail(wire)
    /\ LET f == Head(wire)
           h == ReadFrameHeader(f.hdr)
       IN rd' = CASE Refused(h) -> [rd EXCEPT !.pc = "failed"]
                  [] ~Refused(h) /\ h.opcode >= opClose -> rd
                  [] ~Refused(h) /\ h.opcode < opClose ->
                       IF (rd.pc = "next") # (h.opcode = opContinuation)
                       THEN [rd EXCEPT !.pc = "failed"]
                       ELSE SetFrame(IF rd.pc = "next" THEN rd ELSE ResetReader(h),
                                     h, f)
    /\ UNCHANGED <<cfg, mw, out, limit, used>>

\* readFramePayload of k bytes, unmasked by a server.
Payload(r, k) ==
    [r EXCEPT !.left = @ - k, !.raw = @ + k, !.off = @ + k,
              !.rot = IF cfg.client THEN Mask(@, k) ELSE @,
              !.pc = IF cfg.client /\ r.rot # r.off % KeyLen THEN "garbled" ELSE @]

\* limitReader.Read: the bytes a buffer may take, and what is left after k.
Allowed(p) == IF rd.n < 0 THEN p ELSE Smaller(p, rd.n)
Spent(k) == IF rd.n < 0 THEN rd.n ELSE rd.n - k

TooBig ==
    /\ rd.pc = "data"
    /\ rd.n = 0
    /\ rd' = [rd EXCEPT !.pc = "toobig"]
    /\ UNCHANGED <<cfg, mw, out, wire, limit, used>>

\* A read buffer of the application; short ones are counted.
Buffers(n) ==
    /\ n \in ReadBuf
    /\ \/ used' = [used EXCEPT !.extras = @ + 1] /\ used.extras < MaxExtras
       \/ UNCHANGED used /\ \A p \in ReadBuf : p <= n

\* msgReader.Read and read, not compressed.
ReadPlain ==
    /\ rd.pc = "data" /\ ~rd.flate /\ rd.n # 0
    /\ \/ /\ rd.left > 0
          /\ \E p \in ReadBuf :
               /\ Buffers(p)
               /\ LET k == Smaller(Allowed(p), rd.left)
                  IN rd' = [Payload(rd, k) EXCEPT !.got = @ + k, !.n = Spent(k)]
       \/ /\ rd.left = 0
          /\ rd' = [rd EXCEPT !.pc = IF rd.fin THEN "eof" ELSE "next"]
          /\ UNCHANGED used
    /\ UNCHANGED <<cfg, mw, out, wire, limit>>

\* The same for a compressed message: the decompressor takes frame after frame,
\* at the end the four bytes that the writer trimmed.
ReadRaw ==
    /\ rd.pc = "data" /\ rd.flate /\ rd.n # 0
    /\ ~rd.tail
    /\ rd' = IF rd.left > 0 THEN Payload(rd, Smaller(4096, rd.left))
             ELSE IF rd.fin THEN [rd EXCEPT !.tail = TRUE]
             ELSE [rd EXCEPT !.pc = "next"]
    /\ UNCHANGED <<cfg, mw, out, wire, limit, used>>

\* Then there is text, and what was read goes into the window.  The end of the
\* text is the end of the message.
ReadText ==
    /\ rd.pc = "data" /\ rd.flate /\ rd.n # 0
    /\ rd.tail
    /\ LET m == out[rd.msg]
       IN IF rd.raw # m.z - 4
          THEN rd' = [rd EXCEPT !.pc = "garbled"] /\ UNCHANGED used
          ELSE IF rd.got = m.len
          THEN rd' = [rd EXCEPT !.pc = "eof"] /\ UNCHANGED used
          ELSE \E p \in ReadBuf :
                 /\ Buffers(p)
                 /\ LET k == Smaller(Allowed(p), m.len - rd.got)
                    IN rd' = [rd EXCEPT !.got = @ + k, !.n = Spent(k),
                                !.dict = IF cfg.takeover
                                         THEN Slide(@, m.win.hi + rd.got, k)
                                         ELSE @]
    /\ UNCHANGED <<cfg, mw, out, wire, limit>>

\* The connection breaks while the reader waits for bytes.
ReadFails ==
    /\ rd.pc \in {"header", "next"} \/ (rd.pc = "data" /\ rd.left > 0)
    /\ rd' = [rd EXCEPT !.pc = "failed"]
    /\ UNCHANGED <<cfg, mw, out, wire, limit, used>>

\* Mutant of SetReadLimit: no byte for the final frame.
SetReadLimitAsIs ==
    /\ used.extras < MaxExtras
    /\ used' = [used EXCEPT !.extras = @ + 1]
    /\ \E n \in Limit : limit' = [asked |-> n, n |-> n]
    /\ UNCHANGED <<cfg, mw, out, wire, rd>>

\* SetReadLimit, at any time.
SetReadLimit ==
    /\ used.extras < MaxExtras
    /\ used' = [used EXCEPT !.extras = @ + 1]
    /\ \E n \in Limit :
         limit' = [asked |-> n, n |-> IF n >= 0 THEN n + 1 ELSE n]
    /\ UNCHANGED <<cfg, mw, out, wire, rd>>

-----------------------------------------------------------------------------
Next ==
    \/ \E w \in Writer :
         Reset(w) \/ Write(w) \/ Flush(w) \/ Close(w) \/ WriteOnce(w)
    \/ ControlFrame
    \/ Reader \/ ReadHeader \/ TooBig \/ ReadPlain \/ ReadRaw \/ ReadText
    \/ ReadFails \/ SetReadLimit

Spec == Init /\ [][Next]_vars

-----------------------------------------------------------------------------
(* Properties.                                                             *)

\* The reader gets the messages in the order they were written, each from its
\* first byte on without a gap, unmasked and decompressed right, and takes none
\* for complete that is not: however the writer cuts it into frames, wherever the
\* buffer, a control frame or a short read splits it, and whatever a peer sends
\* that is no part of it.
ReadsWhatWasWritten ==
    /\ rd.pc # "garbled"
    /\ rd.pc = "eof" /\ rd.msg > 0 => out[rd.msg].done /\ rd.got = out[rd.msg].len

\* The compressor and the decompressor stay in step: a compressed message is read
\* with the window it was written with.
WindowsAgree ==
    rd.pc = "data" /\ rd.flate /\ rd.got = 0 /\ cfg.takeover =>
        rd.dict = out[rd.msg].win

\* "SetReadLimit sets the max number of bytes to read for a single message"
\* (read.go:105): a message is refused for its size if and only if it is larger
\* than the limit was when the reading began.
LimitIsExact ==
    /\ rd.pc = "toobig" => rd.limit >= 0 /\ out[rd.msg].len > rd.limit
    /\ rd.pc = "eof" /\ rd.msg > 0 /\ rd.limit >= 0 => out[rd.msg].len <= rd.limit

\* "previous message not read to completion" (read.go:372): a Reader that is opened
\* before the previous message was read is refused.
UnreadIsRefused == rd.pc # "lost"
=============================================================================
