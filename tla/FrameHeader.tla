----------------------------- MODULE FrameHeader -----------------------------
(***************************************************************************)
(* The header of a websocket frame as bytes and the masking of a payload   *)
(* (internal/nhooyr.io/websocket/frame.go).  The four bytes of the masking *)
(* key stand for themselves: what matters of the key is how far it is      *)
(* rotated when a byte meets it.                                           *)
(***************************************************************************)
EXTENDS Integers, Sequences

opContinuation == 0
opText == 1
opBinary == 2
opClose == 8
opPing == 9
opPong == 10

KeyLen == 4
MaxUint16 == 65535

\* The lengths that are represented.
MaxLength == 2147483647
Length == {n \in Nat : n <= MaxLength}

\* The bit of a weight, and whether a byte has it.
Bit(set, weight) == IF set THEN weight ELSE 0
HasBit(b, weight) == (b \div weight) % 2 = 1

\* binary.BigEndian.PutUint16 and PutUint64, of a length up to MaxLength.
BigEndian(n, width) ==
    CASE width = 0 -> <<>>
      [] width = 2 -> <<(n \div 256) % 256, n % 256>>
      [] width = 8 -> <<0, 0, 0, 0, (n \div 16777216) % 256, (n \div 65536) % 256,
                        (n \div 256) % 256, n % 256>>

\* binary.BigEndian.Uint16 of the bytes after i, and int64 of Uint64: negative if
\* the top bit is set.
Uint16(bytes, i) == 256 * bytes[i + 1] + bytes[i + 2]
Int64(bytes, i) ==
    IF bytes[i + 1] >= 128 THEN -1
    ELSE 65536 * (65536 * (65536 * Uint16(bytes, i) + Uint16(bytes, i + 2))
                  + Uint16(bytes, i + 4)) + Uint16(bytes, i + 6)

\* How many bytes a length takes after the length byte.
Extended(length) ==
    CASE length > MaxUint16 -> 8
      [] length > 125 /\ length <= MaxUint16 -> 2
      [] OTHER -> 0

LengthByte(length) ==
    CASE Extended(length) = 8 -> 127
      [] Extended(length) = 2 -> 126
      [] OTHER -> length

\* writeFrameHeader.
WriteFrameHeader(h) ==
    << Bit(h.fin, 128) + Bit(h.rsv1, 64) + Bit(h.rsv2, 32) + h.opcode,
       Bit(h.masked, 128) + LengthByte(h.payloadLength) >>
    \o BigEndian(h.payloadLength, Extended(h.payloadLength))
    \o [i \in 1..(IF h.masked THEN KeyLen ELSE 0) |-> 0]

\* readFrameHeader; payloadLength is negative when it returns that error.
ReadFrameHeader(bytes) ==
    LET short == bytes[2] % 128
    IN [fin |-> HasBit(bytes[1], 128), rsv1 |-> HasBit(bytes[1], 64),
        rsv2 |-> HasBit(bytes[1], 32), opcode |-> bytes[1] % 16,
        masked |-> HasBit(bytes[2], 128),
        payloadLength |-> CASE short < 126 -> short
                            [] short = 126 -> Uint16(bytes, 2)
                            [] short = 127 -> Int64(bytes, 2)]

\* Mutant of Mask: the key comes back as it went in.
MaskKeepsKey(rotated, n) == rotated

\* mask: blocks of 128 down to 4 bytes leave the key as it is, each byte that is
\* left rotates it by one.  The rotation that it returns.
Mask(rotated, n) ==
    (rotated + ((((((n % 128) % 64) % 32) % 16) % 8) % 4)) % KeyLen
=============================================================================
