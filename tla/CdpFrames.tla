----------------------------- MODULE CdpFrames -----------------------------
(***************************************************************************)
(* The WebSocket frames of cdp_service.py: the header _ws_send puts before *)
(* a payload and what _ws_recv makes of a header.  A payload is its        *)
(* length; masking it twice with one mask gives it back.                   *)
(***************************************************************************)
EXTENDS Naturals, Sequences

\* A number shifted right by k bytes.
Shifted(n) ==
    LET s[k \in 0 .. 8] == IF k = 0 THEN n ELSE s[k - 1] \div 256
    IN s

\* struct.pack and struct.unpack of unsigned numbers, "!H" and "!Q".
Pack(n, width) == [i \in 1 .. width |-> Shifted(n)[width - i] % 256]
Unpack(bytes) ==
    LET value[k \in 0 .. Len(bytes)] ==
          IF k = 0 THEN 0 ELSE 256 * value[k - 1] + bytes[k]
    IN value[Len(bytes)]

\* Mutant: 126 itself is written as a short length.
LengthBytesTight(n) == IF n <= 126 THEN <<n>>
                       ELSE IF n < 65536 THEN <<126>> \o Pack(n, 2)
                       ELSE <<127>> \o Pack(n, 8)

LengthBytes(n) == IF n < 126 THEN <<n>>
                  ELSE IF n < 65536 THEN <<126>> \o Pack(n, 2)
                  ELSE <<127>> \o Pack(n, 8)

Masked == 128
Header(n) == LET size == LengthBytes(n)
             IN  <<129, Masked + Head(size)>> \o Tail(size)

\* What is read before the payload: its length, and the bytes read so far.
ReadHeader(bytes) ==
    LET short == bytes[2] % 128
        wide  == CASE short = 126 -> 2 [] short = 127 -> 8 [] OTHER -> 0
        mask  == IF bytes[2] \div Masked % 2 = 1 THEN 4 ELSE 0
    IN  [length |-> IF wide = 0 THEN short ELSE Unpack(SubSeq(bytes, 3, 2 + wide)),
         used   |-> 2 + wide + mask]
=============================================================================
