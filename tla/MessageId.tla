------------------------------ MODULE MessageId ------------------------------
(***************************************************************************)
(* generate_message_id (src/thinq/api_client.cpp): random bytes, stamped   *)
(* as a version 4 UUID, and written in base 64 without padding.  The loop  *)
(* shifts byte after byte into a buffer of 32 bits that it never clears,   *)
(* and takes off six bits at a time.                                       *)
(*                                                                         *)
(* Letters are their places in the alphabet.  The bytes are drawn as the   *)
(* loop comes to them.                                                     *)
(***************************************************************************)
EXTENDS Integers, Sequences

CONSTANTS
  Byte,           \* the random bytes drawn
  ByteCount,      \* 16
  VersionByte,    \* 7: bytes[6]
  VariantByte,    \* 9: bytes[8]
  BufferModulus   \* 2^32

ASSUME IdAssumption ==
  /\ Byte \subseteq 0 .. 255
  /\ ByteCount \in Nat
  /\ BufferModulus \in Nat \ {0}
  /\ BufferModulus % 4096 = 0

VARIABLES
  bytes,    \* the bytes so far, stamped
  buffer,
  bits,     \* how many bits of the buffer are yet to be written
  out       \* the letters so far

idVars == <<bytes, buffer, bits, out>>

IdInit == bytes = <<>> /\ buffer = 0 /\ bits = 0 /\ out = <<>>
-----------------------------------------------------------------------------
\* Mutant for MessageIdFaithful: the buffer holds the last byte only.
ShiftInLastByte(b) == b
-----------------------------------------------------------------------------
\* Version 4 and the RFC's variant.
Stamp(i, b) ==
  CASE i = VersionByte -> (b % 16) + 64
    [] i = VariantByte -> (b % 64) + 128
    [] OTHER -> b

ShiftIn(b) == (buffer * 256 + b) % BufferModulus

\* The letters that n bits at the end of buf are written as, and how many.
Letters(buf, n) == [k \in 1 .. n \div 6 |-> (buf \div 2 ^ (n - 6 * k)) % 64]

EncodeByte(random) ==
  LET b == Stamp(Len(bytes) + 1, random)
  IN  /\ Len(bytes) < ByteCount
      /\ bytes' = Append(bytes, b)
      /\ buffer' = ShiftIn(b)
      /\ bits' = (bits + 8) % 6
      /\ out' = out \o Letters(ShiftIn(b), bits + 8)

\* What is left is filled up with zeros.
EncodeRest ==
  /\ Len(bytes) = ByteCount
  /\ out' = IF bits > 0 THEN Append(out, (buffer * 2 ^ (6 - bits)) % 64) ELSE out
  /\ bits' = 0
  /\ UNCHANGED <<bytes, buffer>>
-----------------------------------------------------------------------------
\* Bit j of a byte, from the first.
ByteBit(b, j) == (b \div 2 ^ (7 - j)) % 2

\* The bits of the bytes s in order, and zeros after them.
BitAt(s, i) == IF i < 8 * Len(s) THEN ByteBit(s[i \div 8 + 1], i % 8) ELSE 0

SixBits(s, k) ==
  32 * BitAt(s, 6 * k) + 16 * BitAt(s, 6 * k + 1) + 8 * BitAt(s, 6 * k + 2)
    + 4 * BitAt(s, 6 * k + 3) + 2 * BitAt(s, 6 * k + 4) + BitAt(s, 6 * k + 5)

IdTypeOK ==
  /\ bytes \in Seq(0 .. 255)
  /\ buffer \in 0 .. BufferModulus - 1
  /\ bits \in {0, 2, 4}
  /\ out \in Seq(0 .. 63)

\* At every step the letters are the bits of the bytes, six by six, and no bit is
\* missing but the `bits' that the buffer still holds: two ids are equal only if
\* their bytes are, although the buffer overflows from the fifth byte on.
MessageIdFaithful ==
  /\ \A k \in DOMAIN out : out[k] = SixBits(bytes, k - 1)
  /\ 6 * Len(out) + bits \in 8 * Len(bytes) .. 8 * Len(bytes) + 5
=============================================================================
