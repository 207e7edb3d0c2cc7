---------------------------- MODULE StopBitCodec ----------------------------
(***************************************************************************)
(* encoder.cpp: encodeInteger and decodeInteger, for an unsigned type of   *)
(* UIntBits bits.  A byte is a group of GroupBits bits (7 in the code) and *)
(* a stop bit above them; decodeInteger shifts each group as an int, of    *)
(* IntBits bits (32), before it becomes part of the result.  A number is a *)
(* function from bits, the least significant first, so that masks, shifts  *)
(* and | are what they do to each bit.                                     *)
(***************************************************************************)
EXTENDS Integers, Sequences

CONSTANTS UIntBits, IntBits, GroupBits

ASSUME CodecConstants ==
  /\ {UIntBits, IntBits, GroupBits} \subseteq Nat \ {0}
  /\ GroupBits < IntBits

VARIABLES
  codec,  \* the call that comes next
  val,    \* the value given to encodeInteger
  room,    \* the length of the buffer it was given
  buf,    \* the bytes it wrote, as many as it returned
  dec     \* what decodeInteger returned

codecVars == <<codec, val, room, buf, dec>>

UInt == [0 .. UIntBits - 1 -> BOOLEAN]
Zero == [b \in 0 .. UIntBits - 1 |-> FALSE]

(* What an integer decodes from has no more bytes than this.               *)
MaxBytes == UIntBits \div GroupBits + 1

(* The bytes it takes: one at least, and one more as long as a shift by as *)
(* many groups leaves something.                                           *)
Fits(v, n) == \A b \in 0 .. UIntBits - 1 : v[b] => b < GroupBits * n
EncodedBytes(v) ==
  CHOOSE n \in 1 .. MaxBytes : Fits(v, n) /\ (n > 1 => ~Fits(v, n - 1))

(* Shifted right by k groups, and masked.                                  *)
Group(v, k) ==
  [b \in 0 .. GroupBits - 1 |->
     GroupBits * k + b < UIntBits /\ v[GroupBits * k + b]]

(* Mutant: the first byte has the least significant group.                 *)
Backwards(v) ==
  [i \in 1 .. EncodedBytes(v) |->
     [group |-> Group(v, i - 1), stop |-> i = EncodedBytes(v)]]

(* The most significant group first, and a stop bit on the last.           *)
Encoded(v) ==
  [i \in 1 .. EncodedBytes(v) |->
     [group |-> Group(v, EncodedBytes(v) - i), stop |-> i = EncodedBytes(v)]]

Accepted(bytes) ==
  /\ Len(bytes) \in 1 .. MaxBytes
  /\ \A i \in 1 .. Len(bytes) : bytes[i].stop <=> i = Len(bytes)

(* Bit b of a group that was shifted left as an int, and then converted to *)
(* the unsigned type: the sign bit of int spreads over a wider one.  A     *)
(* shift by more bits than an int has is undefined: the processor masks    *)
(* the count, or the compiler knows it and leaves 0.                       *)
ShiftedBit(group, count, masked, b) ==
  LET n == IF count < IntBits THEN count ELSE count % IntBits
      from == (IF b < IntBits THEN b ELSE IntBits - 1) - n
  IN (count < IntBits \/ masked) /\ from \in 0 .. GroupBits - 1 /\ group[from]

Decoded(bytes, masked) ==
  IF ~Accepted(bytes) THEN Zero
  ELSE [b \in 0 .. UIntBits - 1 |->
          \E i \in 1 .. Len(bytes) :
            ShiftedBit(bytes[i].group, GroupBits * (Len(bytes) - i), masked, b)]
-----------------------------------------------------------------------------
CodecInit ==
  /\ codec = "encode" /\ val \in UInt /\ room \in 0 .. MaxBytes
  /\ buf = <<>> /\ dec = Zero

(* All the bytes if they fit the buffer, none otherwise.                   *)
EncodeInteger ==
  /\ codec = "encode"
  /\ buf' = IF EncodedBytes(val) > room THEN <<>> ELSE Encoded(val)
  /\ codec' = "decode"
  /\ UNCHANGED <<val, room, dec>>

DecodeInteger ==
  /\ codec = "decode"
  /\ \E masked \in BOOLEAN : dec' = Decoded(buf, masked)
  /\ codec' = "done"
  /\ UNCHANGED <<val, room, buf>>

CodecNext == EncodeInteger \/ DecodeInteger

CodecSpec == CodecInit /\ [][CodecNext]_codecVars
-----------------------------------------------------------------------------
(* What was encoded is decoded, from every buffer that is long enough;     *)
(* nothing is written to any other.                                        *)
RoundTrip ==
  codec = "done" =>
    IF EncodedBytes(val) > room THEN buf = <<>> /\ dec = Zero
    ELSE Len(buf) = EncodedBytes(val) /\ dec = val
=============================================================================
