-------------------------------- MODULE Wire --------------------------------
(***************************************************************************)
(* The protobuf wire primitives (wire.py) on tokens instead of bytes.      *)
(*                                                                         *)
(* A message is a sequence of tokens [num, wt, body], one for each field   *)
(* on the wire.  The body of a VARINT is the sequence of its groups of     *)
(* Group bits, least significant first; every group but the last has the   *)
(* continuation bit.  The body of a LENGTH is the bytes it delimits: a     *)
(* sequence of characters, of packed items or of tokens, so that the empty *)
(* one is the same whatever it stands for.  The body of a fixed width      *)
(* field is the value it stands for, and Cut is the body of a field that   *)
(* goes beyond the end of the buffer.                                      *)
(*                                                                         *)
(* What can raise returns [ok |-> FALSE] or [ok |-> TRUE, val |-> ...].    *)
(***************************************************************************)
EXTENDS Integers, Sequences, FiniteSetsExt

CONSTANTS
    Bits,       \* width of an integer, 64 in the code
    Group,      \* bits in a byte of a varint, 7 in the code
    Cut

ASSUME WidthAssumption == Bits \in Nat \ {0} /\ Group \in 1..Bits

ASSUME CutAssumption == Cut \notin Seq(Nat)

VARINT == 0
FIXED64 == 1
LENGTH == 2
FIXED32 == 5

\* 1 << n
Pow2[n \in 0..(Group * Bits)] == IF n = 0 THEN 1 ELSE 2 * Pow2[n - 1]

\* Where the integers begin again: 1 << 64.
Modulus == Pow2[Bits]

Token(num, wt, body) == [num |-> num, wt |-> wt, body |-> body]

Raise == [ok |-> FALSE]
Return(val) == [ok |-> TRUE, val |-> val]

\* The values of results, or the first thing that raises.
All(results) ==
    IF \A i \in DOMAIN results : results[i].ok
    THEN Return([i \in DOMAIN results |-> results[i].val])
    ELSE Raise

Then(result, Value(_)) == IF result.ok THEN Return(Value(result.val)) ELSE Raise
-----------------------------------------------------------------------------
EncodeVarint(value) ==
    LET n      == value % Modulus
        groups == Min({k \in 1..Bits : n < Pow2[Group * k]})
    IN  [i \in 1..groups |-> (n \div Pow2[Group * (i - 1)]) % Pow2[Group]]

\* The number that groups stand for.
Joined(body) ==
    LET sum[n \in 0..Len(body)] ==
            IF n = 0 THEN 0 ELSE sum[n - 1] + body[n] * Pow2[Group * (n - 1)]
    IN  sum[Len(body)]

\* Zeros at the end are accepted, and bits beyond the width are dropped.
DecodeVarint(body) ==
    IF body = Cut \/ Group * (Len(body) - 1) > Bits - 1
    THEN Raise
    ELSE Return(Joined(body) % Modulus)

\* What a signed integer of this width can hold.
Fits(n, width) == 2 * n \in (-Pow2[width])..(Pow2[width] - 1)

ToSigned(value) == IF 2 * value >= Modulus THEN value - Modulus ELSE value

\* decode_tag: only field number 0 is refused here.
DecodeTag(t) == IF t.num = 0 THEN Raise ELSE Return(t)

DecodeDouble(t) == IF t.body = Cut THEN Raise ELSE Return(t.body)

\* Nothing asks for the wire type here.  The only field of another type that
\* comes this far is a VARINT 0, whose byte reads as the length of no bytes.
DecodeBytes(t) ==
    CASE t.body = Cut                           -> Raise
      [] t.wt = LENGTH                          -> Return(t.body)
      [] t.wt = VARINT /\ t.body = <<0>>        -> Return(<<>>)

\* Mutant: FIXED32 was forgotten, nothing here writes it.
SkipFieldWithoutFixed32(t) ==
    CASE t.wt = VARINT            -> DecodeVarint(t.body)
      [] t.wt \in {FIXED64}       -> DecodeDouble(t)
      [] t.wt = LENGTH            -> DecodeBytes(t)
      [] OTHER                    -> Raise

SkipField(t) ==
    CASE t.wt = VARINT                -> DecodeVarint(t.body)
      [] t.wt \in {FIXED64, FIXED32}  -> DecodeDouble(t)
      [] t.wt = LENGTH                -> DecodeBytes(t)
      [] OTHER                        -> Raise

=============================================================================
