-------------------------------- MODULE Times --------------------------------
(***************************************************************************)
(* Timestamps and durations in protobuf (protobuf.py): messages of their   *)
(* own, of seconds and nanos.  A time is a number of microseconds, since   *)
(* the epoch or long.                                                      *)
(***************************************************************************)
EXTENDS Wire

CONSTANTS
    Second,     \* microseconds in a second, 1000000
    Micro       \* nanoseconds in a microsecond, 1000

\* The nanos of a second are an integer that a varint carries.
ASSUME TimeAssumption ==
    /\ Second \in Nat \ {0} /\ Micro \in Nat \ {0}
    /\ 2 * (Second * Micro) <= Modulus

EncodeSecondsNanos(seconds, nanos) ==
    (IF seconds = 0 THEN <<>> ELSE <<Token(1, VARINT, EncodeVarint(seconds))>>)
    \o (IF nanos = 0 THEN <<>> ELSE <<Token(2, VARINT, EncodeVarint(nanos))>>)

\* Seconds round down, so that the nanos of a time before 1970 are not negative.
EncodeTimestamp(us) == EncodeSecondsNanos(us \div Second, (us % Second) * Micro)

\* Seconds and nanos have the sign of the duration.
EncodeDuration(us) ==
    LET abs  == IF us < 0 THEN -us ELSE us
        sign == IF us < 0 THEN -1 ELSE 1
    IN  EncodeSecondsNanos(sign * (abs \div Second), sign * (abs % Second) * Micro)

\* Other numbers, and other types under these numbers, are skipped.
ReadTime(st, t) ==
    IF ~st.ok \/ ~DecodeTag(t).ok THEN Raise
    ELSE IF t.num \in {1, 2} /\ t.wt = VARINT
    THEN Then(DecodeVarint(t.body), LAMBDA raw : [st.val EXCEPT ![t.num] = ToSigned(raw)])
    ELSE Then(SkipField(t), LAMBDA any : st.val)

DecodeSecondsNanos(tokens) ==
    LET read[n \in 0..Len(tokens)] ==
            IF n = 0 THEN Return(<<0, 0>>) ELSE ReadTime(read[n - 1], tokens[n])
    IN  read[Len(tokens)]

DecodeTime(kind, tokens) ==
    Then(DecodeSecondsNanos(tokens), LAMBDA st : <<kind, st[1] * Second + st[2] \div Micro>>)

=============================================================================
