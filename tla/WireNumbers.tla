---------------------------- MODULE WireNumbers ----------------------------
(***************************************************************************)
(* The arithmetic of Utils.h on numbers of a fixed width: the padding that *)
(* the STUN codec uses, and the order of timestamps that wrap around.      *)
(***************************************************************************)
EXTENDS Integers

\* Lengths and positions in a STUN message are uint16_t.
Width == 65536
Uint16 == {n \in Nat : n < Width}

\* Faulty variant: no padding.
NoPadding(n) == n

\* Byte::PadTo4Bytes, of a uint16_t.
PadTo4Bytes(n) ==
    IF n % 4 = 0 THEN n ELSE (n - (n % 4) + 4) % Width

-----------------------------------------------------------------------------
(* Timestamps.  The code has them in a uint32_t; here they are the numbers *)
(* below m, for any even m.                                                *)

Timestamps(m) == 0..(m - 1)

\* a - b in an unsigned type of m values.
Minus(a, b, m) == IF a < b THEN a - b + m ELSE a - b

\* Time::IsNewerTimestamp.  Of two that are half the range apart, the greater
\* number is newer.
IsNewerTimestamp(timestamp, prevTimestamp, m) ==
    LET ahead == Minus(timestamp, prevTimestamp, m) IN
    \/ 2 * ahead = m /\ timestamp > prevTimestamp
    \/ 2 * ahead < m /\ timestamp # prevTimestamp

\* Time::LatestTimestamp.
LatestTimestamp(timestamp1, timestamp2, m) ==
    IF IsNewerTimestamp(timestamp1, timestamp2, m) THEN timestamp1 ELSE timestamp2

-----------------------------------------------------------------------------
(* NTP time: seconds, and fractions of which n make a second.  The code has *)
(* 2^32 for n, and as many different seconds.  Its floating point numbers   *)
(* are exact enough for the fractions that whole milliseconds come to.      *)

\* Time::TimeMs2Ntp.
TimeMs2Ntp(ms, n) ==
    [seconds |-> (ms \div 1000) % n, fractions |-> ((ms % 1000) * n) \div 1000]

\* Time::Ntp2TimeMs, std::round being to the nearest.
Ntp2TimeMs(ntp, n) ==
    ntp.seconds * 1000 + ((2 * ntp.fractions * 1000 + n) \div (2 * n))

=============================================================================
