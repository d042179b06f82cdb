--------------------------- MODULE StunParseProofs --------------------------
(***************************************************************************)
(* Proofs about StunParse, for datagrams of every size that Parse can be   *)
(* given and attributes of every length, and about the arithmetic of       *)
(* WireNumbers that it rests on or that nothing else uses.                 *)
(***************************************************************************)
EXTENDS StunParse, TLAPS

\* Padding a position that is inside the datagram neither wraps nor leaves the
\* datagram, whose size is a multiple of four.
LEMMA PaddingIsExact ==
    ASSUME NEW n \in Nat, NEW m \in Nat, n <= m, m <= Width - 4, m % 4 = 0
    PROVE  /\ PadTo4Bytes(n) \in Nat
           /\ PadTo4Bytes(n) % 4 = 0
           /\ n <= PadTo4Bytes(n) /\ PadTo4Bytes(n) <= m
<1>1. CASE n % 4 = 0
  BY <1>1 DEF PadTo4Bytes
<1>2. CASE n % 4 # 0
  <2> DEFINE up == n - (n % 4) + 4
  <2>1. up \in Nat /\ up % 4 = 0 /\ n <= up /\ up <= m
    BY <1>2
  <2>2. up % 65536 = up
    BY <2>1 DEF Width
  <2>3. PadTo4Bytes(n) = up
    BY <1>2, <2>2 DEF PadTo4Bytes, Width
  <2>4. QED
    BY <2>1, <2>3
<1>3. QED
  BY <1>1, <1>2

\* A datagram is smaller than what sixteen bits count, by a margin that keeps
\* the padding from wrapping.
LEMMA SizesAreSmall == \A n \in Sizes : n \in Nat /\ n <= Width - 4
  BY ParseAssumption

-----------------------------------------------------------------------------
(* The inductive invariant. *)

\* While the loop runs, pos is a multiple of four within the datagram, whose
\* size is one too, and nothing beyond it was read.
PositionKnown ==
    /\ readTo <= len
    /\ result = "start" => pos = HeaderSize
    /\ result = "parsing" => len % 4 = 0 /\ pos <= len

\* The flags remember which attributes were taken, and the ones taken are in
\* order.
OrderKnown ==
    /\ \A i \in 1..Len(attributes) :
          /\ attributes[i] = "FINGERPRINT" => i = Len(attributes) /\ hasFingerprint
          /\ attributes[i] = "MESSAGE_INTEGRITY" =>
                /\ hasMessageIntegrity
                /\ \A j \in 1..Len(attributes) :
                      i < j => attributes[j] = "FINGERPRINT"

IInv == TypeOK /\ PositionKnown /\ OrderKnown

\* The invariant holds when Parse is called.
LEMMA InitEstablishesIInv == Init => IInv
<1>1. SUFFICES ASSUME Init PROVE IInv
  OBVIOUS
<1>2. len \in Nat
  BY <1>1, SizesAreSmall DEF Init
<1>3. TypeOK
  <2>1. pos \in Uint16 /\ pos % 4 = 0
    BY <1>1 DEF Init, HeaderSize, Uint16, Width
  <2>2. attributes \in Seq(Attribute)
    BY <1>1 DEF Init
  <2>3. QED
    BY <1>1, <2>1, <2>2 DEF Init, TypeOK
<1>4. PositionKnown
  BY <1>1, <1>2 DEF Init, PositionKnown
<1>5. OrderKnown
  BY <1>1 DEF Init, OrderKnown
<1>6. QED
  BY <1>3, <1>4, <1>5 DEF IInv

\* An attribute that is taken keeps the position, the reads and the order right.
LEMMA TakePreservesIInv ==
    ASSUME IInv, result = "parsing", pos + 4 <= len,
           NEW type \in Attribute, NEW length \in Lengths, Take(type, length)
    PROVE  IInv' /\ pos' >= pos + 4
<1>1. /\ len \in Nat /\ len <= Width - 4
      /\ pos \in Nat
      /\ len % 4 = 0
  BY SizesAreSmall DEF IInv, TypeOK, PositionKnown, Uint16
<1>2. length \in Nat
  BY ParseAssumption DEF Uint16
<1>3. /\ pos + 4 + length <= len
      /\ GoodLength(type, length)
      /\ pos' = PadTo4Bytes((pos + 4 + length) % Width)
      /\ readTo' = pos + 4 + ValueRead(type, length)
      /\ UNCHANGED <<len, result>>
  BY DEF Take
<1>4. (pos + 4 + length) % Width = pos + 4 + length
  <2>1. pos + 4 + length \in Nat /\ pos + 4 + length < 65536
    BY <1>1, <1>2, <1>3 DEF Width
  <2>2. QED
    BY <2>1 DEF Width
<1>5. /\ pos' \in Nat /\ pos' % 4 = 0
      /\ pos + 4 + length <= pos' /\ pos' <= len
  <2> DEFINE n == pos + 4 + length
  <2>1. n \in Nat /\ n <= len /\ pos' = PadTo4Bytes(n)
    BY <1>1, <1>2, <1>3, <1>4
  <2>2. QED
    BY <1>1, <2>1, PaddingIsExact
<1>6. ValueRead(type, length) \in Nat /\ ValueRead(type, length) <= length
  BY <1>2, <1>3 DEF GoodLength, ValueRead, Attribute
<1>7. readTo' \in Nat /\ readTo' <= len
  BY <1>1, <1>2, <1>3, <1>6
<1>8. TypeOK'
  <2>1. pos' \in Uint16
    BY <1>1, <1>5 DEF Uint16, Width
  <2>2. /\ hasMessageIntegrity' \in BOOLEAN /\ hasFingerprint' \in BOOLEAN
        /\ username' \in Nat
        /\ attributes' \in Seq(Attribute)
    BY <1>2 DEF IInv, TypeOK, Take
  <2>3. QED
    BY <1>3, <1>5, <1>7, <2>1, <2>2 DEF IInv, TypeOK
<1>9. PositionKnown'
  BY <1>1, <1>3, <1>5, <1>7 DEF PositionKnown
<1>10. OrderKnown'
  <2>1. /\ attributes \in Seq(Attribute)
        /\ attributes' = Append(attributes, type)
    BY DEF IInv, TypeOK, Take
  <2>2. /\ Len(attributes') = Len(attributes) + 1
        /\ attributes'[Len(attributes) + 1] = type
        /\ \A i \in 1..Len(attributes) : attributes'[i] = attributes[i]
        /\ Len(attributes) \in Nat
    BY <2>1
  <2>3. /\ ~hasFingerprint
        /\ hasMessageIntegrity => type = "FINGERPRINT"
        /\ hasMessageIntegrity' =
            (hasMessageIntegrity \/ type = "MESSAGE_INTEGRITY")
        /\ hasFingerprint' = (hasFingerprint \/ type = "FINGERPRINT")
    BY DEF Take, InOrder
  <2>4. \A i \in 1..Len(attributes) :
          /\ attributes[i] # "FINGERPRINT"
          /\ attributes[i] = "MESSAGE_INTEGRITY" => hasMessageIntegrity
    BY <2>3 DEF IInv, OrderKnown
  <2>5. \A i \in 1..Len(attributes') :
          \/ i \in 1..Len(attributes) /\ attributes'[i] = attributes[i]
          \/ i = Len(attributes') /\ attributes'[i] = type
    BY <2>2
  <2>6. ASSUME NEW i \in 1..Len(attributes'), attributes'[i] = "FINGERPRINT"
        PROVE  i = Len(attributes') /\ hasFingerprint'
    BY <2>3, <2>4, <2>5, <2>6
  <2>7. ASSUME NEW i \in 1..Len(attributes'),
               attributes'[i] = "MESSAGE_INTEGRITY"
        PROVE  hasMessageIntegrity'
    BY <2>3, <2>4, <2>5, <2>7
  <2>8. ASSUME NEW i \in 1..Len(attributes'), NEW j \in 1..Len(attributes'),
               attributes'[i] = "MESSAGE_INTEGRITY", i < j
        PROVE  attributes'[j] = "FINGERPRINT"
    <3>1. i \in 1..Len(attributes) /\ attributes[i] = "MESSAGE_INTEGRITY"
      BY <2>2, <2>5, <2>8
    <3>2. hasMessageIntegrity
      BY <2>4, <3>1
    <3>3. CASE j = Len(attributes')
      BY <2>2, <2>3, <3>2, <3>3
    <3>4. CASE j # Len(attributes')
      <4>1. j \in 1..Len(attributes) /\ attributes'[j] = attributes[j]
        BY <2>5, <3>4
      <4>2. attributes[j] = "FINGERPRINT"
        BY <2>8, <3>1, <4>1 DEF IInv, OrderKnown
      <4>3. QED
        BY <4>1, <4>2
    <3>5. QED
      BY <3>3, <3>4
  <2>9. QED
    BY <2>6, <2>7, <2>8 DEF OrderKnown
<1>11. QED
  BY <1>1, <1>2, <1>5, <1>8, <1>9, <1>10 DEF IInv

\* A turn of the loop moves pos forward.
Advances == result = "parsing" /\ result' = "parsing" => pos' >= pos + 4

\* Every step of Parse preserves the invariant, and every turn advances.
LEMMA NextPreservesIInv == IInv /\ [Next]_vars => IInv' /\ [Advances]_vars
<1>1. SUFFICES ASSUME IInv, [Next]_vars PROVE IInv' /\ [Advances]_vars
  OBVIOUS
<1>2. CASE Header
  <2>1. /\ result = "start"
        /\ readTo' = IF len >= HeaderSize THEN HeaderSize ELSE readTo
        /\ UNCHANGED <<len, pos, hasMessageIntegrity, hasFingerprint, username,
                       attributes>>
        /\ \/ /\ len >= HeaderSize /\ (len - HeaderSize) % 4 = 0
              /\ result' = "parsing"
           \/ result' = "rejected"
    BY <1>2 DEF Header, Reject
  <2>2. len \in Nat /\ readTo \in Nat /\ readTo <= len /\ pos = HeaderSize
    BY <1>1, <2>1, SizesAreSmall DEF IInv, TypeOK, PositionKnown
  <2>3. len >= 20 /\ (len - 20) % 4 = 0 => len % 4 = 0
    BY <2>2
  <2>4. PositionKnown'
    BY <2>1, <2>2, <2>3 DEF PositionKnown, HeaderSize
  <2>5. TypeOK'
    BY <1>1, <2>1, <2>2 DEF IInv, TypeOK, HeaderSize
  <2>6. OrderKnown'
    BY <1>1, <2>1 DEF IInv, OrderKnown
  <2>7. QED
    BY <2>1, <2>4, <2>5, <2>6 DEF IInv, Advances
<1>3. CASE NextAttribute
  <2>1. PICK type \in Attribute, length \in Lengths :
            Take(type, length) \/ Refuse(type, length)
    BY <1>3 DEF NextAttribute
  <2>2. result = "parsing" /\ pos + 4 <= len
    BY <1>3 DEF NextAttribute
  <2>3. CASE Take(type, length)
    BY <1>1, <2>2, <2>3, TakePreservesIInv DEF Advances
  <2>4. CASE Refuse(type, length)
    <3>1. /\ readTo' = pos + 4
          /\ result' = "rejected"
          /\ UNCHANGED <<len, pos, hasMessageIntegrity, hasFingerprint,
                         username, attributes>>
      BY <2>4 DEF Refuse, Reject
    <3>2. pos \in Nat
      BY <1>1 DEF IInv, TypeOK, Uint16
    <3>3. TypeOK'
      BY <1>1, <3>1, <3>2 DEF IInv, TypeOK
    <3>4. PositionKnown' /\ OrderKnown'
      BY <1>1, <2>2, <3>1 DEF IInv, PositionKnown, OrderKnown
    <3>5. QED
      BY <3>1, <3>3, <3>4 DEF IInv, Advances
  <2>5. QED
    BY <2>1, <2>3, <2>4
<1>4. CASE Finish
  BY <1>1, <1>4 DEF IInv, TypeOK, PositionKnown, OrderKnown, Finish, Reject,
                   Advances
<1>5. CASE UNCHANGED vars
  BY <1>1, <1>5 DEF IInv, TypeOK, PositionKnown, OrderKnown, vars
<1>6. QED
  BY <1>1, <1>2, <1>3, <1>4, <1>5 DEF Next

\* The inductive invariant holds in every reachable state.
THEOREM InductiveInvariant == Spec => []IInv
<1>1. Init => IInv
  BY InitEstablishesIInv
<1>2. IInv /\ [Next]_vars => IInv'
  BY NextPreservesIInv
<1>3. QED
  BY <1>1, <1>2, PTL DEF Spec

-----------------------------------------------------------------------------
\* Type correctness, with pos a multiple of four.
THEOREM TypeCorrect == Spec => []TypeOK
<1>1. IInv => TypeOK
  BY DEF IInv
<1>2. QED
  BY <1>1, InductiveInvariant, PTL

\* No datagram makes Parse read beyond its end.
THEOREM ReadsStayInBounds == Spec => []ReadsInBounds
<1>1. IInv => ReadsInBounds
  BY DEF IInv, PositionKnown, ReadsInBounds
<1>2. QED
  BY <1>1, InductiveInvariant, PTL

\* The loop ends exactly at the end of the datagram.
THEOREM LoopIsExact == Spec => []LoopEndsAtTheEnd
<1>1. IInv => LoopEndsAtTheEnd
  <2>1. SUFFICES ASSUME IInv, result = "parsing", pos + 4 > len PROVE pos = len
    BY DEF IInv, PositionKnown, LoopEndsAtTheEnd
  <2>2. /\ len \in Nat /\ pos \in Nat /\ pos % 4 = 0
        /\ len % 4 = 0 /\ pos <= len
    BY <2>1, SizesAreSmall DEF IInv, TypeOK, PositionKnown, Uint16
  <2>3. QED
    BY <2>1, <2>2
<1>2. QED
  BY <1>1, InductiveInvariant, PTL

\* What is accepted is in the order that RFC 5389 asks for.
THEOREM OrderIsKept == Spec => []AcceptedInOrder
<1>1. IInv => AcceptedInOrder
  <2>1. SUFFICES ASSUME IInv PROVE AcceptedInOrder
    OBVIOUS
  <2>2. /\ attributes \in Seq(Attribute)
        /\ DOMAIN attributes = 1..Len(attributes)
        /\ Len(attributes) \in Nat
    BY <2>1 DEF IInv, TypeOK
  <2>3. ASSUME NEW i \in 1..Len(attributes), NEW j \in 1..Len(attributes), i < j
        PROVE  /\ attributes[i] # "FINGERPRINT"
               /\ attributes[i] = "MESSAGE_INTEGRITY" =>
                      attributes[j] = "FINGERPRINT"
    <3>1. OrderKnown
      BY <2>1 DEF IInv
    <3>2. attributes[i] # "FINGERPRINT"
      <4>1. Len(attributes) \in Nat
        BY <2>2
      <4>2. i # Len(attributes)
        BY <2>3, <4>1
      <4>3. QED
        BY <3>1, <4>2 DEF OrderKnown
    <3>3. QED
      BY <2>3, <3>1, <3>2 DEF OrderKnown
  <2>4. QED
    BY <2>2, <2>3 DEF AcceptedInOrder
<1>2. QED
  BY <1>1, InductiveInvariant, PTL

\* The position never goes back and never stands still: the loop ends.
THEOREM LoopAdvances == Spec => PositionAdvances
<1>1. IInv /\ [Next]_vars =>
        [result = "parsing" /\ result' = "parsing" => pos' >= pos + 4]_vars
  BY NextPreservesIInv DEF Advances
<1>2. QED
  BY <1>1, InductiveInvariant, PTL DEF Spec, PositionAdvances

-----------------------------------------------------------------------------
(* The other arithmetic of WireNumbers, for timestamps of every even range. *)

\* Of two different timestamps exactly one is newer, also when they are half
\* the range apart, which is the case its comment speaks of (Utils.h:292-295).
THEOREM OneIsNewer ==
    ASSUME NEW h \in Nat, NEW t \in Timestamps(2 * h), NEW p \in Timestamps(2 * h),
           t # p
    PROVE  IsNewerTimestamp(t, p, 2 * h) <=> ~IsNewerTimestamp(p, t, 2 * h)
BY DEF IsNewerTimestamp, Minus, Timestamps

\* LatestTimestamp gives the same answer whatever the order of its arguments
\* (Utils.h:303-305).
THEOREM LatestIsSymmetric ==
    ASSUME NEW h \in Nat, NEW t \in Timestamps(2 * h), NEW p \in Timestamps(2 * h)
    PROVE  LatestTimestamp(t, p, 2 * h) = LatestTimestamp(p, t, 2 * h)
BY OneIsNewer DEF LatestTimestamp, IsNewerTimestamp

\* A clock of m values that shows t, d later.
Plus(t, d, m) == IF t + d < m THEN t + d ELSE t + d - m

\* A clock that advances by less than half the range is seen to advance, also
\* where it wraps (Utils.h:299).
THEOREM AdvanceIsNewer ==
    ASSUME NEW h \in Nat, NEW t \in Timestamps(2 * h), NEW d \in Nat,
           0 < d, d < h
    PROVE  /\ Plus(t, d, 2 * h) \in Timestamps(2 * h)
           /\ IsNewerTimestamp(Plus(t, d, 2 * h), t, 2 * h)
           /\ LatestTimestamp(t, Plus(t, d, 2 * h), 2 * h) = Plus(t, d, 2 * h)
<1>1. /\ Plus(t, d, 2 * h) \in Timestamps(2 * h)
      /\ Plus(t, d, 2 * h) # t
      /\ IsNewerTimestamp(Plus(t, d, 2 * h), t, 2 * h)
  BY DEF IsNewerTimestamp, Minus, Plus, Timestamps
<1>2. QED
  BY <1>1, OneIsNewer DEF LatestTimestamp

\* Milliseconds survive the way to NTP time and back, although the fractions are
\* cut off (Utils.h:276-277): until the seconds wrap.
THEOREM NtpRoundTrip ==
    ASSUME NEW ms \in Nat, ms \div 1000 < 4294967296
    PROVE  Ntp2TimeMs(TimeMs2Ntp(ms, 4294967296), 4294967296) = ms
<1> DEFINE n == 4294967296
<1> DEFINE s == ms \div 1000
<1> DEFINE r == ms % 1000
<1> DEFINE f == (r * n) \div 1000
<1>1. /\ s \in Nat /\ s < n /\ r \in 0..999
      /\ ms = 1000 * s + r
  OBVIOUS
<1>2. s % n = s
  BY <1>1
<1>3. /\ f \in Nat
      /\ f * 1000 <= r * n
      /\ r * n < f * 1000 + 1000
  BY <1>1
<1>4. (2 * f * 1000 + n) \div (2 * n) = r
  BY <1>1, <1>3
<1>5. QED
  BY <1>1, <1>2, <1>4 DEF TimeMs2Ntp, Ntp2TimeMs

=============================================================================
