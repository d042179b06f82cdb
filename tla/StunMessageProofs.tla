------------------------- MODULE StunMessageProofs --------------------------
(***************************************************************************)
(* Proofs about StunMessage and StunRoundTrip, for any error codes, any    *)
(* passwords, and user names of any length below 513: what is written has  *)
(* the size computed for it, and is read back as it was.                   *)
(***************************************************************************)
EXTENDS StunRoundTrip, TLAPS

-----------------------------------------------------------------------------
(* Padding and the size of attributes. *)

\* PadTo4Bytes rounds up to a multiple of four, and only 0 to 0, for all that
\* do not wrap.
LEMMA PadRoundsUp ==
    ASSUME NEW n \in Nat, n < 65533
    PROVE  /\ PadTo4Bytes(n) \in Nat
           /\ PadTo4Bytes(n) % 4 = 0
           /\ n <= PadTo4Bytes(n) /\ PadTo4Bytes(n) < n + 4
           /\ PadTo4Bytes(n) # 0 <=> n # 0
<1>1. CASE n % 4 = 0
  BY <1>1 DEF PadTo4Bytes
<1>2. CASE n % 4 # 0
  <2>1. n - (n % 4) + 4 < Width /\ n - (n % 4) + 4 \in Nat
    BY <1>2 DEF Width
  <2>2. PadTo4Bytes(n) = n - (n % 4) + 4
    BY <1>2, <2>1 DEF PadTo4Bytes, Width
  <2>3. QED
    BY <1>2, <2>2
<1>3. QED
  BY <1>1, <1>2

\* A user name is short enough for sixteen bits.
LEMMA UsernameIsShort ==
    ASSUME msg \in Messages
    PROVE  /\ msg.username \in Nat /\ msg.username < 513
           /\ msg.username % Width = msg.username
<1>1. msg.username \in Nat /\ msg.username < 513
  <2>1. msg.username \in Usernames \cup {0}
    BY DEF Messages
  <2>2. \A n \in Usernames : n \in Nat /\ n < 513
    BY MessageAssumption
  <2>3. QED
    BY <2>1, <2>2
<1>2. QED
  BY <1>1 DEF Width

\* Writing moves by the padded length that is written, and by what was counted:
\* the two lists of Serialize agree with each other and with the lengths.
LEMMA AdvanceIsPadded ==
    ASSUME NEW type \in Types
    PROVE  Advance(type) = 4 + PadTo4Bytes(ValueLength(type))
<1>1. /\ PadTo4Bytes(0) = 0 /\ PadTo4Bytes(4) = 4
      /\ PadTo4Bytes(8) = 8 /\ PadTo4Bytes(20) = 20
  BY DEF PadTo4Bytes
<1>2. QED
  BY <1>1 DEF Advance, ValueLength, Types, Order

LEMMA CountedIsAdvance ==
    ASSUME NEW type \in Types
    PROVE  Counted(type) = Advance(type)
BY DEF Counted, Advance, Types, Order

\* Every attribute takes a multiple of four bytes, and not many.
LEMMA AdvanceIsAligned ==
    ASSUME msg \in Messages, NEW type \in Types
    PROVE  /\ ValueLength(type) \in Nat /\ ValueLength(type) < 513
           /\ Advance(type) \in Nat
           /\ Advance(type) % 4 = 0
           /\ Advance(type) <= 520
<1>1. ValueLength(type) \in Nat /\ ValueLength(type) < 513
  BY UsernameIsShort DEF ValueLength
<1>2. /\ PadTo4Bytes(ValueLength(type)) \in Nat
      /\ PadTo4Bytes(ValueLength(type)) % 4 = 0
      /\ PadTo4Bytes(ValueLength(type)) < 517
  BY <1>1, PadRoundsUp
<1>3. QED
  BY <1>1, <1>2, AdvanceIsPadded

\* What attribute number i adds to the message.
Part(i) == IF Adds(Order[i]) THEN Advance(Order[i]) ELSE 0

\* A user name is counted if and only if it is written.
LEMMA CountedIsAdded ==
    ASSUME msg \in Messages, NEW type
    PROVE  Counts(type) <=> Adds(type)
<1>1. msg.username # 0 <=> PadTo4Bytes(msg.username % Width) # 0
  BY UsernameIsShort, PadRoundsUp
<1>2. CASE type = "USERNAME"
  BY <1>1, <1>2 DEF Counts, Adds, Flags
<1>3. CASE type # "USERNAME"
  BY <1>3 DEF Counts
<1>4. QED
  BY <1>2, <1>3

\* The sum computed in advance is that of the parts.
LEMMA SizeIsSumOfParts ==
    ASSUME msg \in Messages
    PROVE  TotalSize = HeaderSize + Part(1) + Part(2) + Part(3) + Part(4)
                + Part(5) + Part(6) + Part(7) + Part(8) + Part(9)
<1>1. \A i \in 1..9 : Room(Order[i]) = Part(i)
  BY CountedIsAdded, CountedIsAdvance DEF Room, Part, Types
<1>2. /\ Room("USERNAME") = Part(1)
      /\ Room("PRIORITY") = Part(2)
      /\ Room("ICE_CONTROLLING") = Part(3)
      /\ Room("ICE_CONTROLLED") = Part(4)
      /\ Room("USE_CANDIDATE") = Part(5)
      /\ Room("XOR_MAPPED_ADDRESS") = Part(6)
      /\ Room("ERROR_CODE") = Part(7)
      /\ Room("MESSAGE_INTEGRITY") = Part(8)
      /\ Room("FINGERPRINT") = Part(9)
  BY <1>1 DEF Order
<1>3. QED
  BY <1>2 DEF TotalSize

\* Parts are multiples of four.
LEMMA PartIsAligned ==
    ASSUME msg \in Messages, NEW i \in 1..9
    PROVE  Part(i) \in Nat /\ Part(i) % 4 = 0 /\ Part(i) <= 520
<1>1. Order[i] \in Types
  BY DEF Types
<1>2. QED
  BY <1>1, AdvanceIsAligned DEF Part

-----------------------------------------------------------------------------
(* The inductive invariant. *)

\* What is still to be written from attribute number i on.
Ahead(i) == IF step <= i THEN Part(i) ELSE 0

Remaining ==
    Ahead(1) + Ahead(2) + Ahead(3) + Ahead(4) + Ahead(5) + Ahead(6)
        + Ahead(7) + Ahead(8) + Ahead(9)

\* While Serialize runs, what is written and what is still to be written make
\* up the size, and the length field is that of the whole message.
OnTheWay ==
    step # Building =>
        /\ size = TotalSize
        /\ pos + Remaining = size
        /\ lengthField = (size - HeaderSize) % Width

\* Only attributes whose turn has come are in the buffer, and the object's
\* pointer leads to MESSAGE-INTEGRITY once its turn is over.
WrittenInTurn ==
    /\ \A k \in 1..Len(written) :
          \E i \in 1..9 : i < step /\ written[k].type = Order[i]
    /\ step > 8 =>
          \/ /\ messageIntegrity = Nowhere
             /\ \A k \in 1..Len(written) :
                   written[k].type # "MESSAGE_INTEGRITY"
          \/ \E k \in 1..Len(written) :
                /\ written[k].type = "MESSAGE_INTEGRITY"
                /\ messageIntegrity = written[k].at + 4

IInv == TypeOK /\ OnTheWay /\ WrittenInTurn

\* The size of any message fits sixteen bits and is a multiple of four.
LEMMA SizeFits ==
    ASSUME msg \in Messages
    PROVE  /\ TotalSize \in Nat
           /\ TotalSize % 4 = 0
           /\ HeaderSize <= TotalSize /\ TotalSize < Width
<1>1. \A i \in 1..9 : Part(i) \in Nat /\ Part(i) % 4 = 0 /\ Part(i) <= 520
  BY PartIsAligned
<1>2. /\ Part(1) \in Nat /\ Part(1) % 4 = 0 /\ Part(1) <= 520
      /\ Part(2) \in Nat /\ Part(2) % 4 = 0 /\ Part(2) <= 520
      /\ Part(3) \in Nat /\ Part(3) % 4 = 0 /\ Part(3) <= 520
      /\ Part(4) \in Nat /\ Part(4) % 4 = 0 /\ Part(4) <= 520
      /\ Part(5) \in Nat /\ Part(5) % 4 = 0 /\ Part(5) <= 520
      /\ Part(6) \in Nat /\ Part(6) % 4 = 0 /\ Part(6) <= 520
      /\ Part(7) \in Nat /\ Part(7) % 4 = 0 /\ Part(7) <= 520
      /\ Part(8) \in Nat /\ Part(8) % 4 = 0 /\ Part(8) <= 520
      /\ Part(9) \in Nat /\ Part(9) % 4 = 0 /\ Part(9) <= 520
  BY <1>1
<1>3. QED
  BY <1>2, SizeIsSumOfParts DEF HeaderSize, Width

\* A new object satisfies the invariant.
LEMMA InitEstablishesIInv == Init => IInv
<1>1. SUFFICES ASSUME Init PROVE IInv
  OBVIOUS
<1>2. msg \in Messages /\ (msg.klass = ERROR_RESPONSE => msg.password = None)
  BY <1>1 DEF Init, Messages, Families
<1>3. TypeOK
  BY <1>1, <1>2 DEF Init, TypeOK, Uint16, Width, NoHmac, NoCrc, Nowhere,
                    Building, Done
<1>4. OnTheWay /\ WrittenInTurn
  BY <1>1 DEF Init, OnTheWay, WrittenInTurn, Building
<1>5. QED
  BY <1>3, <1>4 DEF IInv

\* A setter empties the buffer, and leaves the fields well-typed.
LEMMA SetPreservesIInv ==
    ASSUME IInv, NEW fields \in Messages, Set(fields),
           fields.klass = ERROR_RESPONSE => fields.password = None
    PROVE  IInv'
<1>1. TypeOK'
  BY DEF IInv, TypeOK, Set, LeaveBuffer, Uint16, Width, NoHmac, NoCrc,
         Nowhere, Elsewhere, Building, Done
<1>2. OnTheWay' /\ WrittenInTurn'
  BY DEF Set, OnTheWay, WrittenInTurn, Building
<1>3. QED
  BY <1>1, <1>2 DEF IInv

\* Every setter is a Set of well-typed fields.
LEMMA SetterPreservesIInv == IInv /\ Setter => IInv'
<1>1. SUFFICES ASSUME IInv, Setter PROVE IInv'
  OBVIOUS
<1>2. msg \in Messages /\ (msg.klass = ERROR_RESPONSE => msg.password = None)
  BY <1>1 DEF IInv, TypeOK
<1>3. CASE SetUsername
  <2>1. PICK n \in Usernames : Set([msg EXCEPT !.username = n])
    BY <1>3 DEF SetUsername
  <2>2. QED
    BY <1>1, <1>2, <2>1, SetPreservesIInv DEF Messages
<1>4. CASE SetFlag
  <2>1. PICK type \in Flags :
            \/ Set([msg EXCEPT !.flags = @ \cup {type}])
            \/ Set([msg EXCEPT !.flags = @ \ {type}])
    BY <1>4 DEF SetFlag
  <2>2. QED
    BY <1>1, <1>2, <2>1, SetPreservesIInv DEF Messages
<1>5. CASE SetXorMappedAddress
  <2>1. PICK a \in Families : Set([msg EXCEPT !.xorMappedAddress = a])
    BY <1>5 DEF SetXorMappedAddress
  <2>2. QED
    BY <1>1, <1>2, <2>1, SetPreservesIInv DEF Messages
<1>6. CASE SetErrorCode
  <2>1. PICK code \in ErrorCodes : Set([msg EXCEPT !.errorCode = code])
    BY <1>6 DEF SetErrorCode
  <2>2. QED
    BY <1>1, <1>2, <2>1, SetPreservesIInv DEF Messages
<1>7. CASE Authenticate
  <2>1. PICK p \in Passwords \cup {None} : Set([msg EXCEPT !.password = p])
    BY <1>7 DEF Authenticate
  <2>2. msg.klass # ERROR_RESPONSE
    BY <1>7 DEF Authenticate
  <2>3. QED
    BY <1>1, <1>2, <2>1, <2>2, SetPreservesIInv DEF Messages
<1>8. QED
  BY <1>1, <1>3, <1>4, <1>5, <1>6, <1>7 DEF Setter

-----------------------------------------------------------------------------
(* The steps of Serialize. *)

\* What is written as the value of an attribute is a number.
LEMMA ValueIsNat ==
    ASSUME msg \in Messages, NEW type
    PROVE  Value(type) \in Nat
<1>1. msg.errorCode \in Nat
  <2>1. msg.errorCode \in ErrorCodes \cup {0}
    BY DEF Messages
  <2>2. \A n \in ErrorCodes : n \in Nat
    BY MessageAssumption
  <2>3. QED
    BY <2>1, <2>2
<1>2. ErrorBytes(msg.errorCode) \in Nat
  BY <1>1 DEF ErrorBytes
<1>3. QED
  BY <1>2, UsernameIsShort DEF Value

\* A step of Serialize changes no field that it writes from.
LEMMA PartsStay ==
    ASSUME UNCHANGED msg
    PROVE  /\ \A i \in 1..9 : Part(i)' = Part(i)
           /\ TotalSize' = TotalSize
BY DEF Part, TotalSize, Room, Counts, Adds, Counted, Advance

\* Writing an attribute moves pos by what was still ahead of it.
LEMMA WriteAdvances ==
    ASSUME IInv, step \in 1..9, Write(Order[step]), step' = step + 1,
           UNCHANGED <<msg, size>>
    PROVE  /\ pos' \in Nat /\ pos' % 4 = 0
           /\ pos' + Remaining' = size'
           /\ size' = TotalSize'
<1>1. msg \in Messages /\ pos \in Nat /\ pos % 4 = 0 /\ size \in Nat
  BY DEF IInv, TypeOK
<1>2. \A i \in 1..9 : Part(i) \in Nat /\ Part(i) % 4 = 0
  BY <1>1, PartIsAligned
<1>3. pos' = pos + Part(step)
  BY <1>1 DEF Write, Part
<1>4. pos' \in Nat /\ pos' % 4 = 0
  BY <1>1, <1>2, <1>3
<1>5. size = TotalSize /\ pos + Remaining = size
  BY DEF IInv, OnTheWay, Building
<1>6. \A i \in 1..9 :
        /\ Ahead(i) = IF step <= i THEN Part(i) ELSE 0
        /\ Ahead(i)' = IF step + 1 <= i THEN Part(i) ELSE 0
  BY PartsStay DEF Ahead
<1>7. ASSUME NEW i \in 1..9
      PROVE  /\ Ahead(i) \in Nat /\ Ahead(i)' \in Nat
             /\ Ahead(i) = Ahead(i)' + (IF i = step THEN Part(step) ELSE 0)
  <2>1. Part(i) \in Nat
    BY <1>2
  <2>2. /\ Ahead(i) = IF step <= i THEN Part(i) ELSE 0
        /\ Ahead(i)' = IF step + 1 <= i THEN Part(i) ELSE 0
    BY <1>6
  <2>3. CASE i < step
    BY <2>1, <2>2, <2>3
  <2>4. CASE i = step
    BY <2>1, <2>2, <2>4
  <2>5. CASE i > step
    BY <2>1, <2>2, <2>5
  <2>6. QED
    BY <2>3, <2>4, <2>5
<1>8. Remaining = Remaining' + Part(step)
  <2>1. Part(step) \in Nat
    BY <1>2
  <2>2. PICK k \in 1..9 : k = step
    OBVIOUS
  <2>3. \A i \in 1..9 :
          Ahead(i) = Ahead(i)' + (IF i = k THEN Part(step) ELSE 0)
    BY <1>7, <2>2
  <2>4. /\ Ahead(1) = Ahead(1)' + (IF 1 = k THEN Part(step) ELSE 0)
        /\ Ahead(2) = Ahead(2)' + (IF 2 = k THEN Part(step) ELSE 0)
        /\ Ahead(3) = Ahead(3)' + (IF 3 = k THEN Part(step) ELSE 0)
        /\ Ahead(4) = Ahead(4)' + (IF 4 = k THEN Part(step) ELSE 0)
        /\ Ahead(5) = Ahead(5)' + (IF 5 = k THEN Part(step) ELSE 0)
        /\ Ahead(6) = Ahead(6)' + (IF 6 = k THEN Part(step) ELSE 0)
        /\ Ahead(7) = Ahead(7)' + (IF 7 = k THEN Part(step) ELSE 0)
        /\ Ahead(8) = Ahead(8)' + (IF 8 = k THEN Part(step) ELSE 0)
        /\ Ahead(9) = Ahead(9)' + (IF 9 = k THEN Part(step) ELSE 0)
    BY <2>3
  <2>5. /\ Ahead(1)' \in Nat /\ Ahead(2)' \in Nat /\ Ahead(3)' \in Nat
        /\ Ahead(4)' \in Nat /\ Ahead(5)' \in Nat /\ Ahead(6)' \in Nat
        /\ Ahead(7)' \in Nat /\ Ahead(8)' \in Nat /\ Ahead(9)' \in Nat
    BY <1>7
  <2>6. QED
    BY <2>1, <2>4, <2>5 DEF Remaining
<1>9. Remaining' \in Nat
  <2>1. /\ Ahead(1)' \in Nat /\ Ahead(2)' \in Nat /\ Ahead(3)' \in Nat
        /\ Ahead(4)' \in Nat /\ Ahead(5)' \in Nat /\ Ahead(6)' \in Nat
        /\ Ahead(7)' \in Nat /\ Ahead(8)' \in Nat /\ Ahead(9)' \in Nat
    BY <1>7
  <2>2. QED
    BY <2>1 DEF Remaining
<1>10. pos' + Remaining' = size'
  <2>1. pos \in Nat /\ Part(step) \in Nat
    BY <1>1, <1>2
  <2>2. pos + (Remaining' + Part(step)) = size
    BY <1>5, <1>8
  <2>3. QED
    BY <1>3, <1>9, <2>1, <2>2
<1>11. QED
  BY <1>4, <1>5, <1>10, PartsStay

\* The attributes written stay well-typed, and in their turn.
LEMMA WriteExtends ==
    ASSUME IInv, step \in 1..9, Write(Order[step]), step' = step + 1
    PROVE  /\ written' \in Seq([type : Types, at : Nat, length : Uint16,
                                value : Nat])
           /\ \A k \in 1..Len(written') :
                \E i \in 1..9 : i < step' /\ written'[k].type = Order[i]
           /\ Len(written) <= Len(written')
           /\ \A k \in 1..Len(written) : written'[k] = written[k]
<1> DEFINE t == Order[step]
           R == [type : Types, at : Nat, length : Uint16, value : Nat]
           a == [type |-> t, at |-> pos, length |-> ValueLength(t),
                 value |-> Value(t)]
<1>1. /\ msg \in Messages /\ pos \in Nat /\ written \in Seq(R)
      /\ t \in Types
  BY DEF IInv, TypeOK, Types
<1>2. a \in R
  <2>1. ValueLength(t) \in Uint16
    BY <1>1, AdvanceIsAligned DEF Uint16, Width
  <2>2. QED
    BY <1>1, <2>1, ValueIsNat
<1>3. Len(written) \in Nat
  BY <1>1
<1>4. \A k \in 1..Len(written) :
        \E i \in 1..9 : i < step /\ written[k].type = Order[i]
  BY DEF IInv, WrittenInTurn
<1>5. CASE Adds(t)
  <2>1. written' = Append(written, a)
    BY <1>5 DEF Write
  <2> HIDE DEF a
  <2>2. /\ written' \in Seq(R)
        /\ Len(written') = Len(written) + 1
        /\ \A k \in 1..Len(written) : written'[k] = written[k]
        /\ written'[Len(written) + 1] = a
    BY <1>1, <1>2, <2>1
  <2>3. a.type = Order[step]
    BY DEF a
  <2>4. ASSUME NEW k \in 1..Len(written')
        PROVE  \E i \in 1..9 : i < step' /\ written'[k].type = Order[i]
    <3>1. CASE k \in 1..Len(written)
      <4>1. written'[k] = written[k]
        BY <2>2, <3>1
      <4>2. PICK i \in 1..9 : i < step /\ written[k].type = Order[i]
        BY <1>4, <3>1
      <4>3. i < step'
        BY <4>2
      <4>4. QED
        BY <4>1, <4>2, <4>3
    <3>2. CASE k = Len(written) + 1
      BY <2>2, <2>3, <3>2
    <3>3. QED
      BY <1>3, <2>2, <3>1, <3>2
  <2>5. QED
    BY <1>3, <2>2, <2>4
<1>6. CASE ~Adds(t)
  <2>1. written' = written
    BY <1>6 DEF Write
  <2>2. ASSUME NEW k \in 1..Len(written)
        PROVE  \E i \in 1..9 : i < step' /\ written[k].type = Order[i]
    <3>1. PICK i \in 1..9 : i < step /\ written[k].type = Order[i]
      BY <1>4, <2>2, Zenon
    <3>2. i < step'
      BY <3>1
    <3>3. QED
      BY <3>1, <3>2, Zenon
  <2>3. Len(written) <= Len(written)
    BY <1>3
  <2> HIDE DEF R
  <2>4. QED
    BY <1>1, <2>1, <2>2, <2>3, Zenon DEF R
<1>7. QED
  BY <1>5, <1>6

\* Serialize as far as the header.
LEMMA BeginPreservesIInv == IInv /\ BeginSerialize => IInv'
<1>1. SUFFICES ASSUME IInv, BeginSerialize PROVE IInv'
  OBVIOUS
<1>2. msg \in Messages
  BY <1>1 DEF IInv, TypeOK
<1>3. /\ TotalSize \in Nat
      /\ HeaderSize <= TotalSize /\ TotalSize < Width
  BY <1>2, SizeFits
<1>4. TypeFieldOf(msg.klass) \in Uint16
  BY <1>2 DEF Messages, Class, TypeFieldOf, Uint16, Width, REQUEST,
              INDICATION, SUCCESS_RESPONSE, ERROR_RESPONSE
<1>5. (TotalSize - HeaderSize) % Width \in Uint16
  BY <1>3 DEF Uint16, Width, HeaderSize
<1>6. TypeOK'
  BY <1>1, <1>3, <1>4, <1>5
  DEF IInv, TypeOK, BeginSerialize, HeaderSize, Building, Done
<1>7. pos' + Remaining' = size'
  <2>1. \A i \in 1..9 : Ahead(i)' = Part(i) /\ Part(i) \in Nat
    BY <1>1, <1>2, PartsStay, PartIsAligned DEF BeginSerialize, Ahead
  <2>2. /\ Ahead(1)' = Part(1) /\ Ahead(2)' = Part(2) /\ Ahead(3)' = Part(3)
        /\ Ahead(4)' = Part(4) /\ Ahead(5)' = Part(5) /\ Ahead(6)' = Part(6)
        /\ Ahead(7)' = Part(7) /\ Ahead(8)' = Part(8) /\ Ahead(9)' = Part(9)
    BY <2>1
  <2>3. /\ Part(1) \in Nat /\ Part(2) \in Nat /\ Part(3) \in Nat
        /\ Part(4) \in Nat /\ Part(5) \in Nat /\ Part(6) \in Nat
        /\ Part(7) \in Nat /\ Part(8) \in Nat /\ Part(9) \in Nat
    BY <2>1
  <2>4. pos' = HeaderSize /\ size' = TotalSize
    BY <1>1 DEF BeginSerialize
  <2>5. QED
    BY <1>2, <2>2, <2>3, <2>4, SizeIsSumOfParts DEF Remaining, HeaderSize
<1>8. OnTheWay'
  <2>1. /\ size' = TotalSize /\ TotalSize' = TotalSize
        /\ lengthField' = (TotalSize - HeaderSize) % Width
    BY <1>1, PartsStay DEF BeginSerialize
  <2>2. QED
    BY <1>7, <2>1 DEF OnTheWay
<1>9. WrittenInTurn'
  BY <1>1 DEF IInv, WrittenInTurn, BeginSerialize, Building
<1>10. QED
  BY <1>6, <1>8, <1>9 DEF IInv

\* Serialize up to ERROR-CODE.
LEMMA WriteAttributePreservesIInv == IInv /\ WriteAttribute => IInv'
<1>1. SUFFICES ASSUME IInv, WriteAttribute PROVE IInv'
  OBVIOUS
<1>2. /\ step \in 1..9 /\ step \in 1..7 /\ step' = step + 1
      /\ Write(Order[step])
      /\ UNCHANGED <<msg, messageIntegrity, size, typeField, lengthField,
                     hmac, crc>>
  BY <1>1 DEF WriteAttribute
<1>3. /\ pos' \in Nat /\ pos' % 4 = 0
      /\ pos' + Remaining' = size'
      /\ size' = TotalSize'
  BY <1>1, <1>2, WriteAdvances
<1>4. /\ written' \in Seq([type : Types, at : Nat, length : Uint16,
                           value : Nat])
      /\ \A k \in 1..Len(written') :
            \E i \in 1..9 : i < step' /\ written'[k].type = Order[i]
  BY <1>1, <1>2, WriteExtends
<1>5. TypeOK'
  <2>1. /\ msg' \in Messages
        /\ msg'.klass = ERROR_RESPONSE => msg'.password = None
        /\ messageIntegrity' \in Nat
        /\ size' \in Nat
        /\ typeField' \in Uint16
        /\ lengthField' \in Uint16
        /\ hmac' \in [password : Passwords \cup {None},
                      lengthField : Uint16, upTo : Nat]
    BY <1>1, <1>2 DEF IInv, TypeOK
  <2>2. step' \in Building..Done
    BY <1>2 DEF Building, Done
  <2>3. crc' \in [lengthField : Uint16, upTo : Nat]
    BY <1>1, <1>2 DEF IInv, TypeOK
  <2>4. QED
    BY <1>3, <1>4, <2>1, <2>2, <2>3 DEF TypeOK
<1>6. OnTheWay'
  BY <1>1, <1>2, <1>3 DEF IInv, OnTheWay, Building
<1>7. WrittenInTurn'
  BY <1>2, <1>4 DEF WrittenInTurn
<1>8. QED
  BY <1>5, <1>6, <1>7 DEF IInv

\* MESSAGE-INTEGRITY.
LEMMA WriteMessageIntegrityPreservesIInv ==
    IInv /\ WriteMessageIntegrity => IInv'
<1>1. SUFFICES ASSUME IInv, WriteMessageIntegrity PROVE IInv'
  OBVIOUS
<1>2. /\ step \in 1..9 /\ step = 8 /\ step' = step + 1
      /\ Write(Order[step])
      /\ UNCHANGED <<msg, size, typeField, crc>>
  BY <1>1 DEF WriteMessageIntegrity, Order
<1>3. /\ pos' \in Nat /\ pos' % 4 = 0
      /\ pos' + Remaining' = size'
      /\ size' = TotalSize'
  BY <1>1, <1>2, WriteAdvances
<1>4. /\ written' \in Seq([type : Types, at : Nat, length : Uint16,
                           value : Nat])
      /\ \A k \in 1..Len(written') :
            \E i \in 1..9 : i < step' /\ written'[k].type = Order[i]
      /\ Len(written) <= Len(written')
      /\ \A k \in 1..Len(written) : written'[k] = written[k]
  BY <1>1, <1>2, WriteExtends
<1>5. /\ size \in Nat /\ pos \in Nat
      /\ lengthField = (size - HeaderSize) % Width
  BY <1>1, <1>2 DEF IInv, TypeOK, OnTheWay, Building
<1>6. lengthField' = (size - HeaderSize) % Width
  BY <1>1, <1>5 DEF WriteMessageIntegrity
<1>7. TypeOK'
  <2>1. hmac' \in [password : Passwords \cup {None}, lengthField : Uint16,
                   upTo : Nat]
    <3>1. CASE Adds("MESSAGE_INTEGRITY")
      <4>1. hmac' = [password |-> msg.password,
                     lengthField |-> (size - HeaderSize - 8) % Width,
                     upTo |-> pos]
        BY <1>1, <3>1 DEF WriteMessageIntegrity
      <4>2. (size - HeaderSize - 8) % Width \in Uint16
        BY <1>5 DEF Uint16, Width, HeaderSize
      <4>3. msg.password \in Passwords \cup {None}
        BY <1>1 DEF IInv, TypeOK, Messages
      <4>4. QED
        BY <1>5, <4>1, <4>2, <4>3
    <3>2. CASE ~Adds("MESSAGE_INTEGRITY")
      BY <1>1, <3>2 DEF WriteMessageIntegrity, IInv, TypeOK
    <3>3. QED
      BY <3>1, <3>2
  <2>2. messageIntegrity' \in Nat
    BY <1>1, <1>5 DEF WriteMessageIntegrity, Nowhere
  <2>3. lengthField' \in Uint16
    BY <1>1, <1>5, <1>6 DEF IInv, TypeOK
  <2>4. /\ msg' \in Messages
        /\ msg'.klass = ERROR_RESPONSE => msg'.password = None
        /\ size' \in Nat
        /\ step' \in Building..Done
        /\ typeField' \in Uint16
        /\ crc' \in [lengthField : Uint16, upTo : Nat]
    BY <1>1, <1>2 DEF IInv, TypeOK, Building, Done
  <2>5. QED
    BY <1>3, <1>4, <2>1, <2>2, <2>3, <2>4 DEF TypeOK
<1>8. OnTheWay'
  BY <1>2, <1>3, <1>6 DEF OnTheWay
<1>9. WrittenInTurn'
  <2>1. ASSUME NEW k \in 1..Len(written)
        PROVE  written[k].type # "MESSAGE_INTEGRITY"
    <3>1. PICK i \in 1..9 : i < step /\ written[k].type = Order[i]
      BY <1>1 DEF IInv, WrittenInTurn
    <3>2. QED
      BY <1>2, <3>1 DEF Order
  <2>2. CASE Adds("MESSAGE_INTEGRITY")
    <3> DEFINE a == [type |-> "MESSAGE_INTEGRITY", at |-> pos,
                     length |-> ValueLength("MESSAGE_INTEGRITY"),
                     value |-> Value("MESSAGE_INTEGRITY")]
    <3>1. written' = Append(written, a) /\ messageIntegrity' = pos + 4
      BY <1>1, <2>2 DEF WriteMessageIntegrity, Write
    <3>2. a.type = "MESSAGE_INTEGRITY" /\ a.at = pos
      OBVIOUS
    <3> HIDE DEF a
    <3>3. Len(written) \in Nat
      BY <1>1 DEF IInv, TypeOK
    <3>4. /\ Len(written') = Len(written) + 1
          /\ written'[Len(written) + 1] = a
      BY <1>1, <3>1 DEF IInv, TypeOK
    <3>5. Len(written) + 1 \in 1..Len(written')
      BY <3>3, <3>4
    <3>6. \E k \in 1..Len(written') :
              /\ written'[k].type = "MESSAGE_INTEGRITY"
              /\ messageIntegrity' = written'[k].at + 4
      BY <3>1, <3>2, <3>4, <3>5
    <3>7. QED
      BY <1>4, <3>6 DEF WrittenInTurn
  <2>3. CASE ~Adds("MESSAGE_INTEGRITY")
    <3>1. written' = written /\ messageIntegrity' = Nowhere
      BY <1>1, <2>3 DEF WriteMessageIntegrity, Write
    <3>2. QED
      BY <1>4, <2>1, <3>1 DEF WrittenInTurn
  <2>4. QED
    BY <2>2, <2>3
<1>10. QED
  BY <1>7, <1>8, <1>9 DEF IInv

\* FINGERPRINT.
LEMMA WriteFingerprintPreservesIInv == IInv /\ WriteFingerprint => IInv'
<1>1. SUFFICES ASSUME IInv, WriteFingerprint PROVE IInv'
  OBVIOUS
<1>2. /\ step \in 1..9 /\ step = 9 /\ step' = step + 1
      /\ Write(Order[step])
      /\ crc' = [lengthField |-> lengthField, upTo |-> pos]
      /\ UNCHANGED <<msg, messageIntegrity, size, typeField, lengthField,
                     hmac>>
  BY <1>1 DEF WriteFingerprint, Order, Done
<1>3. /\ pos' \in Nat /\ pos' % 4 = 0
      /\ pos' + Remaining' = size'
      /\ size' = TotalSize'
  BY <1>1, <1>2, WriteAdvances
<1>4. /\ written' \in Seq([type : Types, at : Nat, length : Uint16,
                           value : Nat])
      /\ \A k \in 1..Len(written') :
            \E i \in 1..9 : i < step' /\ written'[k].type = Order[i]
      /\ Len(written) <= Len(written')
      /\ \A k \in 1..Len(written) : written'[k] = written[k]
  BY <1>1, <1>2, WriteExtends
<1>5. TypeOK'
  <2>1. /\ msg' \in Messages
        /\ msg'.klass = ERROR_RESPONSE => msg'.password = None
        /\ messageIntegrity' \in Nat
        /\ size' \in Nat
        /\ typeField' \in Uint16
        /\ lengthField' \in Uint16
        /\ hmac' \in [password : Passwords \cup {None},
                      lengthField : Uint16, upTo : Nat]
    BY <1>1, <1>2 DEF IInv, TypeOK
  <2>2. step' \in Building..Done
    BY <1>2 DEF Building, Done
  <2>3. crc' \in [lengthField : Uint16, upTo : Nat]
    <3>1. lengthField \in Uint16 /\ pos \in Nat
      BY <1>1 DEF IInv, TypeOK
    <3>2. QED
      BY <1>2, <3>1
  <2>4. QED
    BY <1>3, <1>4, <2>1, <2>2, <2>3 DEF TypeOK
<1>6. OnTheWay'
  BY <1>1, <1>2, <1>3 DEF IInv, OnTheWay, Building
<1>7. WrittenInTurn'
  <2>1. Len(written) \in Nat /\ Len(written') \in Nat
    BY <1>1, <1>4 DEF IInv, TypeOK
  <2>2. CASE /\ messageIntegrity = Nowhere
             /\ \A k \in 1..Len(written) :
                   written[k].type # "MESSAGE_INTEGRITY"
    <3>1. ASSUME NEW k \in 1..Len(written')
          PROVE  written'[k].type # "MESSAGE_INTEGRITY"
      <4>1. CASE k \in 1..Len(written)
        BY <1>4, <2>2, <4>1
      <4>2. CASE k \notin 1..Len(written)
        <5>1. CASE Adds(Order[9])
          <6> DEFINE a == [type |-> Order[9], at |-> pos,
                           length |-> ValueLength(Order[9]),
                           value |-> Value(Order[9])]
          <6>1. written' = Append(written, a)
            BY <1>2, <5>1 DEF Write
          <6>2. a.type = "FINGERPRINT"
            BY DEF Order
          <6> HIDE DEF a
          <6>3. /\ Len(written') = Len(written) + 1
                /\ written'[Len(written) + 1] = a
            BY <1>1, <6>1 DEF IInv, TypeOK
          <6>4. k = Len(written) + 1
            BY <2>1, <4>2, <6>3
          <6>5. QED
            BY <6>2, <6>3, <6>4
        <5>2. CASE ~Adds(Order[9])
          <6>1. written' = written
            BY <1>2, <5>2 DEF Write
          <6>2. QED
            BY <4>2, <6>1
        <5>3. QED
          BY <5>1, <5>2
      <4>3. QED
        BY <4>1, <4>2
    <3>2. QED
      BY <1>2, <1>4, <2>2, <3>1 DEF WrittenInTurn
  <2>3. CASE \E k \in 1..Len(written) :
                /\ written[k].type = "MESSAGE_INTEGRITY"
                /\ messageIntegrity = written[k].at + 4
    <3>1. PICK k \in 1..Len(written) :
                /\ written[k].type = "MESSAGE_INTEGRITY"
                /\ messageIntegrity = written[k].at + 4
      BY <2>3
    <3>2. k \in 1..Len(written') /\ written'[k] = written[k]
      BY <1>4, <2>1
    <3>3. QED
      BY <1>2, <1>4, <3>1, <3>2 DEF WrittenInTurn
  <2>4. QED
    BY <1>1, <1>2, <2>2, <2>3 DEF IInv, WrittenInTurn
<1>8. QED
  BY <1>5, <1>6, <1>7 DEF IInv

-----------------------------------------------------------------------------
(* The theorems. *)

\* Every step preserves the invariant.
LEMMA NextPreservesIInv == IInv /\ [Next]_messageVars => IInv'
<1>1. CASE IInv /\ UNCHANGED messageVars
  BY <1>1, PartsStay
  DEF messageVars, bufferVars, IInv, TypeOK, OnTheWay, WrittenInTurn,
      Remaining, Ahead
<1>2. CASE IInv /\ Next
  BY <1>2, SetterPreservesIInv, BeginPreservesIInv,
     WriteAttributePreservesIInv, WriteMessageIntegrityPreservesIInv,
     WriteFingerprintPreservesIInv
  DEF Next, Serialize
<1>3. QED
  BY <1>1, <1>2

\* The invariant holds of every object, however it is used.
LEMMA InductiveInvariant == Spec => []IInv
  BY InitEstablishesIInv, NextPreservesIInv, PTL DEF Spec

LEMMA KnownSizeIsExact == IInv => SizeIsExact
<1>1. SUFFICES ASSUME IInv, step = Done
               PROVE  pos = size /\ lengthField = size - HeaderSize
  BY DEF SizeIsExact
<1>2. /\ msg \in Messages /\ pos \in Nat
      /\ size = TotalSize /\ pos + Remaining = size
      /\ lengthField = (size - HeaderSize) % Width
  BY <1>1 DEF IInv, TypeOK, OnTheWay, Building, Done
<1>3. Remaining = 0
  BY <1>1 DEF Remaining, Ahead, Done
<1>4. HeaderSize <= size /\ size < Width /\ size \in Nat
  BY <1>2, SizeFits
<1>5. lengthField = size - HeaderSize
  BY <1>2, <1>4 DEF HeaderSize, Width
<1>6. QED
  BY <1>2, <1>3, <1>5

\* Every field and every attribute written has its type.
THEOREM MessageTypeCorrect == Spec => []TypeOK
<1>1. IInv => TypeOK
  BY DEF IInv
<1>2. QED
  BY <1>1, InductiveInvariant, PTL

\* Serialize writes as many bytes as it has counted, and says so in the header,
\* for every message.
THEOREM SizeMatches == Spec => []SizeIsExact
<1>1. IInv => SizeIsExact
  BY KnownSizeIsExact
<1>2. QED
  BY <1>1, InductiveInvariant, PTL

LEMMA KnownObjectMatches == IInv => ObjectMatchesBuffer
<1>1. SUFFICES ASSUME IInv, step = Done PROVE ObjectMatchesBuffer
  BY DEF ObjectMatchesBuffer
<1>2. DOMAIN written = 1..Len(written)
  BY <1>1 DEF IInv, TypeOK
<1>3. QED
  BY <1>1, <1>2 DEF IInv, WrittenInTurn, ObjectMatchesBuffer, Done

\* An object never describes a buffer that it wrote earlier.
THEOREM ObjectIsCurrent == Spec => []ObjectMatchesBuffer
  BY KnownObjectMatches, InductiveInvariant, PTL

-----------------------------------------------------------------------------
(* What is in the buffer, for whoever reads it. *)

\* Each attribute has the length and the value that the message gives it.
ValuesKnown ==
    \A k \in 1..Len(written) : \A type \in Types : written[k].type = type =>
        /\ Adds(type)
        /\ written[k].length = ValueLength(type)
        /\ written[k].value = Value(type)

\* Where attribute k ends, with its padding.
EndOf(k) == written[k].at + 4 + PadTo4Bytes(written[k].length)

\* Where attribute k begins, or is to begin.
BeginOf(k) == IF k <= Len(written) THEN written[k].at ELSE pos

\* Attributes follow each other without gaps, from the header to pos.
Chained ==
    /\ step # Building => BeginOf(1) = HeaderSize
    /\ \A k \in 1..Len(written) : /\ EndOf(k) = BeginOf(k + 1)
                                  /\ EndOf(k) <= pos
                                  /\ written[k].at % 4 = 0
    /\ \A j, k \in 1..Len(written) : j < k => written[j].at < written[k].at

\* They are in order, and none is missing.
Ordered ==
    /\ \A j, k \in 1..Len(written) : j < k =>
          \E a, b \in 1..9 : /\ a < b
                             /\ written[j].type = Order[a]
                             /\ written[k].type = Order[b]
    /\ \A i \in 1..9 : i < step /\ Adds(Order[i]) =>
          \E k \in 1..Len(written) : written[k].type = Order[i]

\* The header, the HMAC and the CRC are those of this message.
SealsKnown ==
    /\ step # Building => typeField = TypeFieldOf(msg.klass)
    /\ \A k \in 1..Len(written) :
          /\ written[k].type = "MESSAGE_INTEGRITY" =>
                /\ messageIntegrity = written[k].at + 4
                /\ hmac = [password |-> msg.password,
                           lengthField |-> (size - HeaderSize - 8) % Width,
                           upTo |-> written[k].at]
          /\ written[k].type = "FINGERPRINT" =>
                crc = [lengthField |-> lengthField, upTo |-> written[k].at]

BufferKnown == ValuesKnown /\ Chained /\ Ordered /\ SealsKnown

-----------------------------------------------------------------------------
(* The reader. *)

\* The attributes that Parse has taken are the first of those written.
Read(type) == \E k \in 1..Len(attributes) : written[k].type = type

\* What Parse has made of them.
PacketRead ==
    [klass |-> msg.klass,
     flags |-> {type \in Flags : Read(type)},
     errorCode |-> IF Read("ERROR_CODE") THEN msg.errorCode ELSE 0,
     messageIntegrity |->
        IF Read("MESSAGE_INTEGRITY") THEN messageIntegrity ELSE Nowhere,
     fingerprint |-> IF Read("FINGERPRINT") THEN crc ELSE NoCrc]

ReaderKnown ==
    \/ /\ result = "start"
       /\ rpos = HeaderSize /\ ~rIntegrity /\ ~rFingerprint /\ rUsername = 0
       /\ attributes = << >> /\ packet = NoPacket /\ verdict = None
    \/ /\ result \in {"parsing", "accepted"} /\ step = Done
       /\ attributes \in Seq(Parser!Attribute) /\ Len(attributes) <= Len(written)
       /\ rpos = BeginOf(Len(attributes) + 1)
       /\ rIntegrity <=> Read("MESSAGE_INTEGRITY")
       /\ rFingerprint <=> Read("FINGERPRINT")
       /\ rUsername = IF Read("USERNAME") THEN msg.username ELSE 0
       /\ packet = PacketRead
       /\ result = "parsing" => verdict = None
       /\ result = "accepted" => rpos = size

RTInv == IInv /\ BufferKnown /\ ReaderKnown /\ SignedIsAuthentic

-----------------------------------------------------------------------------
(* Serialize keeps what is known of the buffer. *)

LEMMA FieldsStay ==
    ASSUME UNCHANGED msg
    PROVE  \A type \in Types : /\ Adds(type)' <=> Adds(type)
                               /\ ValueLength(type)' = ValueLength(type)
                               /\ Value(type)' = Value(type)
BY DEF Adds, ValueLength, Value

\* Write appends the attribute at pos, or does nothing.
LEMMA WriteAppends ==
    ASSUME IInv, step \in 1..9, Write(Order[step])
    PROVE  LET t == Order[step] IN
           /\ Len(written) \in Nat
           /\ t \in Types
           /\ \/ ~Adds(t) /\ written' = written /\ pos' = pos
              \/ /\ Adds(t)
                 /\ Len(written') = Len(written) + 1
                 /\ \A k \in 1..Len(written) : written'[k] = written[k]
                 /\ written'[Len(written) + 1].type = t
                 /\ written'[Len(written) + 1].at = pos
                 /\ written'[Len(written) + 1].length = ValueLength(t)
                 /\ written'[Len(written) + 1].value = Value(t)
                 /\ pos' = pos + 4 + PadTo4Bytes(ValueLength(t))
<1> DEFINE t == Order[step]
           a == [type |-> t, at |-> pos, length |-> ValueLength(t),
                 value |-> Value(t)]
           R == [type : Types, at : Nat, length : Uint16, value : Nat]
<1>1. /\ msg \in Messages /\ pos \in Nat /\ written \in Seq(R) /\ t \in Types
  BY DEF IInv, TypeOK, Types
<1>2. Len(written) \in Nat
  BY <1>1
<1>3. CASE ~Adds(t)
  BY <1>1, <1>2, <1>3 DEF Write
<1>4. CASE Adds(t)
  <2>1. written' = Append(written, a) /\ pos' = pos + Advance(t)
    BY <1>4 DEF Write
  <2>2. PadTo4Bytes(ValueLength(t)) \in Nat
    <3>1. ValueLength(t) \in Nat /\ ValueLength(t) < 513
      BY <1>1, AdvanceIsAligned
    <3>2. QED
      BY <3>1, PadRoundsUp
  <2>3. pos' = pos + 4 + PadTo4Bytes(ValueLength(t))
    BY <1>1, <2>1, <2>2, AdvanceIsPadded
  <2>4. /\ a.type = t /\ a.at = pos /\ a.length = ValueLength(t)
        /\ a.value = Value(t)
    OBVIOUS
  <2> HIDE DEF a
  <2>5. /\ Len(written') = Len(written) + 1
        /\ \A k \in 1..Len(written) : written'[k] = written[k]
        /\ written'[Len(written) + 1] = a
    BY <1>1, <2>1
  <2>6. QED
    BY <1>1, <1>2, <1>4, <2>3, <2>4, <2>5
<1>5. QED
  BY <1>3, <1>4

LEMMA WriteKeepsValues ==
    ASSUME IInv, ValuesKnown, step \in 1..9, Write(Order[step]), UNCHANGED msg
    PROVE  ValuesKnown'
<1> DEFINE t == Order[step]
           n == Len(written)
<1>1. SUFFICES ASSUME NEW k \in 1..Len(written'), NEW type \in Types,
                      written'[k].type = type
               PROVE  /\ Adds(type)
                      /\ written'[k].length = ValueLength(type)
                      /\ written'[k].value = Value(type)
  BY FieldsStay DEF ValuesKnown
<1>2. n \in Nat
  BY WriteAppends
<1>3. CASE k \in 1..n
  <2>1. written'[k] = written[k]
    BY <1>3, WriteAppends
  <2>2. QED
    BY <1>1, <1>3, <2>1 DEF ValuesKnown
<1>4. CASE k \notin 1..n
  <2>1. /\ Adds(t) /\ k = n + 1
        /\ written'[n + 1].type = t
        /\ written'[n + 1].length = ValueLength(t)
        /\ written'[n + 1].value = Value(t)
    BY <1>2, <1>4, WriteAppends
  <2>2. QED
    BY <1>1, <2>1
<1>5. QED
  BY <1>3, <1>4

\* The new attribute begins where the last one ended, and ends at the new pos.
LEMMA WriteKeepsChain ==
    ASSUME IInv, Chained, step \in 1..9, Write(Order[step]), step' = step + 1
    PROVE  Chained'
<1> DEFINE t == Order[step]
           R == [type : Types, at : Nat, length : Uint16, value : Nat]
<1> SUFFICES ASSUME NEW n, n = Len(written) PROVE Chained'
  OBVIOUS
<1>1. /\ n \in Nat /\ pos \in Nat /\ pos % 4 = 0
      /\ \A k \in 1..n : written[k].at \in Nat /\ written[k].length \in Uint16
      /\ step # Building /\ step' # Building
  <2>1. written \in Seq(R) /\ pos \in Nat /\ pos % 4 = 0
    BY DEF IInv, TypeOK
  <2>2. \A k \in 1..n : written[k] \in R
    <3> HIDE DEF R
    <3>1. QED
      BY <2>1
  <2>3. QED
    BY <2>1, <2>2 DEF Building
<1>2. BeginOf(1) = HeaderSize
  BY <1>1 DEF Chained
<1>3. CASE written' = written /\ pos' = pos
  BY <1>1, <1>2, <1>3 DEF Chained, EndOf, BeginOf
<1>4. CASE /\ Len(written') = n + 1
           /\ \A k \in 1..n : written'[k] = written[k]
           /\ written'[n + 1].at = pos
           /\ written'[n + 1].length = ValueLength(t)
           /\ pos' = pos + 4 + PadTo4Bytes(ValueLength(t))
  <2>1. PadTo4Bytes(ValueLength(t)) \in Nat
    <3>1. msg \in Messages /\ t \in Types
      BY WriteAppends DEF IInv, TypeOK
    <3>2. ValueLength(t) \in Nat /\ ValueLength(t) < 513
      BY <3>1, AdvanceIsAligned
    <3>3. QED
      BY <3>2, PadRoundsUp
  <2>2. pos' \in Nat /\ pos + 4 <= pos'
    BY <1>1, <1>4, <2>1
  <2>3. /\ \A k \in 1..n : EndOf(k)' = EndOf(k)
        /\ EndOf(n + 1)' = pos'
    BY <1>1, <1>4 DEF EndOf
  <2>4. \A k \in 1..(n + 1) : BeginOf(k)' = BeginOf(k)
    BY <1>1, <1>4 DEF BeginOf
  <2>5. BeginOf(n + 2)' = pos' /\ BeginOf(n + 1)' = pos
    BY <1>1, <1>4 DEF BeginOf
  <2>6. ASSUME NEW k \in 1..(n + 1)
        PROVE  /\ EndOf(k)' = BeginOf(k + 1)'
               /\ EndOf(k)' <= pos'
               /\ written'[k].at % 4 = 0
    <3>1. CASE k \in 1..n
      <4>1. /\ EndOf(k) = BeginOf(k + 1) /\ EndOf(k) <= pos
            /\ written[k].at % 4 = 0
        BY <3>1 DEF Chained
      <4>2. EndOf(k) \in Nat
        <5>1. BeginOf(k + 1) \in Nat
          BY <1>1, <3>1 DEF BeginOf
        <5>2. QED
          BY <4>1, <5>1
      <4>3. k + 1 \in 1..(n + 1)
        BY <1>1, <3>1
      <4>4. EndOf(k) <= pos' /\ k \in 1..(n + 1)
        <5>1. pos \in Nat /\ n \in Nat
          BY <1>1
        <5>2. QED
          BY <2>2, <3>1, <4>1, <4>2, <5>1
      <4>5. EndOf(k)' = BeginOf(k + 1)'
        BY <2>3, <2>4, <3>1, <4>1, <4>3, Zenon
      <4>6. EndOf(k)' <= pos'
        BY <2>3, <3>1, <4>4, Zenon
      <4>7. written'[k] = written[k]
        BY <1>4, <3>1
      <4>8. QED
        BY <4>1, <4>5, <4>6, <4>7, Zenon
    <3>2. CASE k = n + 1
      BY <1>1, <1>4, <2>2, <2>3, <2>5, <3>2
    <3>3. QED
      BY <1>1, <3>1, <3>2
  <2>7. ASSUME NEW j \in 1..(n + 1), NEW k \in 1..(n + 1), j < k
        PROVE  written'[j].at < written'[k].at
    <3>1. j \in 1..n
      BY <1>1, <2>7
    <3>2. CASE k \in 1..n
      BY <1>4, <2>7, <3>1, <3>2 DEF Chained
    <3>3. CASE k = n + 1
      <4>1. EndOf(j) <= pos
        BY <3>1 DEF Chained
      <4>2. written[j].at < pos
        <5>1. written[j].at \in Nat /\ PadTo4Bytes(written[j].length) \in Nat
          <6>1. written[j].length \in Nat /\ written[j].at \in Nat
            BY <1>1, <3>1 DEF Uint16
          <6>2. QED
            BY <6>1 DEF PadTo4Bytes, Width
        <5>2. written[j].at + 4 + PadTo4Bytes(written[j].length) <= pos
          BY <4>1 DEF EndOf
        <5>3. pos \in Nat
          BY <1>1
        <5>4. QED
          BY <5>1, <5>2, <5>3
      <4>3. QED
        BY <1>4, <3>1, <3>3, <4>2
    <3>4. QED
      BY <1>1, <3>2, <3>3
  <2>8. BeginOf(1)' = HeaderSize
    BY <1>1, <1>2, <2>4
  <2>9. QED
    BY <1>4, <2>6, <2>7, <2>8 DEF Chained
<1>5. QED
  BY <1>3, <1>4, WriteAppends

LEMMA WriteKeepsOrder ==
    ASSUME IInv, Ordered, step \in 1..9, Write(Order[step]), step' = step + 1,
           UNCHANGED msg
    PROVE  Ordered'
<1> DEFINE t == Order[step]
           n == Len(written)
<1>1. /\ n \in Nat
      /\ \A k \in 1..n : \E i \in 1..9 : i < step /\ written[k].type = Order[i]
  BY WriteAppends DEF IInv, WrittenInTurn
<1>2. \A i \in 1..9 : Order[i] \in Types /\ (Adds(Order[i])' <=> Adds(Order[i]))
  BY FieldsStay DEF Types
<1>3. ASSUME NEW j \in 1..Len(written'), NEW k \in 1..Len(written'), j < k
      PROVE  \E a, b \in 1..9 : /\ a < b
                                /\ written'[j].type = Order[a]
                                /\ written'[k].type = Order[b]
  <2>1. CASE k \in 1..n
    <3>1. j \in 1..n
      BY <1>1, <1>3, <2>1
    <3>2. written'[j] = written[j] /\ written'[k] = written[k]
      BY <2>1, <3>1, WriteAppends
    <3>3. \E a, b \in 1..9 : /\ a < b
                              /\ written[j].type = Order[a]
                              /\ written[k].type = Order[b]
      <4> HIDE DEF n
      <4> DEFINE InTurn(x, y) == \E a, b \in 1..9 : /\ a < b
                                                    /\ written[x].type = Order[a]
                                                    /\ written[y].type = Order[b]
      <4>1. \A x, y \in 1..n : x < y => InTurn(x, y)
        BY DEF Ordered, n
      <4>2. InTurn(j, k)
        <5> HIDE DEF InTurn
        <5>1. QED
          BY <1>3, <2>1, <3>1, <4>1
      <4>3. QED
        BY <4>2
    <3>4. QED
      BY <3>2, <3>3
  <2>2. CASE k \notin 1..n
    <3>1. k = n + 1 /\ j \in 1..n /\ written'[k].type = Order[step]
          /\ written'[j] = written[j]
      BY <1>1, <1>3, <2>2, WriteAppends
    <3>2. QED
      BY <1>1, <3>1
  <2>3. QED
    BY <2>1, <2>2
<1>4. ASSUME NEW i \in 1..9, i < step', Adds(Order[i])
      PROVE  \E k \in 1..Len(written') : written'[k].type = Order[i]
  <2>1. CASE i < step
    <3>1. PICK k \in 1..n : written[k].type = Order[i]
      BY <1>4, <2>1 DEF Ordered
    <3>2. k \in 1..Len(written') /\ written'[k] = written[k]
      BY <1>1, WriteAppends
    <3>3. QED
      BY <3>1, <3>2
  <2>2. CASE i = step
    <3>1. Len(written') = n + 1 /\ written'[n + 1].type = Order[i]
      BY <1>4, <2>2, WriteAppends
    <3>2. n + 1 \in 1..Len(written')
      BY <1>1, <3>1
    <3>3. QED
      BY <3>1, <3>2
  <2>3. QED
    BY <1>4, <2>1, <2>2
<1>5. QED
  BY <1>2, <1>3, <1>4 DEF Ordered

\* Nothing is in an object's buffer before Serialize.
LEMMA BuildingIsEmpty ==
    ASSUME IInv, step \in {Building, 1}
    PROVE  Len(written) = 0
<1>1. Len(written) \in Nat
  BY DEF IInv, TypeOK
<1>2. ASSUME Len(written) # 0 PROVE FALSE
  <2>1. 1 \in 1..Len(written)
    BY <1>1, <1>2
  <2>2. \E i \in 1..9 : i < step
    BY <2>1 DEF IInv, WrittenInTurn
  <2>3. QED
    BY <2>2 DEF Building
<1>3. QED
  BY <1>2

\* What is written before the seals is not sealed.
LEMMA TurnsAreDifferent ==
    ASSUME IInv, NEW k \in 1..Len(written)
    PROVE  /\ step <= 8 => written[k].type # "MESSAGE_INTEGRITY"
           /\ step <= 9 => written[k].type # "FINGERPRINT"
<1>1. PICK i \in 1..9 : i < step /\ written[k].type = Order[i]
  BY DEF IInv, WrittenInTurn
<1>2. step \in 0..10
  BY DEF IInv, TypeOK, Building, Done
<1>3. i < 8 => Order[i] # "MESSAGE_INTEGRITY"
  BY DEF Order
<1>4. i < 9 => Order[i] # "FINGERPRINT"
  BY DEF Order
<1>5. QED
  BY <1>1, <1>2, <1>3, <1>4

LEMMA SetterKeepsBuffer ==
    ASSUME IInv, Setter
    PROVE  BufferKnown'
<1>1. \E fields : Set(fields)
  BY DEF Setter, SetUsername, SetFlag, SetXorMappedAddress, SetErrorCode,
         Authenticate
<1>2. step' = Building /\ written' = << >>
  BY <1>1 DEF Set
<1>3. Len(written') = 0
  BY <1>2
<1>4. ValuesKnown' /\ Chained'
  BY <1>2, <1>3 DEF ValuesKnown, Chained
<1>5. Ordered' /\ SealsKnown'
  BY <1>2, <1>3 DEF Ordered, SealsKnown, Building
<1>6. QED
  BY <1>4, <1>5 DEF BufferKnown

LEMMA BeginKeepsBuffer ==
    ASSUME IInv, BeginSerialize
    PROVE  BufferKnown'
<1>1. /\ step = Building /\ step' = 1 /\ pos' = HeaderSize
      /\ typeField' = TypeFieldOf(msg.klass)
      /\ UNCHANGED <<msg, messageIntegrity, written, hmac, crc>>
  BY DEF BeginSerialize
<1>2. Len(written') = 0
  BY <1>1, BuildingIsEmpty
<1>3. ValuesKnown'
  BY <1>2 DEF ValuesKnown
<1>4. Chained'
  BY <1>1, <1>2 DEF Chained, BeginOf
<1>5. Ordered' /\ SealsKnown'
  BY <1>1, <1>2 DEF Ordered, SealsKnown
<1>6. QED
  BY <1>3, <1>4, <1>5 DEF BufferKnown

\* The attributes up to ERROR-CODE are not sealed.
LEMMA WriteAttributeKeepsBuffer ==
    ASSUME IInv, BufferKnown, WriteAttribute
    PROVE  BufferKnown'
<1>1. /\ step \in 1..9 /\ step \in 1..7 /\ step' = step + 1
      /\ Write(Order[step])
      /\ UNCHANGED <<msg, messageIntegrity, size, typeField, lengthField, hmac,
                     crc>>
  BY DEF WriteAttribute
<1>2. ValuesKnown' /\ Chained' /\ Ordered'
  BY <1>1, WriteKeepsValues, WriteKeepsChain, WriteKeepsOrder DEF BufferKnown
<1>3. \A k \in 1..Len(written') :
          written'[k].type \notin {"MESSAGE_INTEGRITY", "FINGERPRINT"}
  <2>1. IInv'
    BY WriteAttributePreservesIInv
  <2>2. step' <= 8
    BY <1>1
  <2>3. \A k \in 1..Len(written') :
            \E i \in 1..9 : i < step' /\ written'[k].type = Order[i]
    BY <2>1 DEF IInv, WrittenInTurn
  <2>4. \A i \in 1..7 : Order[i] \notin {"MESSAGE_INTEGRITY", "FINGERPRINT"}
    BY DEF Order
  <2>5. SUFFICES ASSUME NEW k \in 1..Len(written')
                 PROVE  written'[k].type \notin {"MESSAGE_INTEGRITY", "FINGERPRINT"}
    BY Zenon
  <2>6. PICK i \in 1..9 : i < step' /\ written'[k].type = Order[i]
    BY <2>3, <2>5, Zenon
  <2>7. i \in 1..7
    BY <1>1, <2>6
  <2>8. QED
    BY <2>4, <2>6, <2>7, Zenon
<1>4. SealsKnown'
  BY <1>1, <1>3 DEF BufferKnown, SealsKnown, Building
<1>5. QED
  BY <1>2, <1>4 DEF BufferKnown

\* MESSAGE-INTEGRITY is sealed where it is written.
LEMMA WriteMessageIntegrityKeepsBuffer ==
    ASSUME IInv, BufferKnown, WriteMessageIntegrity
    PROVE  BufferKnown'
<1> SUFFICES ASSUME NEW n, n = Len(written) PROVE BufferKnown'
  OBVIOUS
<1>1. /\ step \in 1..9 /\ step = 8 /\ step' = step + 1
      /\ Write(Order[step]) /\ Order[step] = "MESSAGE_INTEGRITY"
      /\ UNCHANGED <<msg, size, typeField, crc>>
  BY DEF WriteMessageIntegrity, Order
<1>2. ValuesKnown' /\ Chained' /\ Ordered'
  BY <1>1, WriteKeepsValues, WriteKeepsChain, WriteKeepsOrder DEF BufferKnown
<1>3. n \in Nat /\ \A k \in 1..n : /\ written[k].type # "MESSAGE_INTEGRITY"
                                   /\ written[k].type # "FINGERPRINT"
  BY <1>1, TurnsAreDifferent, WriteAppends
<1>4. CASE ~Adds("MESSAGE_INTEGRITY")
  <2>1. written' = written
    BY <1>1, <1>4, WriteAppends
  <2>2. SealsKnown'
    BY <1>1, <1>3, <2>1 DEF BufferKnown, SealsKnown, Building
  <2>3. QED
    BY <1>2, <2>2 DEF BufferKnown
<1>5. CASE Adds("MESSAGE_INTEGRITY")
  <2>1. /\ Len(written') = n + 1
        /\ \A k \in 1..n : written'[k] = written[k]
        /\ written'[n + 1].type = "MESSAGE_INTEGRITY"
        /\ written'[n + 1].at = pos
    BY <1>1, <1>5, WriteAppends
  <2>2. /\ hmac' = [password |-> msg.password,
                    lengthField |-> (size - HeaderSize - 8) % Width,
                    upTo |-> pos]
        /\ messageIntegrity' = pos + 4
    BY <1>5 DEF WriteMessageIntegrity
  <2>3. ASSUME NEW k \in 1..Len(written')
        PROVE  /\ written'[k].type = "MESSAGE_INTEGRITY" =>
                    /\ messageIntegrity' = written'[k].at + 4
                    /\ hmac' = [password |-> msg'.password,
                                lengthField |-> (size' - HeaderSize - 8) % Width,
                                upTo |-> written'[k].at]
               /\ written'[k].type # "FINGERPRINT"
    <3>1. CASE k \in 1..n
      BY <1>3, <2>1, <3>1
    <3>2. CASE k = n + 1
      BY <1>1, <2>1, <2>2, <3>2
    <3>3. QED
      BY <1>3, <2>1, <3>1, <3>2
  <2>4. SealsKnown'
    BY <1>1, <2>3 DEF BufferKnown, SealsKnown, Building
  <2>5. QED
    BY <1>2, <2>4 DEF BufferKnown
<1>6. QED
  BY <1>4, <1>5

LEMMA WriteFingerprintKeepsBuffer ==
    ASSUME IInv, BufferKnown, WriteFingerprint
    PROVE  BufferKnown'
<1> SUFFICES ASSUME NEW n, n = Len(written) PROVE BufferKnown'
  OBVIOUS
<1>1. /\ step \in 1..9 /\ step = 9 /\ step' = step + 1
      /\ Write(Order[step]) /\ Order[step] = "FINGERPRINT"
      /\ UNCHANGED <<msg, messageIntegrity, size, typeField, lengthField, hmac>>
      /\ crc' = [lengthField |-> lengthField, upTo |-> pos]
  BY DEF WriteFingerprint, Order, Done
<1>2. ValuesKnown' /\ Chained' /\ Ordered'
  BY <1>1, WriteKeepsValues, WriteKeepsChain, WriteKeepsOrder DEF BufferKnown
<1>3. n \in Nat /\ \A k \in 1..n : written[k].type # "FINGERPRINT"
  BY <1>1, TurnsAreDifferent, WriteAppends
<1>4. /\ Len(written') = n + 1
      /\ \A k \in 1..n : written'[k] = written[k]
      /\ written'[n + 1].type = "FINGERPRINT"
      /\ written'[n + 1].at = pos
  <2>1. Adds("FINGERPRINT")
    BY DEF Adds, Flags
  <2>2. QED
    BY <1>1, <2>1, WriteAppends
<1>5. ASSUME NEW k \in 1..Len(written')
      PROVE  /\ written'[k].type = "MESSAGE_INTEGRITY" =>
                  /\ messageIntegrity = written'[k].at + 4
                  /\ hmac = [password |-> msg.password,
                             lengthField |-> (size - HeaderSize - 8) % Width,
                             upTo |-> written'[k].at]
             /\ written'[k].type = "FINGERPRINT" =>
                  crc' = [lengthField |-> lengthField, upTo |-> written'[k].at]
  <2>1. CASE k \in 1..n
    BY <1>3, <1>4, <2>1 DEF BufferKnown, SealsKnown
  <2>2. CASE k = n + 1
    BY <1>1, <1>4, <2>2
  <2>3. QED
    BY <1>3, <1>4, <2>1, <2>2
<1>6. SealsKnown'
  BY <1>1, <1>5 DEF BufferKnown, SealsKnown, Building
<1>7. QED
  BY <1>2, <1>6 DEF BufferKnown

LEMMA BufferStays ==
    ASSUME BufferKnown, UNCHANGED messageVars
    PROVE  BufferKnown'
<1>1. UNCHANGED <<msg, messageIntegrity, size, step, pos, typeField, lengthField,
                  written, hmac, crc>>
  BY DEF messageVars, bufferVars
<1>2. ValuesKnown'
  BY <1>1, FieldsStay DEF BufferKnown, ValuesKnown
<1>3. Chained'
  BY <1>1 DEF BufferKnown, Chained, EndOf, BeginOf
<1>4. \A i \in 1..9 : Adds(Order[i])' <=> Adds(Order[i])
  BY <1>1, FieldsStay DEF Types
<1>5. Ordered'
  <2>1. Ordered
    BY Zenon DEF BufferKnown
  <2>2. written' = written /\ step' = step
    BY <1>1
  <2>3. ASSUME NEW j \in 1..Len(written'), NEW k \in 1..Len(written'), j < k
        PROVE  \E a, b \in 1..9 : /\ a < b
                                  /\ written'[j].type = Order[a]
                                  /\ written'[k].type = Order[b]
    <3>1. j \in 1..Len(written) /\ k \in 1..Len(written)
      BY <2>2
    <3>2. PICK a \in 1..9, b \in 1..9 : /\ a < b
                                        /\ written[j].type = Order[a]
                                        /\ written[k].type = Order[b]
      BY <2>1, <2>3, <3>1 DEF Ordered
    <3>3. written'[j].type = Order[a] /\ written'[k].type = Order[b]
      BY <2>2, <3>2, Zenon
    <3>4. QED
      BY <3>2, <3>3, Zenon
  <2>4. ASSUME NEW i \in 1..9, i < step', Adds(Order[i])'
        PROVE  \E k \in 1..Len(written') : written'[k].type = Order[i]
    BY <1>4, <2>1, <2>2, <2>4, Zenon DEF Ordered
  <2>5. QED
    BY <2>3, <2>4, Zenon DEF Ordered
<1>6. SealsKnown'
  BY <1>1 DEF BufferKnown, SealsKnown
<1>7. QED
  BY <1>2, <1>3, <1>5, <1>6 DEF BufferKnown

LEMMA NextKeepsBuffer ==
    ASSUME IInv, BufferKnown, Next
    PROVE  BufferKnown'
BY SetterKeepsBuffer, BeginKeepsBuffer, WriteAttributeKeepsBuffer,
   WriteMessageIntegrityKeepsBuffer, WriteFingerprintKeepsBuffer
DEF Next, Serialize

-----------------------------------------------------------------------------
(* What the reader meets. *)

LEMMA PaddingShifts ==
    ASSUME NEW m \in Nat, m % 4 = 0, NEW n \in Nat, n < 513,
           m + PadTo4Bytes(n) < Width
    PROVE  PadTo4Bytes((m + n) % Width) = m + PadTo4Bytes(n)
<1>1. n <= PadTo4Bytes(n) /\ PadTo4Bytes(n) \in Nat
  BY PadRoundsUp
<1>2. (m + n) % Width = m + n /\ (m + n) % 4 = n % 4
  BY <1>1 DEF Width
<1>3. CASE n % 4 = 0
  BY <1>2, <1>3 DEF PadTo4Bytes
<1>4. CASE n % 4 # 0
  <2>1. n - (n % 4) + 4 \in Nat /\ n - (n % 4) + 4 < 517
    OBVIOUS
  <2>2. PadTo4Bytes(n) = n - (n % 4) + 4
    BY <1>4, <2>1 DEF PadTo4Bytes, Width
  <2>3. m + n - (n % 4) + 4 \in Nat /\ m + n - (n % 4) + 4 < Width
    BY <2>1, <2>2 DEF Width
  <2>4. (m + n - (n % 4) + 4) % Width = m + n - (n % 4) + 4
    BY <2>3 DEF Width
  <2>5. QED
    BY <1>2, <1>4, <2>1, <2>2, <2>4 DEF PadTo4Bytes
<1>5. QED
  BY <1>3, <1>4

\* The two bytes of an error code give the code again.
LEMMA ErrorCodeSurvives ==
    ASSUME NEW code \in Nat, code < 25600
    PROVE  (ErrorBytes(code) \div 256) * 100 + (ErrorBytes(code) % 256) = code
<1> DEFINE hundreds == code \div 100
           number == code % 100
<1>1. /\ hundreds \in Nat /\ hundreds < 256
      /\ number \in Nat /\ number < 100
      /\ code = hundreds * 100 + number
  OBVIOUS
<1>2. hundreds % 256 = hundreds
  BY <1>1
<1>3. ((code % 256) - hundreds * 100) % 256 = number
  BY <1>1
<1>4. ErrorBytes(code) = hundreds * 256 + number
  BY <1>2, <1>3 DEF ErrorBytes
<1>5. (hundreds * 256 + number) \div 256 = hundreds
      /\ (hundreds * 256 + number) % 256 = number
  <2> HIDE DEF hundreds, number
  <2>1. QED
    BY <1>1
<1>6. hundreds * 100 + number = code
  <2> HIDE DEF hundreds, number
  <2>1. QED
    BY <1>1
<1>7. QED
  <2> HIDE DEF hundreds, number
  <2>1. /\ ErrorBytes(code) \div 256 = hundreds
        /\ ErrorBytes(code) % 256 = number
    BY <1>4, <1>5
  <2>2. QED
    BY <1>6, <2>1

LEMMA DoneIsKnown ==
    ASSUME IInv, step = Done
    PROVE  /\ msg \in Messages
           /\ pos = size /\ size \in Nat /\ size % 4 = 0
           /\ HeaderSize <= size /\ size + 4 <= Width
           /\ lengthField = size - HeaderSize
           /\ Len(written) \in Nat
<1>1. pos = size /\ lengthField = size - HeaderSize
  BY KnownSizeIsExact DEF SizeIsExact
<1>2. msg \in Messages /\ size = TotalSize /\ Len(written) \in Nat
  BY DEF IInv, TypeOK, OnTheWay, Building, Done
<1>3. QED
  BY <1>1, <1>2, SizeFits DEF Width

\* An attribute that was written passes the tests of Parse, and ends where the
\* next one begins.
LEMMA AttributeIsGood ==
    ASSUME IInv, BufferKnown, step = Done, NEW k \in 1..Len(written)
    PROVE  LET a == written[k] IN
           /\ a.type \in Types
           /\ a.at \in Nat /\ a.length \in Nat /\ a.length < 513
           /\ a.at + 4 + a.length <= size
           /\ a.at + 4 <= size
           /\ BeginOf(k + 1) = PadTo4Bytes((a.at + 4 + a.length) % Width)
           /\ Parser!GoodLength(TypeRead(a.type), a.length)
<1> DEFINE a == written[k]
           R == [type : Types, at : Nat, length : Uint16, value : Nat]
<1>1. a \in R
  <2> HIDE DEF R
  <2>1. written \in Seq(R)
    BY DEF IInv, TypeOK, R
  <2>2. QED
    BY <2>1
<1>2. a.type \in Types /\ a.at \in Nat
  BY <1>1
<1>3. Adds(a.type) /\ a.length = ValueLength(a.type)
  BY <1>2 DEF BufferKnown, ValuesKnown
<1>4. a.length \in Nat /\ a.length < 513
  BY <1>2, <1>3, DoneIsKnown, AdvanceIsAligned
<1>5. /\ PadTo4Bytes(a.length) \in Nat /\ a.length <= PadTo4Bytes(a.length)
  <2>1. \A n \in Nat : n < 513 =>
            PadTo4Bytes(n) \in Nat /\ n <= PadTo4Bytes(n)
    BY PadRoundsUp
  <2> HIDE DEF a
  <2>2. QED
    BY <1>4, <2>1
<1>6. /\ a.at + 4 + PadTo4Bytes(a.length) = BeginOf(k + 1)
      /\ a.at + 4 + PadTo4Bytes(a.length) <= size
      /\ a.at % 4 = 0
  BY DoneIsKnown DEF BufferKnown, Chained, EndOf
<1>7. /\ a.at + 4 + a.length <= size /\ a.at + 4 <= size
  <2> HIDE DEF a
  <2>1. SUFFICES ASSUME NEW at \in Nat, at = a.at, NEW length \in Nat, length = a.length,
                        NEW padded \in Nat, padded = PadTo4Bytes(a.length)
                 PROVE  at + 4 + length <= size /\ at + 4 <= size
    BY <1>2, <1>4, <1>5
  <2>2. size \in Nat
    BY DoneIsKnown
  <2>3. length <= padded /\ at + 4 + padded <= size
    BY <1>5, <1>6, <2>1, Zenon
  <2>4. QED
    BY <2>2, <2>3
<1>8. PadTo4Bytes((a.at + 4 + a.length) % Width) = a.at + 4 + PadTo4Bytes(a.length)
  <2> HIDE DEF a
  <2>1. /\ a.at + 4 \in Nat /\ (a.at + 4) % 4 = 0
        /\ (a.at + 4) + PadTo4Bytes(a.length) < Width
    BY <1>2, <1>5, <1>6, DoneIsKnown DEF Width
  <2>2. QED
    BY <1>4, <2>1, PaddingShifts
<1>9. Parser!GoodLength(TypeRead(a.type), a.length)
  BY <1>2, <1>3
  DEF Parser!GoodLength, TypeRead, Parser!Attribute, ValueLength, Types, Order
<1>10. QED
  BY <1>2, <1>4, <1>6, <1>7, <1>8, <1>9

\* No two attributes begin at one position.
LEMMA PositionsDiffer ==
    ASSUME IInv, BufferKnown, step = Done,
           NEW j \in 1..Len(written), NEW k \in 1..Len(written),
           written[j].at = written[k].at
    PROVE  j = k
<1>1. written[j].at \in Nat /\ written[k].at \in Nat /\ j \in Nat /\ k \in Nat
  BY AttributeIsGood
<1>2. ~(j < k) /\ ~(k < j)
  BY <1>1 DEF BufferKnown, Chained
<1>3. QED
  BY <1>1, <1>2

\* The turns of two attributes differ as they stand in the buffer.
LEMMA ReaderIsInOrder ==
    ASSUME IInv, BufferKnown, step = Done,
           NEW j \in 1..Len(written), NEW k \in 1..Len(written), j < k
    PROVE  /\ written[j].type # "FINGERPRINT"
           /\ written[j].type = "MESSAGE_INTEGRITY" =>
                written[k].type = "FINGERPRINT"
           /\ written[j].type # written[k].type
<1>1. PICK a, b \in 1..9 : /\ a < b
                           /\ written[j].type = Order[a]
                           /\ written[k].type = Order[b]
  BY DEF BufferKnown, Ordered
<1>2. \A i \in 1..9 : /\ Order[i] = "FINGERPRINT" <=> i = 9
                      /\ Order[i] = "MESSAGE_INTEGRITY" <=> i = 8
  BY DEF Order
<1>3. Order[a] # Order[b]
  BY <1>1 DEF Order
<1>4. a # 9 /\ (a = 8 => b = 9)
  BY <1>1
<1>5. QED
  BY <1>1, <1>2, <1>3, <1>4, Zenon

\* At the end of the buffer, and only there, all that was written is read.
LEMMA WhereTheReaderIs ==
    ASSUME IInv, BufferKnown, ReaderKnown, result \in {"parsing", "accepted"}
    PROVE  LET n == Len(attributes) IN
           /\ step = Done
           /\ n \in Nat /\ n <= Len(written)
           /\ \/ n = Len(written) /\ rpos = size
              \/ /\ n + 1 \in 1..Len(written)
                 /\ rpos = written[n + 1].at
                 /\ rpos \in Nat /\ rpos + 4 <= size
<1> DEFINE n == Len(attributes)
<1>1. /\ step = Done /\ attributes \in Seq(Parser!Attribute)
      /\ n <= Len(written) /\ rpos = BeginOf(n + 1)
  BY DEF ReaderKnown
<1>2. n \in Nat /\ Len(written) \in Nat /\ pos = size
  BY <1>1, DoneIsKnown
<1> HIDE DEF n
<1>3. CASE n = Len(written)
  BY <1>1, <1>2, <1>3 DEF BeginOf, n
<1>4. CASE n # Len(written)
  <2>1. n + 1 \in 1..Len(written)
    BY <1>1, <1>2, <1>4
  <2>2. rpos = written[n + 1].at
    BY <1>1, <2>1 DEF BeginOf
  <2>3. rpos \in Nat /\ rpos + 4 <= size
    BY <1>1, <2>1, <2>2, AttributeIsGood
  <2>4. QED
    BY <1>1, <1>2, <2>1, <2>2, <2>3 DEF n
<1>5. QED
  BY <1>3, <1>4

\* An accepted message was read as a whole.
LEMMA AcceptedIsRead ==
    ASSUME IInv, BufferKnown, ReaderKnown, result = "accepted"
    PROVE  /\ step = Done
           /\ \A type \in Types : Read(type) <=> Adds(type)
<1>1. step = Done /\ rpos = size
  BY DEF ReaderKnown
<1>2. Len(attributes) = Len(written) /\ Len(written) \in Nat
  <2>1. size \in Nat
    BY <1>1, DoneIsKnown
  <2>2. QED
    BY <1>1, <2>1, WhereTheReaderIs, DoneIsKnown
<1>3. ASSUME NEW type \in Types, Read(type) PROVE Adds(type)
  BY <1>2, <1>3 DEF Read, BufferKnown, ValuesKnown
<1>4. ASSUME NEW type \in Types, Adds(type) PROVE Read(type)
  <2>1. PICK i \in 1..9 : type = Order[i]
    BY DEF Types
  <2>2. i < step
    BY <1>1 DEF Done
  <2>3. \E k \in 1..Len(written) : written[k].type = type
    BY <1>4, <2>1, <2>2 DEF BufferKnown, Ordered
  <2>4. QED
    BY <1>2, <2>3 DEF Read
<1>5. QED
  BY <1>1, <1>3, <1>4

\* A user name is written if and only if there is one, with its own length.
LEMMA UsernameTravels ==
    ASSUME msg \in Messages
    PROVE  /\ Adds("USERNAME") <=> msg.username # 0
           /\ ValueLength("USERNAME") = msg.username
<1>1. /\ msg.username \in Nat /\ msg.username < 513
      /\ msg.username % Width = msg.username
  BY UsernameIsShort
<1>2. PadTo4Bytes(msg.username) # 0 <=> msg.username # 0
  BY <1>1, PadRoundsUp
<1>3. Adds("USERNAME") <=> PadTo4Bytes(msg.username % Width) # 0
  BY DEF Adds, Flags
<1>4. ValueLength("USERNAME") = msg.username % Width
  BY DEF ValueLength
<1>5. QED
  BY <1>1, <1>2, <1>3, <1>4

-----------------------------------------------------------------------------
(* The reader's steps. *)

LEMMA InitEstablishesRTInv == RoundTripInit => RTInv
<1> SUFFICES ASSUME RoundTripInit PROVE RTInv
  OBVIOUS
<1>1. IInv
  BY InitEstablishesIInv DEF RoundTripInit
<1>2. step = Building /\ Len(written) = 0
  BY DEF RoundTripInit, Init
<1>3. BufferKnown
  BY <1>2 DEF BufferKnown, ValuesKnown, Chained, Ordered, SealsKnown, Building
<1>4. ReaderKnown /\ SignedIsAuthentic
  BY DEF RoundTripInit, ReaderKnown, SignedIsAuthentic
<1>5. QED
  BY <1>1, <1>3, <1>4 DEF RTInv

LEMMA FreshIsKnown ==
    ASSUME Fresh
    PROVE  ReaderKnown' /\ SignedIsAuthentic'
BY DEF Fresh, ReaderKnown, SignedIsAuthentic

LEMMA ClassSurvives ==
    ASSUME NEW klass \in Class
    PROVE  ClassOf(TypeFieldOf(klass)) = klass
BY DEF Class, REQUEST, INDICATION, SUCCESS_RESPONSE, ERROR_RESPONSE, ClassOf,
       TypeFieldOf

\* The header is in order, and Parse goes on.
LEMMA ParseHeaderKeepsReader ==
    ASSUME RTInv, ParseHeader
    PROVE  ReaderKnown' /\ SignedIsAuthentic'
<1>1. /\ IInv /\ BufferKnown /\ ReaderKnown /\ step = Done
      /\ result = "start"
      /\ result' = "parsing" <=> lengthField = size - HeaderSize
      /\ packet' = [packet EXCEPT !.klass = ClassOf(typeField)]
      /\ UNCHANGED <<rpos, rIntegrity, rFingerprint, rUsername, attributes>>
      /\ UNCHANGED <<messageVars, verdict>>
  BY DEF RTInv, ParseHeader, Parser!Header, Parser!Reject
<1>2. /\ rpos = HeaderSize /\ ~rIntegrity /\ ~rFingerprint /\ rUsername = 0
      /\ attributes = << >> /\ packet = NoPacket /\ verdict = None
  BY <1>1 DEF ReaderKnown
<1>3. result' = "parsing"
  BY <1>1, DoneIsKnown
<1>4. UNCHANGED <<msg, messageIntegrity, step, pos, written, crc>>
  BY <1>1 DEF messageVars, bufferVars
<1>5. packet'.klass = msg.klass
  <2>1. msg.klass \in Class
    BY <1>1, DoneIsKnown DEF Messages
  <2>2. typeField = TypeFieldOf(msg.klass)
    BY <1>1 DEF BufferKnown, SealsKnown, Done, Building
  <2>3. QED
    BY <1>1, <1>2, <2>1, <2>2, ClassSurvives DEF NoPacket
<1>6. packet' = [klass |-> msg.klass, flags |-> {}, errorCode |-> 0,
                 messageIntegrity |-> Nowhere, fingerprint |-> NoCrc]
  BY <1>1, <1>2, <1>5 DEF NoPacket
<1>7. Len(attributes') = 0 /\ attributes' \in Seq(Parser!Attribute)
  BY <1>1, <1>2
<1>8. \A type : ~Read(type)'
  BY <1>7 DEF Read
<1>9. packet' = PacketRead'
  BY <1>4, <1>6, <1>8 DEF PacketRead
<1>10. rpos' = BeginOf(Len(attributes) + 1)'
  <2>1. BeginOf(1)' = BeginOf(1)
    BY <1>4 DEF BeginOf
  <2>2. BeginOf(1) = HeaderSize
    BY <1>1 DEF BufferKnown, Chained, Done, Building
  <2>3. BeginOf(Len(attributes) + 1)' = BeginOf(1)'
    BY <1>7 DEF BeginOf
  <2>4. QED
    BY <1>1, <1>2, <2>1, <2>2, <2>3
<1>11. Len(attributes') <= Len(written')
  BY <1>1, <1>4, <1>7, DoneIsKnown
<1>12. ReaderKnown'
  BY <1>1, <1>2, <1>3, <1>4, <1>7, <1>8, <1>9, <1>10, <1>11 DEF ReaderKnown
<1>13. QED
  BY <1>1, <1>2, <1>12 DEF SignedIsAuthentic

\* The fields that Store changes are those that the attribute read adds.
LEMMA StoreKeepsPacket ==
    ASSUME IInv, BufferKnown, step = Done, packet = PacketRead,
           NEW r \in 1..Len(written), rpos = written[r].at, Store(written[r]),
           UNCHANGED <<msg, messageIntegrity, lengthField, crc>>,
           \A type : Read(type)' <=> (Read(type) \/ written[r].type = type)
    PROVE  packet' = PacketRead'
<1> DEFINE t == written[r].type
           F == {type \in Flags : Read(type)}
           e == IF Read("ERROR_CODE") THEN msg.errorCode ELSE 0
           m == IF Read("MESSAGE_INTEGRITY") THEN messageIntegrity ELSE Nowhere
           f == IF Read("FINGERPRINT") THEN crc ELSE NoCrc
           F1 == {type \in Flags : Read(type) \/ t = type}
           e1 == IF Read("ERROR_CODE") \/ t = "ERROR_CODE"
                 THEN msg.errorCode ELSE 0
           m1 == IF Read("MESSAGE_INTEGRITY") \/ t = "MESSAGE_INTEGRITY"
                 THEN messageIntegrity ELSE Nowhere
           f1 == IF Read("FINGERPRINT") \/ t = "FINGERPRINT"
                 THEN crc ELSE NoCrc
<1>1. packet = [klass |-> msg.klass, flags |-> F, errorCode |-> e,
                messageIntegrity |-> m, fingerprint |-> f]
  BY DEF PacketRead
<1>2. PacketRead' = [klass |-> msg.klass, flags |-> F1, errorCode |-> e1,
                     messageIntegrity |-> m1, fingerprint |-> f1]
  <2>1. {type \in Flags : Read(type)'} = F1
    OBVIOUS
  <2>2. QED
    BY <2>1 DEF PacketRead
<1>3. t \in Types
  BY AttributeIsGood
<1>4. CASE t \in Flags
  <2>1. t \notin {"ERROR_CODE", "MESSAGE_INTEGRITY", "FINGERPRINT"}
    BY <1>4 DEF Flags
  <2>2. packet' = [packet EXCEPT !.flags = packet.flags \cup {t}]
    BY <1>4, <2>1, Zenon DEF Store
  <2>3. packet.flags \cup {t} = F1
    <3>1. packet.flags = F
      BY <1>1
    <3>2. F \cup {t} = F1
      BY <1>4
    <3>3. QED
      BY <3>1, <3>2
  <2>4. e1 = e /\ m1 = m /\ f1 = f
    BY <2>1
  <2> HIDE DEF F, e, m, f, F1, e1, m1, f1, t
  <2>5. packet' = [packet EXCEPT !.flags = F1]
    BY <2>2, <2>3, Zenon
  <2>6. QED
    BY <1>1, <1>2, <2>4, <2>5
<1>5. CASE t = "ERROR_CODE"
  <2>1. packet' = [packet EXCEPT !.errorCode =
                       (written[r].value \div 256) * 100
                           + (written[r].value % 256)]
    BY <1>5 DEF Store, Flags
  <2>2. written[r].value = ErrorBytes(msg.errorCode)
    <3>1. written[r].value = Value("ERROR_CODE")
      BY <1>3, <1>5 DEF BufferKnown, ValuesKnown
    <3>2. QED
      BY <3>1 DEF Value
  <2>3. msg.errorCode \in Nat /\ msg.errorCode < 25600
    <3>1. msg.errorCode \in ErrorCodes \cup {0}
      BY DoneIsKnown DEF Messages
    <3>2. \A n \in ErrorCodes : n \in Nat /\ n < 25600
      BY MessageAssumption
    <3>3. QED
      BY <3>1, <3>2
  <2>4. packet' = [packet EXCEPT !.errorCode = msg.errorCode]
    BY <2>1, <2>2, <2>3, ErrorCodeSurvives
  <2>5. F1 = F /\ e1 = msg.errorCode /\ m1 = m /\ f1 = f
    BY <1>5 DEF Flags
  <2> HIDE DEF F, e, m, f, F1, e1, m1, f1, t
  <2>6. QED
    BY <1>1, <1>2, <2>4, <2>5
<1>6. CASE t = "MESSAGE_INTEGRITY"
  <2>1. packet' = [packet EXCEPT !.messageIntegrity = rpos + 4]
    BY <1>6 DEF Store, Flags
  <2>2. messageIntegrity = rpos + 4
    BY <1>6 DEF BufferKnown, SealsKnown
  <2>3. F1 = F /\ e1 = e /\ m1 = messageIntegrity /\ f1 = f
    BY <1>6 DEF Flags
  <2> HIDE DEF F, e, m, f, F1, e1, m1, f1, t
  <2>4. QED
    BY <1>1, <1>2, <2>1, <2>2, <2>3
<1>7. CASE t = "FINGERPRINT"
  <2>1. packet' = [packet EXCEPT !.fingerprint = [lengthField |-> lengthField,
                                                  upTo |-> rpos]]
    BY <1>7 DEF Store, Flags
  <2>2. crc = [lengthField |-> lengthField, upTo |-> rpos]
    BY <1>7 DEF BufferKnown, SealsKnown
  <2>3. F1 = F /\ e1 = e /\ m1 = m /\ f1 = crc
    BY <1>7 DEF Flags
  <2> HIDE DEF F, e, m, f, F1, e1, m1, f1, t
  <2>4. QED
    BY <1>1, <1>2, <2>1, <2>2, <2>3
<1>8. CASE t \notin Flags \cup {"ERROR_CODE", "MESSAGE_INTEGRITY",
                                "FINGERPRINT"}
  <2>1. packet' = packet
    BY <1>8 DEF Store
  <2>2. F1 = F /\ e1 = e /\ m1 = m /\ f1 = f
    BY <1>8
  <2> HIDE DEF F, e, m, f, F1, e1, m1, f1, t
  <2>3. QED
    BY <1>1, <1>2, <2>1, <2>2
<1>9. QED
  BY <1>4, <1>5, <1>6, <1>7, <1>8

\* Parse takes the attribute where it stands, and moves to the next one.
LEMMA ParseAttributeTakes ==
    ASSUME RTInv, ParseAttribute
    PROVE  LET r == Len(attributes) + 1
               type == TypeRead(written[r].type)
           IN  /\ result = "parsing" /\ step = Done /\ verdict = None
               /\ r \in 1..Len(written) /\ rpos = written[r].at
               /\ Parser!Take(type, written[r].length)
               /\ Store(written[r])
<1> DEFINE r == Len(attributes) + 1
           type == TypeRead(written[r].type)
<1>1. /\ IInv /\ BufferKnown /\ ReaderKnown
      /\ result = "parsing" /\ rpos + 4 <= size
  BY DEF RTInv, ParseAttribute
<1>2. /\ step = Done /\ verdict = None
      /\ attributes \in Seq(Parser!Attribute)
      /\ rIntegrity <=> Read("MESSAGE_INTEGRITY")
      /\ rFingerprint <=> Read("FINGERPRINT")
  BY <1>1 DEF ReaderKnown
<1>3. /\ size \in Nat /\ Len(written) \in Nat
      /\ DOMAIN written = 1..Len(written)
  BY <1>1, <1>2, DoneIsKnown DEF IInv, TypeOK
<1>4. Len(attributes) \in Nat /\ r \in 1..Len(written) /\ rpos = written[r].at
  BY <1>1, <1>3, WhereTheReaderIs
<1> HIDE DEF r
<1>5. \A i \in DOMAIN written : written[i].at = rpos => i = r
  BY <1>1, <1>2, <1>3, <1>4, PositionsDiffer
<1>6. /\ written[r].at + 4 + written[r].length <= size
      /\ written[r].at \in Nat /\ written[r].length \in Nat
      /\ Parser!GoodLength(type, written[r].length)
  BY <1>1, <1>2, <1>4, AttributeIsGood
<1>7. Parser!InOrder(type)
  <2>1. \A k \in 1..Len(attributes) : k \in 1..Len(written) /\ k < r
    BY <1>3, <1>4 DEF r
  <2>2. ~rFingerprint
    BY <1>1, <1>2, <1>4, <2>1, ReaderIsInOrder DEF Read
  <2>3. rIntegrity => written[r].type = "FINGERPRINT"
    BY <1>1, <1>2, <1>4, <2>1, ReaderIsInOrder DEF Read
  <2>4. TypeRead("FINGERPRINT") = "FINGERPRINT"
    BY DEF TypeRead, Parser!Attribute
  <2>5. QED
    BY <2>2, <2>3, <2>4 DEF Parser!InOrder
<1>8. ~Parser!Refuse(type, written[r].length)
  <2>1. ~(rpos + 4 + written[r].length > size)
    BY <1>3, <1>4, <1>6
  <2>2. QED
    BY <1>6, <1>7, <2>1 DEF Parser!Refuse
<1>9. Parser!Take(type, written[r].length) /\ Store(written[r])
  BY <1>3, <1>4, <1>5, <1>8 DEF ParseAttribute
<1>10. QED
  BY <1>1, <1>2, <1>4, <1>9 DEF r

LEMMA ParseAttributeKeepsReader ==
    ASSUME RTInv, ParseAttribute
    PROVE  ReaderKnown' /\ SignedIsAuthentic'
<1> SUFFICES ASSUME NEW r, r = Len(attributes) + 1,
                    NEW t, t = written[r].type,
                    NEW type, type = TypeRead(t)
             PROVE  ReaderKnown' /\ SignedIsAuthentic'
  OBVIOUS
<1>1. /\ IInv /\ BufferKnown /\ ReaderKnown /\ SignedIsAuthentic
      /\ UNCHANGED <<messageVars, verdict>>
  BY DEF RTInv, ParseAttribute
<1>2. /\ result = "parsing" /\ step = Done /\ verdict = None
      /\ r \in 1..Len(written) /\ rpos = written[r].at
      /\ Parser!Take(type, written[r].length)
      /\ Store(written[r])
  BY ParseAttributeTakes
<1>3. /\ attributes \in Seq(Parser!Attribute)
      /\ rIntegrity <=> Read("MESSAGE_INTEGRITY")
      /\ rFingerprint <=> Read("FINGERPRINT")
      /\ rUsername = IF Read("USERNAME") THEN msg.username ELSE 0
      /\ packet = PacketRead
  BY <1>1, <1>2 DEF ReaderKnown
<1>4. /\ rpos' = Parser!PadTo4Bytes((rpos + 4 + written[r].length)
                                        % Parser!Width)
      /\ rIntegrity' = (rIntegrity \/ type = "MESSAGE_INTEGRITY")
      /\ rFingerprint' = (rFingerprint \/ type = "FINGERPRINT")
      /\ rUsername' = IF type = "USERNAME" THEN written[r].length
                                           ELSE rUsername
      /\ attributes' = Append(attributes, type)
      /\ result' = "parsing"
  BY <1>2 DEF Parser!Take
<1>5. UNCHANGED <<msg, messageIntegrity, size, step, pos, lengthField, written,
                  crc>>
  BY <1>1 DEF messageVars, bufferVars
<1>6. t \in Types /\ type \in Parser!Attribute
  <2>1. t \in Types
    BY <1>1, <1>2, AttributeIsGood
  <2>2. QED
    BY <2>1 DEF TypeRead, Parser!Attribute
<1>7. /\ type = "MESSAGE_INTEGRITY" <=> t = "MESSAGE_INTEGRITY"
      /\ type = "FINGERPRINT" <=> t = "FINGERPRINT"
      /\ type = "USERNAME" <=> t = "USERNAME"
  BY DEF TypeRead, Parser!Attribute
<1>8. /\ attributes' \in Seq(Parser!Attribute)
      /\ Len(attributes') = r /\ r \in Nat
  BY <1>3, <1>4, <1>6
<1>9. \A x : Read(x)' <=> (Read(x) \/ t = x)
  <2>1. Len(attributes) \in Nat /\ r = Len(attributes) + 1
    BY <1>3
  <2>2. 1..r = (1..Len(attributes)) \cup {r}
    BY <2>1
  <2>3. \A x : Read(x)' <=> \E k \in 1..r : written[k].type = x
    BY <1>5, <1>8 DEF Read
  <2>4. QED
    BY <2>2, <2>3 DEF Read
<1>10. rpos' = BeginOf(Len(attributes) + 1)'
  <2>1. BeginOf(r + 1) = PadTo4Bytes((rpos + 4 + written[r].length) % Width)
    BY <1>1, <1>2, AttributeIsGood
  <2>2. \A n : Parser!PadTo4Bytes(n) = PadTo4Bytes(n)
    BY DEF Parser!PadTo4Bytes, PadTo4Bytes, Parser!Width, Width
  <2>3. Parser!Width = Width
    BY DEF Parser!Width, Width
  <2>4. rpos' = BeginOf(r + 1)
    BY <1>4, <2>1, <2>2, <2>3
  <2>5. BeginOf(Len(attributes) + 1)' = BeginOf(r + 1)
    BY <1>5, <1>8 DEF BeginOf
  <2>6. QED
    BY <2>4, <2>5
<1>11. rUsername' = IF Read("USERNAME")' THEN msg'.username ELSE 0
  <2>1. CASE t = "USERNAME"
    <3>1. written[r].length = msg.username
      <4>1. written[r].length = ValueLength("USERNAME")
        BY <1>1, <1>2, <1>6, <2>1 DEF BufferKnown, ValuesKnown
      <4>2. QED
        BY <1>1, <1>2, <4>1, DoneIsKnown, UsernameTravels
    <3>2. QED
      BY <1>4, <1>5, <1>7, <1>9, <2>1, <3>1
  <2>2. CASE t # "USERNAME"
    BY <1>3, <1>4, <1>5, <1>7, <1>9, <2>2
  <2>3. QED
    BY <2>1, <2>2
<1>12. packet' = PacketRead'
  BY <1>1, <1>2, <1>3, <1>5, <1>9, StoreKeepsPacket
<1>13. /\ rIntegrity' <=> Read("MESSAGE_INTEGRITY")'
       /\ rFingerprint' <=> Read("FINGERPRINT")'
  BY <1>3, <1>4, <1>7, <1>9
<1>14. ReaderKnown'
  BY <1>1, <1>2, <1>4, <1>5, <1>8, <1>10, <1>11, <1>12, <1>13
  DEF ReaderKnown
<1>15. QED
  BY <1>1, <1>2, <1>14 DEF SignedIsAuthentic

\* At the end of the buffer the position and the FINGERPRINT are right.
LEMMA ParseEndKeepsReader ==
    ASSUME RTInv, ParseEnd
    PROVE  ReaderKnown' /\ SignedIsAuthentic'
<1>1. /\ IInv /\ BufferKnown /\ ReaderKnown /\ SignedIsAuthentic
      /\ result = "parsing" /\ rpos + 4 > size
      /\ \/ result' = "accepted"
         \/ result' = "rejected"
      /\ result' = "accepted" <=>
            rpos = size /\ (rFingerprint => packet.fingerprint = crc)
      /\ UNCHANGED <<rpos, rIntegrity, rFingerprint, rUsername, attributes>>
      /\ UNCHANGED <<messageVars, packet, verdict>>
  BY DEF RTInv, ParseEnd, Parser!Finish, Parser!Reject
<1>2. UNCHANGED <<msg, messageIntegrity, size, step, pos, written, crc>>
  BY <1>1 DEF messageVars, bufferVars
<1>3. /\ step = Done /\ verdict = None
      /\ rFingerprint <=> Read("FINGERPRINT")
      /\ packet = PacketRead
  BY <1>1 DEF ReaderKnown
<1>4. rpos = size
  <2>1. size \in Nat
    BY <1>1, <1>3, DoneIsKnown
  <2>2. QED
    BY <1>1, <2>1, WhereTheReaderIs
<1>5. rFingerprint => packet.fingerprint = crc
  BY <1>3 DEF PacketRead
<1>6. result' = "accepted"
  BY <1>1, <1>4, <1>5
<1>7. \A x : Read(x)' <=> Read(x)
  BY <1>1, <1>2 DEF Read
<1>8. packet' = PacketRead'
  BY <1>1, <1>2, <1>3, <1>7 DEF PacketRead
<1>9. rpos' = BeginOf(Len(attributes) + 1)'
  <2>1. BeginOf(Len(attributes) + 1)' = BeginOf(Len(attributes) + 1)
    BY <1>1, <1>2 DEF BeginOf
  <2>2. rpos = BeginOf(Len(attributes) + 1)
    BY <1>1 DEF ReaderKnown
  <2>3. QED
    BY <1>1, <2>1, <2>2
<1>10. ReaderKnown'
  BY <1>1, <1>2, <1>3, <1>4, <1>6, <1>7, <1>8, <1>9 DEF ReaderKnown
<1>11. QED
  BY <1>1, <1>3, <1>10 DEF SignedIsAuthentic

\* The answer of CheckAuthentication is OK for whoever signed and addressed.
LEMMA JudgementIsRight ==
    ASSUME IInv, BufferKnown, ReaderKnown, result = "accepted",
           NEW p \in Passwords, NEW addressed \in BOOLEAN
    PROVE  Judgement(p, addressed) = "OK" <=>
                /\ msg.klass \in {REQUEST, INDICATION}
                /\ msg.username # 0
                /\ addressed
                /\ msg.password = p
<1>1. /\ step = Done /\ packet = PacketRead
      /\ rUsername = IF Read("USERNAME") THEN msg.username ELSE 0
      /\ rFingerprint <=> Read("FINGERPRINT")
      /\ Len(attributes) <= Len(written)
      /\ attributes \in Seq(Parser!Attribute)
  BY DEF ReaderKnown
<1>2. /\ msg \in Messages /\ lengthField = size - HeaderSize
      /\ Len(written) \in Nat
  BY <1>1, DoneIsKnown
<1>3. \A type \in Types : Read(type) <=> Adds(type)
  BY AcceptedIsRead
<1>4. /\ "USERNAME" \in Types /\ "FINGERPRINT" \in Types
      /\ "MESSAGE_INTEGRITY" \in Types
  BY DEF Types, Order
<1>5. rUsername = msg.username
  BY <1>1, <1>2, <1>3, <1>4, UsernameTravels
<1>6. rFingerprint
  <2>1. Adds("FINGERPRINT")
    BY DEF Adds, Flags
  <2>2. QED
    BY <1>1, <1>3, <1>4, <2>1
<1>7. Adds("MESSAGE_INTEGRITY") <=>
        msg.klass # ERROR_RESPONSE /\ msg.password # None
  BY DEF Adds, Flags
<1>8. packet.klass = msg.klass
  BY <1>1 DEF PacketRead
<1>9. p # None
  BY MessageAssumption
<1>10. CASE Adds("MESSAGE_INTEGRITY")
  <2>1. Read("MESSAGE_INTEGRITY")
    BY <1>3, <1>4, <1>10
  <2>2. packet.messageIntegrity = messageIntegrity
    BY <1>1, <2>1 DEF PacketRead
  <2>3. PICK k \in 1..Len(written) : written[k].type = "MESSAGE_INTEGRITY"
    BY <1>1, <1>2, <2>1 DEF Read
  <2>4. /\ messageIntegrity = written[k].at + 4
        /\ hmac = [password |-> msg.password,
                   lengthField |-> (size - HeaderSize - 8) % Width,
                   upTo |-> written[k].at]
    BY <2>3 DEF BufferKnown, SealsKnown
  <2>5. written[k].at \in Nat
    BY <1>1, AttributeIsGood
  <2>6. packet.messageIntegrity # Nowhere
    BY <2>2, <2>4, <2>5 DEF Nowhere
  <2>7. messageIntegrity - 4 = written[k].at
    BY <2>4, <2>5
  <2>8. Digest(p) = [password |-> p,
                     lengthField |-> (size - HeaderSize - 8) % Width,
                     upTo |-> written[k].at]
    BY <1>6, <2>2, <2>7 DEF Digest
  <2>9. hmac = Digest(p) <=> msg.password = p
    BY <2>4, <2>8
  <2>10. QED
    BY <1>5, <1>8, <2>6, <2>9 DEF Judgement
<1>11. CASE ~Adds("MESSAGE_INTEGRITY")
  <2>1. packet.messageIntegrity = Nowhere
    BY <1>1, <1>3, <1>4, <1>11 DEF PacketRead
  <2>2. Judgement(p, addressed) # "OK"
    BY <2>1 DEF Judgement
  <2>3. ~(msg.klass \in {REQUEST, INDICATION} /\ msg.password = p)
    BY <1>7, <1>9, <1>11 DEF REQUEST, INDICATION, ERROR_RESPONSE
  <2>4. QED
    BY <2>2, <2>3
<1>12. QED
  BY <1>10, <1>11

\* CheckAuthentication leaves the datagram as it was.
LEMMA CheckRestoresBuffer ==
    ASSUME RTInv, CheckAuthentication
    PROVE  UNCHANGED messageVars
<1>1. IInv /\ ReaderKnown /\ result = "accepted"
  BY DEF RTInv, CheckAuthentication
<1>2. /\ lengthField = size - HeaderSize
      /\ size \in Nat /\ HeaderSize <= size /\ size + 4 <= Width
  BY <1>1, DoneIsKnown DEF ReaderKnown
<1>3. (size - HeaderSize) % Width = lengthField
  BY <1>2 DEF HeaderSize, Width
<1>4. /\ lengthField' = lengthField \/ lengthField' = (size - HeaderSize) % Width
      /\ UNCHANGED <<msg, messageIntegrity, size, step, pos, typeField, written,
                     hmac, crc>>
  BY DEF CheckAuthentication
<1>5. QED
  BY <1>3, <1>4 DEF messageVars, bufferVars

LEMMA CheckAuthenticationKeepsReader ==
    ASSUME RTInv, CheckAuthentication
    PROVE  ReaderKnown' /\ SignedIsAuthentic'
<1>1. /\ IInv /\ BufferKnown /\ ReaderKnown /\ result = "accepted"
      /\ UNCHANGED <<parserVars, packet>>
  BY DEF RTInv, CheckAuthentication
<1>2. UNCHANGED <<rpos, rIntegrity, rFingerprint, rUsername, attributes, result,
                  packet>>
  BY <1>1 DEF parserVars
<1>3. UNCHANGED <<msg, messageIntegrity, size, step, pos, written, crc>>
  BY CheckRestoresBuffer DEF messageVars, bufferVars
<1>4. ReaderKnown'
  <2>1. \A x : Read(x)' <=> Read(x)
    BY <1>2, <1>3 DEF Read
  <2>2. PacketRead' = PacketRead
    BY <1>2, <1>3, <2>1 DEF PacketRead
  <2>3. BeginOf(Len(attributes) + 1)' = BeginOf(Len(attributes) + 1)
    BY <1>2, <1>3 DEF BeginOf
  <2>4. QED
    BY <1>1, <1>2, <1>3, <2>1, <2>2, <2>3 DEF ReaderKnown
<1>5. SignedIsAuthentic'
  <2>1. PICK p \in Passwords, addressed \in BOOLEAN :
            verdict' = [password |-> p, addressed |-> addressed,
                        answer |-> Judgement(p, addressed)]
    BY DEF CheckAuthentication
  <2>2. /\ verdict'.password = p /\ verdict'.addressed = addressed
        /\ verdict'.answer = Judgement(p, addressed)
    BY <2>1
  <2>3. Judgement(p, addressed) = "OK" <=>
             /\ msg.klass \in {REQUEST, INDICATION}
             /\ msg.username # 0
             /\ addressed
             /\ msg.password = p
    BY <1>1, JudgementIsRight
  <2>4. QED
    BY <1>3, <2>2, <2>3 DEF SignedIsAuthentic
<1>6. QED
  BY <1>4, <1>5

LEMMA RoundTripNextPreservesRTInv ==
    RTInv /\ [RoundTripNext]_roundTripVars => RTInv'
<1> SUFFICES ASSUME RTInv, [RoundTripNext]_roundTripVars PROVE RTInv'
  OBVIOUS
<1>1. IInv /\ BufferKnown /\ ReaderKnown /\ SignedIsAuthentic
  BY DEF RTInv
<1>2. ASSUME UNCHANGED messageVars PROVE IInv' /\ BufferKnown'
  BY <1>1, <1>2, NextPreservesIInv, BufferStays
<1>3. CASE WriterStep
  <2>1. Next /\ Fresh
    BY <1>3 DEF WriterStep
  <2>2. IInv' /\ BufferKnown'
    BY <1>1, <2>1, NextPreservesIInv, NextKeepsBuffer
  <2>3. QED
    BY <2>1, <2>2, FreshIsKnown DEF RTInv
<1>4. CASE ParseAgain
  <2>1. Fresh /\ UNCHANGED messageVars
    BY <1>4 DEF ParseAgain
  <2>2. QED
    BY <1>2, <2>1, FreshIsKnown DEF RTInv
<1>5. CASE ParseHeader
  <2>1. UNCHANGED messageVars
    BY <1>5 DEF ParseHeader
  <2>2. QED
    BY <1>2, <1>5, <2>1, ParseHeaderKeepsReader DEF RTInv
<1>6. CASE ParseAttribute
  <2>1. UNCHANGED messageVars
    BY <1>6 DEF ParseAttribute
  <2>2. QED
    BY <1>2, <1>6, <2>1, ParseAttributeKeepsReader DEF RTInv
<1>7. CASE ParseEnd
  <2>1. UNCHANGED messageVars
    BY <1>7 DEF ParseEnd
  <2>2. QED
    BY <1>2, <1>7, <2>1, ParseEndKeepsReader DEF RTInv
<1>8. CASE CheckAuthentication
  BY <1>2, <1>8, CheckRestoresBuffer, CheckAuthenticationKeepsReader DEF RTInv
<1>9. CASE UNCHANGED roundTripVars
  <2>1. /\ UNCHANGED messageVars
        /\ UNCHANGED <<parserVars, packet, verdict>>
    BY <1>9 DEF roundTripVars, readerVars
  <2>2. UNCHANGED <<msg, messageIntegrity, size, step, pos, written, crc>>
    BY <2>1 DEF messageVars, bufferVars
  <2>3. UNCHANGED <<rpos, rIntegrity, rFingerprint, rUsername, attributes,
                    result, packet, verdict>>
    BY <2>1 DEF parserVars
  <2>4. \A x : Read(x)' <=> Read(x)
    BY <2>2, <2>3 DEF Read
  <2>5. PacketRead' = PacketRead
    BY <2>2, <2>3, <2>4 DEF PacketRead
  <2>6. BeginOf(Len(attributes) + 1)' = BeginOf(Len(attributes) + 1)
    BY <2>2, <2>3 DEF BeginOf
  <2>7. ReaderKnown'
    BY <1>1, <2>2, <2>3, <2>4, <2>5, <2>6 DEF ReaderKnown
  <2>8. SignedIsAuthentic'
    BY <1>1, <2>2, <2>3 DEF SignedIsAuthentic
  <2>9. QED
    BY <1>2, <2>1, <2>7, <2>8 DEF RTInv
<1>10. QED
  BY <1>3, <1>4, <1>5, <1>6, <1>7, <1>8, <1>9 DEF RoundTripNext, Reader

LEMMA RoundTripInvariant == RoundTripSpec => []RTInv
  BY InitEstablishesRTInv, RoundTripNextPreservesRTInv, PTL DEF RoundTripSpec

-----------------------------------------------------------------------------
(* The round trip. *)

\* Parse rejects nothing that Serialize wrote, for every message.
THEOREM WhatIsWrittenIsAccepted == RoundTripSpec => []SerializedIsAccepted
<1>1. RTInv => SerializedIsAccepted
  BY DEF RTInv, ReaderKnown, SerializedIsAccepted
<1>2. QED
  BY <1>1, RoundTripInvariant, PTL

LEMMA ReaderHasFields == RTInv => FieldsSurvive
<1> SUFFICES ASSUME RTInv, result = "accepted"
             PROVE  /\ packet.klass = msg.klass
                    /\ packet.flags = msg.flags
                    /\ packet.errorCode =
                          IF msg.klass = ERROR_RESPONSE THEN msg.errorCode ELSE 0
                    /\ rUsername = msg.username
                    /\ packet.messageIntegrity = messageIntegrity
  BY DEF FieldsSurvive
<1>1. IInv /\ BufferKnown /\ ReaderKnown
  BY DEF RTInv
<1>2. /\ step = Done /\ packet = PacketRead
      /\ rUsername = IF Read("USERNAME") THEN msg.username ELSE 0
  BY <1>1 DEF ReaderKnown
<1>3. msg \in Messages
  BY <1>1, <1>2, DoneIsKnown
<1>4. \A type \in Types : Read(type) <=> Adds(type)
  BY <1>1, AcceptedIsRead
<1>5. /\ "USERNAME" \in Types /\ "ERROR_CODE" \in Types
      /\ "MESSAGE_INTEGRITY" \in Types /\ Flags \subseteq Types
  BY DEF Types, Order, Flags
<1>6. packet.klass = msg.klass
  BY <1>2 DEF PacketRead
<1>7. packet.flags = msg.flags
  <2>1. packet.flags = {type \in Flags : Read(type)}
    BY <1>2 DEF PacketRead
  <2>2. \A type \in Flags : Adds(type) <=> type \in msg.flags
    BY DEF Adds, Flags
  <2>3. msg.flags \subseteq Flags
    BY <1>3 DEF Messages
  <2>4. QED
    BY <1>4, <1>5, <2>1, <2>2, <2>3
<1>8. packet.errorCode =
            IF msg.klass = ERROR_RESPONSE THEN msg.errorCode ELSE 0
  <2>1. Adds("ERROR_CODE") <=> msg.errorCode # 0 /\ msg.klass = ERROR_RESPONSE
    BY DEF Adds, Flags
  <2>2. packet.errorCode = IF Read("ERROR_CODE") THEN msg.errorCode ELSE 0
    BY <1>2 DEF PacketRead
  <2>3. QED
    BY <1>4, <1>5, <2>1, <2>2
<1>9. rUsername = msg.username
  BY <1>2, <1>3, <1>4, <1>5, UsernameTravels
<1>10. packet.messageIntegrity = messageIntegrity
  <2>1. packet.messageIntegrity =
            IF Read("MESSAGE_INTEGRITY") THEN messageIntegrity ELSE Nowhere
    BY <1>2 DEF PacketRead
  <2>2. \/ messageIntegrity = Nowhere
        \/ \E k \in 1..Len(written) : written[k].type = "MESSAGE_INTEGRITY"
    BY <1>1, <1>2 DEF IInv, WrittenInTurn, Done
  <2>3. CASE messageIntegrity = Nowhere
    BY <2>1, <2>3
  <2>4. CASE \E k \in 1..Len(written) : written[k].type = "MESSAGE_INTEGRITY"
    <3>1. Adds("MESSAGE_INTEGRITY")
      BY <1>1, <1>5, <2>4 DEF BufferKnown, ValuesKnown
    <3>2. QED
      BY <1>4, <1>5, <2>1, <3>1
  <2>5. QED
    BY <2>2, <2>3, <2>4
<1>11. QED
  BY <1>6, <1>7, <1>8, <1>9, <1>10

\* The object that Parse makes is the one that was serialised, for every class,
\* user name, error code and set of attributes.
THEOREM FieldsTravel == RoundTripSpec => []FieldsSurvive
  BY ReaderHasFields, RoundTripInvariant, PTL

\* CheckAuthentication says OK to those who signed with the reader's password
\* and to nobody else, however often it is asked, and in whatever order with
\* Parse.
THEOREM AnswersAreRight == RoundTripSpec => []SignedIsAuthentic
<1>1. RTInv => SignedIsAuthentic
  BY DEF RTInv
<1>2. QED
  BY <1>1, RoundTripInvariant, PTL

\* The writer's size and its pointer are right also while a reader overwrites
\* the length field of what it wrote (Stun.cpp:379).
THEOREM WriterStaysSound ==
    RoundTripSpec => [](SizeIsExact /\ ObjectMatchesBuffer)
<1>1. RTInv => SizeIsExact /\ ObjectMatchesBuffer
  BY KnownSizeIsExact, KnownObjectMatches DEF RTInv
<1>2. QED
  BY <1>1, RoundTripInvariant, PTL

\* CheckAuthentication gives the datagram back as it got it, although it
\* restores the length field from the size and not from what was there
\* (Stun.cpp:379).
THEOREM DatagramIsGivenBack ==
    RoundTripSpec =>
        [][CheckAuthentication => UNCHANGED messageVars]_roundTripVars
<1>1. RTInv /\ [RoundTripNext]_roundTripVars =>
          [CheckAuthentication => UNCHANGED messageVars]_roundTripVars
  BY CheckRestoresBuffer
<1>2. QED
  BY <1>1, RoundTripInvariant, PTL DEF RoundTripSpec

=============================================================================
