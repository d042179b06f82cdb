---------------------------- MODULE StunMessage -----------------------------
(***************************************************************************)
(* A Stun object that is built and written (Stun.h, Stun.cpp): its         *)
(* setters, Authenticate and Serialize, which first computes the size of   *)
(* the message and then writes one attribute after another.  An object may *)
(* be changed and serialised again, into another buffer.                   *)
(*                                                                         *)
(* The buffer is the list of the attributes written, with their positions, *)
(* and the two fields of the header that depend on the message.  Of the    *)
(* HMAC and the CRC only what they were computed from is kept.  The flag   *)
(* hasFingerprint, which Serialize sets and does not read, is left out.    *)
(***************************************************************************)
EXTENDS Sequences, WireNumbers

CONSTANTS
    Usernames,      \* user names, by their lengths
    ErrorCodes,
    Passwords,
    None            \* nullptr, an empty password

\* User names are short (Stun.h:111), and the hundreds of an error code are
\* written as one byte.
ASSUME MessageAssumption ==
    /\ Usernames \subseteq {n \in Nat : n < 513}
    /\ ErrorCodes \subseteq {n \in Nat : n < 25600}
    /\ None \notin Passwords

VARIABLES
    msg,                \* the fields of the object that setters set
    messageIntegrity,   \* where that pointer leads: Nowhere, Elsewhere, or a
                        \* position in the buffer
    size,               \* Stun::size
    step,               \* which attribute Serialize writes next
    pos,                \* where in the buffer it is written
    typeField,          \* buffer: the first field of the header
    lengthField,        \* buffer: the second field of the header
    written,            \* buffer: the attributes
    hmac,               \* buffer: what MESSAGE-INTEGRITY was computed from
    crc                 \* buffer: what FINGERPRINT was computed from

bufferVars == <<typeField, lengthField, written, hmac, crc>>
messageVars == <<msg, messageIntegrity, size, step, pos, bufferVars>>

REQUEST == 0
INDICATION == 1
SUCCESS_RESPONSE == 2
ERROR_RESPONSE == 3
Class == {REQUEST, INDICATION, SUCCESS_RESPONSE, ERROR_RESPONSE}

\* Attributes of which it only matters here whether they are set.
Flags == {"PRIORITY", "ICE_CONTROLLING", "ICE_CONTROLLED", "USE_CANDIDATE"}

Families == {None, "INET", "INET6", "unknown"}

Messages ==
    [klass : Class, username : Usernames \cup {0}, flags : SUBSET Flags,
     xorMappedAddress : Families, errorCode : ErrorCodes \cup {0},
     password : Passwords \cup {None}]

Nowhere == 0        \* nullptr
Elsewhere == 1      \* another buffer than the one being written

HeaderSize == 20

\* The order in which Serialize adds attributes.
Order == <<"USERNAME", "PRIORITY", "ICE_CONTROLLING", "ICE_CONTROLLED",
           "USE_CANDIDATE", "XOR_MAPPED_ADDRESS", "ERROR_CODE",
           "MESSAGE_INTEGRITY", "FINGERPRINT">>

Types == {Order[i] : i \in 1..9}

Building == 0
Done == 10

-----------------------------------------------------------------------------
(* What Serialize makes of the fields. *)

\* The attribute is written.
Adds(type) ==
    CASE type = "USERNAME" -> PadTo4Bytes(msg.username % Width) # 0
      [] type \in Flags -> type \in msg.flags
      [] type = "XOR_MAPPED_ADDRESS" ->
            /\ msg.xorMappedAddress \in {"INET", "INET6"}
            /\ msg.klass = SUCCESS_RESPONSE
      [] type = "ERROR_CODE" ->
            msg.errorCode # 0 /\ msg.klass = ERROR_RESPONSE
      [] type = "MESSAGE_INTEGRITY" ->
            msg.klass # ERROR_RESPONSE /\ msg.password # None
      [] OTHER -> TRUE

\* The attribute is counted in the size: a user name by its own length, not by
\* the padded one.
Counts(type) ==
    IF type = "USERNAME" THEN msg.username # 0 ELSE Adds(type)

\* What is written as the length of an attribute.
ValueLength(type) ==
    CASE type = "USERNAME" -> msg.username % Width
      [] type \in {"PRIORITY", "ERROR_CODE", "FINGERPRINT"} -> 4
      [] type \in {"ICE_CONTROLLING", "ICE_CONTROLLED"} -> 8
      [] type = "XOR_MAPPED_ADDRESS" ->
            IF msg.xorMappedAddress = "INET" THEN 8 ELSE 20
      [] type = "MESSAGE_INTEGRITY" -> 20
      [] OTHER -> 0

\* Faulty variant: an address is counted as if it were always an IPv4 one.
CountedAsInet(type) ==
    CASE type = "USERNAME" -> 4 + PadTo4Bytes(msg.username % Width)
      [] type = "USE_CANDIDATE" -> 4
      [] type \in {"ICE_CONTROLLING", "ICE_CONTROLLED", "XOR_MAPPED_ADDRESS"} -> 4 + 8
      [] type = "MESSAGE_INTEGRITY" -> 4 + 20
      [] OTHER -> 4 + 4

\* What the size grows by for an attribute, and what pos grows by where it is
\* written.  Serialize has these numbers twice.
Counted(type) ==
    CASE type = "USERNAME" -> 4 + PadTo4Bytes(msg.username % Width)
      [] type = "USE_CANDIDATE" -> 4
      [] type \in {"ICE_CONTROLLING", "ICE_CONTROLLED"} -> 4 + 8
      [] type = "XOR_MAPPED_ADDRESS" ->
            IF msg.xorMappedAddress = "INET" THEN 4 + 8 ELSE 4 + 20
      [] type = "MESSAGE_INTEGRITY" -> 4 + 20
      [] OTHER -> 4 + 4

Advance(type) ==
    CASE type = "USERNAME" -> 4 + PadTo4Bytes(msg.username % Width)
      [] type \in {"PRIORITY", "ERROR_CODE", "FINGERPRINT"} -> 4 + 4
      [] type \in {"ICE_CONTROLLING", "ICE_CONTROLLED"} -> 4 + 8
      [] type = "XOR_MAPPED_ADDRESS" ->
            IF msg.xorMappedAddress = "INET" THEN 4 + 8 ELSE 4 + 20
      [] type = "MESSAGE_INTEGRITY" -> 4 + 20
      [] OTHER -> 4

Room(type) == IF Counts(type) THEN Counted(type) ELSE 0

TotalSize ==
    HeaderSize + Room("USERNAME") + Room("PRIORITY")
        + Room("ICE_CONTROLLING") + Room("ICE_CONTROLLED")
        + Room("USE_CANDIDATE") + Room("XOR_MAPPED_ADDRESS")
        + Room("ERROR_CODE") + Room("MESSAGE_INTEGRITY")
        + Room("FINGERPRINT")

\* The class in bits 8 and 4, beside the method, BINDING.
TypeFieldOf(klass) == 1 + (klass \div 2) * 256 + (klass % 2) * 16

\* Faulty variant: the hundreds are not taken off the second byte.
ErrorBytesRaw(code) == ((code \div 100) % 256) * 256 + (code % 256)

\* The class and the number of an error, a byte each; the second is computed
\* from the low byte of the code.
ErrorBytes(code) ==
    LET codeClass == (code \div 100) % 256
    IN  codeClass * 256 + (((code % 256) - codeClass * 100) % 256)

Value(type) ==
    CASE type = "USERNAME" -> msg.username
      [] type = "ERROR_CODE" -> ErrorBytes(msg.errorCode)
      [] OTHER -> 0

-----------------------------------------------------------------------------

TypeOK ==
    /\ msg \in Messages
    /\ msg.klass = ERROR_RESPONSE => msg.password = None
    /\ messageIntegrity \in Nat
    /\ size \in Nat
    /\ step \in Building..Done
    /\ pos \in Nat /\ pos % 4 = 0
    /\ typeField \in Uint16
    /\ lengthField \in Uint16
    /\ written \in Seq([type : Types, at : Nat, length : Uint16, value : Nat])
    /\ hmac \in [password : Passwords \cup {None}, lengthField : Uint16,
                upTo : Nat]
    /\ crc \in [lengthField : Uint16, upTo : Nat]

NoHmac == [password |-> None, lengthField |-> 0, upTo |-> 0]
NoCrc == [lengthField |-> 0, upTo |-> 0]

\* A new message, by the constructor or as a response to another one.
Init ==
    /\ \E klass \in Class :
          msg = [klass |-> klass, username |-> 0, flags |-> {},
                 xorMappedAddress |-> None, errorCode |-> 0,
                 password |-> None]
    /\ messageIntegrity = Nowhere
    /\ size = 0
    /\ step = Building
    /\ pos = 0
    /\ typeField = 0
    /\ lengthField = 0
    /\ written = << >>
    /\ hmac = NoHmac
    /\ crc = NoCrc

\* A pointer into a buffer that is left behind.
LeaveBuffer ==
    messageIntegrity' = IF messageIntegrity = Nowhere THEN Nowhere
                                                      ELSE Elsewhere

\* A setter, before Serialize or after it.  What was written is then sent, and
\* the next Serialize is given another buffer.
Set(fields) ==
    /\ step \in {Building, Done}
    /\ msg' = fields
    /\ step' = Building
    /\ LeaveBuffer
    /\ pos' = 0
    /\ typeField' = 0
    /\ lengthField' = 0
    /\ written' = << >>
    /\ hmac' = NoHmac
    /\ crc' = NoCrc
    /\ UNCHANGED size

SetUsername == \E n \in Usernames : Set([msg EXCEPT !.username = n])

\* SetPriority, SetIceControlling and SetIceControlled, also with the value 0,
\* which means that the attribute is absent, and SetUseCandidate.
SetFlag ==
    \E type \in Flags :
        \/ Set([msg EXCEPT !.flags = @ \cup {type}])
        \/ /\ type # "USE_CANDIDATE"
           /\ Set([msg EXCEPT !.flags = @ \ {type}])

SetXorMappedAddress ==
    \E family \in Families : Set([msg EXCEPT !.xorMappedAddress = family])

SetErrorCode == \E code \in ErrorCodes : Set([msg EXCEPT !.errorCode = code])

\* Authenticate does nothing to an error response.
Authenticate ==
    /\ msg.klass # ERROR_RESPONSE
    /\ \E p \in Passwords \cup {None} : Set([msg EXCEPT !.password = p])

\* Serialize, as far as the header.
BeginSerialize ==
    /\ step = Building
    /\ size' = TotalSize
    /\ typeField' = TypeFieldOf(msg.klass)
    /\ lengthField' = (TotalSize - HeaderSize) % Width
    /\ pos' = HeaderSize
    /\ step' = 1
    /\ UNCHANGED <<msg, messageIntegrity, written, hmac, crc>>

\* The next attribute is written at pos, if the message has it.
Write(type) ==
    IF Adds(type)
    THEN /\ written' = Append(written,
                              [type |-> type, at |-> pos,
                               length |-> ValueLength(type),
                               value |-> Value(type)])
         /\ pos' = pos + Advance(type)
    ELSE UNCHANGED <<written, pos>>

\* Serialize up to ERROR-CODE.
WriteAttribute ==
    /\ step \in 1..7
    /\ Write(Order[step])
    /\ step' = step + 1
    /\ UNCHANGED <<msg, messageIntegrity, size, typeField, lengthField, hmac,
                   crc>>

\* Faulty variant: the pointer is not unset when nothing is written.
WriteMessageIntegrityKeepsPointer ==
    /\ step = 8
    /\ Write("MESSAGE_INTEGRITY")
    /\ IF Adds("MESSAGE_INTEGRITY")
       THEN /\ hmac' = [password |-> msg.password,
                        lengthField |-> (size - HeaderSize - 8) % Width,
                        upTo |-> pos]
            /\ messageIntegrity' = pos + 4
            /\ lengthField' = (size - HeaderSize) % Width
       ELSE UNCHANGED <<hmac, lengthField, messageIntegrity>>
    /\ step' = 9
    /\ UNCHANGED <<msg, size, typeField, crc>>

\* MESSAGE-INTEGRITY is the HMAC of the bytes before it, with a length field
\* that does not count FINGERPRINT; the length field is restored afterwards.
WriteMessageIntegrity ==
    /\ step = 8
    /\ Write("MESSAGE_INTEGRITY")
    /\ IF Adds("MESSAGE_INTEGRITY")
       THEN /\ hmac' = [password |-> msg.password,
                        lengthField |-> (size - HeaderSize - 8) % Width,
                        upTo |-> pos]
            /\ messageIntegrity' = pos + 4
            /\ lengthField' = (size - HeaderSize) % Width
       ELSE /\ messageIntegrity' = Nowhere
            /\ UNCHANGED <<hmac, lengthField>>
    /\ step' = 9
    /\ UNCHANGED <<msg, size, typeField, crc>>

\* FINGERPRINT is the CRC of all the bytes before it.
WriteFingerprint ==
    /\ step = 9
    /\ Write("FINGERPRINT")
    /\ crc' = [lengthField |-> lengthField, upTo |-> pos]
    /\ step' = Done
    /\ UNCHANGED <<msg, messageIntegrity, size, typeField, lengthField, hmac>>

Serialize ==
    \/ BeginSerialize
    \/ WriteAttribute
    \/ WriteMessageIntegrity
    \/ WriteFingerprint

Setter ==
    \/ SetUsername
    \/ SetFlag
    \/ SetXorMappedAddress
    \/ SetErrorCode
    \/ Authenticate

Next == Setter \/ Serialize

Spec == Init /\ [][Next]_messageVars

-----------------------------------------------------------------------------
(***************************************************************************)
(* Properties.                                                             *)
(***************************************************************************)

\* The size computed before writing (Stun.cpp:475) is where writing ends, for
\* every combination of attributes, though size and position are summed up from
\* two lists of numbers: the assertion commented out at line 759.
\* It is also what the header says, in sixteen bits and without the header.
SizeIsExact ==
    step = Done => pos = size /\ lengthField = size - HeaderSize

\* Once Serialize has returned, the object describes the buffer it wrote, and
\* not one it wrote before (Stun.cpp:726, :734): its messageIntegrity leads to
\* the value of that attribute if and only if there is one.
ObjectMatchesBuffer ==
    step = Done =>
        \/ /\ messageIntegrity = Nowhere
           /\ \A i \in DOMAIN written : written[i].type # "MESSAGE_INTEGRITY"
        \/ \E i \in DOMAIN written :
              /\ written[i].type = "MESSAGE_INTEGRITY"
              /\ messageIntegrity = written[i].at + 4

=============================================================================
