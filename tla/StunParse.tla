----------------------------- MODULE StunParse ------------------------------
(***************************************************************************)
(* Stun::Parse (Stun.cpp): the loop over the attributes of a datagram that *)
(* starts like a STUN message, one action per turn.  The content of the    *)
(* datagram is chosen as it is read: an attribute is any type with any of  *)
(* Lengths as its length field.                                            *)
(***************************************************************************)
EXTENDS Sequences, WireNumbers

CONSTANTS
    Sizes,      \* sizes of datagrams
    Lengths     \* values of the length field of an attribute

ASSUME ParseAssumption ==
    /\ Sizes \subseteq Nat /\ \A n \in Sizes : n <= Width - 4
    /\ Lengths \subseteq Uint16

VARIABLES
    len,                    \* the size of the datagram
    pos,                    \* where the next attribute begins
    hasMessageIntegrity,
    hasFingerprint,
    username,               \* the length of the user name
    readTo,                 \* history: no byte at readTo or after was read
    attributes,             \* history: the types of the attributes taken
    result                  \* "parsing" until Parse returns

vars == <<len, pos, hasMessageIntegrity, hasFingerprint, username, readTo,
          attributes, result>>

Attribute == {"USERNAME", "PRIORITY", "ICE_CONTROLLING", "ICE_CONTROLLED",
              "USE_CANDIDATE", "MESSAGE_INTEGRITY", "FINGERPRINT",
              "ERROR_CODE", "other"}

HeaderSize == 20

TypeOK ==
    /\ len \in Sizes
    /\ pos \in Uint16 /\ pos % 4 = 0
    /\ hasMessageIntegrity \in BOOLEAN
    /\ hasFingerprint \in BOOLEAN
    /\ username \in Nat
    /\ readTo \in Nat
    /\ attributes \in Seq(Attribute)
    /\ result \in {"start", "parsing", "rejected", "accepted"}

Init ==
    /\ len \in Sizes
    /\ pos = HeaderSize
    /\ hasMessageIntegrity = FALSE
    /\ hasFingerprint = FALSE
    /\ username = 0
    /\ readTo = 0
    /\ attributes = << >>
    /\ result = "start"

-----------------------------------------------------------------------------

\* Faulty variant: the length of ERROR_CODE is not tested.
AnyErrorLength(type, length) ==
    CASE type = "PRIORITY" -> length = 4
      [] type \in {"ICE_CONTROLLING", "ICE_CONTROLLED"} -> length = 8
      [] type = "USE_CANDIDATE" -> length = 0
      [] type = "MESSAGE_INTEGRITY" -> length = 20
      [] type = "FINGERPRINT" -> length = 4
      [] OTHER -> TRUE

\* The length field is right for the type.
GoodLength(type, length) ==
    CASE type = "PRIORITY" -> length = 4
      [] type \in {"ICE_CONTROLLING", "ICE_CONTROLLED"} -> length = 8
      [] type = "USE_CANDIDATE" -> length = 0
      [] type = "MESSAGE_INTEGRITY" -> length = 20
      [] type = "FINGERPRINT" -> length = 4
      [] type = "ERROR_CODE" -> length >= 4
      [] OTHER -> TRUE

\* How much of the value of an attribute is read, or kept a pointer to.
ValueRead(type, length) ==
    CASE type \in {"PRIORITY", "FINGERPRINT", "ERROR_CODE"} -> 4
      [] type \in {"ICE_CONTROLLING", "ICE_CONTROLLED"} -> 8
      [] type = "MESSAGE_INTEGRITY" -> 20
      [] type = "USERNAME" -> length
      [] OTHER -> 0

\* Faulty variant: whatever follows MESSAGE-INTEGRITY is taken.
InOrderUnlessIntegrity(type) == ~hasFingerprint

\* FINGERPRINT is last, and only it may follow MESSAGE-INTEGRITY.
InOrder(type) ==
    /\ ~hasFingerprint
    /\ hasMessageIntegrity => type = "FINGERPRINT"

-----------------------------------------------------------------------------

Reject ==
    /\ result' = "rejected"
    /\ UNCHANGED <<len, pos, hasMessageIntegrity, hasFingerprint, username,
                   attributes>>

\* Faulty variant: the length field need not be a multiple of four.
HeaderUnaligned ==
    /\ result = "start"
    /\ len >= HeaderSize
    /\ readTo' = HeaderSize
    /\ result' = "parsing"
    /\ UNCHANGED <<len, pos, hasMessageIntegrity, hasFingerprint, username,
                   attributes>>

\* IsStun, and the test of the length field: it must be the size without the
\* header, and a multiple of four.
Header ==
    /\ result = "start"
    /\ readTo' = IF len >= HeaderSize THEN HeaderSize ELSE readTo
    /\ \/ /\ len >= HeaderSize /\ (len - HeaderSize) % 4 = 0
          /\ result' = "parsing"
          /\ UNCHANGED <<len, pos, hasMessageIntegrity, hasFingerprint,
                         username, attributes>>
       \/ Reject

\* Faulty variant: the header of the attribute is not counted.
TakeValueOnly(type, length) ==
    /\ pos + 4 + length <= len
    /\ InOrder(type)
    /\ GoodLength(type, length)
    /\ pos' = PadTo4Bytes((pos + length) % Width)
    /\ hasMessageIntegrity' =
          (hasMessageIntegrity \/ type = "MESSAGE_INTEGRITY")
    /\ hasFingerprint' = (hasFingerprint \/ type = "FINGERPRINT")
    /\ username' = IF type = "USERNAME" THEN length ELSE username
    /\ readTo' = pos + 4 + ValueRead(type, length)
    /\ attributes' = Append(attributes, type)
    /\ UNCHANGED <<len, result>>

\* An attribute passes all the tests of the loop, and pos moves past it.
Take(type, length) ==
    /\ pos + 4 + length <= len
    /\ InOrder(type)
    /\ GoodLength(type, length)
    /\ pos' = PadTo4Bytes((pos + 4 + length) % Width)
    /\ hasMessageIntegrity' =
          (hasMessageIntegrity \/ type = "MESSAGE_INTEGRITY")
    /\ hasFingerprint' = (hasFingerprint \/ type = "FINGERPRINT")
    /\ username' = IF type = "USERNAME" THEN length ELSE username
    /\ readTo' = pos + 4 + ValueRead(type, length)
    /\ attributes' = Append(attributes, type)
    /\ UNCHANGED <<len, result>>

\* An attribute fails one of them.
Refuse(type, length) ==
    /\ \/ pos + 4 + length > len
       \/ ~InOrder(type)
       \/ ~GoodLength(type, length)
    /\ readTo' = pos + 4
    /\ Reject

\* One turn of the loop.
NextAttribute ==
    /\ result = "parsing"
    /\ pos + 4 <= len
    /\ \E type \in Attribute, length \in Lengths :
          Take(type, length) \/ Refuse(type, length)

\* The loop is over: the position must be the length, and the FINGERPRINT, if
\* there is one, that of the bytes before it.
Finish ==
    /\ result = "parsing"
    /\ pos + 4 > len
    /\ \/ /\ pos = len
          /\ result' = "accepted"
          /\ UNCHANGED <<len, pos, hasMessageIntegrity, hasFingerprint,
                         username, readTo, attributes>>
       \/ /\ pos # len \/ hasFingerprint
          /\ Reject
          /\ UNCHANGED readTo

Next == Header \/ NextAttribute \/ Finish

Spec == Init /\ [][Next]_vars

-----------------------------------------------------------------------------
(***************************************************************************)
(* Properties.                                                             *)
(***************************************************************************)

\* Parse reads no byte beyond the datagram (Stun.cpp:86-95), whatever lengths
\* the attributes claim.
ReadsInBounds == readTo <= len

\* The test of pos after the loop (Stun.cpp:257) never fails: a message whose
\* length is a multiple of four is consumed exactly, padding included, so that
\* FINGERPRINT alone can still have it rejected.
LoopEndsAtTheEnd ==
    result = "parsing" => pos <= len /\ (pos + 4 > len => pos = len)

\* What Parse accepts has the order RFC 5389 asks for (Stun.cpp:103-117):
\* FINGERPRINT last and once, MESSAGE-INTEGRITY once and before nothing else.
AcceptedInOrder ==
    result = "accepted" =>
        \A i, j \in DOMAIN attributes :
            /\ i < j => attributes[i] # "FINGERPRINT"
            /\ i < j /\ attributes[i] = "MESSAGE_INTEGRITY" =>
                    attributes[j] = "FINGERPRINT"

\* Every turn of the loop moves pos forward, although it is computed in sixteen
\* bits (Stun.cpp:252): Parse returns.
PositionAdvances ==
    [][result = "parsing" /\ result' = "parsing" => pos' >= pos + 4]_vars

\* "std::string username; // Less than 513 bytes." (Stun.h:111).  The parser
\* takes a user name of any length that fits the datagram.
UsernameIsShort == result = "accepted" => username < 513

=============================================================================
