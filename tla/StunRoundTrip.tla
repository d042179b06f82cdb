--------------------------- MODULE StunRoundTrip ----------------------------
(***************************************************************************)
(* A message that one Stun object has serialised is parsed by another one, *)
(* with the actions of StunParse, and its authentication is checked there  *)
(* (Stun::CheckAuthentication).  The reader gets the very bytes that were  *)
(* written; it may check them again, and parse them again, in any order.   *)
(***************************************************************************)
EXTENDS StunMessage

VARIABLES
    rpos, rIntegrity, rFingerprint, rUsername, readTo, attributes, result,
                    \* Parse: see StunParse
    packet,         \* the other fields of the Stun object Parse makes
    verdict         \* what CheckAuthentication returned last

parserVars ==
    <<rpos, rIntegrity, rFingerprint, rUsername, readTo, attributes, result>>
readerVars == <<parserVars, packet, verdict>>
roundTripVars == <<messageVars, readerVars>>

Parser ==
    INSTANCE StunParse WITH
        Sizes <- {n \in Nat : n <= Width - 4}, Lengths <- Uint16,
        len <- size, pos <- rpos,
        hasMessageIntegrity <- rIntegrity, hasFingerprint <- rFingerprint,
        username <- rUsername

NoPacket == [klass |-> REQUEST, flags |-> {}, errorCode |-> 0,
             messageIntegrity |-> Nowhere, fingerprint |-> NoCrc]

RoundTripInit ==
    /\ Init
    /\ rpos = HeaderSize
    /\ rIntegrity = FALSE
    /\ rFingerprint = FALSE
    /\ rUsername = 0
    /\ readTo = 0
    /\ attributes = << >>
    /\ result = "start"
    /\ packet = NoPacket
    /\ verdict = None

\* The reader has the datagram, but has not looked at it, or not yet again.
Fresh ==
    /\ rpos' = HeaderSize
    /\ rIntegrity' = FALSE
    /\ rFingerprint' = FALSE
    /\ rUsername' = 0
    /\ readTo' = 0
    /\ attributes' = << >>
    /\ result' = "start"
    /\ packet' = NoPacket
    /\ verdict' = None

WriterStep == Next /\ Fresh

ParseAgain == result = "accepted" /\ Fresh /\ UNCHANGED messageVars

\* The class of a message, from the bits of its type field.
ClassOf(field) == ((field \div 256) % 2) * 2 + ((field \div 16) % 2)

\* Parse, as far as the header.  The length field is the one that was written.
ParseHeader ==
    /\ step = Done
    /\ Parser!Header
    /\ result' = "parsing" <=> lengthField = size - HeaderSize
    /\ packet' = [packet EXCEPT !.klass = ClassOf(typeField)]
    /\ UNCHANGED <<messageVars, verdict>>

\* The reader's name of a type of attribute.
TypeRead(type) == IF type \in Parser!Attribute THEN type ELSE "other"

\* What an attribute that is taken sets in the object.
Store(attribute) ==
    packet' =
        CASE attribute.type \in Flags ->
                [packet EXCEPT !.flags = @ \cup {attribute.type}]
          [] attribute.type = "ERROR_CODE" ->
                [packet EXCEPT !.errorCode =
                    (attribute.value \div 256) * 100 + (attribute.value % 256)]
          [] attribute.type = "MESSAGE_INTEGRITY" ->
                [packet EXCEPT !.messageIntegrity = rpos + 4]
          [] attribute.type = "FINGERPRINT" ->
                [packet EXCEPT !.fingerprint = [lengthField |-> lengthField,
                                                upTo |-> rpos]]
          [] OTHER -> packet

\* One turn of the loop of Parse.  Where no attribute was written Parse would
\* read other bytes as one; here it gives up.
ParseAttribute ==
    /\ result = "parsing"
    /\ rpos + 4 <= size
    /\ \/ \E i \in DOMAIN written :
             /\ written[i].at = rpos
             /\ \/ /\ Parser!Take(TypeRead(written[i].type), written[i].length)
                   /\ Store(written[i])
                \/ /\ Parser!Refuse(TypeRead(written[i].type),
                                    written[i].length)
                   /\ UNCHANGED packet
       \/ /\ \A i \in DOMAIN written : written[i].at # rpos
          /\ Parser!Reject
          /\ UNCHANGED <<readTo, packet>>
    /\ UNCHANGED <<messageVars, verdict>>

\* The end of Parse: the CRC is computed again and compared with the one that
\* was written.
ParseEnd ==
    /\ Parser!Finish
    /\ result' = "accepted" <=>
            rpos = size /\ (rFingerprint => packet.fingerprint = crc)
    /\ UNCHANGED <<messageVars, packet, verdict>>

\* Faulty variant: FINGERPRINT is not discounted.
DigestWithFingerprint(p) ==
    [password |-> p, lengthField |-> lengthField,
     upTo |-> packet.messageIntegrity - 4]

\* What CheckAuthentication computes the HMAC from.
Digest(p) ==
    [password |-> p,
     lengthField |-> IF rFingerprint THEN (size - HeaderSize - 8) % Width
                                     ELSE lengthField,
     upTo |-> packet.messageIntegrity - 4]

\* What CheckAuthentication answers to a reader with password p, to whom the
\* user name is addressed or not.
Judgement(p, addressed) ==
    IF \/ packet.klass \notin {REQUEST, INDICATION}
       \/ packet.messageIntegrity = Nowhere
       \/ rUsername = 0
    THEN "BAD_REQUEST"
    ELSE IF addressed /\ hmac = Digest(p) THEN "OK" ELSE "UNAUTHORIZED"

\* Faulty variant: the length field is left as the HMAC needs it.
CheckAuthenticationLeavesLength ==
    /\ result = "accepted"
    /\ \E p \in Passwords, addressed \in BOOLEAN :
          /\ verdict' = [password |-> p, addressed |-> addressed,
                         answer |-> Judgement(p, addressed)]
          /\ lengthField' =
                IF /\ Judgement(p, addressed) # "BAD_REQUEST"
                   /\ addressed
                   /\ rFingerprint
                THEN (size - HeaderSize - 8) % Width
                ELSE lengthField
    /\ UNCHANGED <<msg, messageIntegrity, size, step, pos, typeField, written,
                   hmac, crc, parserVars, packet>>

\* CheckAuthentication.  It changes the length field in the datagram for the
\* HMAC, if there is a FINGERPRINT, and restores it from the size.
CheckAuthentication ==
    /\ result = "accepted"
    /\ \E p \in Passwords, addressed \in BOOLEAN :
          /\ verdict' = [password |-> p, addressed |-> addressed,
                         answer |-> Judgement(p, addressed)]
          /\ lengthField' =
                IF /\ Judgement(p, addressed) # "BAD_REQUEST"
                   /\ addressed
                   /\ rFingerprint
                THEN (size - HeaderSize) % Width
                ELSE lengthField
    /\ UNCHANGED <<msg, messageIntegrity, size, step, pos, typeField, written,
                   hmac, crc, parserVars, packet>>

Reader ==
    \/ ParseAgain
    \/ ParseHeader
    \/ ParseAttribute
    \/ ParseEnd
    \/ CheckAuthentication

RoundTripNext == WriterStep \/ Reader

RoundTripSpec == RoundTripInit /\ [][RoundTripNext]_roundTripVars

-----------------------------------------------------------------------------
(***************************************************************************)
(* Properties.                                                             *)
(***************************************************************************)

\* What Serialize writes, Parse accepts (Stun.cpp:475, :17), the first time and
\* again after CheckAuthentication has been at the datagram.
SerializedIsAccepted == result # "rejected"

\* The object Parse makes has the fields of the object that was serialised;
\* only those do not travel that belong to another class of messages.
FieldsSurvive ==
    result = "accepted" =>
        /\ packet.klass = msg.klass
        /\ packet.flags = msg.flags
        /\ packet.errorCode =
                IF msg.klass = ERROR_RESPONSE THEN msg.errorCode ELSE 0
        /\ rUsername = msg.username
        /\ packet.messageIntegrity = messageIntegrity

\* A request is accepted from whoever signed it with the reader's password and
\* addressed it to the reader, and from nobody else (Stun.cpp:379): the two
\* sides compute the HMAC from the same bytes, with the same length field.
SignedIsAuthentic ==
    verdict # None =>
        verdict.answer = "OK" <=>
            /\ msg.klass \in {REQUEST, INDICATION}
            /\ msg.username # 0
            /\ verdict.addressed
            /\ msg.password = verdict.password

=============================================================================
