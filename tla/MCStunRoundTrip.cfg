\* Every combination of attributes, user names with and without padding, and
\* two passwords.
CONSTANTS
    Usernames = {0, 3, 512}
    ErrorCodes = {0, 487}
    Passwords = {p1, p2}
    None = None
SPECIFICATION RoundTripSpec
INVARIANTS
    TypeOK
    SizeIsExact
    ObjectMatchesBuffer
    SerializedIsAccepted
    FieldsSurvive
    SignedIsAuthentic
