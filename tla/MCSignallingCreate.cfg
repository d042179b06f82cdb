\* Two requests on one stream, to see a publisher whose creation failed.
CONSTANTS
    Requests = {r1, r2}
    Streams = {s1}
    Ufrags = {u1}
    None = None
    CreateMayFail = TRUE
    AnswerMayLead = FALSE
SPECIFICATION Spec
INVARIANTS
    FailedCreateIsTurnedDown
CHECK_DEADLOCK FALSE
