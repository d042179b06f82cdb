\* Three requests that register up to three peers, in every order of names.
CONSTANTS
    Requests = {r1, r2, r3}
    Streams = {s1}
    Ufrags = {1, 2, 3}
    None = None
    CreateMayFail = TRUE
    AnswerMayLead = FALSE
SPECIFICATION MainSpec
INVARIANTS
    SweepIsComplete
PROPERTIES
    TimersRun
\* Nothing happens after the process has ended.
CHECK_DEADLOCK FALSE
