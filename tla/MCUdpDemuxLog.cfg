\* Two peers and one address, to see an address heard under two names.
CONSTANTS
    Requests = {r1, r2}
    Streams = {s1}
    Ufrags = {u1, u2}
    Addrs = {a1}
    None = None
    CreateMayFail = FALSE
    AnswerMayLead = FALSE
SPECIFICATION DemuxSpec
INVARIANTS
    InsertedIsBound
CHECK_DEADLOCK FALSE
