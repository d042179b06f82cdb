\* Three peers on two streams, and two threads that may both be in CacheMedia.
\* Peers may fail to be created, and clients may connect early.
CONSTANTS
    Requests = {r1, r2, r3}
    Streams = {s1, s2}
    Ufrags = {u1, u2, u3}
    None = None
    CreateMayFail = TRUE
    AnswerMayLead = TRUE
    Threads = {cycle, main}
    MaxFrames = 2
SYMMETRY Symmetry
SPECIFICATION RelaySpec
INVARIANTS
    RelayTypeOK
    NobodySkipped
    KeyFrameAsked
    FedInOrder
    FaultsHaveCauses
PROPERTIES
    ImplementsFrameRelay
\* The numbers of requests and frames are fixed: the last state may be final.
CHECK_DEADLOCK FALSE
