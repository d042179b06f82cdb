\* Three peers that may share their two names, heard from two addresses.
CONSTANTS
    Requests = {r1, r2, r3}
    Streams = {s1}
    Ufrags = {u1, u2}
    Addrs = {a1, a2}
    None = None
    CreateMayFail = TRUE
    AnswerMayLead = FALSE
SYMMETRY Symmetry
SPECIFICATION DemuxSpec
INVARIANTS
    AddressedPeerIsRegistered
    RepliesReturn
    ClientsLeakNothing
PROPERTIES
    AddressesStay
\* The number of requests and addresses is fixed: the last state may be final.
CHECK_DEADLOCK FALSE
