------------------------------ MODULE UdpDemux ------------------------------
(***************************************************************************)
(* The media socket of RTCServer (rtc_server.cpp): Cycle reads datagrams   *)
(* and OnRecvClientPkt finds the peer each belongs to.  A STUN binding     *)
(* request names its peer and teaches the server the peer's address; other *)
(* datagrams are matched by address alone.  The handlers of Signalling run *)
(* on other threads, between any two datagrams: a datagram is handled      *)
(* without blocking.                                                       *)
(***************************************************************************)
EXTENDS Signalling

CONSTANT Addrs    \* "<ip>:<port>" of clients

ASSUME DemuxAssumption == None \notin Addrs

VARIABLES
    listening,            \* Cycle has not left its loop
    SarsPeersAddrMaps,    \* client address -> peer
    remote_addr,          \* RtcPeer::remote_addr, where answers go
    inserted,             \* history: the lines "insert <name>-<address> into map"
    leaked,               \* history: whose datagrams were never freed
    strange               \* history: who sent what no client of sars sends

udpVars == <<listening, SarsPeersAddrMaps, remote_addr, inserted, leaked, strange>>
demuxVars == <<sigVars, udpVars>>

DemuxTypeOK ==
    /\ TypeOK
    /\ listening \in BOOLEAN
    /\ SarsPeersAddrMaps \in [Addrs -> Requests \cup {None}]
    /\ remote_addr \in [Requests -> Addrs \cup {None}]
    /\ inserted \in SUBSET (Ufrags \X Addrs)
    /\ leaked \in SUBSET Addrs
    /\ strange \in SUBSET Addrs

DemuxInit ==
    /\ Init
    /\ listening = TRUE
    /\ SarsPeersAddrMaps = [a \in Addrs |-> None]
    /\ remote_addr = [r \in Requests |-> None]
    /\ inserted = {}
    /\ leaked = {}
    /\ strange = {}

-----------------------------------------------------------------------------

\* Faulty variant: operator[] instead of emplace.
LearnOverwrites(a, p) ==
    SarsPeersAddrMaps' = [SarsPeersAddrMaps EXCEPT ![a] = p]

\* Faulty variant: a peer has one address, and other addresses are not learnt.
LearnOnce(a, p) ==
    SarsPeersAddrMaps' =
        IF SarsPeersAddrMaps[a] = None /\ \A b \in Addrs : SarsPeersAddrMaps[b] # p
        THEN [SarsPeersAddrMaps EXCEPT ![a] = p]
        ELSE SarsPeersAddrMaps

\* SarsPeersAddrMaps.emplace: an address keeps the peer it was first seen with.
Learn(a, p) ==
    SarsPeersAddrMaps' =
        IF SarsPeersAddrMaps[a] = None
        THEN [SarsPeersAddrMaps EXCEPT ![a] = p]
        ELSE SarsPeersAddrMaps

\* OnRecvClientPkt returns early.  Nothing owns the buffer any more that Cycle
\* allocated for the datagram.
Drop(a) ==
    /\ leaked' = leaked \cup {a}
    /\ UNCHANGED remote_addr

\* The end of OnRecvClientPkt: the peer is looked up by address.  If there is
\* one, its answers go there from now on, and UdpSocketRecv puts the buffer in a
\* MyPacket, which frees it.
Deliver(a) ==
    IF SarsPeersAddrMaps'[a] = None THEN Drop(a)
    ELSE /\ remote_addr' = [remote_addr EXCEPT ![SarsPeersAddrMaps'[a]] = a]
         /\ UNCHANGED leaked

\* Faulty variant: the answers go to the peer the request named, not to the
\* one found by address.
BindingRequestTrustsName(a, u) ==
    /\ running /\ listening
    /\ SarsPeersUfragMaps[u] # None
    /\ Learn(a, SarsPeersUfragMaps[u])
    /\ inserted' = inserted \cup {<<u, a>>}
    /\ remote_addr' = [remote_addr EXCEPT ![SarsPeersUfragMaps[u]] = a]
    /\ UNCHANGED <<sigVars, listening, leaked, strange>>

\* A binding request from address a that names u.  The peer that receives it
\* is then looked up by address, and may be another one.
BindingRequest(a, u) ==
    /\ running /\ listening
    /\ SarsPeersUfragMaps[u] # None
    /\ Learn(a, SarsPeersUfragMaps[u])
    /\ inserted' = inserted \cup {<<u, a>>}
    /\ Deliver(a)
    /\ UNCHANGED <<sigVars, listening, strange>>

\* A datagram that looks like STUN and does not parse, or a binding request
\* with a name that nobody has.
BadRequest(a) ==
    /\ running /\ listening
    /\ Drop(a)
    /\ strange' = strange \cup {a}
    /\ UNCHANGED <<sigVars, listening, SarsPeersAddrMaps, inserted>>

\* Any other datagram.  A client begins with a binding request.
Datagram(a) ==
    /\ running /\ listening
    /\ UNCHANGED SarsPeersAddrMaps
    /\ Deliver(a)
    /\ strange' = IF \E u \in Ufrags : <<u, a>> \in inserted THEN strange
                  ELSE strange \cup {a}
    /\ UNCHANGED <<sigVars, listening, inserted>>

\* RecvFrom fails, and Cycle ends for good.  Its last buffer is lost with it.
RecvFails ==
    /\ running /\ listening
    /\ listening' = FALSE
    /\ UNCHANGED <<sigVars, SarsPeersAddrMaps, remote_addr, inserted, leaked,
                   strange>>

Cycle ==
    \/ \E a \in Addrs :
          \/ Datagram(a)
          \/ BadRequest(a)
          \/ \E u \in Ufrags : BindingRequest(a, u)
    \/ RecvFails

DemuxNext ==
    \/ Next /\ UNCHANGED udpVars
    \/ Cycle

DemuxSpec == DemuxInit /\ [][DemuxNext]_demuxVars

-----------------------------------------------------------------------------
(***************************************************************************)
(* Properties.                                                             *)
(***************************************************************************)

\* The two tables of RTCServer agree (rtc_server.cpp:59-68): a peer reached by
\* address can also be reached by its name, and has a connection that processes
\* the datagram (rtc_peer.cpp:412).  A peer that lost its name to an older peer
\* in CreateRtcPeer (rtc_server.cpp:227) never receives a datagram.
AddressedPeerIsRegistered ==
    \A a \in Addrs :
        LET p == SarsPeersAddrMaps[a] IN
        p # None => /\ ufrag[p] # None /\ SarsPeersUfragMaps[ufrag[p]] = p
                    /\ p \in hasPC

\* Peers do not answer to each other's clients (rtc_server.cpp:80-83): where a
\* peer sends, the datagrams that arrive are its own, so that no two peers
\* ever send to one address.
RepliesReturn ==
    /\ \A p \in Requests :
          remote_addr[p] # None => SarsPeersAddrMaps[remote_addr[p]] = p
    /\ \A p, q \in Requests :
          remote_addr[p] # None /\ remote_addr[p] = remote_addr[q] => p = q

\* An address is not handed from one peer to another (rtc_server.cpp:68), and
\* the answers of a peer move only to an address that was its own or nobody's,
\* however the datagrams of several clients interleave.
AddressesStay ==
    [][/\ \A a \in Addrs :
            SarsPeersAddrMaps[a] # None =>
                SarsPeersAddrMaps'[a] = SarsPeersAddrMaps[a]
       /\ \A p \in Requests :
            remote_addr'[p] # remote_addr[p] =>
                SarsPeersAddrMaps[remote_addr'[p]] \in {p, None}
      ]_demuxVars

\* The early returns of OnRecvClientPkt do not free the buffer of the datagram
\* (rtc_server.cpp:52, 65, 77).  What they lose is not the traffic of clients
\* that behave: once a request with a registered name has come from an address,
\* no datagram from there is leaked, ever, but for bad requests.
ClientsLeakNothing == leaked \subseteq strange

\* "insert %s-%s into map" (rtc_server.cpp:69): once that line is written the
\* address leads to the peer that has the name.  emplace inserts nothing when
\* the address is already known, and its result is not looked at.
InsertedIsBound ==
    \A u \in Ufrags, a \in Addrs :
        <<u, a>> \in inserted => SarsPeersAddrMaps[a] = SarsPeersUfragMaps[u]

=============================================================================
