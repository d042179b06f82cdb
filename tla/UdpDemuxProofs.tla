--------------------------- MODULE UdpDemuxProofs ---------------------------
(***************************************************************************)
(* Proofs about UdpDemux, for any number of requests, names and addresses. *)
(***************************************************************************)
EXTENDS UdpDemux, SignallingProofs

-----------------------------------------------------------------------------
(* The inductive invariant. *)

\* Where a peer sends, it is heard from.
RemoteIsOwn ==
    \A p \in Requests :
        remote_addr[p] # None => SarsPeersAddrMaps[remote_addr[p]] = p

\* Whoever sent a request with a registered name is known.
InsertedAreKnown ==
    \A u \in Ufrags, a \in Addrs :
        <<u, a>> \in inserted => SarsPeersAddrMaps[a] # None

DInv ==
    /\ IInv
    /\ DemuxTypeOK
    /\ NamedAreConnected
    /\ AddressedPeerIsRegistered
    /\ RemoteIsOwn
    /\ InsertedAreKnown
    /\ ClientsLeakNothing

-----------------------------------------------------------------------------
LEMMA DemuxInitEstablishesDInv == DemuxInit => DInv
<1>1. SUFFICES ASSUME DemuxInit PROVE DInv
  OBVIOUS
<1>2. IInv /\ TypeOK
  BY <1>1, InitEstablishesIInv DEF DemuxInit, IInv
<1>3. DemuxTypeOK
  BY <1>1, <1>2 DEF DemuxInit, DemuxTypeOK
<1>4. NamedAreConnected
  BY <1>1 DEF DemuxInit, Init, NamedAreConnected
<1>5. /\ AddressedPeerIsRegistered /\ RemoteIsOwn /\ InsertedAreKnown
      /\ ClientsLeakNothing
  BY <1>1, DemuxAssumption
  DEF DemuxInit, AddressedPeerIsRegistered, RemoteIsOwn, InsertedAreKnown,
      ClientsLeakNothing
<1>6. QED
  BY <1>2, <1>3, <1>4, <1>5 DEF DInv

\* A step of a handler, between two datagrams.
LEMMA HandlerPreservesDInv ==
    ASSUME DInv, [Next]_sigVars, UNCHANGED udpVars
    PROVE  DInv'
<1> USE DEF DInv
<1>1. /\ IInv'
      /\ NamedAreConnected'
      /\ hasPC \subseteq hasPC'
      /\ \A u \in Ufrags : SarsPeersUfragMaps[u] # None =>
             SarsPeersUfragMaps'[u] = SarsPeersUfragMaps[u]
  BY HandlersKeepNames
<1>2. DemuxTypeOK'
  BY <1>1 DEF DemuxTypeOK, udpVars, IInv
<1>3. AddressedPeerIsRegistered'
  <2>1. SUFFICES ASSUME NEW a \in Addrs, SarsPeersAddrMaps[a] # None
                 PROVE  LET p == SarsPeersAddrMaps[a] IN
                        /\ ufrag'[p] # None /\ SarsPeersUfragMaps'[ufrag'[p]] = p
                        /\ p \in hasPC'
    BY DEF udpVars, AddressedPeerIsRegistered
  <2> DEFINE p == SarsPeersAddrMaps[a]
  <2>2. p \in Requests /\ ufrag[p] \in Ufrags
    BY <2>1 DEF DemuxTypeOK, TypeOK, AddressedPeerIsRegistered
  <2>3. SarsPeersUfragMaps[ufrag[p]] = p /\ p \in hasPC
    BY <2>1 DEF AddressedPeerIsRegistered
  <2>4. SarsPeersUfragMaps'[ufrag[p]] = p
    BY <1>1, <2>1, <2>2, <2>3
  <2>5. ufrag'[p] = ufrag[p]
    BY <1>1, <2>1, <2>2, <2>4 DEF IInv, NamesResolve
  <2>6. QED
    BY <1>1, <2>2, <2>3, <2>4, <2>5, SignallingAssumption
<1>4. RemoteIsOwn' /\ InsertedAreKnown' /\ ClientsLeakNothing'
  BY DEF udpVars, RemoteIsOwn, InsertedAreKnown, ClientsLeakNothing
<1>5. QED
  BY <1>1, <1>2, <1>3, <1>4

-----------------------------------------------------------------------------
(* Datagrams. *)

\* The invariant after a step that leaves the handlers alone follows from that
\* of the tables of addresses.
LEMMA DatagramPreservesDInv ==
    ASSUME DInv, UNCHANGED sigVars, DemuxTypeOK', AddressedPeerIsRegistered',
           RemoteIsOwn', InsertedAreKnown', ClientsLeakNothing'
    PROVE  DInv'
<1>1. IInv' /\ NamedAreConnected'
  BY HandlersKeepNames DEF DInv
<1>2. QED
  BY <1>1 DEF DInv

\* Learning an address keeps what is known, and names a registered peer.
LEMMA LearnKeeps ==
    ASSUME DInv, NEW a \in Addrs, NEW u \in Ufrags,
           SarsPeersUfragMaps[u] # None, Learn(a, SarsPeersUfragMaps[u]),
           UNCHANGED sigVars
    PROVE  /\ SarsPeersAddrMaps' \in [Addrs -> Requests \cup {None}]
           /\ SarsPeersAddrMaps'[a] \in Requests
           /\ \A b \in Addrs : SarsPeersAddrMaps[b] # None =>
                  SarsPeersAddrMaps'[b] = SarsPeersAddrMaps[b]
           /\ AddressedPeerIsRegistered'
<1>1. /\ SarsPeersAddrMaps \in [Addrs -> Requests \cup {None}]
      /\ SarsPeersUfragMaps[u] \in Requests
  BY DEF DInv, DemuxTypeOK, TypeOK
<1>2. /\ ufrag[SarsPeersUfragMaps[u]] = u
      /\ SarsPeersUfragMaps[u] \in hasPC
      /\ u # None
  BY <1>1, SignallingAssumption DEF DInv, IInv, NamesResolve, NamedAreConnected
<1>3. \A b \in Addrs : SarsPeersAddrMaps'[b] =
          IF b = a /\ SarsPeersAddrMaps[a] = None THEN SarsPeersUfragMaps[u]
          ELSE SarsPeersAddrMaps[b]
  BY <1>1 DEF Learn
<1>4. AddressedPeerIsRegistered'
  BY <1>2, <1>3 DEF DInv, AddressedPeerIsRegistered, sigVars, peerVars
<1>5. QED
  BY <1>1, <1>3, <1>4, SignallingAssumption DEF Learn

LEMMA BindingRequestPreservesDInv ==
    ASSUME DInv, NEW a \in Addrs, NEW u \in Ufrags, BindingRequest(a, u)
    PROVE  DInv'
<1>1. /\ SarsPeersAddrMaps' \in [Addrs -> Requests \cup {None}]
      /\ SarsPeersAddrMaps'[a] \in Requests
      /\ \A b \in Addrs : SarsPeersAddrMaps[b] # None =>
             SarsPeersAddrMaps'[b] = SarsPeersAddrMaps[b]
      /\ AddressedPeerIsRegistered'
  BY LearnKeeps DEF BindingRequest
<1>2. /\ SarsPeersAddrMaps'[a] # None
      /\ remote_addr' = [remote_addr EXCEPT ![SarsPeersAddrMaps'[a]] = a]
      /\ UNCHANGED <<leaked, listening, strange, sigVars>>
      /\ inserted' = inserted \cup {<<u, a>>}
  BY <1>1, SignallingAssumption DEF BindingRequest, Deliver
<1>3. remote_addr' \in [Requests -> Addrs \cup {None}]
  BY <1>1, <1>2 DEF DInv, DemuxTypeOK
<1>4. DemuxTypeOK'
  <2>1. TypeOK'
    BY <1>2, HandlersKeepNames DEF DInv, IInv
  <2>2. QED
    BY <1>1, <1>2, <1>3, <2>1 DEF DInv, DemuxTypeOK
<1>5. RemoteIsOwn'
  <2>1. \A p \in Requests : remote_addr'[p] =
            IF p = SarsPeersAddrMaps'[a] THEN a ELSE remote_addr[p]
    BY <1>2 DEF DInv, DemuxTypeOK
  <2>2. \A p \in Requests : remote_addr[p] \in Addrs \cup {None}
    BY DEF DInv, DemuxTypeOK
  <2>3. QED
    BY <1>1, <2>1, <2>2, SignallingAssumption DEF DInv, RemoteIsOwn
<1>6. InsertedAreKnown' /\ ClientsLeakNothing'
  BY <1>1, <1>2, SignallingAssumption
  DEF DInv, InsertedAreKnown, ClientsLeakNothing
<1>7. QED
  BY <1>1, <1>2, <1>4, <1>5, <1>6, DatagramPreservesDInv

LEMMA DatagramStepPreservesDInv ==
    ASSUME DInv, NEW a \in Addrs, Datagram(a) \/ BadRequest(a)
    PROVE  DInv'
<1>1. /\ UNCHANGED <<SarsPeersAddrMaps, listening, inserted, sigVars>>
      /\ strange' \in {strange, strange \cup {a}}
  BY DEF Datagram, BadRequest
<1>2. TypeOK' /\ AddressedPeerIsRegistered' /\ InsertedAreKnown'
  BY <1>1, HandlersKeepNames
  DEF DInv, IInv, AddressedPeerIsRegistered, InsertedAreKnown, sigVars, peerVars
<1>3. CASE SarsPeersAddrMaps[a] = None \/ BadRequest(a)
  <2>1. leaked' = leaked \cup {a} /\ UNCHANGED remote_addr
    BY <1>1, <1>3 DEF Datagram, BadRequest, Deliver, Drop
  <2>2. strange' = strange \cup {a}
    BY <1>3 DEF Datagram, BadRequest, DInv, InsertedAreKnown
  <2>3. DemuxTypeOK' /\ RemoteIsOwn' /\ ClientsLeakNothing'
    BY <1>1, <1>2, <2>1, <2>2
    DEF DInv, DemuxTypeOK, RemoteIsOwn, ClientsLeakNothing
  <2>4. QED
    BY <1>1, <1>2, <2>3, DatagramPreservesDInv
<1>4. CASE Datagram(a) /\ SarsPeersAddrMaps[a] # None
  <2>1. /\ remote_addr' = [remote_addr EXCEPT ![SarsPeersAddrMaps[a]] = a]
        /\ UNCHANGED leaked
    BY <1>1, <1>4 DEF Datagram, Deliver
  <2>2. SarsPeersAddrMaps[a] \in Requests
    BY <1>4 DEF DInv, DemuxTypeOK
  <2>3. DemuxTypeOK' /\ ClientsLeakNothing'
    BY <1>1, <1>2, <2>1, <2>2 DEF DInv, DemuxTypeOK, ClientsLeakNothing
  <2>4. RemoteIsOwn'
    BY <1>1, <2>1, <2>2 DEF DInv, DemuxTypeOK, RemoteIsOwn
  <2>5. QED
    BY <1>1, <1>2, <2>3, <2>4, DatagramPreservesDInv
<1>5. QED
  BY <1>3, <1>4

LEMMA RecvFailsPreservesDInv ==
    ASSUME DInv, RecvFails
    PROVE  DInv'
<1>1. /\ UNCHANGED <<SarsPeersAddrMaps, remote_addr, inserted, leaked, strange>>
      /\ UNCHANGED sigVars
      /\ listening' = FALSE
  BY DEF RecvFails
<1>2. TypeOK'
  BY <1>1, HandlersKeepNames DEF DInv, IInv
<1>3. DemuxTypeOK'
  BY <1>1, <1>2 DEF DInv, DemuxTypeOK
<1>4. /\ AddressedPeerIsRegistered' /\ RemoteIsOwn' /\ InsertedAreKnown'
      /\ ClientsLeakNothing'
  BY <1>1 DEF DInv, AddressedPeerIsRegistered, RemoteIsOwn, InsertedAreKnown,
              ClientsLeakNothing, sigVars, peerVars
<1>5. QED
  BY <1>1, <1>3, <1>4, DatagramPreservesDInv

LEMMA DemuxNextPreservesDInv == DInv /\ [DemuxNext]_demuxVars => DInv'
<1>1. SUFFICES ASSUME DInv, [DemuxNext]_demuxVars PROVE DInv'
  OBVIOUS
<1>2. CASE UNCHANGED demuxVars
  BY <1>1, <1>2, HandlerPreservesDInv DEF demuxVars
<1>3. CASE Next /\ UNCHANGED udpVars
  BY <1>1, <1>3, HandlerPreservesDInv
<1>4. CASE Cycle
  BY <1>1, <1>4, BindingRequestPreservesDInv, DatagramStepPreservesDInv,
     RecvFailsPreservesDInv
  DEF Cycle
<1>5. QED
  BY <1>1, <1>2, <1>3, <1>4 DEF DemuxNext

-----------------------------------------------------------------------------
(* The theorems. *)

THEOREM DemuxInductiveInvariant == DemuxSpec => []DInv
<1>1. QED
  BY DemuxInitEstablishesDInv, DemuxNextPreservesDInv, PTL DEF DemuxSpec

\* The variables of the media socket keep their types, whatever handlers run
\* between two datagrams (rtc_server.cpp:43-122).
THEOREM DemuxTypeCorrect == DemuxSpec => []DemuxTypeOK
<1>1. DInv => DemuxTypeOK
  BY DEF DInv
<1>2. QED
  BY <1>1, DemuxInductiveInvariant, PTL

\* A peer that is found by its address is the one registered under its name, and
\* has a connection (rtc_server.cpp:59-78).
THEOREM TablesAgree == DemuxSpec => []AddressedPeerIsRegistered
<1>1. DInv => AddressedPeerIsRegistered
  BY DEF DInv
<1>2. QED
  BY <1>1, DemuxInductiveInvariant, PTL

\* No two peers ever answer to one address (rtc_server.cpp:80-83).
THEOREM AnswersReturn == DemuxSpec => []RepliesReturn
<1>1. DInv => RepliesReturn
  BY DEF DInv, RemoteIsOwn, RepliesReturn
<1>2. QED
  BY <1>1, DemuxInductiveInvariant, PTL

\* Only datagrams that no client of sars sends are leaked
\* (rtc_server.cpp:52, 65, 77).
THEOREM LeaksAreStrange == DemuxSpec => []ClientsLeakNothing
<1>1. DInv => ClientsLeakNothing
  BY DEF DInv
<1>2. QED
  BY <1>1, DemuxInductiveInvariant, PTL

\* What a step does to the tables of addresses.
AddressStays ==
    /\ \A a \in Addrs :
          SarsPeersAddrMaps[a] # None =>
              SarsPeersAddrMaps'[a] = SarsPeersAddrMaps[a]
    /\ \A p \in Requests :
          remote_addr'[p] # remote_addr[p] =>
              SarsPeersAddrMaps[remote_addr'[p]] \in {p, None}

LEMMA DemuxNextKeepsAddresses == DInv /\ [DemuxNext]_demuxVars => AddressStays
<1>1. SUFFICES ASSUME DInv, [DemuxNext]_demuxVars PROVE AddressStays
  OBVIOUS
<1>2. CASE UNCHANGED <<SarsPeersAddrMaps, remote_addr>>
  BY <1>2 DEF AddressStays
<1>3. ASSUME NEW a \in Addrs,
             Datagram(a) \/ \E u \in Ufrags : BindingRequest(a, u)
      PROVE  AddressStays
  <2>1. /\ \A b \in Addrs : SarsPeersAddrMaps[b] # None =>
               SarsPeersAddrMaps'[b] = SarsPeersAddrMaps[b]
        /\ SarsPeersAddrMaps' \in [Addrs -> Requests \cup {None}]
    BY <1>1, <1>3, LearnKeeps DEF Datagram, BindingRequest, DInv, DemuxTypeOK
  <2>2. Deliver(a)
    BY <1>3 DEF Datagram, BindingRequest
  <2>3. \A p \in Requests : remote_addr'[p] # remote_addr[p] =>
            remote_addr'[p] = a /\ SarsPeersAddrMaps'[a] = p
    BY <1>1, <2>1, <2>2 DEF Deliver, Drop, DInv, DemuxTypeOK
  <2>4. QED
    BY <2>1, <2>3 DEF AddressStays
<1>4. QED
  BY <1>1, <1>2, <1>3
  DEF DemuxNext, Cycle, BadRequest, RecvFails, Drop, demuxVars, udpVars

\* An address keeps its peer, and a peer moves only to an address of its own
\* (rtc_server.cpp:68, 80-83).
THEOREM AddressesNeverMove == DemuxSpec => AddressesStay
<1>1. DInv /\ [DemuxNext]_demuxVars =>
        [/\ \A a \in Addrs :
              SarsPeersAddrMaps[a] # None =>
                  SarsPeersAddrMaps'[a] = SarsPeersAddrMaps[a]
         /\ \A p \in Requests :
              remote_addr'[p] # remote_addr[p] =>
                  SarsPeersAddrMaps[remote_addr'[p]] \in {p, None}
        ]_demuxVars
  BY DemuxNextKeepsAddresses DEF AddressStays
<1>2. QED
  BY <1>1, DemuxInductiveInvariant, PTL DEF DemuxSpec, AddressesStay

=============================================================================
