----------------------------- MODULE SarsProofs -----------------------------
(***************************************************************************)
(* Proofs about MainLoop and Sars, for any number of requests, streams,    *)
(* names, addresses and frames: first what main knows of the map it sweeps *)
(* over; then that every part keeps in the whole process what it promises  *)
(* alone, and that the parts agree.                                        *)
(***************************************************************************)
EXTENDS Sars, UdpDemuxProofs, RelayProofs, WellFoundedInduction

-----------------------------------------------------------------------------
(* The first name of a map. *)

\* A set of names has a first one, and Min is it.
LEMMA MinIsFirst ==
    ASSUME NEW S, S \subseteq Nat, S # {}
    PROVE  /\ Min(S) \in S
           /\ \A u \in S : Min(S) <= u
<1> DEFINE R == OpToRel(<, Nat)
<1>1. \A m, n \in Nat : m < n => <<m, n>> \in R
  BY DEF OpToRel
<1>2. PICK least \in S : \A u \in S : ~ (<<u, least>> \in R)
  <2> HIDE DEF R
  <2>1. IsWellFoundedOn(R, Nat)
    BY NatLessThanWellFounded DEF R
  <2>2. QED
    BY <2>1, WFMin
<1>3. \A u \in S : least <= u
  <2> HIDE DEF R
  <2>1. SUFFICES ASSUME NEW u \in S, ~(least <= u) PROVE FALSE
    OBVIOUS
  <2>2. u \in Nat /\ least \in Nat /\ u < least
    BY <2>1
  <2>3. <<u, least>> \in R
    BY <1>1, <2>2
  <2>4. QED
    BY <1>2, <2>3
<1>4. \E x \in S : \A y \in S : x <= y
  BY <1>3
<1>5. QED
  BY <1>4, Zenon DEF Min

-----------------------------------------------------------------------------
(* The inductive invariant of main and its sweep. *)

\* What the sweep has behind it are the names before the iterator, as far as
\* they were there when it began.
SweepKnown ==
    /\ present \subseteq Names
    /\ main = "sweep" => /\ it \in Names
                         /\ \A u \in ticked : u < it
                         /\ \A u \in present : u < it => u \in ticked
    /\ main = "asleep" => present \subseteq ticked

MInv ==
    /\ IInv
    /\ MainTypeOK
    /\ SweepKnown

LEMMA MainInitEstablishesMInv == MainInit => MInv
<1>1. SUFFICES ASSUME MainInit PROVE MInv
  OBVIOUS
<1>2. IInv /\ TypeOK
  BY <1>1, InitEstablishesIInv DEF MainInit, IInv
<1>3. QED
  BY <1>1, <1>2 DEF MainInit, MInv, MainTypeOK, SweepKnown

\* Handlers only add names.
LEMMA NamesGrow ==
    ASSUME IInv, [Next]_sigVars
    PROVE  IInv' /\ Names \subseteq Names'
<1>1. IInv' /\ [Grows]_sigVars
  BY NextPreservesIInv, NextGrows
<1>2. QED
  BY <1>1 DEF Grows, Names, sigVars, peerVars

LEMMA HandlerPreservesMInv ==
    ASSUME MInv, [Next]_sigVars, UNCHANGED mainVars
    PROVE  MInv'
<1>1. IInv' /\ TypeOK' /\ Names \subseteq Names'
  BY NamesGrow DEF MInv, IInv
<1>2. MainTypeOK'
  BY <1>1 DEF MInv, MainTypeOK, mainVars
<1>3. SweepKnown'
  BY <1>1 DEF MInv, SweepKnown, mainVars
<1>4. QED
  BY <1>1, <1>2, <1>3 DEF MInv

\* The handlers stand still while main moves.
LEMMA MainStepKeepsHandlers ==
    ASSUME MInv, UNCHANGED SarsPeersUfragMaps,
           UNCHANGED <<phase, req, cacheVars, peerVars, scache, answered>>,
           running' \in BOOLEAN
    PROVE  IInv' /\ TypeOK' /\ Names' = Names
<1>1. TypeOK'
  BY DEF MInv, IInv, TypeOK, cacheVars, peerVars
<1>2. HandlersKnow' /\ PublisherKnown' /\ PlayFindsPublisher' /\ NamesResolve'
  BY DEF MInv, IInv, HandlersKnow, PublisherKnown, PlayFindsPublisher,
         NamesResolve, IsPlay, cacheVars, peerVars
<1>3. PlayersKnown'
  BY DEF MInv, IInv, PlayersKnown, IsPlay, cacheVars, peerVars
<1>4. QED
  BY <1>1, <1>2, <1>3 DEF IInv, Names

\* Where MoveTo leaves the iterator.
LEMMA MoveToFirst ==
    ASSUME NEW S, S \subseteq Names, MoveTo(S)
    PROVE  \/ S = {} /\ main' = "asleep" /\ it' = None
           \/ main' = "sweep" /\ it' \in S /\ \A u \in S : it' <= u
<1>1. S \subseteq Nat
  BY NamesAreOrdered DEF Names
<1>2. QED
  BY <1>1, MinIsFirst DEF MoveTo

LEMMA BeginSweepPreservesMInv ==
    ASSUME MInv, BeginSweep, IInv', TypeOK', Names' = Names
    PROVE  MInv'
<1>1. /\ present' = Names /\ ticked' = {}
      /\ Names \subseteq Ufrags /\ Names \subseteq Nat
      /\ MoveTo(Names)
  BY NamesAreOrdered DEF BeginSweep, Names
<1>2. \/ Names = {} /\ main' = "asleep" /\ it' = None
      \/ main' = "sweep" /\ it' \in Names /\ \A u \in Names : it' <= u
  BY <1>1, MoveToFirst
<1>3. MainTypeOK'
  BY <1>1, <1>2, SignallingAssumption DEF MainTypeOK
<1>4. CASE main' = "asleep" /\ Names = {}
  BY <1>1, <1>3, <1>4 DEF MInv, SweepKnown
<1>5. CASE main' = "sweep" /\ it' \in Names /\ \A u \in Names : it' <= u
  <2>1. \A u \in present' : ~(u < it')
    BY <1>1, <1>5
  <2>2. QED
    BY <1>1, <1>3, <1>5, <2>1 DEF MInv, SweepKnown
<1>6. QED
  BY <1>2, <1>4, <1>5

LEMMA OnTimerPreservesMInv ==
    ASSUME MInv, OnTimer
    PROVE  MInv'
<1> DEFINE later == {u \in Names : u > it}
<1>1. /\ main = "sweep" /\ UNCHANGED <<sigVars, present>>
      /\ ticked' = ticked \cup {it}
      /\ MoveTo(later)
  BY DEF OnTimer
<1>2. IInv' /\ TypeOK' /\ Names' = Names
  BY <1>1, NamesGrow DEF MInv, IInv, sigVars, peerVars, Names
<1>3. /\ Names \subseteq Ufrags /\ Names \subseteq Nat /\ it \in Names
      /\ ticked \subseteq Names /\ present \subseteq Names
      /\ \A u \in ticked : u < it
      /\ \A u \in present : u < it => u \in ticked
  BY <1>1, NamesAreOrdered DEF MInv, MainTypeOK, SweepKnown, Names
<1>4. \/ later = {} /\ main' = "asleep" /\ it' = None
      \/ main' = "sweep" /\ it' \in later /\ \A u \in later : it' <= u
  BY <1>1, MoveToFirst
<1>5. MainTypeOK'
  BY <1>1, <1>2, <1>3, <1>4, SignallingAssumption DEF MainTypeOK
<1>6. CASE main' = "asleep" /\ later = {}
  <2>1. \A u \in present : u <= it
    BY <1>3, <1>6
  <2>2. present \subseteq ticked'
    BY <1>1, <1>3, <2>1
  <2>3. QED
    BY <1>1, <1>2, <1>3, <1>5, <1>6, <2>2 DEF MInv, SweepKnown
<1>7. CASE main' = "sweep" /\ it' \in later /\ \A u \in later : it' <= u
  <2>1. it' \in Names /\ it < it'
    BY <1>7
  <2>2. \A u \in ticked' : u < it'
    BY <1>1, <1>3, <2>1
  <2>3. \A u \in present : u < it' => u <= it
    BY <1>3, <1>7, <2>1
  <2>4. \A u \in present : u < it' => u \in ticked'
    BY <1>1, <1>3, <2>3
  <2>5. QED
    BY <1>1, <1>2, <1>3, <1>5, <1>7, <2>1, <2>2, <2>4 DEF MInv, SweepKnown
<1>8. QED
  BY <1>4, <1>6, <1>7

LEMMA MainNextPreservesMInv == MInv /\ [MainNext]_sarsVars => MInv'
<1>1. SUFFICES ASSUME MInv, [MainNext]_sarsVars PROVE MInv'
  OBVIOUS
<1>2. CASE UNCHANGED sarsVars
  BY <1>1, <1>2, HandlerPreservesMInv DEF sarsVars
<1>3. CASE Boot
  <2>1. IInv' /\ TypeOK' /\ Names' = Names
    BY <1>1, <1>3, MainStepKeepsHandlers
    DEF Boot, peerVars, MInv, IInv, TypeOK
  <2>2. CASE UNCHANGED mainVars
    BY <1>1, <2>1, <2>2 DEF MInv, MainTypeOK, SweepKnown, mainVars
  <2>3. CASE BeginSweep
    BY <1>1, <2>1, <2>3, BeginSweepPreservesMInv
  <2>4. QED
    BY <1>3, <2>2, <2>3 DEF Boot
<1>4. CASE WakeUp
  <2>1. IInv' /\ TypeOK' /\ Names' = Names
    BY <1>1, <1>4, NamesGrow DEF WakeUp, MInv, IInv, Names, sigVars, peerVars
  <2>2. QED
    BY <1>1, <1>4, <2>1, BeginSweepPreservesMInv DEF WakeUp
<1>5. CASE OnTimer
  BY <1>1, <1>5, OnTimerPreservesMInv
<1>6. CASE Next /\ UNCHANGED mainVars
  BY <1>1, <1>6, HandlerPreservesMInv
<1>7. QED
  BY <1>1, <1>2, <1>3, <1>4, <1>5, <1>6 DEF MainNext

\* What the invariant says of a sweep.
LEMMA KnownSweepIsComplete == MInv => SweepIsComplete
<1>1. SUFFICES ASSUME MInv PROVE SweepIsComplete
  OBVIOUS
<1>2. /\ Names \subseteq Nat
      /\ present \subseteq Names /\ ticked \subseteq Names
  BY <1>1, NamesAreOrdered DEF MInv, MainTypeOK, SweepKnown, Names
<1>3. CASE main = "sweep"
  <2>1. /\ it \in Nat
        /\ \A u \in ticked : u < it
        /\ \A u \in present : u < it => u \in ticked
    BY <1>1, <1>2, <1>3 DEF MInv, SweepKnown
  <2>2. it \notin ticked
    BY <2>1
  <2>3. QED
    BY <1>3, <2>1, <2>2 DEF SweepIsComplete
<1>4. QED
  BY <1>1, <1>3 DEF MInv, SweepKnown, SweepIsComplete

-----------------------------------------------------------------------------
(* The theorems about main. *)

\* What main knows of the map that the handlers insert into (sars.cpp:34-40).
THEOREM MainInductiveInvariant == MainSpec => []MInv
<1>1. QED
  BY MainInitEstablishesMInv, MainNextPreservesMInv, PTL DEF MainSpec

\* The variables of main keep their types, and a sweep ticks registered names
\* only (sars.cpp:34-40).
THEOREM MainTypeCorrect == MainSpec => []MainTypeOK
<1>1. MInv => MainTypeOK
  BY DEF MInv
<1>2. QED
  BY <1>1, MainInductiveInvariant, PTL

\* A sweep runs the timer of every peer that was there when it began, once, for
\* any number of insertions anywhere in the map meanwhile (sars.cpp:36-38).
THEOREM SweepsAreComplete == MainSpec => []SweepIsComplete
<1>1. MInv => SweepIsComplete
  BY KnownSweepIsComplete
<1>2. QED
  BY <1>1, MainInductiveInvariant, PTL

-----------------------------------------------------------------------------
(* The inductive invariant of the process. *)

\* The peer whose datagram Cycle is in was heard from.
ServingIsHeard ==
    /\ serving \in Requests \cup {None}
    /\ serving # None => remote_addr[serving] # None

\* A peer connects inside one of its datagrams, and what was heard is not
\* forgotten.
ConnectedAreHeard ==
    \A p \in Requests : state[p] # "new" => remote_addr[p] # None

SInv ==
    /\ DInv
    /\ RInv
    /\ MInv
    /\ ServingIsHeard
    /\ ConnectedAreHeard
    /\ PartnersConnected

LEMMA SarsInitEstablishesSInv == SarsInit => SInv
<1>1. SUFFICES ASSUME SarsInit PROVE SInv
  OBVIOUS
<1>2. DInv /\ RInv /\ MInv
  BY <1>1, DemuxInitEstablishesDInv, RelayInitEstablishesRInv,
     MainInitEstablishesMInv
  DEF SarsInit
<1>3. ServingIsHeard /\ ConnectedAreHeard
  BY <1>1 DEF SarsInit, RelayInit, ServingIsHeard, ConnectedAreHeard
<1>4. PartnersConnected
  BY <1>1 DEF SarsInit, RelayInit, PartnersConnected, Busy
<1>5. QED
  BY <1>2, <1>3, <1>4 DEF SInv

-----------------------------------------------------------------------------
(* What a step of one part does to the others. *)

\* The handlers and their data stand still, though the process may end.
HandlersStill ==
    /\ UNCHANGED <<phase, req, cacheVars, peerVars, scache, answered>>
    /\ running' \in BOOLEAN

LEMMA StillKeepsDInv ==
    ASSUME DInv, HandlersStill, UNCHANGED udpVars
    PROVE  DInv'
<1> USE DEF DInv, HandlersStill, cacheVars, peerVars, udpVars
<1>1. TypeOK'
  BY DEF IInv, TypeOK
<1>2. IInv' /\ NamedAreConnected'
  BY <1>1, QuietStep DEF IInv, NamedAreConnected
<1>3. DemuxTypeOK'
  BY <1>1 DEF DemuxTypeOK
<1>4. /\ AddressedPeerIsRegistered' /\ RemoteIsOwn' /\ InsertedAreKnown'
      /\ ClientsLeakNothing'
  BY DEF AddressedPeerIsRegistered, RemoteIsOwn, InsertedAreKnown,
         ClientsLeakNothing
<1>5. QED
  BY <1>2, <1>3, <1>4

LEMMA StillKeepsMInv ==
    ASSUME MInv, HandlersStill, UNCHANGED mainVars
    PROVE  MInv'
<1>1. IInv' /\ TypeOK' /\ Names' = Names
  BY MainStepKeepsHandlers DEF HandlersStill, peerVars
<1>2. QED
  BY <1>1 DEF MInv, MainTypeOK, SweepKnown, mainVars

\* main may end the process where it is, in Boot, but not after a fault.
LEMMA StillKeepsRInv ==
    ASSUME RInv, HandlersStill, UNCHANGED mediaVars, running
    PROVE  RInv'
<1>1. IInv' /\ NamedAreConnected'
  BY MediaKeepsSignalling DEF HandlersStill
<1>2. /\ UNCHANGED <<phase, req, streamIDs, CanPublish, publisher, players,
                     SarsPeersUfragMaps, hasPC, ufrag, scache, answered, state,
                     received, relay, capacity, fed, asked, fault>>
      /\ fault.why = "none"
  BY DEF HandlersStill, cacheVars, peerVars, mediaVars, RInv, FaultIsFinal
<1>3. RelayTypeOK'
  BY <1>1, <1>2 DEF RInv, IInv, RelayTypeOK, Busy
<1>4. ConnectedAreNamed' /\ KeyFrameAsked'
  BY <1>2 DEF RInv, ConnectedAreNamed, KeyFrameAsked, IsPlay, IsPublish
<1>5. CallsKnown' /\ CallsDiffer' /\ FedBefore' /\ NobodySkipped'
  BY <1>2 DEF RInv, CallsKnown, CallsDiffer, FedBefore, NobodySkipped, Busy,
     Passed, SameFrame, IsPublish
<1>6. FedKnown' /\ FedInOrder'
  BY <1>2 DEF RInv, FedKnown, FedInOrder, IsPublish, IsPlay
<1>7. FaultIsFinal' /\ FaultsHaveCauses'
  BY <1>2 DEF FaultIsFinal, FaultsHaveCauses
<1>8. QED
  BY <1>1, <1>3, <1>4, <1>5, <1>6, <1>7 DEF RInv

\* Nor does a step that the relay does not see part anybody.
LEMMA StillKeepsPartners ==
    ASSUME PartnersConnected, UNCHANGED mediaVars
    PROVE  PartnersConnected'
BY DEF PartnersConnected, Busy, mediaVars

\* Callbacks and the loop of CacheMedia leave the handlers alone.
LEMMA MediaStepsAreStill ==
    ASSUME RInv, PartnersConnected, NEW t \in Threads,
           \/ CacheMedia(t)
           \/ \E p \in Requests : Connect(t, p) \/ Callback(t, p)
    PROVE  HandlersStill /\ RInv' /\ PartnersConnected'
<1>1. running \in BOOLEAN
  BY DEF RInv, IInv, TypeOK
<1>2. UNCHANGED sigVars => HandlersStill
  BY <1>1 DEF HandlersStill, sigVars
<1>3. \A why, p : Crash(why, p) => HandlersStill
  BY DEF HandlersStill, Crash
<1>4. UNCHANGED sigVars \/ \E why, p : Crash(why, p)
  <2>1. CASE CacheMedia(t)
    BY <2>1 DEF CacheMedia, FeedPlayer, ReturnFromCacheMedia, NobodyFed, Turn
  <2>2. ASSUME NEW p \in Requests, Connect(t, p) \/ Callback(t, p)
        PROVE  UNCHANGED sigVars \/ Crash("null", p)
    BY <2>2
    DEF Connect, Callback, RequestIFrame, Disconnect, OnRecvMediaData, StartRelay
  <2>3. QED
    BY <2>1, <2>2
<1>5. RelayNext
  BY DEF RelayNext, Callback
<1>6. QED
  BY <1>2, <1>3, <1>4, <1>5, RelayNextPreservesRInv, RelayNextKeepsPartners

-----------------------------------------------------------------------------
(* Each kind of step preserves the invariant. *)

LEMMA HandlersRunPreservesSInv ==
    ASSUME SInv, HandlersRun
    PROVE  SInv'
<1> USE DEF SInv
<1>1. /\ Next /\ Reallocate /\ Signal
      /\ UNCHANGED <<state, udpVars, mainVars, serving>>
  BY DEF HandlersRun, Signal
<1>2. DInv' /\ RInv' /\ MInv'
  BY <1>1, HandlerPreservesDInv, SignalPreservesRInv, HandlerPreservesMInv
<1>3. ServingIsHeard' /\ ConnectedAreHeard'
  BY <1>1 DEF ServingIsHeard, ConnectedAreHeard, udpVars
<1>4. PartnersConnected'
  BY <1>1, RelayNextKeepsPartners DEF RelayNext
<1>5. QED
  BY <1>2, <1>3, <1>4

LEMMA ReceivePreservesSInv ==
    ASSUME SInv, Receive \/ ReceiveFails
    PROVE  SInv'
<1> USE DEF SInv
<1>1. /\ Cycle /\ UNCHANGED <<sigVars, mediaVars, mainVars>>
      /\ serving = None
  BY DEF Receive, ReceiveFails, Cycle, BadRequest, Datagram, BindingRequest,
         RecvFails
<1>2. DInv'
  BY <1>1, DemuxNextPreservesDInv DEF DemuxNext
<1>3. MInv'
  BY <1>1, HandlerPreservesMInv
<1>4. RInv'
  BY <1>1, RelayNextPreservesRInv DEF relayVars
<1>5. \A p \in Requests : remote_addr[p] # None => remote_addr'[p] # None
  <2>1. \A a \in Addrs : Drop(a) \/ Deliver(a) =>
            \A p \in Requests : remote_addr'[p] \in {remote_addr[p], a}
    BY DEF Drop, Deliver, DInv, DemuxTypeOK
  <2>2. \/ \E a \in Addrs : Drop(a) \/ Deliver(a)
        \/ UNCHANGED remote_addr
    BY <1>1 DEF Cycle, BadRequest, Datagram, BindingRequest, RecvFails
  <2>3. QED
    BY <2>1, <2>2, DemuxAssumption
<1>6. ConnectedAreHeard'
  BY <1>1, <1>5 DEF ConnectedAreHeard, mediaVars
<1>7. ServingIsHeard'
  <2>1. CASE UNCHANGED serving
    BY <1>1, <2>1 DEF ServingIsHeard
  <2>2. ASSUME NEW a \in Addrs, Deliver(a), serving' = SarsPeersAddrMaps'[a]
        PROVE  ServingIsHeard'
    <3>1. SarsPeersAddrMaps'[a] \in Requests \cup {None}
      BY <1>2 DEF DInv, DemuxTypeOK
    <3>2. SarsPeersAddrMaps'[a] # None => remote_addr'[SarsPeersAddrMaps'[a]] = a
      BY <2>2, <3>1 DEF Deliver, DInv, DemuxTypeOK
    <3>3. QED
      BY <2>2, <3>1, <3>2, DemuxAssumption DEF ServingIsHeard
  <2>3. QED
    BY <2>1, <2>2 DEF Receive, ReceiveFails, Datagram, BindingRequest
<1>8. PartnersConnected'
  BY <1>1, StillKeepsPartners
<1>9. QED
  BY <1>2, <1>3, <1>4, <1>6, <1>7, <1>8

LEMMA CycleReturnsPreservesSInv ==
    ASSUME SInv, CycleReturns
    PROVE  SInv'
<1> USE DEF SInv
<1>1. /\ serving' = None
      /\ UNCHANGED <<sigVars, udpVars, mediaVars, mainVars>>
  BY DEF CycleReturns
<1>2. DInv' /\ MInv'
  BY <1>1, HandlerPreservesDInv, HandlerPreservesMInv
<1>3. RInv'
  BY <1>1, RelayNextPreservesRInv DEF relayVars
<1>4. ServingIsHeard' /\ ConnectedAreHeard'
  BY <1>1 DEF ServingIsHeard, ConnectedAreHeard, udpVars, mediaVars
<1>5. PartnersConnected'
  BY <1>1, StillKeepsPartners
<1>6. QED
  BY <1>2, <1>3, <1>4, <1>5

\* A step of the media plane on thread t, for a peer that the thread is busy
\* with: Cycle in a datagram, or main in a timer.
LEMMA MediaStepPreservesSInv ==
    ASSUME SInv, NEW t \in Threads, NEW p \in Requests,
           UNCHANGED <<udpVars, mainVars, serving>>,
           \/ CacheMedia(t)
           \/ t = CycleThread /\ serving = p /\ (Connect(t, p) \/ Callback(t, p))
           \/ /\ t = MainThread /\ main = "sweep"
              /\ SarsPeersUfragMaps[it] = p /\ Callback(t, p)
    PROVE  SInv'
<1> USE DEF SInv
<1>1. HandlersStill /\ RInv' /\ PartnersConnected'
  BY MediaStepsAreStill
<1>2. DInv' /\ MInv'
  BY <1>1, StillKeepsDInv, StillKeepsMInv
<1>3. ServingIsHeard'
  BY DEF ServingIsHeard, udpVars
<1>4. ConnectedAreHeard'
  <2>1. state \in [Requests -> {"new", "connected", "gone"}]
    BY DEF RInv, RelayTypeOK
  <2>2. CASE Connect(t, p)
    <3>1. CASE serving = p
      <4>1. remote_addr[p] # None
        BY <3>1, SignallingAssumption DEF ServingIsHeard
      <4>2. \A q \in Requests \ {p} : state'[q] = state[q]
        BY <2>1, <2>2 DEF Connect, Crash
      <4>3. QED
        BY <4>1, <4>2 DEF ConnectedAreHeard, udpVars
    <3>2. CASE serving # p
      <4>1. \A q \in Requests : state'[q] # "new" => state[q] # "new"
        BY <2>1, <3>2
        DEF CacheMedia, FeedPlayer, ReturnFromCacheMedia, Turn, NobodyFed, Crash,
            Callback, RequestIFrame, Disconnect, OnRecvMediaData, StartRelay
      <4>2. QED
        BY <4>1 DEF ConnectedAreHeard, udpVars
    <3>3. QED
      BY <3>1, <3>2
  <2>3. CASE CacheMedia(t) \/ Callback(t, p)
    <3>1. \A q \in Requests : state'[q] # "new" => state[q] # "new"
      BY <2>1, <2>3
      DEF CacheMedia, FeedPlayer, ReturnFromCacheMedia, Turn, NobodyFed, Crash,
          Callback, RequestIFrame, Disconnect, OnRecvMediaData, StartRelay
    <3>2. QED
      BY <3>1 DEF ConnectedAreHeard, udpVars
  <2>4. QED
    BY <2>2, <2>3
<1>5. QED
  BY <1>1, <1>2, <1>3, <1>4

LEMMA MainThreadPreservesSInv ==
    ASSUME SInv, MainThreadMoves
    PROVE  SInv'
<1> USE DEF SInv
<1>1. /\ Boot \/ WakeUp \/ OnTimer
      /\ UNCHANGED <<udpVars, mediaVars, serving>>
  BY DEF MainThreadMoves
<1>2. HandlersStill /\ running
  BY <1>1
  DEF Boot, WakeUp, OnTimer, HandlersStill, sigVars, MInv, IInv, TypeOK
<1>3. DInv' /\ RInv' /\ MInv'
  BY <1>1, <1>2, StillKeepsDInv, StillKeepsRInv, MainNextPreservesMInv
  DEF MainNext
<1>4. ServingIsHeard' /\ ConnectedAreHeard'
  BY <1>1 DEF ServingIsHeard, ConnectedAreHeard, udpVars, mediaVars
<1>5. PartnersConnected'
  BY <1>1, StillKeepsPartners
<1>6. QED
  BY <1>3, <1>4, <1>5

LEMMA SarsNextPreservesSInv == SInv /\ [SarsNext]_allVars => SInv'
<1>1. SUFFICES ASSUME SInv, SarsNext \/ UNCHANGED allVars PROVE SInv'
  OBVIOUS
<1>2. CASE UNCHANGED allVars
  <2>1. DInv' /\ MInv'
    BY <1>1, <1>2, HandlerPreservesDInv, HandlerPreservesMInv DEF SInv, allVars
  <2>2. RInv'
    BY <1>1, <1>2, RelayNextPreservesRInv DEF SInv, allVars, relayVars
  <2>3. ServingIsHeard' /\ ConnectedAreHeard' /\ PartnersConnected'
    BY <1>1, <1>2, StillKeepsPartners
    DEF SInv, ServingIsHeard, ConnectedAreHeard, allVars, udpVars, mediaVars
  <2>4. QED
    BY <2>1, <2>2, <2>3 DEF SInv
<1>3. CASE DatagramCallsBack
  <2>1. PICK p \in Requests :
            serving = p /\ (Connect(CycleThread, p) \/ Callback(CycleThread, p))
    BY <1>3 DEF DatagramCallsBack
  <2>2. CycleThread \in Threads /\ UNCHANGED <<udpVars, mainVars, serving>>
    BY <1>3, SarsAssumption DEF DatagramCallsBack
  <2>3. QED
    BY <1>1, <2>1, <2>2, MediaStepPreservesSInv
<1>4. CASE TimerCallsBack
  <2>1. PICK p \in Requests : SarsPeersUfragMaps[it] = p /\ Callback(MainThread, p)
    BY <1>4 DEF TimerCallsBack
  <2>2. /\ MainThread \in Threads /\ main = "sweep"
        /\ UNCHANGED <<udpVars, mainVars, serving>>
    BY <1>4, SarsAssumption DEF TimerCallsBack
  <2>3. QED
    BY <1>1, <2>1, <2>2, MediaStepPreservesSInv
<1>5. ASSUME NEW t \in Threads, Relaying(t)
      PROVE  SInv'
  <2>1. CacheMedia(t) /\ UNCHANGED <<udpVars, mainVars, serving>>
    BY <1>5 DEF Relaying
  <2>2. relay[t].frame.from \in Requests
    BY <1>1, <2>1, CallsAreTyped
    DEF SInv, RInv, CacheMedia, FeedPlayer, ReturnFromCacheMedia
  <2>3. QED
    BY <1>1, <2>1, <2>2, MediaStepPreservesSInv
<1>6. QED
  BY <1>1, <1>2, <1>3, <1>4, <1>5, HandlersRunPreservesSInv,
     ReceivePreservesSInv, CycleReturnsPreservesSInv, MainThreadPreservesSInv
  DEF SarsNext

-----------------------------------------------------------------------------
(* The theorems about states. *)

\* The inductive invariants of the parts hold in the whole process, where each
\* part also meets the steps of the others.
THEOREM SarsInductiveInvariant == SarsSpec => []SInv
<1>1. QED
  BY SarsInitEstablishesSInv, SarsNextPreservesSInv, PTL DEF SarsSpec

\* A connected peer sends where it was last heard from, and nobody else does
\* (rtc_peer.cpp:407-415, rtc_server.cpp:72-86).
THEOREM PeersAreReached == SarsSpec => []ConnectedPeersAreReached
<1>1. SInv => ConnectedPeersAreReached
  <2>1. SUFFICES ASSUME SInv, NEW p \in Requests, state[p] = "connected"
                 PROVE  /\ remote_addr[p] # None
                        /\ SarsPeersAddrMaps[remote_addr[p]] = p
                        /\ \A q \in Requests \ {p} : remote_addr[q] # remote_addr[p]
    BY DEF ConnectedPeersAreReached
  <2>2. remote_addr[p] # None
    BY <2>1 DEF SInv, ConnectedAreHeard
  <2>3. \A q \in Requests :
            remote_addr[q] # None => SarsPeersAddrMaps[remote_addr[q]] = q
    BY <2>1 DEF SInv, DInv, RemoteIsOwn
  <2>4. QED
    BY <2>2, <2>3
<1>2. QED
  BY <1>1, SarsInductiveInvariant, PTL

\* Frames go from one client that was heard from to another, which answers to an
\* address of its own (rtc_server.cpp:59-86, scache.cpp:29-51).
THEOREM FramesReachOthers == SarsSpec => []FramesGoBetweenClients
<1>1. SInv => FramesGoBetweenClients
  <2>1. SUFFICES ASSUME SInv, NEW p \in Requests, NEW i \in 1..Len(fed[p]),
                        NEW from, from = fed[p][i].from
                 PROVE  /\ remote_addr[p] # None /\ remote_addr[from] # None
                        /\ remote_addr[from] # remote_addr[p]
    <3>1. SInv => \A p \in Requests : DOMAIN fed[p] = 1..Len(fed[p])
      BY FedAreFrames DEF SInv, RInv
    <3>2. QED
      BY <3>1 DEF FramesGoBetweenClients, ToSet
  <2>2. from \in Requests
    BY <2>1, FedAreFrames DEF SInv, RInv
  <2>3. remote_addr[p] # None /\ remote_addr[from] # None
    BY <2>1, <2>2 DEF SInv, PartnersConnected, ConnectedAreHeard
  <2>4. p # from
    <3>1. IsPublish(from) /\ IsPlay(p)
      BY <2>1 DEF SInv, RInv, FedKnown
    <3>2. QED
      BY <3>1 DEF IsPublish, IsPlay
  <2>5. /\ SarsPeersAddrMaps[remote_addr[p]] = p
        /\ SarsPeersAddrMaps[remote_addr[from]] = from
    BY <2>1, <2>2, <2>3 DEF SInv, DInv, RemoteIsOwn
  <2>6. QED
    BY <2>3, <2>4, <2>5
<1>2. QED
  BY <1>1, SarsInductiveInvariant, PTL

\* What is promised of the parts, with the other threads of the process between
\* any two of their steps (signalling.cpp:125-190, rtc_server.cpp:45-90,
\* scache.cpp:26-34, sars.cpp:34-40).
PartsAreSafe ==
    /\ PlayFindsPublisher /\ NamesResolve /\ AttachmentAgrees
    /\ AddressedPeerIsRegistered /\ RepliesReturn /\ ClientsLeakNothing
    /\ NobodySkipped /\ FedInOrder /\ KeyFrameAsked /\ FaultsHaveCauses
    /\ SweepIsComplete

THEOREM PartsStaySafe == SarsSpec => []PartsAreSafe
<1>1. SInv => PartsAreSafe
  <2>1. SUFFICES ASSUME SInv PROVE PartsAreSafe
    OBVIOUS
  <2>2. PlayFindsPublisher /\ NamesResolve /\ AttachmentAgrees
    BY <2>1, KnownAttachmentAgrees DEF SInv, DInv, IInv
  <2>3. AddressedPeerIsRegistered /\ RepliesReturn /\ ClientsLeakNothing
    BY <2>1 DEF SInv, DInv, RemoteIsOwn, RepliesReturn
  <2>4. NobodySkipped /\ FedInOrder /\ KeyFrameAsked /\ FaultsHaveCauses
    BY <2>1 DEF SInv, RInv
  <2>5. SweepIsComplete
    BY <2>1, KnownSweepIsComplete DEF SInv
  <2>6. QED
    BY <2>2, <2>3, <2>4, <2>5 DEF PartsAreSafe
<1>2. QED
  BY <1>1, SarsInductiveInvariant, PTL

-----------------------------------------------------------------------------
(* The theorems about steps. *)

\* To the handlers, a step of the process is one of theirs or changes nothing
\* of what they work on.
LEMMA StepsOfHandlers ==
    ASSUME SInv, [SarsNext]_allVars
    PROVE  Next \/ HandlersStill
<1>1. running \in BOOLEAN
  BY DEF SInv, MInv, IInv, TypeOK
<1>2. UNCHANGED sigVars => HandlersStill
  BY <1>1 DEF HandlersStill, sigVars
<1>3. \A t \in Threads : CacheMedia(t) => HandlersStill
  BY MediaStepsAreStill DEF SInv
<1>4. \A t \in Threads, p \in Requests :
          Connect(t, p) \/ Callback(t, p) => HandlersStill
  BY MediaStepsAreStill DEF SInv
<1>5. Boot \/ WakeUp \/ OnTimer => HandlersStill
  BY <1>1, <1>2 DEF Boot, WakeUp, OnTimer, HandlersStill
<1>6. UNCHANGED allVars \/ Receive \/ ReceiveFails \/ CycleReturns => UNCHANGED sigVars
  BY DEF allVars, Receive, ReceiveFails, CycleReturns, BadRequest, Datagram,
         BindingRequest, RecvFails
<1>7. DatagramCallsBack \/ TimerCallsBack => HandlersStill
  BY <1>4, SarsAssumption DEF DatagramCallsBack, TimerCallsBack
<1>8. QED
  BY <1>2, <1>3, <1>5, <1>6, <1>7
  DEF SarsNext, HandlersRun, Signal, Relaying, MainThreadMoves

\* In the whole process, too, nothing that a client relies on is unbound or
\* rebound (signalling.cpp:125-190, rtc_server.cpp:205-245).
THEOREM NothingIsEverLost == SarsSpec => OnlyGrows
<1>1. SInv /\ [SarsNext]_allVars => [Grows]_sigVars
  <2>1. SUFFICES ASSUME SInv, [SarsNext]_allVars PROVE [Grows]_sigVars
    OBVIOUS
  <2>2. CASE Next
    BY <2>1, <2>2, NextGrows DEF SInv, MInv
  <2>3. CASE HandlersStill
    BY <2>1, <2>3, KeepingGrows DEF HandlersStill, SInv, MInv, cacheVars, peerVars
  <2>4. QED
    BY <2>1, <2>2, <2>3, StepsOfHandlers
<1>2. QED
  BY <1>1, SarsInductiveInvariant, PTL DEF SarsSpec, OnlyGrows

\* Addresses keep their peers while frames are relayed and timers run
\* (rtc_server.cpp:68, 80-83).
THEOREM AddressesStayForAll == SarsSpec => AddressesStay
<1>1. SInv /\ [SarsNext]_allVars => AddressStays
  <2>1. SUFFICES ASSUME SInv, [SarsNext]_allVars PROVE AddressStays
    OBVIOUS
  <2>2. CASE Receive \/ ReceiveFails
    <3>1. Cycle
      BY <2>2 DEF Receive, ReceiveFails, Cycle
    <3>2. QED
      BY <2>1, <3>1, DemuxNextKeepsAddresses DEF SInv, DemuxNext
  <2>3. CASE UNCHANGED <<SarsPeersAddrMaps, remote_addr>>
    BY <2>3 DEF AddressStays
  <2>4. QED
    BY <2>1, <2>2, <2>3
    DEF SarsNext, HandlersRun, CycleReturns, DatagramCallsBack, TimerCallsBack,
        Relaying, MainThreadMoves, allVars, udpVars
<1>2. SInv /\ [SarsNext]_allVars =>
        [/\ \A a \in Addrs :
              SarsPeersAddrMaps[a] # None =>
                  SarsPeersAddrMaps'[a] = SarsPeersAddrMaps[a]
         /\ \A p \in Requests :
              remote_addr'[p] # remote_addr[p] =>
                  SarsPeersAddrMaps[remote_addr'[p]] \in {p, None}
        ]_demuxVars
  BY <1>1 DEF AddressStays
<1>3. QED
  BY <1>2, SarsInductiveInvariant, PTL DEF SarsSpec, AddressesStay

-----------------------------------------------------------------------------
(* The whole process implements the abstract specifications. *)

\* The streams of the process are those of StreamAccess, although datagrams and
\* timers run between the steps of the handlers.
THEOREM SarsImplementsAccess == SarsSpec => ImplementsAccess
<1>1. SarsInit => Access!Init
  BY InitImplements DEF SarsInit, RelayInit
<1>2. SInv /\ [SarsNext]_allVars => [Access!Next]_(Access!accessVars)
  <2>1. SUFFICES ASSUME SInv, [SarsNext]_allVars
                 PROVE  [Access!Next]_(Access!accessVars)
    OBVIOUS
  <2>2. CASE Next
    BY <2>1, <2>2, NextImplements DEF SInv, MInv
  <2>3. CASE HandlersStill
    <3>1. UNCHANGED <<phase, req, CanPublish, publisher, players>>
      BY <2>3 DEF HandlersStill, cacheVars
    <3>2. \A q \in Requests : IntentOf(q)' = IntentOf(q)
      BY <3>1, IntentStays
    <3>3. QED
      BY <3>1, <3>2, QuietStutters
  <2>4. QED
    BY <2>1, <2>2, <2>3, StepsOfHandlers
<1>3. QED
  BY <1>1, <1>2, SarsInductiveInvariant, PTL
  DEF SarsSpec, ImplementsAccess, Access!Spec

\* Players of the process are shown what FrameRelay lets them be shown, though
\* now only Cycle, in a datagram, and main, in a timer, call them.
THEOREM SarsImplementsFrameRelay == SarsSpec => ImplementsFrameRelay
<1>1. SarsInit => Relayed!Begin
  BY BeginImplemented DEF SarsInit
<1>2. SInv /\ [SarsNext]_allVars =>
          [\E p \in Requests : Relayed!Act(p)]_(Relayed!view)
  <2>1. SUFFICES ASSUME SInv, SarsNext \/ UNCHANGED allVars
                 PROVE  [\E p \in Requests : Relayed!Act(p)]_(Relayed!view)
    OBVIOUS
  <2>2. CASE RelayNext
    BY <2>1, <2>2, RelayNextImplements DEF SInv
  <2>3. CASE UNCHANGED <<scache, req, received, fed>>
    BY <2>3, PlacesStay, UnseenStutters DEF Sight, SeenBy
  <2>4. HandlersRun \/ DatagramCallsBack \/ TimerCallsBack
            \/ (\E t \in Threads : Relaying(t)) => RelayNext
    BY SarsAssumption
    DEF HandlersRun, DatagramCallsBack, TimerCallsBack, Relaying, Callback,
        RelayNext
  <2>5. Receive \/ ReceiveFails \/ CycleReturns \/ MainThreadMoves
            \/ UNCHANGED allVars => UNCHANGED <<scache, req, received, fed>>
    BY DEF Receive, ReceiveFails, CycleReturns, MainThreadMoves, BadRequest,
           Datagram, BindingRequest, RecvFails, Boot, WakeUp, OnTimer, allVars,
           sigVars, mediaVars
  <2>6. QED
    BY <2>1, <2>2, <2>3, <2>4, <2>5 DEF SarsNext
<1>3. QED
  BY <1>1, <1>2, SarsInductiveInvariant, PTL
  DEF SarsSpec, ImplementsFrameRelay, Relayed!Promise

-----------------------------------------------------------------------------
(* The calls of CacheMedia in the process. *)

\* To the relay, a step of the process is one of its own, or leaves its calls alone.
LEMMA ProcessRelays ==
    [SarsNext]_allVars => [RelayNext]_relayVars \/ UNCHANGED mediaVars
<1>1. HandlersRun \/ DatagramCallsBack \/ TimerCallsBack
          \/ (\E t \in Threads : Relaying(t)) => RelayNext
  BY SarsAssumption
  DEF HandlersRun, DatagramCallsBack, TimerCallsBack, Relaying, Callback,
      RelayNext
<1>2. Receive \/ ReceiveFails \/ CycleReturns \/ MainThreadMoves
          \/ UNCHANGED allVars => UNCHANGED mediaVars
  BY DEF Receive, ReceiveFails, CycleReturns, MainThreadMoves, allVars
<1>3. QED
  BY <1>1, <1>2 DEF SarsNext

\* In the whole process, too, a call of CacheMedia goes through its players and
\* returns when all that stayed connected have the frame (scache.cpp:29-33);
\* Cycle and main, each in its own call, do not disturb each other, and when
\* the process ends the calls are cut off where they are.
THEOREM CallsRunToTheirEndTogether == SarsSpec => [][CallsRunThrough]_allVars
<1>1. SInv /\ [SarsNext]_allVars => [CallsRunThrough]_allVars
  <2>1. SUFFICES ASSUME SInv, [SarsNext]_allVars PROVE CallsRunThrough
    OBVIOUS
  <2>2. RInv /\ RelayTypeOK
    BY <2>1 DEF SInv, RInv
  <2>3. CASE UNCHANGED relay
    BY <2>2, <2>3, CallsStand DEF CallsRunThrough
  <2>4. UNCHANGED mediaVars \/ UNCHANGED relayVars => UNCHANGED relay
    BY DEF mediaVars, relayVars
  <2>5. [CallsRunThrough]_relayVars => CallsRunThrough \/ UNCHANGED relayVars
    OBVIOUS
  <2>6. QED
    BY <2>1, <2>2, <2>3, <2>4, <2>5, ProcessRelays, RelayNextRunsThrough
<1>2. QED
  BY <1>1, SarsInductiveInvariant, PTL DEF SarsSpec

\* Nor does a player of the process see a frame twice or one of another stream,
\* though a timer of main may relay while Cycle does (rtc_publisher.cpp:15-18,
\* scache.cpp:26-34).
THEOREM FedFromOwnStreamOnceTogether == SarsSpec => [](FedKnown /\ FedOnce)
<1>1. SarsInit => FedOnce
  BY DEF SarsInit, RelayInit, FedOnce
<1>2. SInv => RInv /\ FedKnown
  BY DEF SInv, RInv
<1>3. SInv /\ FedOnce /\ [SarsNext]_allVars => FedOnce'
  <2>1. SUFFICES ASSUME SInv, FedOnce, [SarsNext]_allVars PROVE FedOnce'
    OBVIOUS
  <2>2. CASE UNCHANGED mediaVars
    BY <2>1, <2>2 DEF FedOnce, SameFrame, mediaVars
  <2>3. QED
    BY <1>2, <2>1, <2>2, ProcessRelays, RelayNextFeedsOnce
<1>4. QED
  BY <1>1, <1>2, <1>3, SarsInductiveInvariant, PTL DEF SarsSpec

=============================================================================
