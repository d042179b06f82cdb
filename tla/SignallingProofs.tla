-------------------------- MODULE SignallingProofs --------------------------
(***************************************************************************)
(* Proofs about Signalling, for any number of requests, streams and names. *)
(***************************************************************************)
EXTENDS Signalling, TLAPS

-----------------------------------------------------------------------------
(* The inductive invariant. *)

Asked == [kind : Kinds, stream : Streams]

\* A handler that has started knows what it was asked, and only a handler that
\* got past CanPublish has a named peer.
HandlersKnow ==
    \A r \in Requests :
        /\ phase[r] \in {"reading", "writing", "served"} => req[r] \in Asked
        /\ ufrag[r] # None => phase[r] \in {"writing", "served"}
        /\ scache[r] = IF phase[r] = "served" THEN req[r].stream ELSE None

\* CanPublish is the negation of having a publisher, and the publisher is a
\* publish request of that stream that was served.
PublisherKnown ==
    \A s \in Streams :
        /\ CanPublish[s] <=> publisher[s] = None
        /\ publisher[s] # None =>
              /\ req[publisher[s]] = [kind |-> "publish", stream |-> s]
              /\ phase[publisher[s]] = "served"

\* The players of a stream are the served play requests for it, each once.
PlayersKnown ==
    /\ \A s \in Streams : \A i \in 1..Len(players[s]) :
          /\ req[players[s][i]] = [kind |-> "play", stream |-> s]
          /\ phase[players[s][i]] = "served"
    /\ \A r \in Requests :
          phase[r] = "served" /\ IsPlay(r) =>
              \E i \in 1..Len(players[req[r].stream]) :
                  players[req[r].stream][i] = r
    /\ \A s \in Streams : \A i, j \in 1..Len(players[s]) :
          players[s][i] = players[s][j] => i = j

IInv ==
    /\ TypeOK
    /\ HandlersKnow
    /\ PublisherKnown
    /\ PlayersKnown
    /\ PlayFindsPublisher
    /\ NamesResolve

-----------------------------------------------------------------------------
LEMMA InitEstablishesIInv == Init => IInv
<1>1. SUFFICES ASSUME Init PROVE IInv
  OBVIOUS
<1>2. TypeOK
  BY <1>1 DEF Init, TypeOK, Phases
<1>3. HandlersKnow /\ PublisherKnown /\ PlayFindsPublisher /\ NamesResolve
  BY <1>1 DEF Init, HandlersKnow, PublisherKnown, PlayFindsPublisher,
              NamesResolve
<1>4. PlayersKnown
  BY <1>1 DEF Init, PlayersKnown
<1>5. QED
  BY <1>2, <1>3, <1>4 DEF IInv

\* What SMT needs to know of the vectors: their elements are requests.
LEMMA PlayersAreRequests ==
    ASSUME TypeOK
    PROVE  \A s \in Streams : /\ Len(players[s]) \in Nat
                              /\ \A i \in 1..Len(players[s]) :
                                    players[s][i] \in Requests
  BY DEF TypeOK

\* Whatever is in a players vector was served.
LEMMA PlayersServed ==
    ASSUME IInv
    PROVE  \A s \in Streams : \A i \in 1..Len(players[s]) :
              phase[players[s][i]] = "served"
<1>1. PlayersKnown
  BY DEF IInv
<1>2. SUFFICES ASSUME NEW s \in Streams, NEW i \in 1..Len(players[s])
               PROVE  phase[players[s][i]] = "served"
  OBVIOUS
<1>3. QED
  BY <1>1 DEF PlayersKnown

\* A step that touches no table, and moves handlers only before they are
\* admitted, preserves the invariant: nothing in it speaks of those handlers.
LEMMA QuietStep ==
    ASSUME IInv, TypeOK',
           UNCHANGED <<CanPublish, publisher, players, SarsPeersUfragMaps,
                       ufrag, scache>>,
           \A q \in Requests :
              \/ phase'[q] = phase[q] /\ req'[q] = req[q]
              \/ /\ phase[q] \in {"idle", "reading"}
                 /\ \/ phase'[q] = "refused"
                    \/ phase'[q] = "reading" /\ req'[q] \in Asked
    PROVE  IInv'
<1> USE SignallingAssumption DEF IInv
<1>1. HandlersKnow'
  BY DEF HandlersKnow
<1>2. PublisherKnown'
  BY DEF PublisherKnown, TypeOK
<1>3. PlayersKnown'
  <2>1. \A q \in Requests : phase[q] = "served" <=> phase'[q] = "served"
    OBVIOUS
  <2>2. \A q \in Requests : phase[q] = "served" => req'[q] = req[q]
    OBVIOUS
  <2>3. players' = players /\ PlayersKnown
    OBVIOUS
  <2>4. ASSUME NEW s \in Streams, NEW i \in 1..Len(players[s])
        PROVE  /\ req'[players[s][i]] = [kind |-> "play", stream |-> s]
               /\ phase'[players[s][i]] = "served"
    <3>1. /\ req[players[s][i]] = [kind |-> "play", stream |-> s]
          /\ phase[players[s][i]] = "served"
      BY <2>3 DEF PlayersKnown
    <3>2. players[s][i] \in Requests
      BY PlayersAreRequests
    <3>3. QED
      BY <2>1, <2>2, <3>1, <3>2
  <2>5. ASSUME NEW r \in Requests, phase'[r] = "served", req'[r].kind = "play"
        PROVE  \E i \in 1..Len(players[req'[r].stream]) :
                   players[req'[r].stream][i] = r
    <3>1. phase[r] = "served" /\ req'[r] = req[r]
      BY <2>1, <2>2, <2>5
    <3>2. IsPlay(r)
      BY <2>5, <3>1 DEF IsPlay
    <3>3. \E i \in 1..Len(players[req[r].stream]) : players[req[r].stream][i] = r
      BY <2>3, <3>1, <3>2, Zenon DEF PlayersKnown
    <3>4. QED
      BY <3>1, <3>3, Zenon
  <2>6. \A s \in Streams : \A i, j \in 1..Len(players[s]) :
            players[s][i] = players[s][j] => i = j
    BY <2>3, Zenon DEF PlayersKnown
  <2>7. QED
    BY <2>3, <2>4, <2>5, <2>6 DEF PlayersKnown, IsPlay
<1>4. PlayFindsPublisher'
  BY DEF PlayFindsPublisher, IsPlay
<1>5. NamesResolve'
  BY DEF NamesResolve
<1>6. QED
  BY <1>1, <1>2, <1>3, <1>4, <1>5

\* HandlePublish and HandlePlay when they return -15.
LEMMA RefusePreservesIInv ==
    ASSUME IInv, NEW r \in Requests, phase[r] = "reading", Refuse(r)
    PROVE  IInv'
<1> USE DEF Refuse, peerVars
<1>1. req[r] \in Asked
  BY DEF IInv, HandlersKnow
<1>2. TypeOK'
  BY <1>1 DEF IInv, TypeOK, Phases, Asked
<1>3. \A q \in Requests :
        phase'[q] = IF q = r THEN "refused" ELSE phase[q]
  BY DEF IInv, TypeOK
<1>4. QED
  BY <1>2, <1>3, QuietStep

\* CreateRtcPeer gives a name to no peer but r, and registers it only under a
\* free name: every name keeps the peer it had.
LEMMA CreateNames ==
    ASSUME IInv, NEW r \in Requests, ufrag[r] = None, CreateRtcPeer(r)
    PROVE  /\ NamesResolve'
           /\ ufrag' \in [Requests -> Ufrags \cup {None}]
           /\ SarsPeersUfragMaps' \in [Ufrags -> Requests \cup {None}]
           /\ hasPC' \in SUBSET Requests
           /\ \A q \in Requests \ {r} : ufrag'[q] = ufrag[q]
<1> USE SignallingAssumption DEF IInv, TypeOK
<1>1. CASE /\ CreateMayFail
           /\ hasPC' \in {hasPC, hasPC \cup {r}}
           /\ UNCHANGED <<SarsPeersUfragMaps, ufrag>>
  BY <1>1 DEF NamesResolve
<1>2. CASE /\ \E u \in Ufrags :
                 /\ RegisterPeer(r, u)
                 /\ ufrag' = [ufrag EXCEPT ![r] = u]
           /\ hasPC' = hasPC \cup {r}
  <2>1. PICK u \in Ufrags : /\ RegisterPeer(r, u)
                            /\ ufrag' = [ufrag EXCEPT ![r] = u]
    BY <1>2
  <2>2. \A q \in Requests : ufrag'[q] = IF q = r THEN u ELSE ufrag[q]
    BY <2>1
  <2>3. \A v \in Ufrags :
          SarsPeersUfragMaps'[v] =
              IF v = u /\ SarsPeersUfragMaps[u] = None
              THEN r ELSE SarsPeersUfragMaps[v]
    BY <2>1 DEF RegisterPeer
  <2>4. SarsPeersUfragMaps' \in [Ufrags -> Requests \cup {None}]
    BY <2>1 DEF RegisterPeer
  <2>5. ASSUME NEW v \in Ufrags, SarsPeersUfragMaps'[v] # None
        PROVE  ufrag'[SarsPeersUfragMaps'[v]] = v
    BY <2>2, <2>3, <2>5 DEF NamesResolve
  <2>6. ASSUME NEW q \in Requests, ufrag'[q] # None
        PROVE  SarsPeersUfragMaps'[ufrag'[q]] # None
    BY <2>2, <2>3, <2>6 DEF NamesResolve
  <2>7. NamesResolve'
    BY <2>5, <2>6 DEF NamesResolve
  <2>8. QED
    BY <1>2, <2>1, <2>2, <2>4, <2>7
<1>3. QED
  BY <1>1, <1>2 DEF CreateRtcPeer

\* HandlePublish and HandlePlay when they create the peer.  A play request is
\* admitted only on a stream that has a publisher.
LEMMA AdmitPreservesIInv ==
    ASSUME IInv, NEW r \in Requests, phase[r] = "reading", Admit(r),
           IsPlay(r) => ~CanPublish[req[r].stream]
    PROVE  IInv'
<1> USE SignallingAssumption
<1>1. req[r] \in Asked /\ ufrag[r] = None
  BY DEF IInv, HandlersKnow
<1>2. /\ NamesResolve'
      /\ ufrag' \in [Requests -> Ufrags \cup {None}]
      /\ SarsPeersUfragMaps' \in [Ufrags -> Requests \cup {None}]
      /\ hasPC' \in SUBSET Requests
      /\ \A q \in Requests \ {r} : ufrag'[q] = ufrag[q]
  BY <1>1, CreateNames DEF Admit
<1>3. TypeOK'
  BY <1>1, <1>2 DEF IInv, TypeOK, Admit, Phases, Asked
<1>4. \A q \in Requests :
        phase'[q] = IF q = r THEN "writing" ELSE phase[q]
  BY DEF IInv, TypeOK, Admit
<1>5. UNCHANGED <<req, CanPublish, publisher, players, scache>>
  BY DEF Admit
<1>6. HandlersKnow'
  BY <1>1, <1>2, <1>4, <1>5 DEF IInv, HandlersKnow
<1>7. PublisherKnown'
  <2>1. \A s \in Streams : publisher[s] # r
    BY DEF IInv, PublisherKnown
  <2>2. \A s \in Streams : publisher[s] \in Requests \cup {None}
    BY DEF IInv, TypeOK
  <2>3. QED
    BY <1>4, <1>5, <2>1, <2>2 DEF IInv, PublisherKnown
<1>8. PlayersKnown'
  <2>1. \A q \in Requests : phase[q] = "served" <=> phase'[q] = "served"
    BY <1>4
  <2>2. QED
    BY <1>5, <2>1, PlayersAreRequests DEF IInv, PlayersKnown, IsPlay
<1>9. PlayFindsPublisher'
  BY <1>1, <1>4, <1>5 DEF IInv, PlayFindsPublisher, PublisherKnown, IsPlay,
                          Asked
<1>10. QED
  BY <1>2, <1>3, <1>6, <1>7, <1>8, <1>9 DEF IInv

\* HandlePublish after Write.  The peer may take over a stream that another
\* request published meanwhile; the stream has a publisher all the same.
LEMMA SetPublisherPreservesIInv ==
    ASSUME IInv, NEW r \in Requests, SetPublisher(r)
    PROVE  IInv'
<1> USE SignallingAssumption
<1> DEFINE s0 == req[r].stream
<1>1. /\ phase[r] = "writing" /\ req[r] = [kind |-> "publish", stream |-> s0]
      /\ s0 \in Streams /\ IsPublish(r)
  BY DEF IInv, HandlersKnow, SetPublisher, WriteReturns, IsPublish, Asked
<1>2. TypeOK'
  <2>1. /\ CanPublish' \in [Streams -> BOOLEAN]
        /\ publisher' \in [Streams -> Requests \cup {None}]
    BY DEF IInv, TypeOK, SetPublisher
  <2>2. /\ phase' \in [Requests -> Phases]
        /\ scache' \in [Requests -> Streams \cup {None}]
        /\ answered' \in SUBSET Requests
    BY <1>1 DEF IInv, TypeOK, SetPublisher, WriteReturns, Phases
  <2>3. UNCHANGED <<running, req, streamIDs, players, peerVars>>
    BY DEF SetPublisher
  <2>4. QED
    BY <2>1, <2>2, <2>3 DEF IInv, TypeOK, peerVars
<1>3. /\ \A q \in Requests :
            /\ phase'[q] = IF q = r THEN "served" ELSE phase[q]
            /\ scache'[q] = IF q = r THEN s0 ELSE scache[q]
      /\ \A s \in Streams :
            /\ CanPublish'[s] = IF s = s0 THEN FALSE ELSE CanPublish[s]
            /\ publisher'[s] = IF s = s0 THEN r ELSE publisher[s]
  BY DEF IInv, TypeOK, SetPublisher, WriteReturns
<1>4. UNCHANGED <<req, players, SarsPeersUfragMaps, ufrag>>
  BY DEF SetPublisher, peerVars
<1>5. HandlersKnow'
  BY <1>1, <1>3, <1>4 DEF IInv, HandlersKnow
<1>6. PublisherKnown'
  <2>1. \A s \in Streams : publisher[s] \in Requests \cup {None}
    BY DEF IInv, TypeOK
  <2>2. ASSUME NEW s \in Streams
        PROVE  /\ CanPublish'[s] <=> publisher'[s] = None
               /\ publisher'[s] # None =>
                    /\ req[publisher'[s]] = [kind |-> "publish", stream |-> s]
                    /\ phase'[publisher'[s]] = "served"
    <3>1. CASE s = s0
      <4>1. publisher'[s] = r /\ phase'[r] = "served" /\ r # None
        BY <1>3, <3>1
      <4>2. ~CanPublish'[s]
        BY <1>3, <3>1, Zenon
      <4>3. req[r] = [kind |-> "publish", stream |-> s]
        BY <1>1, <3>1
      <4>4. QED
        BY <4>1, <4>2, <4>3, Zenon
    <3>2. CASE s # s0
      <4>1. PublisherKnown
        BY DEF IInv
      <4>2. CanPublish'[s] = CanPublish[s] /\ publisher'[s] = publisher[s]
        BY <1>3, <3>2
      <4>3. publisher[s] # None => phase'[publisher[s]] = "served"
        BY <1>3, <2>1, <4>1 DEF PublisherKnown
      <4>4. QED
        BY <4>1, <4>2, <4>3 DEF PublisherKnown
    <3>3. QED
      BY <3>1, <3>2
  <2>3. QED
    BY <1>4, <2>2 DEF PublisherKnown
<1>7. PlayersKnown'
  <2>1. \A q \in Requests : q # r => (phase[q] = "served" <=> phase'[q] = "served")
    BY <1>3
  <2>2. ~IsPlay(r)
    BY <1>1 DEF IsPlay, IsPublish
  <2>3. \A s \in Streams : \A i \in 1..Len(players[s]) : players[s][i] # r
    BY <1>1, PlayersServed
  <2>4. /\ TypeOK
        /\ PlayersKnown
    BY DEF IInv
  <2>5. \A s \in Streams : \A i \in 1..Len(players[s]) :
          phase'[players[s][i]] = "served"
    BY <2>1, <2>3, <2>4, PlayersAreRequests, PlayersServed
  <2>6. \A q \in Requests : phase'[q] = "served" /\ IsPlay(q) =>
          phase[q] = "served"
    BY <2>1, <2>2
  <2>7. QED
    BY <1>4, <2>4, <2>5, <2>6 DEF PlayersKnown, IsPlay
<1>8. PlayFindsPublisher'
  <2>1. ~IsPlay(r)
    BY <1>1 DEF IsPlay, IsPublish
  <2>2. r # None
    OBVIOUS
  <2>3. ASSUME NEW q \in Requests, IsPlay(q),
               phase'[q] \in {"writing", "served"}
        PROVE  /\ publisher'[req[q].stream] # None
               /\ ~CanPublish'[req[q].stream]
    <3>1. q # r
      BY <2>1, <2>3
    <3>2. phase[q] = phase'[q]
      BY <1>3, <3>1
    <3>3. req[q].stream \in Streams
      BY <2>3, <3>2 DEF IInv, HandlersKnow, Asked
    <3>4. publisher[req[q].stream] # None /\ ~CanPublish[req[q].stream]
      BY <2>3, <3>2 DEF IInv, PlayFindsPublisher
    <3>5. QED
      BY <1>3, <2>2, <3>3, <3>4
  <2>4. QED
    BY <1>4, <2>3 DEF PlayFindsPublisher, IsPlay
<1>9. NamesResolve'
  BY <1>4 DEF IInv, NamesResolve
<1>10. QED
  BY <1>2, <1>5, <1>6, <1>7, <1>8, <1>9 DEF IInv

\* HandlePlay after Write: the player joins the vector of its stream, in which
\* it is not yet.
LEMMA AddPlayerPreservesIInv ==
    ASSUME IInv, NEW r \in Requests, AddPlayer(r)
    PROVE  IInv'
<1> USE SignallingAssumption
<1> DEFINE s0 == req[r].stream
<1>1. /\ phase[r] = "writing" /\ req[r] = [kind |-> "play", stream |-> s0]
      /\ s0 \in Streams /\ IsPlay(r)
  BY DEF IInv, HandlersKnow, AddPlayer, WriteReturns, IsPlay, Asked
<1>2. /\ players' = [players EXCEPT ![s0] = Append(@, r)]
      /\ players \in [Streams -> Seq(Requests)]
  BY DEF IInv, TypeOK, AddPlayer
<1>3. TypeOK'
  <2>1. players' \in [Streams -> Seq(Requests)]
    BY <1>1, <1>2
  <2>2. /\ phase' \in [Requests -> Phases]
        /\ scache' \in [Requests -> Streams \cup {None}]
        /\ answered' \in SUBSET Requests
    BY <1>1 DEF IInv, TypeOK, AddPlayer, WriteReturns, Phases
  <2>3. UNCHANGED <<running, req, streamIDs, CanPublish, publisher, peerVars>>
    BY DEF AddPlayer
  <2>4. QED
    BY <2>1, <2>2, <2>3 DEF IInv, TypeOK, peerVars
<1>4. \A q \in Requests :
        /\ phase'[q] = IF q = r THEN "served" ELSE phase[q]
        /\ scache'[q] = IF q = r THEN s0 ELSE scache[q]
  BY DEF IInv, TypeOK, AddPlayer, WriteReturns
<1>5. UNCHANGED <<req, CanPublish, publisher, SarsPeersUfragMaps, ufrag>>
  BY DEF AddPlayer, peerVars
<1>6. /\ \A s \in Streams \ {s0} : players'[s] = players[s]
      /\ Len(players'[s0]) = Len(players[s0]) + 1
      /\ players'[s0][Len(players[s0]) + 1] = r
      /\ \A i \in 1..Len(players[s0]) : players'[s0][i] = players[s0][i]
  BY <1>1, <1>2
<1>7. HandlersKnow'
  BY <1>1, <1>4, <1>5 DEF IInv, HandlersKnow
<1>8. PublisherKnown'
  <2>1. \A s \in Streams : publisher[s] \in Requests \cup {None}
    BY DEF IInv, TypeOK
  <2>2. QED
    BY <1>4, <1>5, <2>1 DEF IInv, PublisherKnown
<1>9. PlayersKnown'
  <2>1. \A s \in Streams : /\ Len(players[s]) \in Nat
                          /\ \A i \in 1..Len(players[s]) :
                                players[s][i] \in Requests \ {r}
    <3>1. TypeOK
      BY DEF IInv
    <3>2. \A s \in Streams : \A i \in 1..Len(players[s]) :
            players[s][i] # r
      BY <1>1, PlayersServed
    <3>3. QED
      BY <3>1, <3>2, PlayersAreRequests
  <2>2. ASSUME NEW s \in Streams, NEW i \in 1..Len(players'[s])
        PROVE  /\ req'[players'[s][i]] = [kind |-> "play", stream |-> s]
               /\ phase'[players'[s][i]] = "served"
    <3>1. CASE i \in 1..Len(players[s]) /\ players'[s][i] = players[s][i]
      <4>1. /\ req[players[s][i]] = [kind |-> "play", stream |-> s]
            /\ phase[players[s][i]] = "served"
        BY <3>1 DEF IInv, PlayersKnown
      <4>2. players[s][i] \in Requests \ {r}
        BY <2>1, <3>1
      <4>3. QED
        BY <1>4, <1>5, <3>1, <4>1, <4>2
    <3>2. CASE s = s0 /\ i = Len(players[s0]) + 1
      BY <1>1, <1>4, <1>5, <1>6, <3>2
    <3>3. QED
      BY <1>1, <1>6, <2>1, <3>1, <3>2
  <2>3. ASSUME NEW q \in Requests, phase'[q] = "served", IsPlay(q)'
        PROVE  \E i \in 1..Len(players'[req'[q].stream]) :
                   players'[req'[q].stream][i] = q
    <3>1. CASE q = r
      BY <1>1, <1>5, <1>6, <2>1, <3>1
    <3>2. CASE q # r
      <4>1. phase[q] = "served" /\ IsPlay(q)
        BY <1>4, <1>5, <2>3, <3>2 DEF IsPlay
      <4>2. req[q].stream \in Streams
        BY <4>1 DEF IInv, HandlersKnow, Asked
      <4>3. PICK i \in 1..Len(players[req[q].stream]) :
                players[req[q].stream][i] = q
        BY <4>1 DEF IInv, PlayersKnown
      <4>4. CASE req[q].stream = s0
        <5>1. i \in 1..Len(players[s0]) /\ Len(players[s0]) \in Nat
          BY <1>1, <2>1, <4>3, <4>4
        <5>2. i \in 1..Len(players'[s0]) /\ players'[s0][i] = players[s0][i]
          BY <1>6, <5>1
        <5>3. QED
          BY <1>5, <4>3, <4>4, <5>2
      <4>5. CASE req[q].stream # s0
        <5>1. players'[req[q].stream] = players[req[q].stream]
          BY <1>6, <4>2, <4>5
        <5>2. QED
          BY <1>5, <4>3, <5>1
      <4>6. QED
        BY <4>4, <4>5
    <3>3. QED
      BY <3>1, <3>2
  <2>4. ASSUME NEW s \in Streams, NEW i \in 1..Len(players'[s]),
               NEW j \in 1..Len(players'[s]), players'[s][i] = players'[s][j]
        PROVE  i = j
    <3>1. \A a, b \in 1..Len(players[s]) : players[s][a] = players[s][b] => a = b
      BY DEF IInv, PlayersKnown
    <3>2. CASE s # s0
      BY <1>6, <2>4, <3>1, <3>2
    <3>3. CASE s = s0
      <4>1. \A a \in 1..Len(players'[s0]) :
              \/ a \in 1..Len(players[s0]) /\ players'[s0][a] = players[s0][a]
              \/ a = Len(players[s0]) + 1
        BY <1>1, <1>6, <2>1
      <4>2. \A a \in 1..Len(players[s0]) : players'[s0][a] # r
        BY <1>1, <1>6, <2>1
      <4>3. QED
        BY <1>6, <2>4, <3>1, <3>3, <4>1, <4>2
    <3>4. QED
      BY <3>2, <3>3
  <2>5. QED
    BY <2>2, <2>3, <2>4 DEF PlayersKnown
<1>10. PlayFindsPublisher'
  BY <1>1, <1>4, <1>5 DEF IInv, PlayFindsPublisher, IsPlay
<1>11. NamesResolve'
  BY <1>5 DEF IInv, NamesResolve
<1>12. QED
  BY <1>3, <1>7, <1>8, <1>9, <1>10, <1>11 DEF IInv

\* Every step of every handler preserves the invariant.
LEMMA NextPreservesIInv == IInv /\ [Next]_sigVars => IInv'
<1>1. SUFFICES ASSUME IInv, [Next]_sigVars PROVE IInv'
  OBVIOUS
<1>2. ASSUME NEW r \in Requests, Arrive(r) PROVE IInv'
  <2>1. PICK k \in Kinds, s \in Streams :
            req' = [req EXCEPT ![r] = [kind |-> k, stream |-> s]]
    BY <1>2 DEF Arrive
  <2>2. /\ phase[r] = "idle"
        /\ phase' = [phase EXCEPT ![r] = "reading"]
        /\ UNCHANGED <<running, cacheVars, peerVars, scache, answered>>
    BY <1>2 DEF Arrive
  <2>3. TypeOK'
    BY <1>1, <2>1, <2>2 DEF IInv, TypeOK, Phases, cacheVars, peerVars
  <2>4. [kind |-> k, stream |-> s] \in Asked
    BY DEF Asked
  <2>5. \A q \in Requests :
          \/ phase'[q] = phase[q] /\ req'[q] = req[q]
          \/ /\ phase[q] \in {"idle", "reading"}
             /\ phase'[q] = "reading" /\ req'[q] \in Asked
    BY <1>1, <2>1, <2>2, <2>4 DEF IInv, TypeOK
  <2>6. QED
    BY <1>1, <2>2, <2>3, <2>5, QuietStep DEF cacheVars, peerVars
<1>3. ASSUME NEW r \in Requests, ServeOther(r) \/ RejectBody(r) PROVE IInv'
  <2>1. /\ phase[r] \in {"idle", "reading"}
        /\ \/ phase' = phase
           \/ phase' = [phase EXCEPT ![r] = "refused"]
        /\ running' \in {running, FALSE}
        /\ UNCHANGED <<req, cacheVars, peerVars, scache, answered>>
    BY <1>3 DEF ServeOther, RejectBody
  <2>2. TypeOK'
    BY <1>1, <2>1 DEF IInv, TypeOK, Phases, cacheVars, peerVars
  <2>3. \A q \in Requests : \/ phase'[q] = phase[q]
                            \/ /\ phase[q] \in {"idle", "reading"}
                               /\ phase'[q] = "refused"
    BY <1>1, <2>1 DEF IInv, TypeOK
  <2>4. QED
    BY <1>1, <2>1, <2>2, <2>3, QuietStep DEF cacheVars, peerVars
<1>4. ASSUME NEW r \in Requests, HandlePublish(r) PROVE IInv'
  <2>1. ~IsPlay(r)
    BY <1>4 DEF HandlePublish, IsPublish, IsPlay
  <2>2. QED
    BY <1>1, <1>4, <2>1, RefusePreservesIInv, AdmitPreservesIInv
    DEF HandlePublish
<1>5. ASSUME NEW r \in Requests, HandlePlay(r) PROVE IInv'
  BY <1>1, <1>5, RefusePreservesIInv, AdmitPreservesIInv DEF HandlePlay
<1>6. ASSUME NEW r \in Requests, AnswerLeaves(r) PROVE IInv'
  <2>1. TypeOK'
    BY <1>1, <1>6 DEF IInv, TypeOK, AnswerLeaves, cacheVars, peerVars
  <2>2. QED
    BY <1>1, <1>6, <2>1, QuietStep DEF AnswerLeaves, cacheVars, peerVars
<1>7. CASE UNCHANGED sigVars
  <2>1. TypeOK'
    BY <1>1, <1>7 DEF IInv, TypeOK, sigVars, cacheVars, peerVars
  <2>2. QED
    BY <1>1, <1>7, <2>1, QuietStep DEF sigVars, cacheVars, peerVars
<1>8. QED
  BY <1>1, <1>2, <1>3, <1>4, <1>5, <1>6, <1>7, SetPublisherPreservesIInv,
     AddPlayerPreservesIInv DEF Next, Handle

-----------------------------------------------------------------------------
\* The inductive invariant holds in every reachable state.
THEOREM InductiveInvariant == Spec => []IInv
<1>1. Init => IInv
  BY InitEstablishesIInv
<1>2. IInv /\ [Next]_sigVars => IInv'
  BY NextPreservesIInv
<1>3. QED
  BY <1>1, <1>2, PTL DEF Spec

\* Type correctness.
THEOREM TypeCorrect == Spec => []TypeOK
<1>1. IInv => TypeOK
  BY DEF IInv
<1>2. QED
  BY <1>1, InductiveInvariant, PTL

\* What a play handler tested before Write still holds when it attaches its
\* player: the stream it plays has a publisher.
THEOREM PlayIsSafe == Spec => []PlayFindsPublisher
<1>1. IInv => PlayFindsPublisher
  BY DEF IInv
<1>2. QED
  BY <1>1, InductiveInvariant, PTL

\* Registered names and the peers that carry them agree, however many peers
\* are given the same name.
THEOREM RegistryIsSound == Spec => []NamesResolve
<1>1. IInv => NamesResolve
  BY DEF IInv
<1>2. QED
  BY <1>1, InductiveInvariant, PTL

LEMMA KnownAttachmentAgrees == IInv => AttachmentAgrees
<1>1. SUFFICES ASSUME IInv PROVE AttachmentAgrees
  OBVIOUS
<1>2. /\ TypeOK /\ HandlersKnow /\ PublisherKnown /\ PlayersKnown
  BY <1>1 DEF IInv
<1>3. \A s \in Streams : DOMAIN players[s] = 1..Len(players[s])
  BY <1>2 DEF TypeOK
<1>4. ASSUME NEW r \in Requests, NEW s \in Streams, IsPlay(r)
      PROVE  /\ scache[r] = s <=> Occurrences(r, s) # {}
             /\ \A i, j \in Occurrences(r, s) : i = j
  <2>1. Occurrences(r, s) = {i \in 1..Len(players[s]) : players[s][i] = r}
    BY <1>3 DEF Occurrences
  <2>2. \A i, j \in Occurrences(r, s) : i = j
    BY <1>2, <2>1 DEF PlayersKnown
  <2>3. ASSUME scache[r] = s PROVE Occurrences(r, s) # {}
    <3>1. phase[r] = "served" /\ req[r].stream = s
      BY <1>2, <2>3, SignallingAssumption DEF HandlersKnow
    <3>2. QED
      BY <1>2, <1>4, <2>1, <3>1 DEF PlayersKnown
  <2>4. ASSUME Occurrences(r, s) # {} PROVE scache[r] = s
    <3>1. req[r] = [kind |-> "play", stream |-> s] /\ phase[r] = "served"
      BY <1>2, <2>1, <2>4 DEF PlayersKnown
    <3>2. QED
      BY <1>2, <3>1 DEF HandlersKnow
  <2>5. QED
    BY <2>2, <2>3, <2>4
<1>5. ASSUME NEW s \in Streams, publisher[s] # None
      PROVE  scache[publisher[s]] = s /\ IsPublish(publisher[s])
  <2>1. /\ publisher[s] \in Requests
        /\ req[publisher[s]] = [kind |-> "publish", stream |-> s]
        /\ phase[publisher[s]] = "served"
    BY <1>2, <1>5 DEF TypeOK, PublisherKnown
  <2>2. QED
    BY <1>2, <2>1 DEF HandlersKnow, IsPublish
<1>6. QED
  BY <1>4, <1>5 DEF AttachmentAgrees

\* A peer and the cache it is attached to always agree on it.
THEOREM AttachmentsAgree == Spec => []AttachmentAgrees
  BY KnownAttachmentAgrees, InductiveInvariant, PTL

-----------------------------------------------------------------------------
(* What only grows. *)

\* CreateRtcPeer leaves registered names alone.
LEMMA CreateKeepsNames ==
    ASSUME IInv, NEW r \in Requests, CreateRtcPeer(r)
    PROVE  \A u \in Ufrags : SarsPeersUfragMaps[u] # None =>
               SarsPeersUfragMaps'[u] = SarsPeersUfragMaps[u]
  BY DEF IInv, TypeOK, CreateRtcPeer, RegisterPeer

\* A step that touches neither caches nor attachments grows if it keeps names.
LEMMA KeepingGrows ==
    ASSUME IInv, UNCHANGED <<CanPublish, publisher, players, scache>>,
           \A u \in Ufrags : SarsPeersUfragMaps[u] # None =>
               SarsPeersUfragMaps'[u] = SarsPeersUfragMaps[u]
    PROVE  Grows
<1>1. \A s \in Streams : Len(players[s]) \in Nat
  BY PlayersAreRequests DEF IInv
<1>2. \A s \in Streams : ~CanPublish[s] => publisher[s] # None
  BY DEF IInv, PublisherKnown
<1>3. QED
  BY <1>1, <1>2 DEF Grows

\* Every step of every handler only grows what clients rely on.
LEMMA NextGrows == IInv /\ [Next]_sigVars => [Grows]_sigVars
<1>1. SUFFICES ASSUME IInv, NEW r \in Requests, Handle(r) PROVE Grows
  BY DEF Next
<1>2. CASE Arrive(r) \/ ServeOther(r) \/ RejectBody(r) \/ AnswerLeaves(r)
  BY <1>1, <1>2, KeepingGrows
  DEF Arrive, ServeOther, RejectBody, AnswerLeaves, cacheVars, peerVars
<1>3. CASE HandlePublish(r) \/ HandlePlay(r)
  <2>1. Refuse(r) \/ Admit(r)
    BY <1>3 DEF HandlePublish, HandlePlay
  <2>2. CASE Refuse(r)
    BY <1>1, <2>2, KeepingGrows DEF Refuse, peerVars
  <2>3. CASE Admit(r)
    BY <1>1, <2>3, KeepingGrows, CreateKeepsNames DEF Admit
  <2>4. QED
    BY <2>1, <2>2, <2>3
<1>4. \A s \in Streams : Len(players[s]) \in Nat
  BY <1>1, PlayersAreRequests DEF IInv
<1>5. phase[r] = "writing" => scache[r] = None /\ req[r].stream \in Streams
  BY <1>1 DEF IInv, HandlersKnow, Asked
<1>6. CASE SetPublisher(r)
  <2>1. /\ phase[r] = "writing"
        /\ CanPublish' = [CanPublish EXCEPT ![req[r].stream] = FALSE]
        /\ publisher' = [publisher EXCEPT ![req[r].stream] = r]
        /\ scache' = [scache EXCEPT ![r] = req[r].stream]
        /\ UNCHANGED <<players, SarsPeersUfragMaps>>
    BY <1>6 DEF SetPublisher, WriteReturns, peerVars
  <2>2. \A s \in Streams : ~CanPublish[s] => publisher[s] # None
    BY <1>1 DEF IInv, PublisherKnown
  <2>3. /\ CanPublish \in [Streams -> BOOLEAN]
        /\ publisher \in [Streams -> Requests \cup {None}]
        /\ scache \in [Requests -> Streams \cup {None}]
    BY <1>1 DEF IInv, TypeOK
  <2>4. \A s \in Streams :
          ~CanPublish[s] => ~CanPublish'[s] /\ publisher'[s] # None
    BY <2>1, <2>2, <2>3, SignallingAssumption
  <2>5. \A q \in Requests : scache[q] # None => scache'[q] = scache[q]
    BY <1>5, <2>1, <2>3
  <2>6. QED
    BY <1>4, <2>1, <2>4, <2>5 DEF Grows
<1>7. CASE AddPlayer(r)
  <2>1. /\ phase[r] = "writing"
        /\ players' = [players EXCEPT ![req[r].stream] = Append(@, r)]
        /\ scache' = [scache EXCEPT ![r] = req[r].stream]
        /\ UNCHANGED <<CanPublish, publisher, SarsPeersUfragMaps>>
    BY <1>7 DEF AddPlayer, WriteReturns, peerVars
  <2>2. \A s \in Streams : ~CanPublish[s] => publisher[s] # None
    BY <1>1 DEF IInv, PublisherKnown
  <2>3. /\ players \in [Streams -> Seq(Requests)]
        /\ scache \in [Requests -> Streams \cup {None}]
    BY <1>1 DEF IInv, TypeOK
  <2>4. ASSUME NEW s \in Streams
        PROVE  /\ Len(players[s]) <= Len(players'[s])
               /\ \A i \in 1..Len(players[s]) : players'[s][i] = players[s][i]
    <3>1. CASE s = req[r].stream
      BY <2>1, <2>3, <3>1
    <3>2. CASE s # req[r].stream
      <4>1. players'[s] = players[s]
        BY <2>1, <2>3, <3>2
      <4>2. QED
        BY <1>4, <4>1
    <3>3. QED
      BY <3>1, <3>2
  <2>5. \A q \in Requests : scache[q] # None => scache'[q] = scache[q]
    BY <1>5, <2>1, <2>3
  <2>6. QED
    BY <2>1, <2>2, <2>4, <2>5 DEF Grows
<1>8. QED
  BY <1>1, <1>2, <1>3, <1>6, <1>7 DEF Handle

\* Nothing that a client relies on is ever unbound or rebound.
THEOREM NothingIsLost == Spec => OnlyGrows
<1>1. IInv /\ [Next]_sigVars => [Grows]_sigVars
  BY NextGrows
<1>2. QED
  BY <1>1, InductiveInvariant, PTL DEF Spec, OnlyGrows

-----------------------------------------------------------------------------
(* What the other threads rely on while a handler runs. *)

\* A peer that was given a name has a connection.
NamedAreConnected == \A r \in Requests : ufrag[r] # None => r \in hasPC

\* A step of a handler, or none: names keep their peers, and connections stay.
LEMMA HandlersKeepNames ==
    ASSUME IInv, NamedAreConnected, [Next]_sigVars
    PROVE  /\ IInv'
           /\ NamedAreConnected'
           /\ hasPC \subseteq hasPC'
           /\ \A u \in Ufrags : SarsPeersUfragMaps[u] # None =>
                  SarsPeersUfragMaps'[u] = SarsPeersUfragMaps[u]
<1>1. IInv'
  BY NextPreservesIInv
<1>2. [Grows]_sigVars
  BY NextGrows
<1>3. \A u \in Ufrags : SarsPeersUfragMaps[u] # None =>
          SarsPeersUfragMaps'[u] = SarsPeersUfragMaps[u]
  BY <1>2 DEF Grows, sigVars, peerVars
<1>4. hasPC \subseteq hasPC' /\ NamedAreConnected'
  <2>1. CASE UNCHANGED <<hasPC, ufrag>>
    BY <2>1 DEF NamedAreConnected
  <2>2. CASE \E r \in Requests : CreateRtcPeer(r)
    <3>1. PICK r \in Requests : CreateRtcPeer(r)
      BY <2>2
    <3>2. DOMAIN ufrag = Requests
      BY DEF IInv, TypeOK
    <3>3. QED
      BY <3>1, <3>2 DEF CreateRtcPeer, NamedAreConnected
  <2>3. QED
    BY <2>1, <2>2
    DEF Next, Handle, Arrive, ServeOther, RejectBody, HandlePublish, HandlePlay,
        Admit, Refuse, AnswerLeaves, SetPublisher, AddPlayer, sigVars, peerVars
<1>5. QED
  BY <1>1, <1>3, <1>4

\* A handler that has admitted its request goes on with it, to the end; its peer
\* keeps its name, and answers cannot be taken back.
LEMMA HandlersMoveOn ==
    ASSUME IInv, [Next]_sigVars
    PROVE  /\ answered \subseteq answered'
           /\ \A r \in Requests :
                 /\ phase[r] \in {"writing", "served"} =>
                       /\ req'[r] = req[r]
                       /\ phase'[r] \in {phase[r], "served"}
                 /\ ufrag[r] # None => ufrag'[r] = ufrag[r]
           /\ \A s \in Streams : Len(players'[s]) <= Len(players[s]) + 1
<1> USE DEF IInv, TypeOK
<1>1. ASSUME NEW r \in Requests, phase[r] = "reading", CreateRtcPeer(r)
      PROVE  \A q \in Requests : ufrag[q] # None => ufrag'[q] = ufrag[q]
  BY <1>1, SignallingAssumption DEF CreateRtcPeer, HandlersKnow
<1>2. \A q \in Requests : ufrag[q] # None => ufrag'[q] = ufrag[q]
  BY <1>1
  DEF Next, Handle, Arrive, ServeOther, RejectBody, HandlePublish, HandlePlay,
      Admit, Refuse, AnswerLeaves, SetPublisher, AddPlayer, sigVars, peerVars
<1>3. answered \subseteq answered'
  BY DEF Next, Handle, Arrive, ServeOther, RejectBody, HandlePublish, HandlePlay,
         Admit, Refuse, AnswerLeaves, SetPublisher, AddPlayer, WriteReturns,
         sigVars, peerVars
<1>4. ASSUME NEW q \in Requests, phase[q] \in {"writing", "served"}
      PROVE  req'[q] = req[q] /\ phase'[q] \in {phase[q], "served"}
  BY <1>4
  DEF Next, Handle, Arrive, ServeOther, RejectBody, HandlePublish, HandlePlay,
      Admit, Refuse, AnswerLeaves, SetPublisher, AddPlayer, WriteReturns,
      sigVars, peerVars
<1>5. ASSUME NEW s \in Streams PROVE Len(players'[s]) <= Len(players[s]) + 1
  <2>1. Len(players[s]) \in Nat
    OBVIOUS
  <2>2. \/ UNCHANGED players
        \/ \E r \in Requests :
              players' = [players EXCEPT ![req[r].stream] = Append(@, r)]
    BY DEF Next, Handle, Arrive, ServeOther, RejectBody, HandlePublish,
           HandlePlay, Admit, Refuse, AnswerLeaves, SetPublisher, AddPlayer,
           sigVars, cacheVars
  <2>3. \A r \in Requests : Len(Append(players[s], r)) = Len(players[s]) + 1
    OBVIOUS
  <2>4. \/ players'[s] = players[s]
        \/ \E r \in Requests : players'[s] = Append(players[s], r)
    BY <2>2
  <2>5. QED
    BY <2>1, <2>3, <2>4
<1>6. QED
  BY <1>2, <1>3, <1>4, <1>5

-----------------------------------------------------------------------------
(* The handlers implement StreamAccess. *)

Intents == [r \in Requests |-> IntentOf(r)]

\* A handler that does not move keeps its intent.
LEMMA IntentStays ==
    ASSUME NEW q, phase'[q] = phase[q], req'[q] = req[q]
    PROVE  IntentOf(q)' = IntentOf(q)
  BY DEF IntentOf, IsPublish

\* A step of one handler gives that handler the intent it ends in, and leaves
\* the others theirs.
LEMMA IntentMoves ==
    ASSUME TypeOK, NEW r \in Requests, NEW p,
           phase' = [phase EXCEPT ![r] = p], req' = req
    PROVE  Intents' = [Intents EXCEPT ![r] = IntentOf(r)']
<1>1. ASSUME NEW q \in Requests, q # r
      PROVE  IntentOf(q)' = IntentOf(q)
  <2>1. phase'[q] = phase[q] /\ req'[q] = req[q]
    BY <1>1 DEF TypeOK
  <2>2. QED
    BY <2>1, IntentStays
<1>2. QED
  BY <1>1 DEF Intents

\* A step that moves no intent and touches no cache is a stutter above.
LEMMA QuietStutters ==
    ASSUME UNCHANGED <<CanPublish, publisher, players>>,
           \A q \in Requests : IntentOf(q)' = IntentOf(q)
    PROVE  UNCHANGED Access!accessVars
<1>1. Live' = Live /\ Audience' = Audience
  BY DEF Live, Audience
<1>2. QED
  BY <1>1 DEF Access!accessVars

\* The empty tables are the empty StreamAccess.
LEMMA InitImplements == Init => Access!Init
<1>1. SUFFICES ASSUME Init PROVE Access!Init
  OBVIOUS
<1>2. Live = {}
  BY <1>1 DEF Init, Live
<1>3. Audience = [s \in Streams |-> {}]
  <2>1. \A s \in Streams : {players[s][i] : i \in 1..Len(players[s])} = {}
    BY <1>1 DEF Init
  <2>2. QED
    BY <2>1 DEF Audience
<1>4. \A r \in Requests : IntentOf(r) = [what |-> "nothing", on |-> None]
  BY <1>1 DEF Init, IntentOf
<1>5. publisher = [s \in Streams |-> None]
  BY <1>1 DEF Init
<1>6. QED
  BY <1>2, <1>3, <1>4, <1>5 DEF Access!Init, Access!NoIntent

\* Admission is a claim on a stream nobody publishes or a booking on one that
\* is published.
LEMMA AdmitImplements ==
    ASSUME IInv, NEW r \in Requests, phase[r] = "reading", Admit(r),
           IsPublish(r) <=> CanPublish[req[r].stream]
    PROVE  Access!Next
<1> DEFINE s == req[r].stream
<1>1. s \in Streams
  BY DEF IInv, HandlersKnow, Asked
<1>2. /\ phase' = [phase EXCEPT ![r] = "writing"]
      /\ UNCHANGED <<req, CanPublish, publisher, players>>
  BY DEF Admit
<1>3. TypeOK
  BY DEF IInv
<1>4. Intents' = [Intents EXCEPT ![r] = IntentOf(r)']
  BY <1>2, <1>3, IntentMoves
<1>5. Live' = Live /\ Audience' = Audience
  BY <1>2 DEF Live, Audience
<1>6. phase'[r] = "writing" /\ req'[r] = req[r]
  BY <1>2, <1>3 DEF TypeOK
<1>7. IntentOf(r) = [what |-> "nothing", on |-> None]
  BY DEF IntentOf
<1>8. s \in Live <=> ~IsPublish(r)
  BY <1>1 DEF Live
<1>9. CASE IsPublish(r)
  <2>1. IntentOf(r)' = [what |-> "claim", on |-> s]
    BY <1>6, <1>9 DEF IntentOf, IsPublish
  <2>2. Access!Claim(r, s)
    BY <1>2, <1>4, <1>5, <1>7, <1>8, <1>9, <2>1
    DEF Access!Claim, Access!NoIntent, Intents
  <2>3. QED
    BY <1>1, <2>2 DEF Access!Next
<1>10. CASE ~IsPublish(r)
  <2>1. IntentOf(r)' = [what |-> "book", on |-> s]
    BY <1>6, <1>10 DEF IntentOf, IsPublish
  <2>2. Access!Book(r, s)
    BY <1>2, <1>4, <1>5, <1>7, <1>8, <1>10, <2>1
    DEF Access!Book, Access!NoIntent, Intents
  <2>3. QED
    BY <1>1, <2>2 DEF Access!Next
<1>11. QED
  BY <1>9, <1>10

\* SetPublisher takes the stream its handler claimed.
LEMMA SetPublisherImplements ==
    ASSUME IInv, NEW r \in Requests, SetPublisher(r)
    PROVE  Access!Next
<1> DEFINE s == req[r].stream
<1>1. /\ phase[r] = "writing"
      /\ IsPublish(r)
      /\ phase' = [phase EXCEPT ![r] = "served"]
      /\ CanPublish' = [CanPublish EXCEPT ![s] = FALSE]
      /\ publisher' = [publisher EXCEPT ![s] = r]
      /\ UNCHANGED <<req, players>>
  BY DEF SetPublisher, WriteReturns
<1>2. TypeOK /\ CanPublish \in [Streams -> BOOLEAN]
  BY DEF IInv, TypeOK
<1>3. s \in Streams
  BY <1>1 DEF IInv, HandlersKnow, Asked
<1>4. Intents' = [Intents EXCEPT ![r] = IntentOf(r)']
  BY <1>1, <1>2, IntentMoves
<1>5. phase'[r] = "served" /\ req'[r] = req[r]
  BY <1>1, <1>2 DEF TypeOK
<1>6. IntentOf(r) = [what |-> "claim", on |-> s]
  BY <1>1 DEF IntentOf
<1>7. IntentOf(r)' = [what |-> "done", on |-> s]
  BY <1>5 DEF IntentOf
<1>8. Live' = Live \cup {s}
  BY <1>1, <1>2, <1>3 DEF Live
<1>9. Audience' = Audience
  BY <1>1 DEF Audience
<1>10. Access!Take(r, s)
  BY <1>1, <1>4, <1>6, <1>7, <1>8, <1>9 DEF Access!Take, Intents
<1>11. QED
  BY <1>3, <1>10 DEF Access!Next

\* AddPlayer joins the audience its handler booked.
LEMMA AddPlayerImplements ==
    ASSUME IInv, NEW r \in Requests, AddPlayer(r)
    PROVE  Access!Next
<1> DEFINE s == req[r].stream
<1>1. /\ phase[r] = "writing"
      /\ IsPlay(r)
      /\ phase' = [phase EXCEPT ![r] = "served"]
      /\ players' = [players EXCEPT ![s] = Append(@, r)]
      /\ UNCHANGED <<req, CanPublish, publisher>>
  BY DEF AddPlayer, WriteReturns
<1>2. TypeOK /\ players \in [Streams -> Seq(Requests)]
  BY DEF IInv, TypeOK
<1>3. s \in Streams
  BY <1>1 DEF IInv, HandlersKnow, Asked
<1>4. Intents' = [Intents EXCEPT ![r] = IntentOf(r)']
  BY <1>1, <1>2, IntentMoves
<1>5. phase'[r] = "served" /\ req'[r] = req[r]
  BY <1>1, <1>2 DEF TypeOK
<1>6. IntentOf(r) = [what |-> "book", on |-> s]
  BY <1>1 DEF IntentOf, IsPublish, IsPlay
<1>7. IntentOf(r)' = [what |-> "done", on |-> s]
  BY <1>5 DEF IntentOf
<1>8. Live' = Live
  BY <1>1 DEF Live
<1>9. Audience' = [Audience EXCEPT ![s] = @ \cup {r}]
  <2>1. /\ players'[s] = Append(players[s], r)
        /\ \A t \in Streams : t # s => players'[t] = players[t]
    BY <1>1, <1>2, <1>3
  <2>2. {players'[s][i] : i \in 1..Len(players'[s])} = Audience[s] \cup {r}
    <3>1. players[s] \in Seq(Requests) /\ Len(players[s]) \in Nat
      BY <1>2, <1>3
    <3>2. /\ Len(players'[s]) = Len(players[s]) + 1
          /\ players'[s][Len(players[s]) + 1] = r
          /\ \A i \in 1..Len(players[s]) : players'[s][i] = players[s][i]
      BY <2>1, <3>1
    <3>3. Audience[s] = {players[s][i] : i \in 1..Len(players[s])}
      BY <1>3 DEF Audience
    <3>4. \A i : i \in 1..Len(players'[s]) <=>
                  i \in 1..Len(players[s]) \/ i = Len(players[s]) + 1
      BY <3>1, <3>2
    <3>5. \A x : x \in {players'[s][i] : i \in 1..Len(players'[s])} <=>
                  x \in Audience[s] \cup {r}
      <4>1. ASSUME NEW x, x \in {players'[s][i] : i \in 1..Len(players'[s])}
            PROVE  x \in Audience[s] \cup {r}
        <5>1. PICK i \in 1..Len(players'[s]) : x = players'[s][i]
          BY <4>1, Zenon
        <5>2. i \in 1..Len(players[s]) \/ i = Len(players[s]) + 1
          BY <3>4, Zenon
        <5>3. QED
          BY <3>2, <3>3, <5>1, <5>2, Zenon
      <4>2. ASSUME NEW x \in Audience[s]
            PROVE  x \in {players'[s][i] : i \in 1..Len(players'[s])}
        <5>1. PICK i \in 1..Len(players[s]) : x = players[s][i]
          BY <3>3, Zenon
        <5>2. i \in 1..Len(players'[s]) /\ players'[s][i] = players[s][i]
          BY <3>2, <3>4, Zenon
        <5>3. QED
          BY <5>1, <5>2, Zenon
      <4>3. r \in {players'[s][i] : i \in 1..Len(players'[s])}
        <5>1. Len(players[s]) + 1 \in 1..Len(players'[s])
          BY <3>4, Zenon
        <5>2. QED
          BY <3>2, <5>1, Zenon
      <4>4. QED
        BY <4>1, <4>2, <4>3
    <3>6. QED
      BY <3>5
  <2>3. \A t \in Streams : t # s =>
          {players'[t][i] : i \in 1..Len(players'[t])} = Audience[t]
    BY <2>1 DEF Audience
  <2>4. Audience' = [t \in Streams |->
                        {players'[t][i] : i \in 1..Len(players'[t])}]
    BY DEF Audience
  <2>5. [Audience EXCEPT ![s] = @ \cup {r}] =
            [t \in Streams |-> IF t = s THEN Audience[s] \cup {r}
                                       ELSE Audience[t]]
    BY DEF Audience
  <2>6. \A t \in Streams :
          {players'[t][i] : i \in 1..Len(players'[t])} =
              IF t = s THEN Audience[s] \cup {r} ELSE Audience[t]
    BY <2>2, <2>3
  <2>7. QED
    BY <2>4, <2>5, <2>6, Zenon
<1>10. Access!Join(r, s)
  BY <1>1, <1>4, <1>6, <1>7, <1>8, <1>9 DEF Access!Join, Intents
<1>11. QED
  BY <1>3, <1>10 DEF Access!Next

\* Every step of a handler is a step of StreamAccess or a stutter.
LEMMA NextImplements ==
    IInv /\ [Next]_sigVars => [Access!Next]_(Access!accessVars)
<1>1. CASE IInv /\ UNCHANGED sigVars
  <2>1. UNCHANGED <<CanPublish, publisher, players>>
    BY <1>1 DEF sigVars, cacheVars
  <2>2. \A q \in Requests : IntentOf(q)' = IntentOf(q)
    BY <1>1, IntentStays DEF sigVars
  <2>3. QED
    BY <2>1, <2>2, QuietStutters
<1>2. ASSUME IInv, NEW r \in Requests, Handle(r)
      PROVE  [Access!Next]_(Access!accessVars)
  <2>1. /\ phase \in [Requests -> Phases]
        /\ DOMAIN req = Requests
        /\ phase[r] = "reading" => req[r] \in Asked
    BY <1>2 DEF IInv, TypeOK, HandlersKnow
  <2>2. CASE Arrive(r) \/ ServeOther(r) \/ RejectBody(r) \/ AnswerLeaves(r)
             \/ (Refuse(r) /\ phase[r] = "reading")
    <3>1. UNCHANGED <<CanPublish, publisher, players>>
      BY <2>2 DEF Arrive, ServeOther, RejectBody, AnswerLeaves, Refuse,
                  cacheVars
    <3>2. \A q \in Requests : q # r => phase'[q] = phase[q] /\ req'[q] = req[q]
      BY <2>1, <2>2
      DEF Arrive, ServeOther, RejectBody, AnswerLeaves, Refuse
    <3>3. \/ phase'[r] = phase[r] /\ req'[r] = req[r]
          \/ /\ phase[r] \in {"idle", "reading"}
             /\ phase'[r] \in {"reading", "refused"}
      BY <2>1, <2>2
      DEF Arrive, ServeOther, RejectBody, AnswerLeaves, Refuse
    <3>4. IntentOf(r)' = IntentOf(r)
      BY <3>3 DEF IntentOf, IsPublish
    <3>5. \A q \in Requests : IntentOf(q)' = IntentOf(q)
      BY <3>2, <3>4, IntentStays
    <3>6. QED
      BY <3>1, <3>5, QuietStutters
  <2>3. CASE HandlePublish(r) \/ HandlePlay(r)
    <3>1. phase[r] = "reading"
      BY <2>3 DEF HandlePublish, HandlePlay
    <3>2. \/ Refuse(r)
          \/ Admit(r) /\ (IsPublish(r) <=> CanPublish[req[r].stream])
      BY <2>3 DEF HandlePublish, HandlePlay, IsPublish, IsPlay
    <3>3. QED
      BY <1>2, <2>2, <3>1, <3>2, AdmitImplements
  <2>4. CASE SetPublisher(r) \/ AddPlayer(r)
    <3>1. Access!Next
      BY <1>2, <2>4, SetPublisherImplements, AddPlayerImplements
    <3>2. QED
      BY <3>1
  <2>5. \/ Arrive(r) \/ ServeOther(r) \/ RejectBody(r) \/ AnswerLeaves(r)
        \/ HandlePublish(r) \/ HandlePlay(r)
        \/ SetPublisher(r) \/ AddPlayer(r)
    BY <1>2 DEF Handle
  <2>6. QED
    BY <2>2, <2>3, <2>4, <2>5
<1>3. QED
  BY <1>1, <1>2 DEF Next

\* The handlers, with all that other threads do while one of them is blocked,
\* implement StreamAccess.
THEOREM HandlersImplementAccess == Spec => ImplementsAccess
<1>1. Init => Access!Init
  BY InitImplements
<1>2. IInv /\ [Next]_sigVars => [Access!Next]_(Access!accessVars)
  BY NextImplements
<1>3. QED
  BY <1>1, <1>2, InductiveInvariant, PTL
  DEF Spec, ImplementsAccess, Access!Spec

=============================================================================
