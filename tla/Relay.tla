------------------------------- MODULE Relay --------------------------------
(***************************************************************************)
(* The media plane of sars: the callbacks of RtcPublisher and RtcPlayer    *)
(* (rtc_publisher.cpp, rtc_player.cpp) and StreamCache_::CacheMedia        *)
(* (scache.cpp), which hands each frame of a publisher to the players of   *)
(* its stream, one after another, while the handlers of Signalling attach  *)
(* more.                                                                   *)
(*                                                                         *)
(* The callbacks come from webrtc-core, on the thread that called it: the  *)
(* one in RTCServer::Cycle for a datagram, or main for a timer.  Feeding a *)
(* player makes webrtc-core send, and a send may block its thread, so that *)
(* CacheMedia is one action per player.                                    *)
(***************************************************************************)
EXTENDS Signalling, SequencesExt

CONSTANTS
    Threads,         \* the threads that run callbacks
    MaxFrames        \* bound: the frames each publisher receives

ASSUME RelayAssumption == MaxFrames \in Nat

VARIABLES
    state,       \* RtcPeer::peerconnection_state_
    received,    \* how many frames each publisher has received
    relay,       \* the CacheMedia call of each thread, if it is in one
    capacity,    \* the capacity of StreamCache_::players
    fed,         \* history: the frames each player was fed
    asked,       \* history: whom each player asked for an I frame last, in the
                 \* connection it has
    fault        \* the undefined behaviour that ended the process, if any, and
                 \* the peer whose callback met it

mediaVars == <<state, received, relay, capacity, fed, asked, fault>>
relayVars == <<sigVars, mediaVars>>

\* A frame: its publisher, its number there, and the thread that relays it.
Frames == [from : Requests, number : 1..MaxFrames, by : Threads]

NoFault == [why |-> "none", peer |-> None]

Idle == [on |-> None]
Busy(t) == relay[t] # Idle

\* A CacheMedia call: the stream, the frame, the next index, the end that the
\* range-based for took at its start, the players connected ever since (a
\* history), and whether the vector has moved.
Calls == [on : Streams, frame : Frames, at : Nat, end : Nat,
          due : SUBSET Requests, wild : BOOLEAN]

RelayTypeOK ==
    /\ TypeOK
    /\ state \in [Requests -> {"new", "connected", "gone"}]
    /\ received \in [Requests -> 0..MaxFrames]
    /\ relay \in [Threads -> Calls \cup {Idle}]
    /\ \A t \in Threads : Busy(t) => relay[t].at \in 1..(relay[t].end + 1)
    /\ capacity \in [Streams -> Nat]
    /\ \A s \in Streams : Len(players[s]) <= capacity[s]
    /\ fed \in [Requests -> Seq(Frames)]
    /\ asked \in [Requests -> Requests \cup {None}]
    /\ fault \in [why : {"none", "null", "wild"}, peer : Requests \cup {None}]

RelayInit ==
    /\ Init
    /\ state = [r \in Requests |-> "new"]
    /\ received = [r \in Requests |-> 0]
    /\ relay = [t \in Threads |-> Idle]
    /\ capacity = [s \in Streams |-> 0]
    /\ fed = [r \in Requests |-> << >>]
    /\ asked = [r \in Requests |-> None]
    /\ fault = NoFault

-----------------------------------------------------------------------------

\* Thread t returns from a receive or a sleep and enters webrtc-core.
MayCall(t) == running /\ ~Busy(t)

\* The process dies of undefined behaviour in a callback of peer p.
Crash(why, p) ==
    /\ running' = FALSE
    /\ fault' = [why |-> why, peer |-> p]
    /\ UNCHANGED <<phase, req, cacheVars, peerVars, scache, answered, state,
                   received, relay, capacity, fed, asked>>

\* players.push_back doubles a full vector, and frees the elements that the
\* CacheMedia calls on that stream are iterating over.
Reallocate ==
    LET full == {s \in Streams : Len(players'[s]) > capacity[s]} IN
    /\ capacity' = [s \in Streams |->
          IF s \notin full THEN capacity[s]
          ELSE IF capacity[s] = 0 THEN 1 ELSE 2 * capacity[s]]
    /\ relay' = [t \in Threads |->
          IF Busy(t) /\ relay[t].on \in full
          THEN [relay[t] EXCEPT !.wild = TRUE] ELSE relay[t]]

\* A step of an HTTP handler, on a thread of its own.
Signal ==
    /\ Next
    /\ Reallocate
    /\ UNCHANGED <<state, received, fed, asked, fault>>

-----------------------------------------------------------------------------

\* webrtc-core can complete ICE and DTLS for a peer that has a connection, that
\* datagrams reach by its name, and whose client has the answer.
CanConnect(p) ==
    /\ state[p] # "connected"
    /\ p \in hasPC \cap answered
    /\ ufrag[p] # None /\ SarsPeersUfragMaps[ufrag[p]] = p

\* RtcPublisher::RequestIFrame on the publisher of the cache of player p, all
\* the pointers on the way being valid.
PublisherOf(p) == IF scache[p] = None THEN None ELSE publisher[scache[p]]
CanAsk(p) == PublisherOf(p) \in hasPC

\* Faulty variant: RtcPlayer does not override OnConnectionChange.
ConnectAsPeer(t, p) ==
    /\ MayCall(t)
    /\ CanConnect(p)
    /\ state' = [state EXCEPT ![p] = "connected"]
    /\ UNCHANGED <<sigVars, received, relay, capacity, fed, asked, fault>>

\* OnConnectionChange(kConnected), of RtcPeer or of RtcPlayer.
Connect(t, p) ==
    /\ MayCall(t)
    /\ CanConnect(p)
    /\ \/ /\ IsPlay(p) => CanAsk(p)
          /\ state' = [state EXCEPT ![p] = "connected"]
          /\ asked' = [asked EXCEPT ![p] = IF IsPlay(p) THEN PublisherOf(p) ELSE @]
          /\ UNCHANGED <<sigVars, received, relay, capacity, fed, fault>>
       \/ /\ IsPlay(p) /\ ~CanAsk(p)
          /\ Crash("null", p)

\* RtcPlayer::OnRequestIFrame, when the player's client lost a key frame.
RequestIFrame(t, p) ==
    /\ MayCall(t)
    /\ IsPlay(p) /\ state[p] = "connected"
    /\ \/ /\ CanAsk(p)
          /\ asked' = [asked EXCEPT ![p] = PublisherOf(p)]
          /\ UNCHANGED <<sigVars, state, received, relay, capacity, fed, fault>>
       \/ ~CanAsk(p) /\ Crash("null", p)

\* OnConnectionChange(kDisconnected, kFailed or kClosed).
Disconnect(t, p) ==
    /\ MayCall(t)
    /\ state[p] = "connected"
    /\ state' = [state EXCEPT ![p] = "gone"]
    /\ relay' = [u \in Threads |->
          IF Busy(u) THEN [relay[u] EXCEPT !.due = @ \ {p}] ELSE relay[u]]
    /\ asked' = [asked EXCEPT ![p] = None]
    /\ UNCHANGED <<sigVars, received, capacity, fed, fault>>

-----------------------------------------------------------------------------

StartRelay(t, p, s) ==
    /\ received' = [received EXCEPT ![p] = @ + 1]
    /\ relay' = [relay EXCEPT ![t] =
          [on |-> s,
           frame |-> [from |-> p, number |-> received[p] + 1, by |-> t],
           at |-> 1, end |-> Len(players[s]),
           due |-> {q \in ToSet(players[s]) : state[q] = "connected"},
           wild |-> FALSE]]
    /\ UNCHANGED <<sigVars, state, capacity, fed, asked, fault>>

CanReceive(t, p) ==
    /\ MayCall(t)
    /\ IsPublish(p) /\ state[p] = "connected"
    /\ received[p] < MaxFrames

\* Faulty variant: the cache is any stream's, not the one set at publication.
OnRecvMediaDataAnyCache(t, p) ==
    /\ CanReceive(t, p)
    /\ \E s \in streamIDs : StartRelay(t, p, s)

\* RtcPublisher::OnRecvMediaData, and the start of CacheMedia.
OnRecvMediaData(t, p) ==
    /\ CanReceive(t, p)
    /\ \/ scache[p] # None /\ StartRelay(t, p, scache[p])
       \/ scache[p] = None /\ Crash("null", p)

\* A step of CacheMedia in which nothing is sent.
NobodyFed == UNCHANGED <<sigVars, state, received, capacity, fed, asked, fault>>

\* What one turn of the loop in CacheMedia does to player p: the frame is fed
\* to it if it is connected.
Turn(t, p) ==
    /\ fed' = IF state[p] = "connected"
              THEN [fed EXCEPT ![p] = Append(@, relay[t].frame)] ELSE fed
    /\ UNCHANGED <<sigVars, state, received, capacity, asked, fault>>

\* Faulty variant: the loop tests the size of the vector every time.
FeedPlayerIndexed(t) ==
    /\ running /\ Busy(t)
    /\ relay[t].at <= Len(players[relay[t].on])
    /\ relay' = [relay EXCEPT ![t].at = @ + 1]
    /\ Turn(t, players[relay[t].on][relay[t].at])

\* Faulty variant: break instead of continue.
FeedPlayerBreak(t) ==
    /\ running /\ Busy(t)
    /\ relay[t].at <= relay[t].end
    /\ LET p == players[relay[t].on][relay[t].at] IN
          /\ relay' = [relay EXCEPT ![t].at =
                IF state[p] = "connected" THEN @ + 1 ELSE relay[t].end + 1]
          /\ Turn(t, p)

\* Faulty variant: continue without an increment.
FeedPlayerStuck(t) ==
    /\ running /\ Busy(t)
    /\ relay[t].at <= relay[t].end
    /\ LET p == players[relay[t].on][relay[t].at] IN
          /\ relay' = IF state[p] = "connected"
                      THEN [relay EXCEPT ![t].at = @ + 1] ELSE relay
          /\ Turn(t, p)

\* Faulty variant: the frame is fed again when the send was interrupted.
FeedPlayerRetry(t) ==
    /\ running /\ Busy(t)
    /\ relay[t].at <= relay[t].end
    /\ relay' \in {relay, [relay EXCEPT ![t].at = @ + 1]}
    /\ Turn(t, players[relay[t].on][relay[t].at])

\* One turn of the loop.  In a vector that has moved it reads freed memory: the
\* old element, what does not look like a connected player and is passed over,
\* or what it crashes on.
FeedPlayer(t) ==
    /\ running /\ Busy(t)
    /\ relay[t].at <= relay[t].end
    /\ \/ /\ relay' = [relay EXCEPT ![t].at = @ + 1]
          /\ \/ Turn(t, players[relay[t].on][relay[t].at])
             \/ relay[t].wild /\ NobodyFed
       \/ relay[t].wild /\ Crash("wild", relay[t].frame.from)

\* The loop ends, and the thread returns to its receive or its sleep.
ReturnFromCacheMedia(t) ==
    /\ running /\ Busy(t)
    /\ relay[t].at > relay[t].end
    /\ relay' = [relay EXCEPT ![t] = Idle]
    /\ NobodyFed

CacheMedia(t) == FeedPlayer(t) \/ ReturnFromCacheMedia(t)

RelayNext ==
    \/ Signal
    \/ \E t \in Threads :
          \/ CacheMedia(t)
          \/ \E p \in Requests :
                \/ Connect(t, p)
                \/ RequestIFrame(t, p)
                \/ Disconnect(t, p)
                \/ OnRecvMediaData(t, p)

RelaySpec == RelayInit /\ [][RelayNext]_relayVars

-----------------------------------------------------------------------------
(***************************************************************************)
(* Properties.                                                             *)
(***************************************************************************)

\* The callbacks dereference _scache, _publisher and peer_connection_ without
\* a test (rtc_player.cpp:25 and :31, rtc_publisher.cpp:17 and :24).  They find
\* a null pointer in two cases only: the client of the peer had its answer and
\* connected while the handler of its request was still in Write, or the peer
\* plays the stream of a publisher that could not be created.  And iterators
\* dangle (scache.cpp:29) only in a call for that peer during which the vector
\* outgrew what the loop took for its end.
FaultsHaveCauses ==
    LET p == fault.peer IN
    /\ fault.why = "null" =>
          \/ phase[p] = "writing" /\ p \in answered
          \/ IsPlay(p) /\ PublisherOf(p) # None /\ ufrag[PublisherOf(p)] = None
    /\ fault.why = "wild" =>
          \E t \in Threads : Busy(t) /\ relay[t].frame.from = p
                            /\ relay[t].end < Len(players[relay[t].on])

\* CacheMedia passes over nobody (scache.cpp:29-33): what a player that is
\* connected throughout the call has not been fed when its turn is over, it
\* never gets.  A call whose iterators dangle has lost its players.
NobodySkipped ==
    \A t \in Threads : Busy(t) /\ ~relay[t].wild =>
        \A i \in 1..(relay[t].at - 1) :
            LET p == players[relay[t].on][i] IN
            p \in relay[t].due => relay[t].frame \in ToSet(fed[p])

\* The loop of CacheMedia may block at every player (scache.cpp:29-33), and the
\* other thread may start relaying meanwhile.  Frames of one publisher are fed
\* to a player in the order the publisher received them as far as one thread
\* relays them: a frame that main relays for a timer may be overtaken, and may
\* overtake.
FedInOrder ==
    \A p \in Requests : \A i, j \in DOMAIN fed[p] :
        LET f == fed[p][i]
            g == fed[p][j] IN
        i < j /\ f.from = g.from /\ f.by = g.by => f.number < g.number

\* A player that is connected has asked for an I frame in this very connection,
\* without which its client shows nothing (rtc_player.cpp:24-26), and has asked a
\* peer that publishes its own stream and has a connection to pass that on.
\* Where publish requests raced, it need not be the one that won.
KeyFrameAsked ==
    \A p \in Requests : IsPlay(p) /\ state[p] = "connected" =>
        /\ asked[p] \in hasPC /\ IsPublish(asked[p])
        /\ scache[p] # None /\ scache[asked[p]] = scache[p]

\* What FrameRelay sees of the peers, caches and calls.
Away == [on |-> None, as |-> None]
PlaceOf(p) ==
    IF scache[p] = None THEN Away ELSE [on |-> scache[p], as |-> req[p].kind]

Relayed ==
    INSTANCE FrameRelay WITH
        Peers <- Requests,
        Channels <- Streams,
        Nowhere <- Away,
        place <- [p \in Requests |-> PlaceOf(p)],
        sent <- received,
        seen <- [p \in Requests |->
                    [i \in DOMAIN fed[p] |-> <<fed[p][i].from, fed[p][i].number>>]]

\* The callbacks and the handlers together implement FrameRelay: players are
\* shown the frames of a publisher of their own stream and of no other, and no
\* frame twice, whatever the two threads do (rtc_publisher.cpp:15-18,
\* scache.cpp:26-34).
ImplementsFrameRelay == Relayed!Promise

=============================================================================
