----------------------------- MODULE Signalling -----------------------------
(***************************************************************************)
(* The control plane of sars: the HTTP handlers of WebRTCSignalling        *)
(* (signalling.cpp), the peer and stream tables of RTCServer they fill     *)
(* (rtc_server.cpp) and the fields of StreamCache_ they write (scache.cpp).*)
(*                                                                         *)
(* The process runs cooperative threads.  A handler runs alone until it    *)
(* blocks on its connection, which it does twice: in body_read_all and in  *)
(* Write.  Each handler is therefore two actions, and any other thread may *)
(* run between them.                                                       *)
(*                                                                         *)
(* A request creates at most one RtcPeer, so a peer is named by the        *)
(* request that created it.                                                *)
(***************************************************************************)
EXTENDS Naturals, Sequences

CONSTANTS
    Requests,        \* HTTP requests, and the peers they create
    Streams,         \* stream ids, what GetStreamIdFromStreamUrl returns
    Ufrags,          \* ICE names "<local ufrag>:<remote ufrag>"
    None,            \* nullptr, an absent key, an empty name
    CreateMayFail,   \* CreateRtcPeer can return -1
    AnswerMayLead    \* the answer can reach the client before Write returns

ASSUME SignallingAssumption ==
    /\ None \notin Requests \cup Streams \cup Ufrags
    /\ CreateMayFail \in BOOLEAN
    /\ AnswerMayLead \in BOOLEAN

VARIABLES
    running,              \* the process has not called exit nor terminated
    phase,                \* where the handler of each request stands
    req,                  \* what each request asks for
    streamIDs,            \* the keys of SarsPeersStreamIDMaps
    CanPublish,           \* StreamCache_::CanPublish
    publisher,            \* StreamCache_::_publisher
    players,              \* StreamCache_::players
    SarsPeersUfragMaps,   \* ICE name -> registered peer
    hasPC,                \* peers whose peer_connection_ is set
    ufrag,                \* RtcPeer::ufrag
    scache,               \* RtcPublisher::_scache, RtcPlayer::_scache
    answered              \* requests whose client has received the answer

peerVars == <<SarsPeersUfragMaps, hasPC, ufrag>>
cacheVars == <<streamIDs, CanPublish, publisher, players>>
sigVars == <<running, phase, req, cacheVars, peerVars, scache, answered>>

Kinds == {"publish", "play"}
Phases == {"idle", "reading", "writing", "served", "refused"}

IsPublish(r) == req[r].kind = "publish"
IsPlay(r) == req[r].kind = "play"

(***************************************************************************)
(* The type invariant.                                                     *)
(***************************************************************************)
TypeOK ==
    /\ running \in BOOLEAN
    /\ phase \in [Requests -> Phases]
    /\ req \in [Requests -> [kind : Kinds, stream : Streams] \cup
                            [kind : {None}, stream : {None}]]
    /\ streamIDs \in SUBSET Streams
    /\ CanPublish \in [Streams -> BOOLEAN]
    /\ publisher \in [Streams -> Requests \cup {None}]
    /\ players \in [Streams -> Seq(Requests)]
    /\ SarsPeersUfragMaps \in [Ufrags -> Requests \cup {None}]
    /\ hasPC \in SUBSET Requests
    /\ ufrag \in [Requests -> Ufrags \cup {None}]
    /\ scache \in [Requests -> Streams \cup {None}]
    /\ answered \in SUBSET Requests

-----------------------------------------------------------------------------

Init ==
    /\ running = TRUE
    /\ phase = [r \in Requests |-> "idle"]
    /\ req = [r \in Requests |-> [kind |-> None, stream |-> None]]
    /\ streamIDs = {}
    /\ CanPublish = [s \in Streams |-> TRUE]
    /\ publisher = [s \in Streams |-> None]
    /\ players = [s \in Streams |-> << >>]
    /\ SarsPeersUfragMaps = [u \in Ufrags |-> None]
    /\ hasPC = {}
    /\ ufrag = [r \in Requests |-> None]
    /\ scache = [r \in Requests |-> None]
    /\ answered = {}

\* The mux hands a request to PublishHandler or PlayHandler, and the handler
\* of a POST blocks in body_read_all.
Arrive(r) ==
    /\ running
    /\ phase[r] = "idle"
    /\ \E k \in Kinds, s \in Streams :
          req' = [req EXCEPT ![r] = [kind |-> k, stream |-> s]]
    /\ phase' = [phase EXCEPT ![r] = "reading"]
    /\ UNCHANGED <<running, cacheVars, peerVars, scache, answered>>

\* Requests that reach no stream: another method is answered with 404, other
\* paths by DefaultHandler, which exits if it cannot open index.html.
ServeOther(r) ==
    /\ running
    /\ phase[r] = "idle"
    /\ \/ phase' = [phase EXCEPT ![r] = "refused"] /\ UNCHANGED running
       \/ running' = FALSE /\ UNCHANGED phase
    /\ UNCHANGED <<req, cacheVars, peerVars, scache, answered>>

\* The body is not the JSON the handler expects, or the stream url has no last
\* segment.  GetStreamIdFromStreamUrl calls exit(1); the JSON library throws,
\* which ends the process unless the HTTP library catches it.
RejectBody(r) ==
    /\ running
    /\ phase[r] = "reading"
    /\ \/ running' = FALSE /\ UNCHANGED phase
       \/ phase' = [phase EXCEPT ![r] = "refused"] /\ UNCHANGED running
    /\ UNCHANGED <<req, cacheVars, peerVars, scache, answered>>

\* Faulty variant: operator[] instead of emplace.
RegisterOverwrites(r, u) ==
    SarsPeersUfragMaps' = [SarsPeersUfragMaps EXCEPT ![u] = r]

\* SarsPeersUfragMaps.emplace: an existing entry is kept.
RegisterPeer(r, u) ==
    SarsPeersUfragMaps' =
        IF SarsPeersUfragMaps[u] = None
        THEN [SarsPeersUfragMaps EXCEPT ![u] = r]
        ELSE SarsPeersUfragMaps

\* Faulty variant: the name is checked only after it was registered, so that a
\* peer whose offer has no ice-ufrag is registered under the empty name.
CreateRegistersEmptyName(r) ==
    /\ \/ \E u \in Ufrags :
             /\ RegisterPeer(r, u)
             /\ ufrag' = [ufrag EXCEPT ![r] = u]
       \/ /\ CreateMayFail
          /\ SarsPeersUfragMaps' =
                [u \in Ufrags \cup {None} |->
                    IF u = None THEN r ELSE SarsPeersUfragMaps[u]]
          /\ UNCHANGED ufrag
    /\ hasPC' = hasPC \cup {r}

\* Faulty variant: the name is given before the answer is checked, and the
\* early return leaves it unregistered.
CreateNamesTooEarly(r) ==
    /\ \E u \in Ufrags :
          /\ ufrag' = [ufrag EXCEPT ![r] = u]
          /\ \/ RegisterPeer(r, u)
             \/ CreateMayFail /\ UNCHANGED SarsPeersUfragMaps
    /\ hasPC' = hasPC \cup {r}

\* CreateRtcPeer.  It fails when there is no peer connection, or when the
\* offer or the answer has no ice-ufrag; then the peer is not registered.
\* CreateRtcPublisher and CreateRtcPlayer ignore its result.
CreateRtcPeer(r) ==
    \/ /\ \E u \in Ufrags :
             /\ RegisterPeer(r, u)
             /\ ufrag' = [ufrag EXCEPT ![r] = u]
       /\ hasPC' = hasPC \cup {r}
    \/ /\ CreateMayFail
       /\ hasPC' \in {hasPC, hasPC \cup {r}}
       /\ UNCHANGED <<SarsPeersUfragMaps, ufrag>>

\* What both handlers do once the body is read: get or create the stream's
\* cache, test CanPublish, and either return -15 without an answer or create
\* the peer and block in Write.  GetOrCreateStreamCache never returns nullptr
\* and neither do CreateRtcPublisher and CreateRtcPlayer, so that the returns
\* -13 and -14 are not taken.
Refuse(r) ==
    /\ phase' = [phase EXCEPT ![r] = "refused"]
    /\ streamIDs' = streamIDs \cup {req[r].stream}
    /\ UNCHANGED <<running, req, CanPublish, publisher, players, peerVars,
                   scache, answered>>

Admit(r) ==
    /\ CreateRtcPeer(r)
    /\ phase' = [phase EXCEPT ![r] = "writing"]
    /\ streamIDs' = streamIDs \cup {req[r].stream}
    /\ UNCHANGED <<running, req, CanPublish, publisher, players, scache,
                   answered>>

\* Faulty variant: HandlePublish does not test CanPublish.
PublishUnchecked(r) ==
    running /\ phase[r] = "reading" /\ IsPublish(r) /\ Admit(r)

\* HandlePublish up to Write.
HandlePublish(r) ==
    /\ running
    /\ phase[r] = "reading"
    /\ IsPublish(r)
    /\ IF CanPublish[req[r].stream] THEN Admit(r) ELSE Refuse(r)

\* Faulty variant: HandlePlay does not test CanPublish.
PlayUnchecked(r) ==
    running /\ phase[r] = "reading" /\ IsPlay(r) /\ Admit(r)

\* HandlePlay up to Write.
HandlePlay(r) ==
    /\ running
    /\ phase[r] = "reading"
    /\ IsPlay(r)
    /\ IF CanPublish[req[r].stream] THEN Refuse(r) ELSE Admit(r)

\* The last byte of the answer leaves while the handler is still in Write.
AnswerLeaves(r) ==
    /\ running
    /\ AnswerMayLead
    /\ phase[r] = "writing"
    /\ answered' = answered \cup {r}
    /\ UNCHANGED <<running, phase, req, cacheVars, peerVars, scache>>

\* Write returns, with an error if the client is gone.  Both handlers attach
\* the peer all the same.
WriteReturns(r) ==
    /\ running
    /\ phase[r] = "writing"
    /\ phase' = [phase EXCEPT ![r] = "served"]
    /\ answered' \in {answered, answered \cup {r}}

\* HandlePublish after Write: SetPublisher, then SetStreamCache.
SetPublisher(r) ==
    /\ IsPublish(r)
    /\ WriteReturns(r)
    /\ CanPublish' = [CanPublish EXCEPT ![req[r].stream] = FALSE]
    /\ publisher' = [publisher EXCEPT ![req[r].stream] = r]
    /\ scache' = [scache EXCEPT ![r] = req[r].stream]
    /\ UNCHANGED <<running, req, streamIDs, players, peerVars>>

\* Faulty variant: HandlePlay returns without SetStreamCache if Write failed.
AddPlayerThenGiveUp(r) ==
    /\ IsPlay(r)
    /\ WriteReturns(r)
    /\ players' = [players EXCEPT ![req[r].stream] = Append(@, r)]
    /\ scache' = IF r \in answered'
                 THEN [scache EXCEPT ![r] = req[r].stream]
                 ELSE scache
    /\ UNCHANGED <<running, req, streamIDs, CanPublish, publisher, peerVars>>

\* HandlePlay after Write: AddPlayer, then SetStreamCache.
AddPlayer(r) ==
    /\ IsPlay(r)
    /\ WriteReturns(r)
    /\ players' = [players EXCEPT ![req[r].stream] = Append(@, r)]
    /\ scache' = [scache EXCEPT ![r] = req[r].stream]
    /\ UNCHANGED <<running, req, streamIDs, CanPublish, publisher, peerVars>>

Handle(r) ==
    \/ Arrive(r)
    \/ ServeOther(r)
    \/ RejectBody(r)
    \/ HandlePublish(r)
    \/ HandlePlay(r)
    \/ AnswerLeaves(r)
    \/ SetPublisher(r)
    \/ AddPlayer(r)

Next == \E r \in Requests : Handle(r)

Spec == Init /\ [][Next]_sigVars

-----------------------------------------------------------------------------
(***************************************************************************)
(* Properties.                                                             *)
(***************************************************************************)

\* A play handler tests CanPublish, blocks in Write, and only then attaches
\* its player (signalling.cpp:179 and :197).  What it tested still holds: from
\* the test on, the player's stream has a publisher.  RtcPlayer dereferences
\* _scache->_publisher unchecked (rtc_player.cpp:25 and :31).
PlayFindsPublisher ==
    \A r \in Requests :
        IsPlay(r) /\ phase[r] \in {"writing", "served"} =>
            /\ publisher[req[r].stream] # None
            /\ ~CanPublish[req[r].stream]

Occurrences(r, s) == {i \in DOMAIN players[s] : players[s][i] = r}

\* The two halves of attaching a peer agree (signalling.cpp:153-154, :197-198).
\* A player points to a cache if and only if that cache lists it, once; a
\* cache's publisher points back to it.
AttachmentAgrees ==
    /\ \A r \in Requests, s \in Streams :
          IsPlay(r) =>
            /\ scache[r] = s <=> Occurrences(r, s) # {}
            /\ \A i, j \in Occurrences(r, s) : i = j
    /\ \A s \in Streams :
          publisher[s] # None =>
            scache[publisher[s]] = s /\ IsPublish(publisher[s])

\* SarsPeersUfragMaps is filled with emplace and never erased
\* (rtc_server.cpp:227).  A registered name resolves to a peer that has that
\* name, and the name of every peer resolves, even when two peers were given
\* the same one.
NamesResolve ==
    /\ \A u \in Ufrags :
          SarsPeersUfragMaps[u] # None => ufrag[SarsPeersUfragMaps[u]] = u
    /\ \A r \in Requests :
          ufrag[r] # None => SarsPeersUfragMaps[ufrag[r]] # None

\* What one step keeps of all that clients rely on.
Grows ==
    /\ \A s \in Streams :
          /\ ~CanPublish[s] => ~CanPublish'[s] /\ publisher'[s] # None
          /\ Len(players[s]) <= Len(players'[s])
          /\ \A i \in 1..Len(players[s]) : players'[s][i] = players[s][i]
    /\ \A u \in Ufrags :
          SarsPeersUfragMaps[u] # None =>
              SarsPeersUfragMaps'[u] = SarsPeersUfragMaps[u]
    /\ \A r \in Requests : scache[r] # None => scache'[r] = scache[r]

\* No request, however late, unbinds or rebinds what a client already relies
\* on: a published stream stays published, a name keeps its peer, an attached
\* peer keeps its cache, and a players vector only grows.
OnlyGrows == [][Grows]_sigVars

\* What StreamAccess sees of the tables and handlers: the peers with a handler
\* blocked in Write are those that have a claim or a booking.
Live == {s \in Streams : ~CanPublish[s]}

Audience == [s \in Streams |-> {players[s][i] : i \in 1..Len(players[s])}]

IntentOf(r) ==
    CASE phase[r] = "writing" ->
            [what |-> IF IsPublish(r) THEN "claim" ELSE "book",
             on |-> req[r].stream]
      [] phase[r] = "served" -> [what |-> "done", on |-> req[r].stream]
      [] OTHER -> [what |-> "nothing", on |-> None]

Access ==
    INSTANCE StreamAccess WITH
        Peers <- Requests,
        live <- Live,
        speaker <- publisher,
        audience <- Audience,
        intent <- [r \in Requests |-> IntentOf(r)]

\* The handlers implement StreamAccess: a stream's publisher and players change
\* only as it lets them.  In particular a publish request that was not yet
\* admitted when the stream was published never replaces the publisher (signalling.cpp:135).
ImplementsAccess == Access!Spec

\* "if (peer == nullptr) ... Create RtcPublisher err" (signalling.cpp:140-142)
\* and "sdp must contain ufrag" (rtc_server.cpp:214): a publish request whose
\* peer could not be created is turned down.  The code ignores the result of
\* CreateRtcPeer (rtc_server.cpp:236), and such a peer takes the stream.
FailedCreateIsTurnedDown ==
    \A s \in Streams : publisher[s] # None => ufrag[publisher[s]] # None

=============================================================================
