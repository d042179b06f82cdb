-------------------------------- MODULE Sars --------------------------------
(***************************************************************************)
(* The whole process.  Next to the HTTP handlers it runs two threads:      *)
(* RTCServer::Cycle, which hands each datagram to the peer it belongs to,  *)
(* and main, which runs the timer of one peer after another.  Either calls *)
(* webrtc-core, and webrtc-core calls back for that peer; a publisher's    *)
(* callback feeds players, a send may block the thread, and the others go  *)
(* on.                                                                     *)
(***************************************************************************)
EXTENDS UdpDemux, Relay, MainLoop

CONSTANTS CycleThread, MainThread

ASSUME SarsAssumption ==
    /\ Threads = {CycleThread, MainThread}
    /\ CycleThread # MainThread

VARIABLE serving    \* the peer whose datagram Cycle is in, if any

allVars == <<sigVars, udpVars, mediaVars, mainVars, serving>>

SarsInit == DemuxInit /\ RelayInit /\ MainInit /\ serving = None

-----------------------------------------------------------------------------

\* main starts the servers, and the threads of the handlers with them.
HandlersRun ==
    /\ main # "boot"
    /\ Signal
    /\ UNCHANGED <<udpVars, mainVars, serving>>

\* Faulty variant: a binding request is handed to the peer it names.
ReceiveByName ==
    /\ main # "boot" /\ serving = None
    /\ \E a \in Addrs :
          \/ BadRequest(a) /\ UNCHANGED serving
          \/ Datagram(a) /\ serving' = SarsPeersAddrMaps'[a]
          \/ \E u \in Ufrags : BindingRequest(a, u) /\ serving' = SarsPeersUfragMaps[u]
    /\ UNCHANGED <<mediaVars, mainVars>>

\* OnRecvClientPkt up to ProcessRemoteData.
Receive ==
    /\ main # "boot" /\ serving = None
    /\ \E a \in Addrs :
          \/ BadRequest(a) /\ UNCHANGED serving
          \/ /\ Datagram(a) \/ \E u \in Ufrags : BindingRequest(a, u)
             /\ serving' = SarsPeersAddrMaps'[a]
    /\ UNCHANGED <<mediaVars, mainVars>>

ReceiveFails ==
    /\ main # "boot" /\ serving = None
    /\ RecvFails
    /\ UNCHANGED <<mediaVars, mainVars, serving>>

\* ProcessRemoteData returns, and Cycle goes back to RecvFrom.
CycleReturns ==
    /\ running /\ serving # None /\ ~Busy(CycleThread)
    /\ serving' = None
    /\ UNCHANGED <<sigVars, udpVars, mediaVars, mainVars>>

\* Callbacks that a datagram of p and a timer of p may both cause.
Callback(t, p) ==
    \/ RequestIFrame(t, p)
    \/ Disconnect(t, p)
    \/ OnRecvMediaData(t, p)

\* A datagram of p may also be the last one its connection waits for.
DatagramCallsBack ==
    /\ \E p \in Requests :
          /\ serving = p
          /\ Connect(CycleThread, p) \/ Callback(CycleThread, p)
    /\ UNCHANGED <<udpVars, mainVars, serving>>

TimerCallsBack ==
    /\ main = "sweep"
    /\ \E p \in Requests :
          SarsPeersUfragMaps[it] = p /\ Callback(MainThread, p)
    /\ UNCHANGED <<udpVars, mainVars, serving>>

Relaying(t) == CacheMedia(t) /\ UNCHANGED <<udpVars, mainVars, serving>>

\* main goes from timer to timer, and has none to leave when it is in none.
MainThreadMoves ==
    /\ ~Busy(MainThread)
    /\ Boot \/ WakeUp \/ OnTimer
    /\ UNCHANGED <<udpVars, mediaVars, serving>>

SarsNext ==
    \/ HandlersRun
    \/ Receive
    \/ ReceiveFails
    \/ CycleReturns
    \/ DatagramCallsBack
    \/ TimerCallsBack
    \/ \E t \in Threads : Relaying(t)
    \/ MainThreadMoves

SarsSpec == SarsInit /\ [][SarsNext]_allVars

\* The scheduler is first come, first served: a thread whose send, receive or
\* sleep is over runs again.  For one datagram or one timer webrtc-core does not
\* call back for ever, so that the call returns sometime after a callback.
FairSarsSpec ==
    /\ SarsSpec
    /\ \A t \in Threads : WF_allVars(Relaying(t))
    /\ SF_allVars(CycleReturns)
    /\ SF_allVars(MainThreadMoves /\ main # "boot")

-----------------------------------------------------------------------------
(***************************************************************************)
(* Properties.                                                             *)
(***************************************************************************)

\* What is fed to a connected peer leaves for the address it was last heard
\* from, and what comes from there is handed to that peer and to no other
\* (rtc_peer.cpp:407-415, rtc_server.cpp:72-86), however datagrams, timers and
\* relayed frames interleave.
ConnectedPeersAreReached ==
    \A p \in Requests : state[p] = "connected" =>
        /\ remote_addr[p] # None
        /\ SarsPeersAddrMaps[remote_addr[p]] = p
        /\ \A q \in Requests \ {p} : remote_addr[q] # remote_addr[p]

\* Frames go from one client to another, whichever thread relays them: each
\* frame a player was fed is of a peer that was heard from, as the player was,
\* and the two answer to different addresses, so that nobody is sent what it
\* published itself, nor anything before it was heard from (rtc_server.cpp:59-86,
\* rtc_peer.cpp:407-432, scache.cpp:29-51).
FramesGoBetweenClients ==
    \A p \in Requests : \A f \in ToSet(fed[p]) :
        /\ remote_addr[p] # None /\ remote_addr[f.from] # None
        /\ remote_addr[f.from] # remote_addr[p]

\* Cycle comes back to its socket, both threads from every CacheMedia, and main
\* from every sweep, though its timers relay frames and handlers insert names
\* before and behind it, whoever joins or leaves the streams meanwhile, unless
\* the process ends (scache.cpp:29-52, rtc_server.cpp:111-122, sars.cpp:34-40).
ThreadsComeBack ==
    /\ serving # None ~> serving = None \/ ~running
    /\ main = "sweep" ~> main = "asleep" \/ ~running
    /\ \A t \in Threads : Busy(t) ~> ~Busy(t) \/ ~running

=============================================================================
