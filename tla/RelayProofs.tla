----------------------------- MODULE RelayProofs -----------------------------
(***************************************************************************)
(* Proofs about Relay, for any number of requests, streams, names, threads *)
(* and frames.                                                             *)
(***************************************************************************)
EXTENDS Relay, SignallingProofs

-----------------------------------------------------------------------------
(* The inductive invariant. *)

\* A peer that ever connected was named and answered.
ConnectedAreNamed ==
    \A p \in Requests :
        state[p] # "new" => ufrag[p] # None /\ p \in hasPC \cap answered

\* A call relays the latest frame of its publisher or an earlier one, over
\* elements that the vector has, to players that are still connected.  The vector
\* has moved only if it outgrew the end that the call goes to.
CallsKnown ==
    \A t \in Threads : Busy(t) =>
        LET call == relay[t]
            from == relay[t].frame.from IN
        /\ call.frame.by = t
        /\ call.frame.number <= received[from]
        /\ IsPublish(from) /\ scache[from] = call.on
        /\ call.end <= Len(players[call.on])
        /\ call.wild => call.end < Len(players[call.on])
        /\ \A p \in call.due : state[p] = "connected"

SameFrame(f, g) == f.from = g.from /\ f.number = g.number

\* No frame is relayed by two calls.
CallsDiffer ==
    \A t, u \in Threads : Busy(t) /\ Busy(u) /\ t # u =>
        ~SameFrame(relay[t].frame, relay[u].frame)

\* What a player was fed comes from a publisher of its own stream, which did
\* receive it.
FedKnown ==
    \A p \in Requests : \A i \in 1..Len(fed[p]) :
        LET f == fed[p][i] IN
        /\ IsPublish(f.from) /\ IsPlay(p)
        /\ scache[p] # None /\ scache[f.from] = scache[p]
        /\ f.number <= received[f.from]

\* The players that a call has had its turn with.
Passed(t) == {players[relay[t].on][i] : i \in 1..(relay[t].at - 1)}

\* What was fed before is older than the frame of a call on the same thread, and
\* the frame of a call was fed to those only that it has passed.
FedBefore ==
    \A t \in Threads : Busy(t) =>
        \A p \in Requests : \A i \in 1..Len(fed[p]) :
            /\ fed[p][i].from = relay[t].frame.from /\ fed[p][i].by = t =>
                  fed[p][i].number <= relay[t].frame.number
            /\ SameFrame(fed[p][i], relay[t].frame) => p \in Passed(t)

\* A process that met undefined behaviour is over.
FaultIsFinal == fault.why # "none" => ~running

RInv ==
    /\ IInv
    /\ RelayTypeOK
    /\ NamedAreConnected
    /\ ConnectedAreNamed
    /\ KeyFrameAsked
    /\ CallsKnown
    /\ CallsDiffer
    /\ FedKnown
    /\ FedBefore
    /\ FedInOrder
    /\ NobodySkipped
    /\ FaultIsFinal
    /\ FaultsHaveCauses

-----------------------------------------------------------------------------
(* What the steps of the other threads leave alone. *)

\* Idle is not a call, and the fields of a call have their types.
LEMMA CallsAreTyped ==
    ASSUME RelayTypeOK, NEW t \in Threads, Busy(t)
    PROVE  /\ relay[t] \in Calls
           /\ relay[t].on \in Streams
           /\ relay[t].frame \in Frames
           /\ relay[t].frame.from \in Requests
           /\ relay[t].frame.number \in Nat
           /\ relay[t].at \in Nat /\ relay[t].at >= 1
           /\ relay[t].end \in Nat /\ relay[t].at <= relay[t].end + 1
           /\ relay[t].wild \in BOOLEAN
<1>1. relay[t] \in Calls /\ relay[t].at \in 1..(relay[t].end + 1)
  BY DEF RelayTypeOK, Busy
<1>2. /\ relay[t].end \in Nat /\ relay[t].on \in Streams
      /\ relay[t].frame \in Frames /\ relay[t].wild \in BOOLEAN
  BY <1>1 DEF Calls
<1>3. QED
  BY <1>1, <1>2, RelayAssumption DEF Frames

LEMMA CallsAreBusy == \A call \in Calls : call # Idle
<1>1. \A call \in Calls : call.on # None
  BY SignallingAssumption DEF Calls
<1>2. QED
  BY <1>1 DEF Idle

LEMMA FedAreFrames ==
    ASSUME RelayTypeOK
    PROVE  \A p \in Requests :
              /\ Len(fed[p]) \in Nat
              /\ DOMAIN fed[p] = 1..Len(fed[p])
              /\ \A i \in 1..Len(fed[p]) :
                    /\ fed[p][i] \in Frames
                    /\ fed[p][i].from \in Requests
                    /\ fed[p][i].number \in Nat
<1>1. \A p \in Requests : fed[p] \in Seq(Frames)
  BY DEF RelayTypeOK
<1>2. \A f \in Frames : f.from \in Requests /\ f.number \in Nat
  BY RelayAssumption DEF Frames
<1>3. ASSUME NEW p \in Requests
      PROVE  /\ Len(fed[p]) \in Nat
             /\ DOMAIN fed[p] = 1..Len(fed[p])
             /\ \A i \in 1..Len(fed[p]) : fed[p][i] \in Frames
  BY <1>1
<1>4. QED
  BY <1>2, <1>3

LEMMA AppendAddsOne ==
    ASSUME NEW S, NEW seq \in Seq(S), NEW x \in S
    PROVE  /\ Append(seq, x) \in Seq(S)
           /\ Len(seq) \in Nat /\ Len(Append(seq, x)) = Len(seq) + 1
           /\ DOMAIN seq = 1..Len(seq)
           /\ DOMAIN Append(seq, x) = 1..(Len(seq) + 1)
           /\ \A i \in 1..Len(seq) : Append(seq, x)[i] = seq[i]
           /\ Append(seq, x)[Len(seq) + 1] = x
  OBVIOUS

\* A handler's step: what is attached stays as it is, vectors grow at their end.
LEMMA HandlersKeepPeers ==
    ASSUME IInv, NamedAreConnected, [Next]_sigVars
    PROVE  /\ IInv' /\ NamedAreConnected'
           /\ hasPC \subseteq hasPC' /\ answered \subseteq answered'
           /\ \A p \in Requests : scache[p] # None =>
                 scache'[p] = scache[p] /\ req'[p] = req[p]
           /\ \A p \in Requests : ufrag[p] # None =>
                 ufrag'[p] = ufrag[p] /\ req'[p] = req[p]
           /\ \A s \in Streams :
                 /\ Len(players[s]) \in Nat /\ Len(players'[s]) \in Nat
                 /\ Len(players[s]) <= Len(players'[s])
                 /\ Len(players'[s]) <= Len(players[s]) + 1
                 /\ \A i \in 1..Len(players[s]) : players'[s][i] = players[s][i]
<1>1. /\ IInv' /\ NamedAreConnected'
      /\ hasPC \subseteq hasPC'
  BY HandlersKeepNames
<1>2. /\ answered \subseteq answered'
      /\ \A r \in Requests :
            /\ phase[r] \in {"writing", "served"} =>
                  /\ req'[r] = req[r]
                  /\ phase'[r] \in {phase[r], "served"}
            /\ ufrag[r] # None => ufrag'[r] = ufrag[r]
      /\ \A s \in Streams : Len(players'[s]) <= Len(players[s]) + 1
  BY HandlersMoveOn
<1>3. \A p \in Requests : /\ scache[p] # None => phase[p] = "served"
                          /\ ufrag[p] # None => phase[p] \in {"writing", "served"}
  BY DEF IInv, HandlersKnow
<1>4. \A s \in Streams : Len(players[s]) \in Nat /\ Len(players'[s]) \in Nat
  BY <1>1 DEF IInv, TypeOK
<1>5. [Grows]_sigVars
  BY NextGrows
<1>6. CASE Grows
  BY <1>1, <1>2, <1>3, <1>4, <1>6 DEF Grows
<1>7. CASE UNCHANGED sigVars
  BY <1>1, <1>2, <1>3, <1>4, <1>7 DEF sigVars, cacheVars
<1>8. QED
  BY <1>5, <1>6, <1>7

\* Reallocation touches the mark of dangling iterators only, where the vector
\* outgrew its capacity, and the capacity suffices again.
LEMMA ReallocateKeepsCalls ==
    ASSUME RelayTypeOK, Reallocate,
           \A s \in Streams : /\ Len(players[s]) \in Nat
                              /\ Len(players'[s]) \in Nat
                              /\ Len(players'[s]) <= Len(players[s]) + 1
    PROVE  /\ capacity' \in [Streams -> Nat]
           /\ \A s \in Streams : Len(players'[s]) <= capacity'[s]
           /\ relay' \in [Threads -> Calls \cup {Idle}]
           /\ \A t \in Threads :
                 /\ Busy(t)' <=> Busy(t)
                 /\ Busy(t) => /\ relay'[t].on = relay[t].on
                               /\ relay'[t].frame = relay[t].frame
                               /\ relay'[t].at = relay[t].at
                               /\ relay'[t].end = relay[t].end
                               /\ relay'[t].due = relay[t].due
                               /\ relay[t].wild => relay'[t].wild
                               /\ relay'[t].wild =>
                                     \/ relay[t].wild
                                     \/ Len(players'[relay[t].on]) >
                                           capacity[relay[t].on]
<1> DEFINE full == {s \in Streams : Len(players'[s]) > capacity[s]}
<1>1. capacity \in [Streams -> Nat] /\ \A s \in Streams : Len(players[s]) <= capacity[s]
  BY DEF RelayTypeOK
<1>2. capacity' = [s \in Streams |->
          IF s \notin full THEN capacity[s]
          ELSE IF capacity[s] = 0 THEN 1 ELSE 2 * capacity[s]]
  BY DEF Reallocate
<1>3. capacity' \in [Streams -> Nat]
  BY <1>1, <1>2
<1>4. \A s \in Streams : Len(players'[s]) <= capacity'[s]
  BY <1>1, <1>2
<1>5. ASSUME NEW t \in Threads
      PROVE  \/ relay'[t] = relay[t]
             \/ /\ Busy(t) /\ relay[t].on \in full
                /\ relay'[t] = [relay[t] EXCEPT !.wild = TRUE]
  <2>1. relay' = [u \in Threads |->
            IF Busy(u) /\ relay[u].on \in full
            THEN [relay[u] EXCEPT !.wild = TRUE] ELSE relay[u]]
    BY DEF Reallocate
  <2>2. QED
    BY <2>1, Zenon
<1>6. ASSUME NEW t \in Threads, Busy(t), relay'[t] = [relay[t] EXCEPT !.wild = TRUE]
      PROVE  /\ relay'[t] \in Calls
             /\ relay'[t].on = relay[t].on
             /\ relay'[t].frame = relay[t].frame
             /\ relay'[t].at = relay[t].at
             /\ relay'[t].end = relay[t].end
             /\ relay'[t].due = relay[t].due
             /\ relay'[t].wild
  BY <1>6, CallsAreTyped DEF Calls
<1>7. relay' \in [Threads -> Calls \cup {Idle}]
  <2>1. relay' = [t \in Threads |-> relay'[t]]
    BY DEF Reallocate
  <2>2. \A t \in Threads : relay'[t] \in Calls \cup {Idle}
    BY <1>5, <1>6 DEF RelayTypeOK
  <2>3. QED
    BY <2>1, <2>2
<1>8. ASSUME NEW t \in Threads, Busy(t)
      PROVE  /\ relay'[t] \in Calls
             /\ relay'[t].on = relay[t].on
             /\ relay'[t].frame = relay[t].frame
             /\ relay'[t].at = relay[t].at
             /\ relay'[t].end = relay[t].end
             /\ relay'[t].due = relay[t].due
             /\ relay[t].wild => relay'[t].wild
             /\ relay'[t].wild => relay[t].wild \/ relay[t].on \in full
  <2>1. CASE relay'[t] = relay[t]
    BY <1>8, <2>1, CallsAreTyped, Zenon
  <2>2. CASE relay[t].on \in full /\ relay'[t] = [relay[t] EXCEPT !.wild = TRUE]
    BY <1>6, <1>8, <2>2, Zenon
  <2>3. QED
    BY <1>5, <2>1, <2>2
<1>9. \A t \in Threads : Busy(t)' <=> Busy(t)
  BY <1>5, <1>8, CallsAreBusy DEF Busy
<1>10. \A s : s \in full => Len(players'[s]) > capacity[s]
  OBVIOUS
<1>11. QED
  BY <1>3, <1>4, <1>7, <1>8, <1>9, <1>10, Zenon

-----------------------------------------------------------------------------
(* Each kind of step preserves the invariant. *)

LEMMA RelayInitEstablishesRInv == RelayInit => RInv
<1>1. SUFFICES ASSUME RelayInit PROVE RInv
  OBVIOUS
<1>2. IInv /\ TypeOK
  BY <1>1, InitEstablishesIInv DEF RelayInit, IInv
<1>3. \A t \in Threads : ~Busy(t)
  BY <1>1 DEF RelayInit, Busy
<1>4. \A p \in Requests : fed[p] = << >> /\ state[p] = "new" /\ ufrag[p] = None
  BY <1>1 DEF RelayInit, Init
<1>5. RelayTypeOK
  BY <1>1, <1>2, <1>3, RelayAssumption DEF RelayInit, Init, NoFault, RelayTypeOK
<1>6. /\ NamedAreConnected /\ ConnectedAreNamed /\ KeyFrameAsked /\ CallsKnown
      /\ CallsDiffer /\ FedBefore /\ NobodySkipped
  BY <1>3, <1>4 DEF NamedAreConnected, ConnectedAreNamed, KeyFrameAsked,
     CallsKnown, CallsDiffer, FedBefore, NobodySkipped
<1>7. FedKnown /\ FedInOrder
  BY <1>4 DEF FedKnown, FedInOrder
<1>8. FaultIsFinal /\ FaultsHaveCauses
  BY <1>1 DEF RelayInit, NoFault, FaultIsFinal, FaultsHaveCauses
<1>9. QED
  BY <1>2, <1>5, <1>6, <1>7, <1>8 DEF RInv

\* A handler attaches a peer, or does anything else, while calls are under way.
LEMMA SignalPreservesRInv ==
    ASSUME RInv, Signal
    PROVE  RInv'
<1> USE DEF RInv
<1>1. Next /\ Reallocate /\ UNCHANGED <<state, received, fed, asked, fault>>
  BY DEF Signal
<1>2. /\ IInv' /\ NamedAreConnected'
      /\ hasPC \subseteq hasPC' /\ answered \subseteq answered'
      /\ \A p \in Requests : scache[p] # None =>
            scache'[p] = scache[p] /\ req'[p] = req[p]
      /\ \A p \in Requests : ufrag[p] # None =>
            ufrag'[p] = ufrag[p] /\ req'[p] = req[p]
      /\ \A s \in Streams :
            /\ Len(players[s]) \in Nat /\ Len(players'[s]) \in Nat
            /\ Len(players[s]) <= Len(players'[s])
            /\ Len(players'[s]) <= Len(players[s]) + 1
            /\ \A i \in 1..Len(players[s]) : players'[s][i] = players[s][i]
  BY <1>1, HandlersKeepPeers
<1>3. /\ capacity' \in [Streams -> Nat]
      /\ \A s \in Streams : Len(players'[s]) <= capacity'[s]
      /\ relay' \in [Threads -> Calls \cup {Idle}]
      /\ \A t \in Threads :
            /\ Busy(t)' <=> Busy(t)
            /\ Busy(t) => /\ relay'[t].on = relay[t].on
                          /\ relay'[t].frame = relay[t].frame
                          /\ relay'[t].at = relay[t].at
                          /\ relay'[t].end = relay[t].end
                          /\ relay'[t].due = relay[t].due
                          /\ relay[t].wild => relay'[t].wild
                          /\ relay'[t].wild =>
                                \/ relay[t].wild
                                \/ Len(players'[relay[t].on]) >
                                      capacity[relay[t].on]
  BY <1>1, <1>2, ReallocateKeepsCalls
<1>4. RelayTypeOK'
  BY <1>1, <1>2, <1>3 DEF RelayTypeOK, IInv
<1>5. ConnectedAreNamed'
  BY <1>1, <1>2, SignallingAssumption DEF ConnectedAreNamed
<1>6. KeyFrameAsked'
  <2>1. SUFFICES ASSUME NEW p \in Requests, IsPlay(p)', state[p] = "connected"
                 PROVE  /\ asked[p] \in hasPC' /\ IsPublish(asked[p])'
                        /\ scache'[p] # None /\ scache'[asked[p]] = scache'[p]
    BY <1>1 DEF KeyFrameAsked, IsPublish
  <2>2. IsPlay(p)
    BY <1>2, <2>1 DEF ConnectedAreNamed, IsPlay
  <2>3. /\ asked[p] \in hasPC /\ IsPublish(asked[p])
        /\ scache[p] # None /\ scache[asked[p]] = scache[p]
    BY <2>1, <2>2 DEF KeyFrameAsked
  <2>4. asked[p] \in Requests
    BY <2>3 DEF IInv, TypeOK
  <2>5. QED
    BY <1>1, <1>2, <2>3, <2>4 DEF IsPublish
<1>7. ASSUME NEW t \in Threads, Busy(t)
      PROVE  /\ relay[t].frame.from \in Requests
             /\ relay[t].on \in Streams
             /\ scache[relay[t].frame.from] = relay[t].on
             /\ relay[t].on # None
             /\ relay[t].end <= Len(players[relay[t].on])
             /\ relay[t].at - 1 <= relay[t].end
             /\ relay[t].at \in Nat /\ relay[t].end \in Nat
             /\ relay[t].wild => relay[t].end < Len(players[relay[t].on])
             /\ Len(players[relay[t].on]) <= capacity[relay[t].on]
             /\ capacity[relay[t].on] \in Nat
  <2>1. /\ relay[t].frame.from \in Requests /\ relay[t].on \in Streams
        /\ relay[t].at \in Nat /\ relay[t].end \in Nat
        /\ relay[t].at <= relay[t].end + 1
    BY <1>7, CallsAreTyped
  <2>2. /\ scache[relay[t].frame.from] = relay[t].on
        /\ relay[t].end <= Len(players[relay[t].on])
        /\ relay[t].wild => relay[t].end < Len(players[relay[t].on])
    BY <1>7 DEF CallsKnown
  <2>3. /\ Len(players[relay[t].on]) <= capacity[relay[t].on]
        /\ capacity[relay[t].on] \in Nat
    BY <2>1 DEF RelayTypeOK
  <2>4. relay[t].on # None
    BY <2>1, SignallingAssumption
  <2>5. relay[t].at - 1 <= relay[t].end
    BY <2>1
  <2>6. QED
    BY <2>1, <2>2, <2>3, <2>4, <2>5
<1>8. CallsKnown'
  <2>1. SUFFICES ASSUME NEW t \in Threads, Busy(t)
                 PROVE  LET call == relay[t]
                            from == relay[t].frame.from IN
                        /\ call.frame.by = t
                        /\ call.frame.number <= received[from]
                        /\ req'[from].kind = "publish" /\ scache'[from] = call.on
                        /\ call.end <= Len(players'[call.on])
                        /\ relay'[t].wild => call.end < Len(players'[call.on])
                        /\ \A p \in call.due : state[p] = "connected"
    BY <1>1, <1>3 DEF CallsKnown, IsPublish
  <2>2. req'[relay[t].frame.from].kind = "publish"
    BY <1>2, <1>7, <2>1 DEF CallsKnown, IsPublish
  <2>3. scache'[relay[t].frame.from] = relay[t].on
    BY <1>2, <1>7, <2>1
  <2>4. relay[t].end <= Len(players'[relay[t].on])
    BY <1>2, <1>7, <2>1
  <2>5. relay'[t].wild => relay[t].end < Len(players'[relay[t].on])
    <3>1. /\ Len(players[relay[t].on]) \in Nat /\ Len(players'[relay[t].on]) \in Nat
          /\ Len(players[relay[t].on]) <= Len(players'[relay[t].on])
      BY <1>2, <1>7, <2>1
    <3>2. CASE relay[t].wild
      BY <1>7, <2>1, <3>1, <3>2
    <3>3. CASE Len(players'[relay[t].on]) > capacity[relay[t].on]
      BY <1>7, <2>1, <3>1, <3>3
    <3>4. QED
      BY <1>3, <2>1, <3>2, <3>3
  <2>6. QED
    BY <2>1, <2>2, <2>3, <2>4, <2>5 DEF CallsKnown
<1>9. CallsDiffer'
  BY <1>3 DEF CallsDiffer, SameFrame
<1>10. FedKnown'
  <2>1. SUFFICES ASSUME NEW p \in Requests, NEW i \in 1..Len(fed[p])
                 PROVE  LET f == fed[p][i] IN
                        /\ req'[f.from].kind = "publish" /\ req'[p].kind = "play"
                        /\ scache'[p] # None /\ scache'[f.from] = scache'[p]
                        /\ f.number <= received[f.from]
    BY <1>1 DEF FedKnown, IsPublish, IsPlay
  <2>2. fed[p][i].from \in Requests
    BY FedAreFrames
  <2>3. QED
    BY <1>2, <2>2 DEF FedKnown, IsPublish, IsPlay
<1>11. ASSUME NEW t \in Threads, Busy(t)
       PROVE  \A i \in 1..(relay[t].at - 1) :
                 players'[relay[t].on][i] = players[relay[t].on][i]
  <2>1. \A i \in 1..Len(players[relay[t].on]) :
           players'[relay[t].on][i] = players[relay[t].on][i]
    BY <1>2, <1>7, <1>11
  <2>2. /\ relay[t].at - 1 <= relay[t].end /\ relay[t].at \in Nat
        /\ relay[t].end \in Nat /\ relay[t].end <= Len(players[relay[t].on])
        /\ Len(players[relay[t].on]) \in Nat
    BY <1>2, <1>7, <1>11
  <2>3. \A at, end, n \in Nat : at - 1 <= end /\ end <= n =>
           1..(at - 1) \subseteq 1..n
    OBVIOUS
  <2>4. 1..(relay[t].at - 1) \subseteq 1..Len(players[relay[t].on])
    BY <2>2, <2>3
  <2>5. QED
    BY <2>1, <2>4, Zenon
<1>12. FedBefore'
  <2>1. \A t \in Threads : Busy(t) => Passed(t)' = Passed(t)
    BY <1>3, <1>11 DEF Passed
  <2>2. QED
    BY <1>1, <1>3, <2>1 DEF FedBefore, SameFrame
<1>13. FedInOrder' /\ FaultIsFinal'
  <2>1. running /\ running' \in BOOLEAN
    BY <1>1, <1>2
    DEF IInv, TypeOK, Next, Handle, Arrive, ServeOther, RejectBody,
        HandlePublish, HandlePlay, AnswerLeaves, SetPublisher, AddPlayer,
        WriteReturns
  <2>2. QED
    BY <1>1, <2>1 DEF FedInOrder, FaultIsFinal
<1>14. NobodySkipped'
  BY <1>1, <1>3, <1>11 DEF NobodySkipped
<1>15. FaultsHaveCauses'
  <2>1. running
    BY <1>1
    DEF Next, Handle, Arrive, ServeOther, RejectBody, HandlePublish, HandlePlay,
        AnswerLeaves, SetPublisher, AddPlayer, WriteReturns
  <2>2. QED
    BY <1>1, <2>1 DEF FaultIsFinal, FaultsHaveCauses
<1>16. QED
  BY <1>2, <1>4, <1>5, <1>6, <1>8, <1>9, <1>10, <1>12, <1>13, <1>14, <1>15

\* Steps of the media plane leave the handlers' part of the invariant alone.
LEMMA MediaKeepsSignalling ==
    ASSUME RInv, UNCHANGED <<phase, req, cacheVars, peerVars, scache, answered>>,
           running' \in BOOLEAN
    PROVE  IInv' /\ NamedAreConnected'
<1> USE DEF RInv, cacheVars, peerVars
<1>1. TypeOK'
  BY DEF IInv, TypeOK
<1>2. NamedAreConnected'
  BY DEF NamedAreConnected
<1>3. IInv'
  BY <1>1, QuietStep DEF IInv
<1>4. QED
  BY <1>2, <1>3

\* Undefined behaviour: nothing but the end of the process.
LEMMA CrashPreservesRInv ==
    ASSUME RInv, NEW why \in {"null", "wild"}, NEW p \in Requests, Crash(why, p),
           why = "null" =>
               \/ phase[p] = "writing" /\ p \in answered
               \/ IsPlay(p) /\ PublisherOf(p) # None /\ ufrag[PublisherOf(p)] = None,
           why = "wild" =>
               \E t \in Threads : Busy(t) /\ relay[t].frame.from = p
                                 /\ relay[t].end < Len(players[relay[t].on])
    PROVE  RInv'
<1> USE DEF RInv
<1>1. /\ running' = FALSE /\ fault' = [why |-> why, peer |-> p]
      /\ UNCHANGED <<phase, req, streamIDs, CanPublish, publisher, players,
                     SarsPeersUfragMaps, hasPC, ufrag, scache, answered, state,
                     received, relay, capacity, fed, asked>>
  BY DEF Crash, cacheVars, peerVars
<1>2. IInv' /\ NamedAreConnected'
  BY <1>1, MediaKeepsSignalling DEF cacheVars, peerVars
<1>3. RelayTypeOK'
  BY <1>1, <1>2 DEF IInv, RelayTypeOK, Busy
<1>4. ConnectedAreNamed' /\ KeyFrameAsked'
  BY <1>1 DEF ConnectedAreNamed, KeyFrameAsked, IsPlay, IsPublish
<1>5. CallsKnown' /\ CallsDiffer' /\ FedBefore' /\ NobodySkipped'
  BY <1>1 DEF CallsKnown, CallsDiffer, FedBefore, NobodySkipped, Busy, Passed,
     SameFrame, IsPublish
<1>6. FedKnown' /\ FedInOrder'
  BY <1>1 DEF FedKnown, FedInOrder, IsPublish, IsPlay
<1>7. FaultIsFinal'
  BY <1>1 DEF FaultIsFinal
<1>8. FaultsHaveCauses'
  <2>1. fault'.why = why /\ fault'.peer = p
    BY <1>1
  <2>2. CASE why = "null"
    BY <1>1, <2>1, <2>2 DEF FaultsHaveCauses, IsPlay, PublisherOf
  <2>3. CASE why = "wild"
    BY <1>1, <2>1, <2>3 DEF FaultsHaveCauses, Busy
  <2>4. QED
    BY <2>2, <2>3
<1>9. QED
  BY <1>2, <1>3, <1>4, <1>5, <1>6, <1>7, <1>8

\* A step that touches at most the connection states and the requests for key
\* frames, takes no player of a call away, and connects named peers only, players
\* with a publisher to ask.
LEMMA ConnectionStepPreservesRInv ==
    ASSUME RInv,
           UNCHANGED <<sigVars, received, relay, capacity, fed, fault>>,
           state' \in [Requests -> {"new", "connected", "gone"}],
           asked' \in [Requests -> Requests \cup {None}],
           \A p \in Requests : state[p] = "connected" => state'[p] = "connected",
           \A p \in Requests : state[p] = "new" /\ state'[p] # "new" =>
               ufrag[p] # None /\ p \in hasPC \cap answered,
           \A p \in Requests : IsPlay(p) /\ state'[p] = "connected" =>
               /\ asked'[p] \in hasPC /\ IsPublish(asked'[p])
               /\ scache[p] # None /\ scache[asked'[p]] = scache[p]
    PROVE  RInv'
<1> USE DEF RInv
<1>1. UNCHANGED <<running, phase, req, streamIDs, CanPublish, publisher, players,
                  SarsPeersUfragMaps, hasPC, ufrag, scache, answered>>
  BY DEF sigVars, cacheVars, peerVars
<1>2. IInv' /\ NamedAreConnected'
  BY HandlersKeepNames
<1>3. RelayTypeOK'
  BY <1>1, <1>2 DEF IInv, RelayTypeOK, Busy
<1>4. ConnectedAreNamed' /\ KeyFrameAsked'
  BY <1>1 DEF ConnectedAreNamed, KeyFrameAsked, IsPlay, IsPublish
<1>5. CallsKnown'
  <2>1. \A t \in Threads : Busy(t) =>
            \A p \in relay[t].due : p \in Requests
    BY CallsAreTyped DEF Calls
  <2>2. QED
    BY <1>1, <2>1 DEF CallsKnown, Busy, IsPublish
<1>6. CallsDiffer' /\ FedBefore' /\ NobodySkipped'
  BY <1>1 DEF CallsDiffer, FedBefore, NobodySkipped, Busy, Passed, SameFrame
<1>7. FedKnown' /\ FedInOrder'
  BY <1>1 DEF FedKnown, FedInOrder, IsPublish, IsPlay
<1>8. FaultIsFinal' /\ FaultsHaveCauses'
  BY <1>1 DEF FaultIsFinal, FaultsHaveCauses, Busy, IsPlay, PublisherOf
<1>9. QED
  BY <1>2, <1>3, <1>4, <1>5, <1>6, <1>7, <1>8

\* The publisher that a player asks is one, and is attached where the player is.
LEMMA AskedIsPublisher ==
    ASSUME RInv, NEW p \in Requests, CanAsk(p)
    PROVE  /\ scache[p] # None /\ PublisherOf(p) \in Requests
           /\ IsPublish(PublisherOf(p)) /\ scache[PublisherOf(p)] = scache[p]
<1> DEFINE s == scache[p]
<1>1. PublisherOf(p) \in Requests /\ PublisherOf(p) # None
  BY SignallingAssumption DEF CanAsk, RInv, IInv, TypeOK
<1>2. s \in Streams /\ PublisherOf(p) = publisher[s]
  BY <1>1 DEF PublisherOf, RInv, IInv, TypeOK
<1>3. /\ req[publisher[s]] = [kind |-> "publish", stream |-> s]
      /\ phase[publisher[s]] = "served"
  BY <1>1, <1>2 DEF RInv, IInv, PublisherKnown
<1>4. QED
  BY <1>1, <1>2, <1>3, SignallingAssumption
  DEF RInv, IInv, HandlersKnow, IsPublish

\* A player that finds nobody to ask was connected too early, or watches a peer
\* that could not be created.
LEMMA NobodyToAsk ==
    ASSUME RInv, NEW p \in Requests, IsPlay(p), ~CanAsk(p),
           ufrag[p] # None, p \in answered
    PROVE  \/ phase[p] = "writing"
           \/ PublisherOf(p) # None /\ ufrag[PublisherOf(p)] = None
<1> USE DEF RInv, IInv
<1>1. phase[p] \in {"writing", "served"}
  BY DEF HandlersKnow
<1>2. CASE phase[p] = "writing"
  BY <1>2
<1>3. CASE phase[p] = "served"
  <2> DEFINE s == req[p].stream
  <2>1. scache[p] = s /\ s \in Streams
    BY <1>3 DEF HandlersKnow, Asked
  <2>2. publisher[s] # None /\ publisher[s] \in Requests
    BY <1>3, <2>1 DEF PlayFindsPublisher, TypeOK
  <2>3. PublisherOf(p) = publisher[s]
    BY <2>1, SignallingAssumption DEF PublisherOf
  <2>4. ufrag[publisher[s]] = None
    BY <2>2, <2>3 DEF CanAsk, NamedAreConnected
  <2>5. QED
    BY <2>2, <2>3, <2>4
<1>4. QED
  BY <1>1, <1>2, <1>3

\* OnConnectionChange(kConnected).
LEMMA ConnectPreservesRInv ==
    ASSUME RInv, NEW t \in Threads, NEW p \in Requests, Connect(t, p)
    PROVE  RInv'
<1>1. CanConnect(p)
  BY DEF Connect
<1>2. /\ state \in [Requests -> {"new", "connected", "gone"}]
      /\ asked \in [Requests -> Requests \cup {None}]
  BY DEF RInv, RelayTypeOK
<1>3. CASE /\ IsPlay(p) => CanAsk(p)
           /\ state' = [state EXCEPT ![p] = "connected"]
           /\ asked' = [asked EXCEPT ![p] = IF IsPlay(p) THEN PublisherOf(p) ELSE @]
           /\ UNCHANGED <<sigVars, received, relay, capacity, fed, fault>>
  <2>1. IsPlay(p) =>
            /\ PublisherOf(p) \in hasPC /\ PublisherOf(p) \in Requests
            /\ IsPublish(PublisherOf(p))
            /\ scache[p] # None /\ scache[PublisherOf(p)] = scache[p]
    BY <1>3, AskedIsPublisher DEF CanAsk
  <2>2. /\ asked' \in [Requests -> Requests \cup {None}]
        /\ \A q \in Requests : q # p => asked'[q] = asked[q]
        /\ IsPlay(p) => asked'[p] = PublisherOf(p)
    BY <1>2, <1>3, <2>1
  <2>3. ufrag[p] # None /\ p \in hasPC \cap answered
    BY <1>1 DEF CanConnect
  <2>4. /\ state' \in [Requests -> {"new", "connected", "gone"}]
        /\ \A q \in Requests : state'[q] = IF q = p THEN "connected" ELSE state[q]
    BY <1>2, <1>3
  <2>5. ASSUME NEW q \in Requests, IsPlay(q), state'[q] = "connected"
        PROVE  /\ asked'[q] \in hasPC /\ IsPublish(asked'[q])
               /\ scache[q] # None /\ scache[asked'[q]] = scache[q]
    <3>1. CASE q = p
      BY <2>1, <2>2, <2>5, <3>1
    <3>2. CASE q # p
      BY <2>2, <2>4, <2>5, <3>2 DEF RInv, KeyFrameAsked
    <3>3. QED
      BY <3>1, <3>2
  <2>6. QED
    BY <1>3, <2>2, <2>3, <2>4, <2>5, ConnectionStepPreservesRInv
<1>4. CASE IsPlay(p) /\ ~CanAsk(p) /\ Crash("null", p)
  <2>1. \/ phase[p] = "writing" /\ p \in answered
        \/ IsPlay(p) /\ PublisherOf(p) # None /\ ufrag[PublisherOf(p)] = None
    BY <1>1, <1>4, NobodyToAsk DEF CanConnect
  <2>2. QED
    BY <1>4, <2>1, CrashPreservesRInv
<1>5. QED
  BY <1>3, <1>4 DEF Connect

\* RtcPlayer::OnRequestIFrame.
LEMMA RequestIFramePreservesRInv ==
    ASSUME RInv, NEW t \in Threads, NEW p \in Requests, RequestIFrame(t, p)
    PROVE  RInv'
<1>1. IsPlay(p) /\ state[p] = "connected"
  BY DEF RequestIFrame
<1>2. /\ state \in [Requests -> {"new", "connected", "gone"}]
      /\ asked \in [Requests -> Requests \cup {None}]
  BY DEF RInv, RelayTypeOK
<1>3. CASE /\ CanAsk(p)
           /\ asked' = [asked EXCEPT ![p] = PublisherOf(p)]
           /\ UNCHANGED <<sigVars, state, received, relay, capacity, fed, fault>>
  <2>1. /\ PublisherOf(p) \in hasPC /\ PublisherOf(p) \in Requests
        /\ IsPublish(PublisherOf(p))
        /\ scache[p] # None /\ scache[PublisherOf(p)] = scache[p]
    BY <1>3, AskedIsPublisher DEF CanAsk
  <2>2. /\ asked' \in [Requests -> Requests \cup {None}]
        /\ \A q \in Requests : asked'[q] = IF q = p THEN PublisherOf(p) ELSE asked[q]
    BY <1>2, <1>3, <2>1
  <2>3. \A q \in Requests : IsPlay(q) /\ state'[q] = "connected" =>
            /\ asked'[q] \in hasPC /\ IsPublish(asked'[q])
            /\ scache[q] # None /\ scache[asked'[q]] = scache[q]
    BY <1>3, <2>1, <2>2 DEF RInv, KeyFrameAsked
  <2>4. QED
    BY <1>2, <1>3, <2>2, <2>3, ConnectionStepPreservesRInv
<1>4. CASE ~CanAsk(p) /\ Crash("null", p)
  <2>1. p \in answered /\ ufrag[p] # None
    BY <1>1 DEF RInv, ConnectedAreNamed
  <2>2. \/ phase[p] = "writing" /\ p \in answered
        \/ IsPlay(p) /\ PublisherOf(p) # None /\ ufrag[PublisherOf(p)] = None
    BY <1>1, <1>4, <2>1, NobodyToAsk
  <2>3. QED
    BY <1>4, <2>2, CrashPreservesRInv
<1>5. QED
  BY <1>3, <1>4 DEF RequestIFrame

\* Whoever disconnects is due no more; nothing else of the calls changes.
LEMMA DisconnectKeepsCalls ==
    ASSUME RelayTypeOK, NEW t \in Threads, NEW p \in Requests, Disconnect(t, p)
    PROVE  /\ relay' \in [Threads -> Calls \cup {Idle}]
           /\ \A u \in Threads :
                 /\ Busy(u)' <=> Busy(u)
                 /\ Busy(u) => /\ relay'[u].on = relay[u].on
                               /\ relay'[u].frame = relay[u].frame
                               /\ relay'[u].at = relay[u].at
                               /\ relay'[u].end = relay[u].end
                               /\ relay'[u].wild = relay[u].wild
                               /\ relay'[u].due = relay[u].due \ {p}
<1>1. relay' = [u \in Threads |->
          IF Busy(u) THEN [relay[u] EXCEPT !.due = @ \ {p}] ELSE relay[u]]
  BY DEF Disconnect
<1>2. ASSUME NEW u \in Threads, Busy(u)
      PROVE  /\ relay'[u] \in Calls
             /\ relay'[u].on = relay[u].on
             /\ relay'[u].frame = relay[u].frame
             /\ relay'[u].at = relay[u].at
             /\ relay'[u].end = relay[u].end
             /\ relay'[u].wild = relay[u].wild
             /\ relay'[u].due = relay[u].due \ {p}
  <2>1. relay[u] \in Calls
    BY <1>2, CallsAreTyped
  <2>2. relay'[u] = [relay[u] EXCEPT !.due = relay[u].due \ {p}]
    BY <1>1, <1>2
  <2>3. QED
    BY <2>1, <2>2 DEF Calls
<1>3. \A u \in Threads : ~Busy(u) => relay'[u] = Idle
  BY <1>1 DEF Busy
<1>4. QED
  BY <1>1, <1>2, <1>3, CallsAreBusy DEF Busy

\* A lost connection: the player need not be fed by the calls under way.
LEMMA DisconnectPreservesRInv ==
    ASSUME RInv, NEW t \in Threads, NEW p \in Requests, Disconnect(t, p)
    PROVE  RInv'
<1> USE DEF RInv
<1>1. /\ UNCHANGED <<running, phase, req, streamIDs, CanPublish, publisher,
                     players, SarsPeersUfragMaps, hasPC, ufrag, scache, answered,
                     received, capacity, fed, fault>>
      /\ UNCHANGED sigVars
      /\ state[p] = "connected"
  BY DEF Disconnect, sigVars, cacheVars, peerVars
<1>2. \A q \in Requests : state'[q] = IF q = p THEN "gone" ELSE state[q]
  BY DEF Disconnect, RelayTypeOK
<1>3. /\ relay' \in [Threads -> Calls \cup {Idle}]
      /\ \A u \in Threads :
            /\ Busy(u)' <=> Busy(u)
            /\ Busy(u) => /\ relay'[u].on = relay[u].on
                          /\ relay'[u].frame = relay[u].frame
                          /\ relay'[u].at = relay[u].at
                          /\ relay'[u].end = relay[u].end
                          /\ relay'[u].wild = relay[u].wild
                          /\ relay'[u].due = relay[u].due \ {p}
  BY DisconnectKeepsCalls
<1>4. IInv' /\ NamedAreConnected'
  BY <1>1, HandlersKeepNames
<1>5. RelayTypeOK'
  <2>1. /\ state' \in [Requests -> {"new", "connected", "gone"}]
        /\ asked' \in [Requests -> Requests \cup {None}]
    BY DEF Disconnect, RelayTypeOK
  <2>2. QED
    BY <1>1, <1>3, <1>4, <2>1 DEF IInv, RelayTypeOK
<1>6. ConnectedAreNamed' /\ KeyFrameAsked'
  <2>1. \A q \in Requests : q # p => asked'[q] = asked[q]
    BY DEF Disconnect, RelayTypeOK
  <2>2. QED
    BY <1>1, <1>2, <2>1 DEF ConnectedAreNamed, KeyFrameAsked, IsPlay, IsPublish
<1>7. CallsKnown'
  <2>1. \A u \in Threads : Busy(u) =>
            \A q \in relay[u].due : q \in Requests
    BY CallsAreTyped DEF Calls
  <2>2. QED
    BY <1>1, <1>2, <1>3, <2>1 DEF CallsKnown, IsPublish
<1>8. CallsDiffer' /\ NobodySkipped'
  BY <1>1, <1>3 DEF CallsDiffer, NobodySkipped, SameFrame
<1>9. FedBefore'
  <2>1. \A u \in Threads : Busy(u) => Passed(u)' = Passed(u)
    BY <1>1, <1>3 DEF Passed
  <2>2. QED
    BY <1>1, <1>3, <2>1 DEF FedBefore, SameFrame
<1>10. FedKnown' /\ FedInOrder' /\ FaultIsFinal'
  BY <1>1 DEF FedKnown, FedInOrder, IsPublish, IsPlay, FaultIsFinal
<1>11. FaultsHaveCauses'
  BY <1>1, <1>3 DEF FaultsHaveCauses, IsPlay, PublisherOf
<1>12. QED
  BY <1>4, <1>5, <1>6, <1>7, <1>8, <1>9, <1>10, <1>11

\* CacheMedia begins, with a frame that is newer than all others of its
\* publisher.
LEMMA StartRelayPreservesRInv ==
    ASSUME RInv, NEW t \in Threads, NEW p \in Requests, ~Busy(t),
           IsPublish(p), received[p] < MaxFrames,
           scache[p] # None, StartRelay(t, p, scache[p])
    PROVE  RInv'
<1> USE DEF RInv
<1> DEFINE s == scache[p]
           frame == [from |-> p, number |-> received[p] + 1, by |-> t]
           call == [on |-> s, frame |-> frame, at |-> 1, end |-> Len(players[s]),
                    due |-> {q \in ToSet(players[s]) : state[q] = "connected"},
                    wild |-> FALSE]
<1>1. /\ UNCHANGED <<running, phase, req, streamIDs, CanPublish, publisher,
                     players, SarsPeersUfragMaps, hasPC, ufrag, scache, answered,
                     state, capacity, fed, asked, fault>>
      /\ UNCHANGED sigVars
      /\ received' = [received EXCEPT ![p] = @ + 1]
      /\ relay' = [relay EXCEPT ![t] = call]
  BY DEF StartRelay, sigVars, cacheVars, peerVars
<1>2. IInv' /\ NamedAreConnected'
  BY <1>1, HandlersKeepNames
<1>3. /\ received \in [Requests -> 0..MaxFrames]
      /\ received[p] \in 0..MaxFrames /\ MaxFrames \in Nat
  BY RelayAssumption DEF RelayTypeOK
<1>4. /\ received' \in [Requests -> 0..MaxFrames]
      /\ \A q \in Requests : received'[q] = IF q = p THEN received[p] + 1
                                            ELSE received[q]
      /\ \A q \in Requests : received[q] \in Nat /\ received'[q] \in Nat
      /\ \A q \in Requests : received[q] <= received'[q]
  BY <1>1, <1>3
<1>5. frame \in Frames
  BY <1>3 DEF Frames
<1>6. call \in Calls
  <2>1. s \in Streams
    BY DEF IInv, TypeOK
  <2>2. Len(players[s]) \in Nat /\ ToSet(players[s]) \subseteq Requests
    BY <2>1 DEF IInv, TypeOK, ToSet
  <2>3. QED
    BY <1>5, <2>1, <2>2 DEF Calls
<1>7. /\ relay' \in [Threads -> Calls \cup {Idle}]
      /\ \A u \in Threads : relay'[u] = IF u = t THEN call ELSE relay[u]
  BY <1>1, <1>6 DEF RelayTypeOK
<1>8. \A u \in Threads : Busy(u)' <=> u = t \/ Busy(u)
  BY <1>6, <1>7, CallsAreBusy DEF Busy
<1>9. RelayTypeOK'
  <2>1. \A u \in Threads : Busy(u)' => relay'[u].at \in 1..(relay'[u].end + 1)
    BY <1>6, <1>7, <1>8 DEF RelayTypeOK, Calls
  <2>2. QED
    BY <1>1, <1>2, <1>4, <1>7, <2>1 DEF IInv, RelayTypeOK
<1>10. ConnectedAreNamed' /\ KeyFrameAsked'
  BY <1>1 DEF ConnectedAreNamed, KeyFrameAsked, IsPlay, IsPublish
<1>11. CallsKnown'
  <2>1. ASSUME NEW u \in Threads, u # t, Busy(u)
        PROVE  /\ relay[u].frame.by = u
               /\ relay[u].frame.number <= received'[relay[u].frame.from]
               /\ IsPublish(relay[u].frame.from)
               /\ scache[relay[u].frame.from] = relay[u].on
               /\ relay[u].end <= Len(players[relay[u].on])
               /\ relay[u].wild => relay[u].end < Len(players[relay[u].on])
               /\ \A q \in relay[u].due : state[q] = "connected"
    BY <1>4, <2>1, CallsAreTyped DEF CallsKnown
  <2>2. /\ call.frame.by = t /\ call.frame.from = p
        /\ call.frame.number = received'[p] /\ received'[p] \in Nat
        /\ call.on = s /\ call.end = Len(players[s]) /\ Len(players[s]) \in Nat
        /\ ~call.wild
        /\ \A q \in call.due : state[q] = "connected"
    BY <1>4, <1>6 DEF Calls
  <2>3. SUFFICES ASSUME NEW u \in Threads, Busy(u)'
                 PROVE  /\ relay'[u].frame.by = u
                        /\ relay'[u].frame.number <= received'[relay'[u].frame.from]
                        /\ req'[relay'[u].frame.from].kind = "publish"
                        /\ scache'[relay'[u].frame.from] = relay'[u].on
                        /\ relay'[u].end <= Len(players'[relay'[u].on])
                        /\ relay'[u].wild =>
                              relay'[u].end < Len(players'[relay'[u].on])
                        /\ \A q \in relay'[u].due : state'[q] = "connected"
    BY Zenon DEF CallsKnown, IsPublish
  <2>4. req' = req /\ scache' = scache /\ players' = players /\ state' = state
    BY <1>1
  <2> HIDE DEF call, frame
  <2>5. CASE u = t
    <3>1. relay'[u] = call
      BY <1>7, <2>5
    <3>2. /\ call.frame.number <= received'[p] /\ call.end <= Len(players[s])
          /\ req[p].kind = "publish" /\ scache[p] = s
      BY <2>2 DEF IsPublish
    <3>3. QED
      BY <2>2, <2>4, <2>5, <3>1, <3>2
  <2>6. CASE u # t
    <3>1. relay'[u] = relay[u] /\ Busy(u)
      BY <1>7, <1>8, <2>3, <2>6
    <3>2. QED
      BY <2>1, <2>4, <2>6, <3>1 DEF IsPublish
  <2>7. QED
    BY <2>5, <2>6
<1>12. \A u \in Threads : u # t /\ Busy(u) => ~SameFrame(relay[u].frame, frame)
  <2>1. \A u \in Threads : u # t /\ Busy(u) /\ relay[u].frame.from = p =>
            /\ relay[u].frame.number \in Nat
            /\ relay[u].frame.number <= received[p]
    BY CallsAreTyped DEF CallsKnown
  <2>2. QED
    BY <1>3, <2>1 DEF SameFrame
<1>13. CallsDiffer'
  BY <1>7, <1>8, <1>12 DEF CallsDiffer, SameFrame
<1>14. FedKnown'
  <2>1. \A q \in Requests : \A i \in 1..Len(fed[q]) :
            fed[q][i].number <= received'[fed[q][i].from]
    <3>1. SUFFICES ASSUME NEW q \in Requests, NEW i \in 1..Len(fed[q])
                   PROVE  fed[q][i].number <= received'[fed[q][i].from]
      OBVIOUS
    <3>2. fed[q][i].from \in Requests /\ fed[q][i].number \in Nat
      BY FedAreFrames
    <3>3. fed[q][i].number <= received[fed[q][i].from]
      BY DEF FedKnown
    <3>4. QED
      BY <1>4, <3>2, <3>3
  <2>2. QED
    BY <1>1, <2>1 DEF FedKnown, IsPublish, IsPlay
<1>15. FedBefore'
  <2>1. \A u \in Threads : u # t => Passed(u)' = Passed(u)
    BY <1>1, <1>7 DEF Passed
  <2>2. \A q \in Requests : \A i \in 1..Len(fed[q]) :
            fed[q][i].from = p => /\ fed[q][i].number \in Nat
                                  /\ fed[q][i].number < received[p] + 1
    BY <1>3, FedAreFrames DEF FedKnown
  <2>3. \A q \in Requests : \A i \in 1..Len(fed[q]) :
            /\ fed[q][i].from = frame.from /\ fed[q][i].by = t =>
                  fed[q][i].number <= frame.number
            /\ ~SameFrame(fed[q][i], frame)
    BY <1>3, <2>2 DEF SameFrame
  <2>4. SUFFICES ASSUME NEW u \in Threads, Busy(u)', NEW q \in Requests,
                        NEW i \in 1..Len(fed[q])
                 PROVE  /\ fed[q][i].from = relay'[u].frame.from /\ fed[q][i].by = u =>
                              fed[q][i].number <= relay'[u].frame.number
                        /\ SameFrame(fed[q][i], relay'[u].frame) => q \in Passed(u)'
    <3>1. fed' = fed
      BY <1>1
    <3>2. QED
      BY <3>1, Zenon DEF FedBefore, SameFrame
  <2>5. CASE u = t
    <3>1. relay'[t].frame = frame
      BY <1>7
    <3>2. QED
      BY <2>3, <2>5, <3>1, Zenon
  <2>6. CASE u # t
    <3>1. /\ Busy(u) /\ relay'[u].frame = relay[u].frame
          /\ Passed(u)' = Passed(u)
      BY <1>7, <1>8, <2>1, <2>4, <2>6
    <3>2. QED
      BY <3>1, Zenon DEF FedBefore
  <2>7. QED
    BY <2>5, <2>6
<1>16. NobodySkipped'
  BY <1>1, <1>7, <1>8 DEF NobodySkipped
<1>17. FedInOrder' /\ FaultIsFinal'
  BY <1>1 DEF FedInOrder, FaultIsFinal
<1>18. FaultsHaveCauses'
  <2>1. \A u \in Threads : Busy(u) => u # t /\ Busy(u)' /\ relay'[u] = relay[u]
    BY <1>7, <1>8
  <2>2. QED
    BY <1>1, <2>1 DEF FaultsHaveCauses, IsPlay, PublisherOf
<1>19. QED
  BY <1>2, <1>9, <1>10, <1>11, <1>13, <1>14, <1>15, <1>16, <1>17, <1>18

\* RtcPublisher::OnRecvMediaData.
LEMMA OnRecvMediaDataPreservesRInv ==
    ASSUME RInv, NEW t \in Threads, NEW p \in Requests, OnRecvMediaData(t, p)
    PROVE  RInv'
<1>1. ~Busy(t) /\ IsPublish(p) /\ state[p] = "connected" /\ received[p] < MaxFrames
  BY DEF OnRecvMediaData, CanReceive, MayCall
<1>2. CASE scache[p] # None /\ StartRelay(t, p, scache[p])
  BY <1>1, <1>2, StartRelayPreservesRInv
<1>3. CASE scache[p] = None /\ Crash("null", p)
  <2>1. ufrag[p] # None /\ p \in answered
    BY <1>1 DEF RInv, ConnectedAreNamed
  <2>2. phase[p] = "writing"
    <3>1. phase[p] \in {"writing", "served"} /\ req[p] \in Asked
      BY <2>1 DEF RInv, IInv, HandlersKnow
    <3>2. phase[p] # "served"
      BY <1>3, <3>1, SignallingAssumption DEF RInv, IInv, HandlersKnow, Asked
    <3>3. QED
      BY <3>1, <3>2
  <2>3. QED
    BY <1>3, <2>1, <2>2, CrashPreservesRInv
<1>4. QED
  BY <1>2, <1>3 DEF OnRecvMediaData

\* The player whose turn it is plays the stream of the frame, and had no turn in
\* this call before.
LEMMA TurnOfPlayer ==
    ASSUME RInv, NEW t \in Threads, Busy(t), relay[t].at <= relay[t].end
    PROVE  LET p == players[relay[t].on][relay[t].at] IN
           /\ p \in Requests /\ IsPlay(p) /\ scache[p] = relay[t].on
           /\ scache[p] # None
           /\ p \notin Passed(t)
<1> USE DEF RInv, IInv
<1> DEFINE s == relay[t].on
           p == players[s][relay[t].at]
<1>1. /\ s \in Streams /\ relay[t].at \in 1..Len(players[s])
      /\ Len(players[s]) \in Nat
      /\ \A i \in 1..Len(players[s]) : players[s][i] \in Requests
  BY CallsAreTyped, PlayersAreRequests DEF CallsKnown
<1>2. req[p] = [kind |-> "play", stream |-> s] /\ phase[p] = "served"
  BY <1>1 DEF PlayersKnown
<1>3. scache[p] = s
  BY <1>1, <1>2 DEF HandlersKnow
<1>4. p \notin Passed(t)
  <2>1. SUFFICES ASSUME NEW i \in 1..(relay[t].at - 1), players[s][i] = p
                 PROVE  FALSE
    BY DEF Passed
  <2>2. i \in 1..Len(players[s]) /\ i # relay[t].at
    BY <1>1
  <2>3. QED
    BY <1>1, <2>1, <2>2 DEF PlayersKnown
<1>5. IsPlay(p) /\ p \in Requests
  BY <1>1, <1>2 DEF IsPlay
<1>6. s # None
  BY <1>1, SignallingAssumption
<1>7. QED
  BY <1>3, <1>4, <1>5, <1>6, Zenon

\* What one turn of the loop, or the end of it, leaves as it was.
LEMMA CallStepKeeps ==
    ASSUME RInv, running,
           UNCHANGED <<sigVars, state, received, capacity, asked, fault>>
    PROVE  /\ IInv' /\ NamedAreConnected' /\ ConnectedAreNamed' /\ KeyFrameAsked'
           /\ FaultIsFinal' /\ FaultsHaveCauses'
<1> USE DEF RInv
<1>1. UNCHANGED <<running, phase, req, streamIDs, CanPublish, publisher, players,
                  SarsPeersUfragMaps, hasPC, ufrag, scache, answered>>
  BY DEF sigVars, cacheVars, peerVars
<1>2. IInv' /\ NamedAreConnected'
  BY HandlersKeepNames
<1>3. QED
  BY <1>1, <1>2 DEF ConnectedAreNamed, KeyFrameAsked, IsPlay, IsPublish,
     FaultIsFinal, FaultsHaveCauses

\* The frames that players were fed stay, and p is fed frame after them, if any.
FedMore(p, frame) ==
    /\ fed' \in [Requests -> Seq(Frames)]
    /\ \A q \in Requests :
          /\ Len(fed[q]) \in Nat /\ Len(fed'[q]) \in Nat
          /\ DOMAIN fed[q] = 1..Len(fed[q])
          /\ DOMAIN fed'[q] = 1..Len(fed'[q])
          /\ \A i \in 1..Len(fed[q]) :
                i \in 1..Len(fed'[q]) /\ fed'[q][i] = fed[q][i]
          /\ \A i \in 1..Len(fed'[q]) :
                \/ i \in 1..Len(fed[q]) /\ fed'[q][i] = fed[q][i]
                \/ /\ q = p /\ fed'[q][i] = frame
                   /\ i = Len(fed[q]) + 1
    /\ state[p] = "connected" => \E i \in 1..Len(fed'[p]) : fed'[p][i] = frame

LEMMA TurnFeeds ==
    ASSUME RelayTypeOK, NEW p \in Requests, NEW frame \in Frames,
           fed' = IF state[p] = "connected"
                  THEN [fed EXCEPT ![p] = Append(@, frame)] ELSE fed
    PROVE  FedMore(p, frame)
<1>1. fed \in [Requests -> Seq(Frames)]
  BY DEF RelayTypeOK
<1>2. CASE state[p] # "connected"
  <2>1. \A q \in Requests : Len(fed[q]) \in Nat /\ DOMAIN fed[q] = 1..Len(fed[q])
    BY <1>1
  <2>2. QED
    BY <1>1, <1>2, <2>1 DEF FedMore
<1>3. CASE state[p] = "connected"
  <2>1. /\ fed[p] \in Seq(Frames)
        /\ fed'[p] = Append(fed[p], frame)
        /\ \A q \in Requests : q # p => fed'[q] = fed[q]
        /\ fed' = [q \in Requests |-> fed'[q]]
    BY <1>1, <1>3
  <2>2. /\ fed'[p] \in Seq(Frames)
        /\ Len(fed[p]) \in Nat /\ Len(fed'[p]) = Len(fed[p]) + 1
        /\ DOMAIN fed[p] = 1..Len(fed[p])
        /\ DOMAIN fed'[p] = 1..(Len(fed[p]) + 1)
        /\ \A i \in 1..Len(fed[p]) : fed'[p][i] = fed[p][i]
        /\ fed'[p][Len(fed[p]) + 1] = frame
    <3>1. PICK old, new : old = fed[p] /\ new = fed'[p]
      OBVIOUS
    <3>2. old \in Seq(Frames) /\ new = Append(old, frame)
      BY <2>1, <3>1
    <3>3. QED
      BY <3>1, <3>2, AppendAddsOne
  <2>3. fed' \in [Requests -> Seq(Frames)]
    <3>1. \A q \in Requests : fed'[q] \in Seq(Frames)
      BY <1>1, <2>1, <2>2
    <3>2. QED
      BY <2>1, <3>1
  <2>4. \A q \in Requests : q # p =>
            fed'[q] = fed[q] /\ Len(fed[q]) \in Nat /\ DOMAIN fed[q] = 1..Len(fed[q])
    BY <1>1, <2>1
  <2>5. \A q \in Requests :
          /\ Len(fed[q]) \in Nat /\ Len(fed'[q]) \in Nat
          /\ DOMAIN fed[q] = 1..Len(fed[q])
          /\ DOMAIN fed'[q] = 1..Len(fed'[q])
          /\ \A i \in 1..Len(fed[q]) :
                i \in 1..Len(fed'[q]) /\ fed'[q][i] = fed[q][i]
          /\ \A i \in 1..Len(fed'[q]) :
                \/ i \in 1..Len(fed[q]) /\ fed'[q][i] = fed[q][i]
                \/ /\ q = p /\ fed'[q][i] = frame
                   /\ i = Len(fed[q]) + 1
    BY <2>2, <2>4
  <2>6. \E i \in 1..Len(fed'[p]) : fed'[p][i] = frame
    BY <2>2
  <2>7. QED
    BY <2>3, <2>5, <2>6 DEF FedMore
<1>4. QED
  BY <1>2, <1>3

\* A call goes on to its next player; what else the calls are about stays.
CallMoves(t) ==
    /\ relay'[t].at = relay[t].at + 1
    /\ players' = players
    /\ \A u \in Threads :
          /\ Busy(u)' <=> Busy(u)
          /\ Busy(u) => /\ relay'[u].on = relay[u].on
                        /\ relay'[u].frame = relay[u].frame
                        /\ relay'[u].end = relay[u].end
                        /\ relay'[u].due = relay[u].due
                        /\ relay'[u].wild = relay[u].wild
          /\ u # t => relay'[u] = relay[u]

LEMMA TurnMovesCall ==
    ASSUME RelayTypeOK, NEW t \in Threads, Busy(t),
           relay' = [relay EXCEPT ![t].at = @ + 1], players' = players
    PROVE  CallMoves(t) /\ relay' \in [Threads -> Calls \cup {Idle}]
<1>1. relay[t] \in Calls /\ relay[t].at \in Nat
  BY CallsAreTyped
<1>2. relay \in [Threads -> Calls \cup {Idle}]
  BY DEF RelayTypeOK
<1>3. /\ relay'[t] = [relay[t] EXCEPT !.at = relay[t].at + 1]
      /\ \A u \in Threads : u # t => relay'[u] = relay[u]
      /\ relay' = [u \in Threads |-> relay'[u]]
  BY <1>2
<1>4. /\ relay'[t] \in Calls /\ relay'[t].at = relay[t].at + 1
      /\ relay'[t].on = relay[t].on /\ relay'[t].frame = relay[t].frame
      /\ relay'[t].end = relay[t].end /\ relay'[t].due = relay[t].due
      /\ relay'[t].wild = relay[t].wild
  BY <1>1, <1>3 DEF Calls
<1>5. \A u \in Threads : relay'[u] \in Calls \cup {Idle}
  BY <1>2, <1>3, <1>4
<1>6. Busy(t)'
  BY <1>4, CallsAreBusy DEF Busy
<1>7. \A u \in Threads : u # t => (Busy(u)' <=> Busy(u))
  BY <1>3 DEF Busy
<1>8. CallMoves(t)
  <2>1. ASSUME NEW u \in Threads
        PROVE  /\ Busy(u)' <=> Busy(u)
               /\ Busy(u) => /\ relay'[u].on = relay[u].on
                             /\ relay'[u].frame = relay[u].frame
                             /\ relay'[u].end = relay[u].end
                             /\ relay'[u].due = relay[u].due
                             /\ relay'[u].wild = relay[u].wild
               /\ u # t => relay'[u] = relay[u]
    <3>1. CASE u = t
      BY <1>4, <1>6, <3>1, Zenon
    <3>2. CASE u # t
      BY <1>3, <1>7, <3>2, Zenon
    <3>3. QED
      BY <3>1, <3>2
  <2>2. QED
    BY <1>4, <2>1 DEF CallMoves
<1>9. QED
  BY <1>3, <1>5, <1>8

\* What CallsKnown and CallsDiffer say reads nothing of a call that a turn, or
\* the end of another call, changes.
LEMMA CallsCarryOver ==
    ASSUME CallsKnown, CallsDiffer,
           players' = players, scache' = scache, req' = req, state' = state,
           received' = received,
           \A u \in Threads : Busy(u)' =>
               /\ Busy(u)
               /\ relay'[u].on = relay[u].on
               /\ relay'[u].frame = relay[u].frame
               /\ relay'[u].end = relay[u].end
               /\ relay'[u].due = relay[u].due
               /\ relay'[u].wild = relay[u].wild
    PROVE  CallsKnown' /\ CallsDiffer'
<1>1. ASSUME NEW u \in Threads, Busy(u)'
      PROVE  /\ relay'[u].frame.by = u
             /\ relay'[u].frame.number <= received'[relay'[u].frame.from]
             /\ req'[relay'[u].frame.from].kind = "publish"
             /\ scache'[relay'[u].frame.from] = relay'[u].on
             /\ relay'[u].end <= Len(players'[relay'[u].on])
             /\ relay'[u].wild => relay'[u].end < Len(players'[relay'[u].on])
             /\ \A p \in relay'[u].due : state'[p] = "connected"
  <2>1. /\ Busy(u)
        /\ relay'[u].on = relay[u].on /\ relay'[u].frame = relay[u].frame
        /\ relay'[u].end = relay[u].end /\ relay'[u].due = relay[u].due
        /\ relay'[u].wild = relay[u].wild
    BY <1>1
  <2>2. /\ relay[u].frame.by = u
        /\ relay[u].frame.number <= received[relay[u].frame.from]
        /\ IsPublish(relay[u].frame.from)
        /\ scache[relay[u].frame.from] = relay[u].on
        /\ relay[u].end <= Len(players[relay[u].on])
        /\ relay[u].wild => relay[u].end < Len(players[relay[u].on])
        /\ \A p \in relay[u].due : state[p] = "connected"
    BY <2>1, Zenon DEF CallsKnown
  <2>3. req'[relay'[u].frame.from].kind = "publish"
    BY <2>1, <2>2, Zenon DEF IsPublish
  <2>4. QED
    BY <2>1, <2>2, <2>3, Zenon
<1>2. CallsKnown'
  BY <1>1, Zenon DEF CallsKnown, IsPublish
<1>3. ASSUME NEW t \in Threads, NEW u \in Threads, Busy(t)', Busy(u)', t # u
      PROVE  ~SameFrame(relay'[t].frame, relay'[u].frame)
  <2>1. /\ relay'[t].frame = relay[t].frame /\ relay'[u].frame = relay[u].frame
        /\ Busy(t) /\ Busy(u)
    BY <1>3, Zenon
  <2>2. QED
    BY <1>3, <2>1, Zenon DEF CallsDiffer
<1>4. CallsDiffer'
  BY <1>3, Zenon DEF CallsDiffer, SameFrame
<1>5. QED
  BY <1>2, <1>4

LEMMA TurnPasses ==
    ASSUME NEW t \in Threads, Busy(t), relay[t].at \in Nat, relay[t].at >= 1,
           CallMoves(t)
    PROVE  /\ Passed(t)' = Passed(t) \cup {players[relay[t].on][relay[t].at]}
           /\ \A u \in Threads : u # t => Passed(u)' = Passed(u)
<1>1. SUFFICES ASSUME NEW at \in Nat, at = relay[t].at, at >= 1,
                      NEW list, list = players[relay[t].on]
               PROVE  /\ Passed(t)' = Passed(t) \cup {list[at]}
                      /\ \A u \in Threads : u # t => Passed(u)' = Passed(u)
  OBVIOUS
<1>2. Passed(t)' = {list[i] : i \in 1..at}
  <2>1. relay'[t].on = relay[t].on /\ players' = players
    BY Zenon DEF CallMoves
  <2>2. relay'[t].at = at + 1
    BY <1>1, Zenon DEF CallMoves
  <2>3. relay'[t].at - 1 = at
    BY <2>2
  <2>4. QED
    BY <1>1, <2>1, <2>3, Zenon DEF Passed
<1>3. Passed(t) = {list[i] : i \in 1..(at - 1)}
  BY <1>1, Zenon DEF Passed
<1>4. \A i : i \in 1..at <=> i \in 1..(at - 1) \/ i = at
  <2>1. at \in Nat /\ at >= 1
    BY <1>1
  <2>2. QED
    BY <2>1
<1>5. ASSUME NEW u \in Threads, u # t
      PROVE  Passed(u)' = Passed(u)
  <2>1. relay'[u] = relay[u] /\ players' = players
    BY <1>5, Zenon DEF CallMoves
  <2>2. QED
    BY <2>1, Zenon DEF Passed
<1>6. {list[i] : i \in 1..at} = {list[i] : i \in 1..(at - 1)} \cup {list[at]}
  BY <1>4, Zenon
<1>7. QED
  BY <1>2, <1>3, <1>5, <1>6, Zenon

\* A player that is fed a frame now was not fed it by the call, and the call has
\* passed it now.
LEMMA TurnKeepsFedBefore ==
    ASSUME FedBefore, CallsDiffer, NEW t \in Threads, Busy(t), CallMoves(t),
           NEW p \in Requests, NEW frame, frame = relay[t].frame, frame.by = t,
           frame.number \in Nat, FedMore(p, frame),
           Passed(t) \subseteq Passed(t)', p \in Passed(t)',
           \A u \in Threads : u # t => Passed(u)' = Passed(u)
    PROVE  FedBefore'
<1>1. ASSUME NEW u \in Threads, Busy(u)', NEW q \in Requests,
             NEW i \in 1..Len(fed'[q])
      PROVE  /\ fed'[q][i].from = relay'[u].frame.from /\ fed'[q][i].by = u =>
                   fed'[q][i].number <= relay'[u].frame.number
             /\ SameFrame(fed'[q][i], relay'[u].frame) => q \in Passed(u)'
  <2>1. Busy(u) /\ relay'[u].frame = relay[u].frame
    BY <1>1, Zenon DEF CallMoves
  <2>2. Passed(u) \subseteq Passed(u)'
    BY Zenon
  <2>3. CASE i \in 1..Len(fed[q]) /\ fed'[q][i] = fed[q][i]
    <3>1. /\ fed[q][i].from = relay[u].frame.from /\ fed[q][i].by = u =>
                fed[q][i].number <= relay[u].frame.number
          /\ SameFrame(fed[q][i], relay[u].frame) => q \in Passed(u)
      BY <2>1, <2>3, Zenon DEF FedBefore
    <3>2. QED
      BY <2>1, <2>2, <2>3, <3>1, Zenon
  <2>4. CASE q = p /\ fed'[q][i] = frame /\ u = t
    <3>1. frame.number <= frame.number
      OBVIOUS
    <3>2. QED
      BY <2>1, <2>4, <3>1, Zenon
  <2>5. CASE fed'[q][i] = frame /\ u # t
    <3>1. ~SameFrame(frame, relay[u].frame)
      BY <2>1, <2>5, Zenon DEF CallsDiffer
    <3>2. QED
      BY <2>1, <2>5, <3>1, Zenon
  <2>6. \/ i \in 1..Len(fed[q]) /\ fed'[q][i] = fed[q][i]
        \/ q = p /\ fed'[q][i] = frame
    BY Zenon DEF FedMore
  <2>7. QED
    BY <2>3, <2>4, <2>5, <2>6, Zenon
<1>2. QED
  BY <1>1, Zenon DEF FedBefore, SameFrame

LEMMA TurnKeepsFedInOrder ==
    ASSUME FedBefore, FedInOrder, NEW t \in Threads, Busy(t),
           NEW p \in Requests, NEW frame, frame = relay[t].frame, frame.by = t,
           frame.number \in Nat, FedMore(p, frame), p \notin Passed(t),
           \A q \in Requests : \A i \in 1..Len(fed[q]) : fed[q][i].number \in Nat
    PROVE  FedInOrder'
<1>1. ASSUME NEW q \in Requests, NEW i \in 1..Len(fed'[q]),
             NEW j \in 1..Len(fed'[q]), i < j,
             fed'[q][i].from = fed'[q][j].from, fed'[q][i].by = fed'[q][j].by
      PROVE  fed'[q][i].number < fed'[q][j].number
  <2>1. \A k \in 1..Len(fed'[q]) :
            \/ k \in 1..Len(fed[q]) /\ fed'[q][k] = fed[q][k]
            \/ /\ q = p /\ fed'[q][k] = frame
               /\ k = Len(fed[q]) + 1
    BY Zenon DEF FedMore
  <2>2. i \in 1..Len(fed[q]) /\ fed'[q][i] = fed[q][i]
    <3>1. Len(fed[q]) \in Nat /\ Len(fed'[q]) \in Nat
      BY Zenon DEF FedMore
    <3>2. j <= Len(fed[q]) + 1
      BY <2>1, <3>1
    <3>3. i # Len(fed[q]) + 1
      BY <1>1, <3>1, <3>2
    <3>4. QED
      BY <2>1, <3>3, Zenon
  <2>3. CASE j \in 1..Len(fed[q]) /\ fed'[q][j] = fed[q][j]
    <3>1. i \in DOMAIN fed[q] /\ j \in DOMAIN fed[q]
      BY <2>2, <2>3, Zenon DEF FedMore
    <3>2. QED
      BY <1>1, <2>2, <2>3, <3>1, Zenon DEF FedInOrder
  <2>4. CASE q = p /\ fed'[q][j] = frame
    <3>1. fed[q][i].from = frame.from /\ fed[q][i].by = t
      BY <1>1, <2>2, <2>4, Zenon
    <3>2. fed[q][i].number <= frame.number
      BY <2>2, <3>1, Zenon DEF FedBefore
    <3>3. ~SameFrame(fed[q][i], frame)
      BY <2>2, <2>4, Zenon DEF FedBefore
    <3>4. fed[q][i].number # frame.number
      BY <3>1, <3>3, Zenon DEF SameFrame
    <3>5. fed[q][i].number \in Nat
      BY <2>2, Zenon
    <3>6. fed[q][i].number < frame.number
      BY <3>2, <3>4, <3>5
    <3>7. QED
      BY <2>2, <2>4, <3>6, Zenon
  <2>5. QED
    BY <2>1, <2>3, <2>4, Zenon
<1>2. \A q \in Requests : DOMAIN fed'[q] = 1..Len(fed'[q])
  BY Zenon DEF FedMore
<1>3. QED
  BY <1>1, <1>2, Zenon DEF FedInOrder

LEMMA TurnSkipsNobody ==
    ASSUME NobodySkipped, RelayTypeOK, NEW t \in Threads, Busy(t), CallMoves(t),
           NEW p \in Requests, p = players[relay[t].on][relay[t].at],
           NEW frame, frame = relay[t].frame, FedMore(p, frame),
           p \in relay[t].due => state[p] = "connected"
    PROVE  NobodySkipped'
<1>1. \A q \in Requests : ToSet(fed[q]) \subseteq ToSet(fed'[q])
  <2>1. SUFFICES ASSUME NEW q \in Requests, NEW i \in DOMAIN fed[q]
                 PROVE  \E j \in DOMAIN fed'[q] : fed'[q][j] = fed[q][i]
    BY DEF ToSet
  <2>2. DOMAIN fed[q] = 1..Len(fed[q]) /\ DOMAIN fed'[q] = 1..Len(fed'[q])
    BY Zenon DEF FedMore
  <2>3. i \in 1..Len(fed'[q]) /\ fed'[q][i] = fed[q][i]
    BY <2>1, <2>2 DEF FedMore
  <2>4. QED
    BY <2>2, <2>3
<1>2. p \in relay[t].due => frame \in ToSet(fed'[p])
  <2>1. DOMAIN fed'[p] = 1..Len(fed'[p])
    BY Zenon DEF FedMore
  <2>2. QED
    BY <2>1, Zenon DEF FedMore, ToSet
<1>3. ASSUME NEW u \in Threads, Busy(u)', ~relay'[u].wild,
             NEW i \in 1..(relay'[u].at - 1),
             players'[relay'[u].on][i] \in relay'[u].due
      PROVE  relay'[u].frame \in ToSet(fed'[players'[relay'[u].on][i]])
  <2>1. /\ Busy(u) /\ players' = players
        /\ relay'[u].on = relay[u].on /\ relay'[u].frame = relay[u].frame
        /\ relay'[u].due = relay[u].due /\ ~relay[u].wild
    BY <1>3, Zenon DEF CallMoves
  <2>2. SUFFICES ASSUME NEW q, q = players[relay[u].on][i], q \in relay[u].due
                 PROVE  relay[u].frame \in ToSet(fed'[q])
    BY <1>3, <2>1, Zenon
  <2>3. i \in 1..(relay[u].at - 1) \/ (u = t /\ i = relay[t].at)
    <3>1. CASE u = t
      <4>1. relay'[t].at = relay[t].at + 1
        BY Zenon DEF CallMoves
      <4>2. relay[t].at \in Nat
        BY CallsAreTyped
      <4>3. i \in 1..(relay'[t].at - 1)
        BY <3>1
      <4>4. i \in 1..(relay[t].at - 1) \/ i = relay[t].at
        BY <4>1, <4>2, <4>3
      <4>5. QED
        BY <3>1, <4>4
    <3>2. CASE u # t
      <4>1. relay'[u] = relay[u]
        BY <3>2, Zenon DEF CallMoves
      <4>2. QED
        BY <1>3, <4>1, Zenon
    <3>3. QED
      BY <3>1, <3>2
  <2>4. CASE i \in 1..(relay[u].at - 1)
    <3>1. relay[u].frame \in ToSet(fed[q])
      BY <2>1, <2>2, <2>4, Zenon DEF NobodySkipped
    <3>2. q \in Requests
      <4>1. relay[u].due \subseteq Requests
        BY <2>1, CallsAreTyped DEF Calls
      <4>2. QED
        BY <2>2, <4>1
    <3>3. QED
      BY <1>1, <3>1, <3>2
  <2>5. CASE u = t /\ i = relay[t].at
    BY <1>2, <2>2, <2>5, Zenon
  <2>6. QED
    BY <2>3, <2>4, <2>5
<1>4. QED
  BY <1>3, Zenon DEF NobodySkipped

LEMMA TurnKeepsFedKnown ==
    ASSUME FedKnown, req' = req, scache' = scache, received' = received,
           NEW p \in Requests, NEW frame, FedMore(p, frame),
           IsPlay(p), IsPublish(frame.from), scache[p] # None,
           scache[frame.from] = scache[p], frame.number <= received[frame.from]
    PROVE  FedKnown'
<1>1. ASSUME NEW q \in Requests, NEW i \in 1..Len(fed'[q])
      PROVE  /\ IsPublish(fed'[q][i].from) /\ IsPlay(q)
             /\ scache[q] # None /\ scache[fed'[q][i].from] = scache[q]
             /\ fed'[q][i].number <= received[fed'[q][i].from]
  <2>1. CASE i \in 1..Len(fed[q]) /\ fed'[q][i] = fed[q][i]
    BY <2>1, Zenon DEF FedKnown
  <2>2. CASE q = p /\ fed'[q][i] = frame
    BY <2>2, Zenon
  <2>3. \/ i \in 1..Len(fed[q]) /\ fed'[q][i] = fed[q][i]
        \/ q = p /\ fed'[q][i] = frame
    BY Zenon DEF FedMore
  <2>4. QED
    BY <2>1, <2>2, <2>3, Zenon
<1>2. ASSUME NEW q \in Requests, NEW i \in 1..Len(fed'[q])
      PROVE  /\ req'[fed'[q][i].from].kind = "publish" /\ req'[q].kind = "play"
             /\ scache'[q] # None /\ scache'[fed'[q][i].from] = scache'[q]
             /\ fed'[q][i].number <= received'[fed'[q][i].from]
  BY <1>1, Zenon DEF IsPublish, IsPlay
<1>3. QED
  BY <1>2, Zenon DEF FedKnown, IsPublish, IsPlay

\* One turn of the loop.
LEMMA TurnPreservesRInv ==
    ASSUME RInv, running, NEW t \in Threads, Busy(t), relay[t].at <= relay[t].end,
           relay' = [relay EXCEPT ![t].at = @ + 1],
           Turn(t, players[relay[t].on][relay[t].at])
    PROVE  RInv'
<1> DEFINE p == players[relay[t].on][relay[t].at]
           frame == relay[t].frame
<1>1. /\ UNCHANGED <<sigVars, state, received, capacity, asked, fault>>
      /\ fed' = IF state[p] = "connected"
                THEN [fed EXCEPT ![p] = Append(@, frame)] ELSE fed
  BY DEF Turn
<1>2. /\ players' = players /\ scache' = scache /\ req' = req
      /\ state' = state /\ received' = received /\ capacity' = capacity
      /\ asked' = asked /\ fault' = fault
  BY <1>1 DEF sigVars, cacheVars, peerVars
<1>3. /\ RelayTypeOK /\ CallsKnown /\ CallsDiffer /\ FedKnown /\ FedBefore
      /\ FedInOrder /\ NobodySkipped
  BY DEF RInv
<1>4. /\ IInv' /\ NamedAreConnected' /\ ConnectedAreNamed' /\ KeyFrameAsked'
      /\ FaultIsFinal' /\ FaultsHaveCauses'
  BY <1>1, CallStepKeeps
<1>5. /\ p \in Requests /\ IsPlay(p) /\ scache[p] = relay[t].on
      /\ scache[p] # None /\ p \notin Passed(t)
  BY TurnOfPlayer
<1>6. /\ frame \in Frames /\ frame.number \in Nat
      /\ relay[t].at \in Nat /\ relay[t].at >= 1 /\ relay[t].end \in Nat
  BY <1>3, CallsAreTyped
<1>7. /\ frame.by = t /\ frame.number <= received[frame.from]
      /\ IsPublish(frame.from) /\ scache[frame.from] = relay[t].on
      /\ p \in relay[t].due => state[p] = "connected"
  BY <1>3, Zenon DEF CallsKnown
<1>8. CallMoves(t) /\ relay' \in [Threads -> Calls \cup {Idle}]
  BY <1>2, <1>3, TurnMovesCall
<1>9. FedMore(p, frame)
  BY <1>1, <1>3, <1>5, <1>6, TurnFeeds
<1>10. /\ Passed(t)' = Passed(t) \cup {p}
       /\ \A u \in Threads : u # t => Passed(u)' = Passed(u)
  BY <1>6, <1>8, TurnPasses
<1> HIDE DEF p, frame
<1>11. RelayTypeOK'
  <2>1. \A u \in Threads : Busy(u)' => relay'[u].at \in 1..(relay'[u].end + 1)
    <3>1. SUFFICES ASSUME NEW u \in Threads, Busy(u)
                   PROVE  relay'[u].at \in 1..(relay'[u].end + 1)
      BY <1>8, Zenon DEF CallMoves
    <3>2. CASE u # t
      BY <1>3, <1>8, <3>1, <3>2, Zenon DEF RelayTypeOK, CallMoves
    <3>3. CASE u = t
      <4>1. relay'[u].at = relay[t].at + 1 /\ relay'[u].end = relay[t].end
        BY <1>8, <3>1, <3>3, Zenon DEF CallMoves
      <4>2. relay[t].at + 1 \in 1..(relay[t].end + 1)
        BY <1>6
      <4>3. QED
        BY <4>1, <4>2
    <3>4. QED
      BY <3>2, <3>3
  <2>2. fed' \in [Requests -> Seq(Frames)]
    BY <1>9, Zenon DEF FedMore
  <2>3. QED
    BY <1>2, <1>3, <1>4, <1>8, <2>1, <2>2 DEF RelayTypeOK, IInv
<1>12. CallsKnown' /\ CallsDiffer'
  <2>1. \A u \in Threads : Busy(u)' =>
            /\ Busy(u)
            /\ relay'[u].on = relay[u].on
            /\ relay'[u].frame = relay[u].frame
            /\ relay'[u].end = relay[u].end
            /\ relay'[u].due = relay[u].due
            /\ relay'[u].wild = relay[u].wild
    BY <1>8, Zenon DEF CallMoves
  <2>2. QED
    BY <1>2, <1>3, <2>1, CallsCarryOver
<1>13. FedKnown'
  <2>1. scache[frame.from] = scache[p]
    BY <1>5, <1>7
  <2>2. QED
    BY <1>2, <1>3, <1>5, <1>7, <1>9, <2>1, TurnKeepsFedKnown
<1>14. FedBefore'
  <2>1. Passed(t) \subseteq Passed(t)' /\ p \in Passed(t)'
    BY <1>10
  <2>2. frame = relay[t].frame
    BY DEF frame
  <2>3. QED
    BY <1>3, <1>5, <1>6, <1>7, <1>8, <1>9, <1>10, <2>1, <2>2, TurnKeepsFedBefore
<1>15. FedInOrder'
  <2>1. \A q \in Requests : \A i \in 1..Len(fed[q]) : fed[q][i].number \in Nat
    BY <1>3, FedAreFrames
  <2>2. frame = relay[t].frame
    BY DEF frame
  <2>3. QED
    BY <1>3, <1>5, <1>6, <1>7, <1>9, <2>1, <2>2, TurnKeepsFedInOrder
<1>16. NobodySkipped'
  <2>1. frame = relay[t].frame /\ p = players[relay[t].on][relay[t].at]
    BY DEF frame, p
  <2>2. QED
    BY <1>3, <1>5, <1>7, <1>8, <1>9, <2>1, TurnSkipsNobody
<1>17. QED
  BY <1>4, <1>11, <1>12, <1>13, <1>14, <1>15, <1>16 DEF RInv

\* A turn in a vector that has moved, which feeds nobody.
LEMMA SkipPreservesRInv ==
    ASSUME RInv, running, NEW t \in Threads, Busy(t), relay[t].wild,
           relay[t].at <= relay[t].end,
           relay' = [relay EXCEPT ![t].at = @ + 1], NobodyFed
    PROVE  RInv'
<1>1. /\ UNCHANGED <<sigVars, state, received, capacity, fed, asked, fault>>
      /\ UNCHANGED <<players, scache, req>>
  BY DEF NobodyFed, sigVars, cacheVars, peerVars
<1>2. /\ RelayTypeOK /\ CallsKnown /\ CallsDiffer /\ FedKnown /\ FedBefore
      /\ FedInOrder /\ NobodySkipped
  BY DEF RInv
<1>3. /\ IInv' /\ NamedAreConnected' /\ ConnectedAreNamed' /\ KeyFrameAsked'
      /\ FaultIsFinal' /\ FaultsHaveCauses'
  BY <1>1, CallStepKeeps
<1>4. CallMoves(t) /\ relay' \in [Threads -> Calls \cup {Idle}]
  BY <1>1, <1>2, TurnMovesCall
<1>5. /\ relay[t].at \in Nat /\ relay[t].at >= 1 /\ relay[t].end \in Nat
  BY <1>2, CallsAreTyped
<1>6. \A u \in Threads : Busy(u)' =>
          /\ Busy(u)
          /\ relay'[u].on = relay[u].on
          /\ relay'[u].frame = relay[u].frame
          /\ relay'[u].end = relay[u].end
          /\ relay'[u].due = relay[u].due
          /\ relay'[u].wild = relay[u].wild
  BY <1>4, Zenon DEF CallMoves
<1>7. RelayTypeOK'
  <2>1. ASSUME NEW u \in Threads, Busy(u)'
        PROVE  relay'[u].at \in 1..(relay'[u].end + 1)
    <3>1. CASE u # t
      BY <1>2, <1>4, <1>6, <2>1, <3>1, Zenon DEF RelayTypeOK, CallMoves
    <3>2. CASE u = t
      <4>1. relay'[u].at = relay[t].at + 1 /\ relay'[u].end = relay[t].end
        BY <1>4, <1>6, <2>1, <3>2, Zenon DEF CallMoves
      <4>2. relay[t].at + 1 \in 1..(relay[t].end + 1)
        BY <1>5
      <4>3. QED
        BY <4>1, <4>2
    <3>3. QED
      BY <3>1, <3>2
  <2>2. QED
    BY <1>1, <1>2, <1>3, <1>4, <2>1 DEF RelayTypeOK, IInv
<1>8. CallsKnown' /\ CallsDiffer'
  BY <1>1, <1>2, <1>6, CallsCarryOver
<1>9. FedKnown' /\ FedInOrder'
  BY <1>1, <1>2 DEF FedKnown, FedInOrder, IsPublish, IsPlay
<1>10. FedBefore'
  <2>1. \A u \in Threads : Passed(u) \subseteq Passed(u)'
    BY <1>4, <1>5, TurnPasses
  <2>2. QED
    BY <1>1, <1>2, <1>6, <2>1 DEF FedBefore, SameFrame
<1>11. NobodySkipped'
  <2>1. ASSUME NEW u \in Threads, Busy(u)', ~relay'[u].wild
        PROVE  Busy(u) /\ ~relay[u].wild /\ relay'[u] = relay[u]
    <3>1. Busy(u) /\ relay'[u].wild = relay[u].wild
      BY <1>6, <2>1, Zenon
    <3>2. u # t
      BY <2>1, <3>1
    <3>3. relay'[u] = relay[u]
      BY <1>4, <3>2, Zenon DEF CallMoves
    <3>4. QED
      BY <2>1, <3>1, <3>3, Zenon
  <2>2. QED
    BY <1>1, <1>2, <2>1 DEF NobodySkipped
<1>12. QED
  BY <1>3, <1>7, <1>8, <1>9, <1>10, <1>11 DEF RInv

\* The end of the loop.
LEMMA ReturnPreservesRInv ==
    ASSUME RInv, NEW t \in Threads, ReturnFromCacheMedia(t)
    PROVE  RInv'
<1> USE DEF RInv
<1>1. /\ UNCHANGED <<running, phase, req, streamIDs, CanPublish, publisher,
                     players, SarsPeersUfragMaps, hasPC, ufrag, scache, answered,
                     state, received, capacity, fed, asked, fault>>
      /\ UNCHANGED sigVars
      /\ running
      /\ relay' = [relay EXCEPT ![t] = Idle]
  BY DEF ReturnFromCacheMedia, NobodyFed, sigVars, cacheVars, peerVars
<1>2. /\ IInv' /\ NamedAreConnected' /\ ConnectedAreNamed' /\ KeyFrameAsked'
      /\ FaultIsFinal' /\ FaultsHaveCauses'
  BY <1>1, CallStepKeeps
<1>3. /\ relay' \in [Threads -> Calls \cup {Idle}]
      /\ \A u \in Threads : Busy(u)' => u # t /\ Busy(u) /\ relay'[u] = relay[u]
  BY <1>1 DEF RelayTypeOK, Busy
<1>4. RelayTypeOK'
  BY <1>1, <1>2, <1>3 DEF IInv, RelayTypeOK
<1>5. CallsKnown' /\ CallsDiffer' /\ NobodySkipped'
  BY <1>1, <1>3 DEF CallsKnown, CallsDiffer, NobodySkipped, IsPublish, SameFrame
<1>6. FedBefore'
  <2>1. \A u \in Threads : Busy(u)' => Passed(u)' = Passed(u)
    BY <1>1, <1>3 DEF Passed
  <2>2. QED
    BY <1>1, <1>3, <2>1 DEF FedBefore, SameFrame
<1>7. FedKnown' /\ FedInOrder'
  BY <1>1 DEF FedKnown, FedInOrder, IsPublish, IsPlay
<1>8. QED
  BY <1>2, <1>4, <1>5, <1>6, <1>7

LEMMA CacheMediaPreservesRInv ==
    ASSUME RInv, NEW t \in Threads, CacheMedia(t)
    PROVE  RInv'
<1>1. CASE ReturnFromCacheMedia(t)
  BY <1>1, ReturnPreservesRInv
<1>2. CASE FeedPlayer(t)
  <2>1. running /\ Busy(t) /\ relay[t].at <= relay[t].end
    BY <1>2 DEF FeedPlayer
  <2>2. CASE relay[t].wild /\ Crash("wild", relay[t].frame.from)
    <3>1. relay[t].frame.from \in Requests
      BY <2>1, CallsAreTyped DEF RInv
    <3>2. relay[t].end < Len(players[relay[t].on])
      BY <2>1, <2>2 DEF RInv, CallsKnown
    <3>3. QED
      BY <2>1, <2>2, <3>1, <3>2, CrashPreservesRInv
  <2>3. CASE /\ relay' = [relay EXCEPT ![t].at = @ + 1]
             /\ Turn(t, players[relay[t].on][relay[t].at])
    BY <2>1, <2>3, TurnPreservesRInv
  <2>4. CASE /\ relay' = [relay EXCEPT ![t].at = @ + 1]
             /\ relay[t].wild /\ NobodyFed
    BY <2>1, <2>4, SkipPreservesRInv
  <2>5. QED
    BY <1>2, <2>2, <2>3, <2>4 DEF FeedPlayer
<1>3. QED
  BY <1>1, <1>2 DEF CacheMedia

LEMMA RelayStutterPreservesRInv ==
    ASSUME RInv, UNCHANGED relayVars
    PROVE  RInv'
<1> USE DEF RInv
<1>1. /\ UNCHANGED <<running, phase, req, streamIDs, CanPublish, publisher,
                     players, SarsPeersUfragMaps, hasPC, ufrag, scache, answered,
                     state, received, relay, capacity, fed, asked, fault>>
      /\ UNCHANGED sigVars
  BY DEF relayVars, mediaVars, sigVars, cacheVars, peerVars
<1>2. QED
  BY <1>1, ConnectionStepPreservesRInv DEF RelayTypeOK, KeyFrameAsked

LEMMA RelayNextPreservesRInv == RInv /\ [RelayNext]_relayVars => RInv'
<1>1. SUFFICES ASSUME RInv, RelayNext \/ UNCHANGED relayVars PROVE RInv'
  OBVIOUS
<1>2. CASE UNCHANGED relayVars
  BY <1>1, <1>2, RelayStutterPreservesRInv
<1>3. CASE Signal
  BY <1>1, <1>3, SignalPreservesRInv
<1>4. ASSUME NEW t \in Threads, CacheMedia(t) PROVE RInv'
  BY <1>1, <1>4, CacheMediaPreservesRInv
<1>5. ASSUME NEW t \in Threads, NEW p \in Requests,
             \/ Connect(t, p)
             \/ RequestIFrame(t, p)
             \/ Disconnect(t, p)
             \/ OnRecvMediaData(t, p)
      PROVE  RInv'
  BY <1>1, <1>5, ConnectPreservesRInv, RequestIFramePreservesRInv,
     DisconnectPreservesRInv, OnRecvMediaDataPreservesRInv
<1>6. QED
  BY <1>1, <1>2, <1>3, <1>4, <1>5 DEF RelayNext

-----------------------------------------------------------------------------
(* The invariants. *)

\* The inductive invariant holds in every reachable state.
THEOREM RelayInductiveInvariant == RelaySpec => []RInv
<1>1. QED
  BY RelayInitEstablishesRInv, RelayNextPreservesRInv, PTL DEF RelaySpec

\* The calls, the vectors and their capacities, the histories and the faults
\* keep their types (scache.hpp, scache.cpp:9-53).
THEOREM RelayTypeCorrect == RelaySpec => []RelayTypeOK
<1>1. RInv => RelayTypeOK
  BY DEF RInv
<1>2. QED
  BY <1>1, RelayInductiveInvariant, PTL

\* CacheMedia feeds every player that stays connected during the call
\* (scache.cpp:29-33), whatever joins, leaves or relays meanwhile, as long as the
\* vector does not move.
THEOREM NobodyIsSkipped == RelaySpec => []NobodySkipped
<1>1. RInv => NobodySkipped
  BY DEF RInv
<1>2. QED
  BY <1>1, RelayInductiveInvariant, PTL

\* What one thread relays of a publisher reaches each player in the order the
\* publisher received it (scache.cpp:29-33).
THEOREM FramesKeepOrder == RelaySpec => []FedInOrder
<1>1. RInv => FedInOrder
  BY DEF RInv
<1>2. QED
  BY <1>1, RelayInductiveInvariant, PTL

\* Every player that is connected has in this connection asked a publisher of its
\* own stream, one with a connection, for a key frame (rtc_player.cpp:24-26).
THEOREM KeyFramesAreAsked == RelaySpec => []KeyFrameAsked
<1>1. RInv => KeyFrameAsked
  BY DEF RInv
<1>2. QED
  BY <1>1, RelayInductiveInvariant, PTL

\* A null pointer is dereferenced only in a callback of a peer whose client
\* connected while its handler was in Write, or of a player of a publisher that
\* could not be created (rtc_player.cpp:25, rtc_publisher.cpp:17), and a dangling
\* iterator only in a call whose vector outgrew its end (scache.cpp:29).
THEOREM FaultsAreExplained == RelaySpec => []FaultsHaveCauses
<1>1. RInv => FaultsHaveCauses
  BY DEF RInv
<1>2. QED
  BY <1>1, RelayInductiveInvariant, PTL

-----------------------------------------------------------------------------
(* What the invariants mean for a call and for a player. *)

\* A call goes on with the frame, over the vector and to the end it started
\* with, one player at a time, and does not go back; whoever disconnects is no
\* longer due, and nobody becomes due.
GoesOn(t) ==
    /\ relay'[t].on = relay[t].on
    /\ relay'[t].frame = relay[t].frame
    /\ relay'[t].end = relay[t].end
    /\ relay'[t].due \subseteq relay[t].due
    /\ relay'[t].at \in {relay[t].at, relay[t].at + 1}

\* Everybody who was connected throughout the call has been fed its frame.
HasServed(t) ==
    \A i \in 1..relay[t].end :
        LET p == players[relay[t].on][i] IN
        p \in relay[t].due => relay[t].frame \in ToSet(fed[p])

CallsRunThrough ==
    \A t \in Threads : Busy(t) =>
        \/ Busy(t)' /\ GoesOn(t)
        \/ ~Busy(t)' /\ (relay[t].wild \/ HasServed(t))

LEMMA CallsStand ==
    ASSUME RelayTypeOK, NEW t \in Threads, Busy(t), relay'[t] = relay[t]
    PROVE  Busy(t)' /\ GoesOn(t)
<1>1. Busy(t)'
  BY DEF Busy
<1>2. QED
  BY <1>1, Zenon DEF GoesOn

LEMMA ReturnRunsThrough ==
    ASSUME RInv, NEW t \in Threads, ReturnFromCacheMedia(t)
    PROVE  CallsRunThrough
<1>1. Busy(t) /\ relay[t].at > relay[t].end /\ relay' = [relay EXCEPT ![t] = Idle]
  BY DEF ReturnFromCacheMedia
<1>2. RelayTypeOK /\ NobodySkipped
  BY DEF RInv
<1>3. relay'[t] = Idle /\ \A u \in Threads : u # t => relay'[u] = relay[u]
  BY <1>1, <1>2 DEF RelayTypeOK
<1>4. relay[t].wild \/ HasServed(t)
  <2>1. relay[t].at - 1 = relay[t].end
    BY <1>1, <1>2, CallsAreTyped
  <2>2. relay[t].wild \/ \A i \in 1..(relay[t].at - 1) :
            LET p == players[relay[t].on][i] IN
            p \in relay[t].due => relay[t].frame \in ToSet(fed[p])
    BY <1>1, <1>2, Zenon DEF NobodySkipped
  <2>3. QED
    BY <2>1, <2>2, Zenon DEF HasServed
<1>5. ~Busy(t)'
  BY <1>3, Zenon DEF Busy
<1>6. ASSUME NEW u \in Threads, Busy(u), u # t PROVE Busy(u)' /\ GoesOn(u)
  BY <1>2, <1>3, <1>6, CallsStand
<1>7. QED
  BY <1>4, <1>5, <1>6, Zenon DEF CallsRunThrough

LEMMA TurnRunsThrough ==
    ASSUME RInv, NEW t \in Threads, Busy(t),
           relay' = [relay EXCEPT ![t].at = @ + 1], players' = players
    PROVE  CallsRunThrough
<1>1. RelayTypeOK
  BY DEF RInv
<1>2. CallMoves(t)
  BY <1>1, TurnMovesCall
<1>3. ASSUME NEW u \in Threads, Busy(u) PROVE Busy(u)' /\ GoesOn(u)
  <2>1. CASE u = t
    BY <1>2, <1>3, <2>1, Zenon DEF CallMoves, GoesOn
  <2>2. CASE u # t
    BY <1>1, <1>2, <1>3, <2>2, CallsStand, Zenon DEF CallMoves
  <2>3. QED
    BY <2>1, <2>2
<1>4. QED
  BY <1>3, Zenon DEF CallsRunThrough

LEMMA RelayNextRunsThrough ==
    RInv /\ [RelayNext]_relayVars => [CallsRunThrough]_relayVars
<1>1. SUFFICES ASSUME RInv, RelayNext PROVE CallsRunThrough
  OBVIOUS
<1>2. RelayTypeOK
  BY <1>1 DEF RInv
<1>3. ASSUME \A u \in Threads : Busy(u) =>
                 /\ Busy(u)'
                 /\ relay'[u].on = relay[u].on
                 /\ relay'[u].frame = relay[u].frame
                 /\ relay'[u].at = relay[u].at
                 /\ relay'[u].end = relay[u].end
                 /\ relay'[u].due \subseteq relay[u].due
      PROVE  CallsRunThrough
  <2>1. ASSUME NEW u \in Threads, Busy(u) PROVE Busy(u)' /\ GoesOn(u)
    BY <1>3, <2>1, Zenon DEF GoesOn
  <2>2. QED
    BY <2>1, Zenon DEF CallsRunThrough
<1>4. CASE UNCHANGED relay
  BY <1>2, <1>4, CallsStand DEF CallsRunThrough
<1>5. CASE Signal
  <2>1. \A s \in Streams : /\ Len(players[s]) \in Nat /\ Len(players'[s]) \in Nat
                           /\ Len(players'[s]) <= Len(players[s]) + 1
    BY <1>1, <1>5, HandlersKeepPeers DEF RInv, Signal
  <2>2. Reallocate
    BY <1>5 DEF Signal
  <2>3. \A u \in Threads :
            /\ Busy(u)' <=> Busy(u)
            /\ Busy(u) => /\ relay'[u].on = relay[u].on
                          /\ relay'[u].frame = relay[u].frame
                          /\ relay'[u].at = relay[u].at
                          /\ relay'[u].end = relay[u].end
                          /\ relay'[u].due = relay[u].due
    BY <1>2, <2>1, <2>2, ReallocateKeepsCalls
  <2>4. QED
    BY <1>3, <2>3
<1>6. ASSUME NEW t \in Threads, CacheMedia(t) PROVE CallsRunThrough
  <2>1. CASE FeedPlayer(t)
    <3>1. CASE Crash("wild", relay[t].frame.from)
      BY <1>4, <3>1 DEF Crash
    <3>2. CASE /\ relay' = [relay EXCEPT ![t].at = @ + 1]
               /\ Turn(t, players[relay[t].on][relay[t].at]) \/ NobodyFed
      <4>1. Busy(t) /\ players' = players
        BY <2>1, <3>2 DEF FeedPlayer, Turn, NobodyFed, sigVars, cacheVars
      <4>2. QED
        BY <1>1, <3>2, <4>1, TurnRunsThrough
    <3>3. QED
      BY <2>1, <3>1, <3>2 DEF FeedPlayer
  <2>2. QED
    BY <1>1, <1>6, <2>1, ReturnRunsThrough DEF CacheMedia
<1>7. ASSUME NEW t \in Threads, NEW p \in Requests, Disconnect(t, p)
      PROVE  CallsRunThrough
  <2>1. \A u \in Threads :
            /\ Busy(u)' <=> Busy(u)
            /\ Busy(u) => /\ relay'[u].on = relay[u].on
                          /\ relay'[u].frame = relay[u].frame
                          /\ relay'[u].at = relay[u].at
                          /\ relay'[u].end = relay[u].end
                          /\ relay'[u].due = relay[u].due \ {p}
    BY <1>2, <1>7, DisconnectKeepsCalls
  <2>2. QED
    BY <1>3, <2>1
<1>8. ASSUME NEW t \in Threads, NEW p \in Requests, OnRecvMediaData(t, p)
      PROVE  CallsRunThrough
  <2>1. CASE StartRelay(t, p, scache[p])
    <3>1. ~Busy(t) /\ \A u \in Threads : u # t => relay'[u] = relay[u]
      BY <1>2, <1>8, <2>1
      DEF OnRecvMediaData, CanReceive, MayCall, StartRelay, RelayTypeOK
    <3>2. QED
      BY <1>2, <3>1, CallsStand DEF CallsRunThrough
  <2>2. CASE Crash("null", p)
    BY <1>4, <2>2 DEF Crash
  <2>3. QED
    BY <1>8, <2>1, <2>2 DEF OnRecvMediaData
<1>9. ASSUME NEW t \in Threads, NEW p \in Requests,
             Connect(t, p) \/ RequestIFrame(t, p)
      PROVE  CallsRunThrough
  BY <1>4, <1>9 DEF Connect, RequestIFrame, Crash
<1>10. QED
  BY <1>1, <1>5, <1>6, <1>7, <1>8, <1>9 DEF RelayNext

\* A call of CacheMedia takes its turns in order, at most one for each player of
\* the vector as it found it, and returns only when whoever was connected all
\* along has the frame (scache.cpp:29-33), or when the vector has moved.  It is the safety half of
\* ThreadsComeBack: a call can wait for a send, but never starts over.
THEOREM CallsRunToTheirEnd == RelaySpec => [][CallsRunThrough]_relayVars
<1>1. QED
  BY RelayNextRunsThrough, RelayInductiveInvariant, PTL DEF RelaySpec

\* No player was fed a frame twice.
FedOnce ==
    \A p \in Requests : \A i, j \in 1..Len(fed[p]) :
        SameFrame(fed[p][i], fed[p][j]) => i = j

LEMMA TurnFeedsOnce ==
    ASSUME FedOnce, FedBefore, NEW t \in Threads, Busy(t),
           NEW p \in Requests, NEW frame, frame = relay[t].frame,
           FedMore(p, frame), p \notin Passed(t)
    PROVE  FedOnce'
<1>1. ASSUME NEW q \in Requests, NEW i \in 1..Len(fed'[q]),
             NEW j \in 1..Len(fed'[q]), SameFrame(fed'[q][i], fed'[q][j])
      PROVE  i = j
  <2>1. \A k \in 1..Len(fed'[q]) :
            \/ k \in 1..Len(fed[q]) /\ fed'[q][k] = fed[q][k]
            \/ /\ q = p /\ fed'[q][k] = frame
               /\ k = Len(fed[q]) + 1
    BY Zenon DEF FedMore
  <2>2. q = p => \A k \in 1..Len(fed[q]) : /\ ~SameFrame(fed[q][k], frame)
                                           /\ ~SameFrame(frame, fed[q][k])
    BY Zenon DEF FedBefore, SameFrame
  <2>3. CASE i \in 1..Len(fed[q]) /\ fed'[q][i] = fed[q][i]
    <3>1. ~(q = p /\ fed'[q][j] = frame)
      BY <1>1, <2>2, <2>3, Zenon
    <3>2. j \in 1..Len(fed[q]) /\ fed'[q][j] = fed[q][j]
      BY <2>1, <3>1, Zenon
    <3>3. SameFrame(fed[q][i], fed[q][j])
      BY <1>1, <2>3, <3>2, Zenon
    <3>4. QED
      BY <2>3, <3>2, <3>3, Zenon DEF FedOnce
  <2>4. CASE q = p /\ fed'[q][i] = frame /\ i = Len(fed[q]) + 1
    <3>1. ~(j \in 1..Len(fed[q]) /\ fed'[q][j] = fed[q][j])
      BY <1>1, <2>2, <2>4, Zenon
    <3>2. j = Len(fed[q]) + 1
      BY <2>1, <3>1, Zenon
    <3>3. QED
      BY <2>4, <3>2, Zenon
  <2>5. QED
    BY <2>1, <2>3, <2>4, Zenon
<1>2. QED
  BY <1>1, Zenon DEF FedOnce

LEMMA RelayNextFeedsOnce ==
    RInv /\ FedOnce /\ [RelayNext]_relayVars => FedOnce'
<1>1. SUFFICES ASSUME RInv, FedOnce, RelayNext \/ UNCHANGED relayVars
               PROVE  FedOnce'
  OBVIOUS
<1>2. CASE UNCHANGED fed
  BY <1>1, <1>2 DEF FedOnce, SameFrame
<1>3. ASSUME NEW t \in Threads, Busy(t), relay[t].at <= relay[t].end,
             Turn(t, players[relay[t].on][relay[t].at])
      PROVE  FedOnce'
  <2> DEFINE p == players[relay[t].on][relay[t].at]
  <2>1. Busy(t) /\ relay[t].at <= relay[t].end /\ Turn(t, p)
    BY <1>3
  <2>2. p \in Requests /\ p \notin Passed(t)
    BY <1>1, <2>1, TurnOfPlayer
  <2>3. RelayTypeOK /\ FedBefore
    BY <1>1 DEF RInv
  <2>4. relay[t].frame \in Frames
    BY <2>1, <2>3, CallsAreTyped
  <2>5. FedMore(p, relay[t].frame)
    BY <2>1, <2>2, <2>3, <2>4, TurnFeeds DEF Turn
  <2>6. QED
    BY <1>1, <2>1, <2>2, <2>3, <2>5, TurnFeedsOnce
<1>4. ASSUME NEW t \in Threads, CacheMedia(t) PROVE FedOnce'
  <2>1. \/ UNCHANGED fed
        \/ /\ Busy(t) /\ relay[t].at <= relay[t].end
           /\ Turn(t, players[relay[t].on][relay[t].at])
    BY <1>4 DEF CacheMedia, FeedPlayer, ReturnFromCacheMedia, NobodyFed, Crash
  <2>2. QED
    BY <1>2, <1>3, <2>1
<1>5. Signal => UNCHANGED fed
  BY DEF Signal
<1>6. ASSUME NEW t \in Threads, NEW p \in Requests,
             \/ Connect(t, p)
             \/ RequestIFrame(t, p)
             \/ Disconnect(t, p)
             \/ OnRecvMediaData(t, p)
      PROVE  UNCHANGED fed
  BY <1>6 DEF Connect, RequestIFrame, Disconnect, OnRecvMediaData, StartRelay, Crash
<1>7. UNCHANGED relayVars => UNCHANGED fed
  BY DEF relayVars, mediaVars
<1>8. QED
  BY <1>1, <1>2, <1>4, <1>5, <1>6, <1>7 DEF RelayNext

\* What a player is fed was received by a publisher of its own stream, and no
\* frame comes twice, whichever thread relays it (rtc_publisher.cpp:15-18,
\* scache.cpp:26-34).
THEOREM FedFromOwnStreamOnce == RelaySpec => [](FedKnown /\ FedOnce)
<1>1. RelayInit => FedOnce
  BY DEF RelayInit, FedOnce
<1>2. RInv => FedKnown
  BY DEF RInv
<1>3. QED
  BY <1>1, <1>2, RelayNextFeedsOnce, RelayInductiveInvariant, PTL DEF RelaySpec

\* Whoever takes part in the relaying once connected: the publisher of each call,
\* and both ends of each frame that was fed.
PartnersConnected ==
    /\ \A t \in Threads : Busy(t) => state[relay[t].frame.from] # "new"
    /\ \A p \in Requests : \A i \in 1..Len(fed[p]) :
          state[p] # "new" /\ state[fed[p][i].from] # "new"

LEMMA StatesLeaveNew ==
    ASSUME RInv, RelayNext
    PROVE  \A p \in Requests : state[p] # "new" => state'[p] # "new"
<1>1. state \in [Requests -> {"new", "connected", "gone"}]
  BY DEF RInv, RelayTypeOK
<1>2. Signal => UNCHANGED state
  BY DEF Signal
<1>3. \A t \in Threads : CacheMedia(t) => UNCHANGED state
  BY DEF CacheMedia, FeedPlayer, ReturnFromCacheMedia, Turn, NobodyFed, Crash
<1>4. ASSUME NEW t \in Threads, NEW p \in Requests,
             \/ Connect(t, p)
             \/ RequestIFrame(t, p)
             \/ Disconnect(t, p)
             \/ OnRecvMediaData(t, p)
      PROVE  \A q \in Requests : state[q] # "new" => state'[q] # "new"
  BY <1>1, <1>4
  DEF Connect, RequestIFrame, Disconnect, OnRecvMediaData, StartRelay, Crash
<1>5. QED
  BY <1>2, <1>3, <1>4 DEF RelayNext

\* A call that is there after a step was there before, with the same frame, or
\* the step is the receipt of that frame.
LEMMA CallsStartConnected ==
    ASSUME RInv, RelayNext
    PROVE  \A u \in Threads : Busy(u)' =>
               \/ Busy(u) /\ relay'[u].frame = relay[u].frame
               \/ state[relay'[u].frame.from] = "connected"
<1>1. relay \in [Threads -> Calls \cup {Idle}]
  BY DEF RInv, RelayTypeOK
<1>2. UNCHANGED relay => \A u \in Threads : Busy(u)' =>
          Busy(u) /\ relay'[u].frame = relay[u].frame
  BY DEF Busy
<1>3. CASE Signal
  <2>1. \A s \in Streams : /\ Len(players[s]) \in Nat /\ Len(players'[s]) \in Nat
                           /\ Len(players'[s]) <= Len(players[s]) + 1
    BY <1>3, HandlersKeepPeers DEF RInv, Signal
  <2>2. RelayTypeOK /\ Reallocate
    BY <1>3 DEF RInv, Signal
  <2>3. QED
    BY <2>1, <2>2, ReallocateKeepsCalls
<1>4. ASSUME NEW t \in Threads, CacheMedia(t)
      PROVE  \A u \in Threads : Busy(u)' =>
                 Busy(u) /\ relay'[u].frame = relay[u].frame
  BY <1>1, <1>2, <1>4
  DEF CacheMedia, FeedPlayer, ReturnFromCacheMedia, Crash, Busy, Calls
<1>5. ASSUME NEW t \in Threads, NEW p \in Requests, Disconnect(t, p)
      PROVE  \A u \in Threads : Busy(u)' =>
                 Busy(u) /\ relay'[u].frame = relay[u].frame
  BY <1>1, <1>5 DEF Disconnect, Busy, Calls
<1>6. ASSUME NEW t \in Threads, NEW p \in Requests, OnRecvMediaData(t, p)
      PROVE  \A u \in Threads : Busy(u)' =>
                 \/ Busy(u) /\ relay'[u].frame = relay[u].frame
                 \/ state[relay'[u].frame.from] = "connected"
  BY <1>1, <1>2, <1>6 DEF OnRecvMediaData, CanReceive, StartRelay, Crash, Busy
<1>7. ASSUME NEW t \in Threads, NEW p \in Requests,
             Connect(t, p) \/ RequestIFrame(t, p)
      PROVE  UNCHANGED relay
  BY <1>7 DEF Connect, RequestIFrame, Crash
<1>8. QED
  BY <1>2, <1>3, <1>4, <1>5, <1>6, <1>7 DEF RelayNext

\* A player is fed when it is connected, the frame of a call.
LEMMA FedInCalls ==
    ASSUME RInv, RelayNext
    PROVE  \/ UNCHANGED fed
           \/ \E t \in Threads, p \in Requests :
                 /\ Busy(t) /\ state[p] = "connected"
                 /\ FedMore(p, relay[t].frame)
<1>1. RelayTypeOK
  BY DEF RInv
<1>2. ASSUME NEW t \in Threads, Busy(t), relay[t].at <= relay[t].end,
             NEW p, p = players[relay[t].on][relay[t].at],
             Turn(t, p), fed' # fed
      PROVE  /\ p \in Requests /\ state[p] = "connected"
             /\ FedMore(p, relay[t].frame)
  <2>1. p \in Requests /\ relay[t].frame \in Frames
    BY <1>1, <1>2, TurnOfPlayer, CallsAreTyped
  <2>2. QED
    BY <1>1, <1>2, <2>1, TurnFeeds DEF Turn
<1>3. ASSUME NEW t \in Threads, CacheMedia(t), fed' # fed
      PROVE  /\ Busy(t) /\ relay[t].at <= relay[t].end
             /\ Turn(t, players[relay[t].on][relay[t].at])
  BY <1>3 DEF CacheMedia, FeedPlayer, ReturnFromCacheMedia, NobodyFed, Crash
<1>4. ASSUME fed' # fed
      PROVE  \E t \in Threads : CacheMedia(t)
  BY <1>4
  DEF RelayNext, Signal, Connect, RequestIFrame, Disconnect, OnRecvMediaData,
      StartRelay, Crash
<1>5. QED
  BY <1>2, <1>3, <1>4

LEMMA RelayNextKeepsPartners ==
    RInv /\ PartnersConnected /\ [RelayNext]_relayVars => PartnersConnected'
<1>1. SUFFICES ASSUME RInv, PartnersConnected, RelayNext \/ UNCHANGED relayVars
               PROVE  PartnersConnected'
  OBVIOUS
<1>2. CASE UNCHANGED relayVars
  BY <1>1, <1>2 DEF PartnersConnected, Busy, relayVars, mediaVars
<1>3. CASE RelayNext
  <2>1. RelayTypeOK
    BY <1>1 DEF RInv
  <2>2. \A p \in Requests : state[p] # "new" => state'[p] # "new"
    BY <1>1, <1>3, StatesLeaveNew
  <2>3. \A t \in Threads : Busy(t) =>
            relay[t].frame.from \in Requests /\ state[relay[t].frame.from] # "new"
    BY <1>1, <2>1, CallsAreTyped DEF PartnersConnected
  <2>4. ASSUME NEW t \in Threads, Busy(t)'
        PROVE  state'[relay'[t].frame.from] # "new"
    <3>1. CASE Busy(t) /\ relay'[t].frame = relay[t].frame
      BY <2>2, <2>3, <3>1
    <3>2. CASE state[relay'[t].frame.from] = "connected"
      <4>1. relay'[t].frame.from \in Requests
        <5>1. RInv'
          BY <1>1, <1>3, RelayNextPreservesRInv
        <5>2. relay'[t] \in Calls
          BY <2>4, <5>1 DEF RInv, RelayTypeOK, Busy
        <5>3. QED
          BY <5>2 DEF Calls, Frames
      <4>2. QED
        BY <2>2, <3>2, <4>1
    <3>3. QED
      BY <1>1, <1>3, <2>4, <3>1, <3>2, CallsStartConnected
  <2>5. ASSUME NEW q \in Requests, NEW i \in 1..Len(fed'[q])
        PROVE  state'[q] # "new" /\ state'[fed'[q][i].from] # "new"
    <3>1. CASE i \in 1..Len(fed[q]) /\ fed'[q][i] = fed[q][i]
      <4>1. fed[q][i].from \in Requests
        BY <2>1, <3>1, FedAreFrames
      <4>2. state[q] # "new" /\ state[fed[q][i].from] # "new"
        BY <1>1, <3>1 DEF PartnersConnected
      <4>3. QED
        BY <2>2, <3>1, <4>1, <4>2
    <3>2. CASE \E t \in Threads : /\ Busy(t) /\ fed'[q][i] = relay[t].frame
                                  /\ state[q] = "connected"
      BY <2>2, <2>3, <3>2
    <3>3. CASE UNCHANGED fed
      BY <2>5, <3>1, <3>3
    <3>4. ASSUME NEW t \in Threads, NEW p \in Requests, Busy(t),
                 state[p] = "connected", FedMore(p, relay[t].frame)
          PROVE  \/ i \in 1..Len(fed[q]) /\ fed'[q][i] = fed[q][i]
                 \/ fed'[q][i] = relay[t].frame /\ state[q] = "connected"
      BY <2>5, <3>4, Zenon DEF FedMore
    <3>5. QED
      BY <1>1, <1>3, <3>1, <3>2, <3>3, <3>4, FedInCalls
  <2>6. QED
    BY <2>4, <2>5 DEF PartnersConnected
<1>4. QED
  BY <1>1, <1>2, <1>3

-----------------------------------------------------------------------------
(* The callbacks and the handlers implement FrameRelay. *)

Placement == [p \in Requests |-> PlaceOf(p)]

SeenBy(p) == [i \in DOMAIN fed[p] |-> <<fed[p][i].from, fed[p][i].number>>]
Sight == [p \in Requests |-> SeenBy(p)]

LEMMA SequenceIsFunction ==
    ASSUME NEW S, NEW seq \in Seq(S)
    PROVE  seq = [i \in 1..Len(seq) |-> seq[i]]
  OBVIOUS

\* What FrameRelay shows of a sequence of frames, which is as long and grows with it.
AsPairs(seq) == [i \in DOMAIN seq |-> <<seq[i].from, seq[i].number>>]

LEMMA SeenIsSequence ==
    ASSUME NEW seq \in Seq(Frames), NEW seen, seen = AsPairs(seq)
    PROVE  /\ seen \in Seq(Requests \X (1..MaxFrames)) /\ Len(seen) = Len(seq)
           /\ \A i \in 1..Len(seq) : seen[i] = <<seq[i].from, seq[i].number>>
<1>1. DOMAIN seq = 1..Len(seq) /\ Len(seq) \in Nat
  OBVIOUS
<1>2. \A i \in 1..Len(seq) : seq[i] \in Frames
  OBVIOUS
<1>3. \A f \in Frames : <<f.from, f.number>> \in Requests \X (1..MaxFrames)
  BY DEF Frames
<1>4. seen \in [1..Len(seq) -> Requests \X (1..MaxFrames)]
  BY <1>1, <1>2, <1>3 DEF AsPairs
<1>5. \A i \in 1..Len(seq) : seen[i] = <<seq[i].from, seq[i].number>>
  BY <1>1 DEF AsPairs
<1>6. QED
  BY <1>1, <1>4, <1>5

\* One more frame is one more pair.
LEMMA SeenGrows ==
    ASSUME NEW seq \in Seq(Frames), NEW f \in Frames
    PROVE  AsPairs(Append(seq, f)) = Append(AsPairs(seq), <<f.from, f.number>>)
<1> SUFFICES ASSUME NEW seen, seen = AsPairs(seq),
                    NEW pair, pair = <<f.from, f.number>>
             PROVE  AsPairs(Append(seq, f)) = Append(seen, pair)
  OBVIOUS
<1>1. pair \in Requests \X (1..MaxFrames)
  BY DEF Frames
<1>2. /\ Len(seq) \in Nat
      /\ DOMAIN Append(seq, f) = 1..(Len(seq) + 1)
      /\ \A i \in 1..Len(seq) : Append(seq, f)[i] = seq[i]
      /\ Append(seq, f)[Len(seq) + 1] = f
  BY AppendAddsOne
<1>3. /\ seen \in Seq(Requests \X (1..MaxFrames)) /\ Len(seen) = Len(seq)
      /\ \A i \in 1..Len(seq) : seen[i] = <<seq[i].from, seq[i].number>>
  BY SeenIsSequence
<1>4. /\ Append(seen, pair) \in Seq(Requests \X (1..MaxFrames))
      /\ Len(Append(seen, pair)) = Len(seq) + 1
      /\ DOMAIN Append(seen, pair) = 1..(Len(seq) + 1)
      /\ \A i \in 1..Len(seq) : Append(seen, pair)[i] = seen[i]
      /\ Append(seen, pair)[Len(seq) + 1] = pair
  BY <1>1, <1>3, AppendAddsOne
<1>5. \A i \in 1..(Len(seq) + 1) :
          Append(seen, pair)[i] =
              <<Append(seq, f)[i].from, Append(seq, f)[i].number>>
  <2>1. ASSUME NEW i \in 1..(Len(seq) + 1)
        PROVE  Append(seen, pair)[i] =
                   <<Append(seq, f)[i].from, Append(seq, f)[i].number>>
    <3>1. i \in 1..Len(seq) \/ i = Len(seq) + 1
      BY <1>2
    <3>2. CASE i \in 1..Len(seq)
      BY <1>2, <1>3, <1>4, <3>2, Zenon
    <3>3. CASE i = Len(seq) + 1
      BY <1>2, <1>4, <3>3, Zenon
    <3>4. QED
      BY <3>1, <3>2, <3>3
  <2>2. QED
    BY <2>1
<1>6. Append(seen, pair) =
          [i \in 1..(Len(seq) + 1) |-> Append(seen, pair)[i]]
  BY <1>4, SequenceIsFunction
<1>7. QED
  BY <1>2, <1>5, <1>6 DEF AsPairs

\* Steps that neither attach nor send nor feed are not seen.
LEMMA UnseenStutters ==
    ASSUME UNCHANGED <<Placement, received, Sight>>
    PROVE  UNCHANGED Relayed!view
  BY DEF Relayed!view, Placement, Sight, SeenBy

LEMMA BeginImplemented == RelayInit => Relayed!Begin
<1>1. SUFFICES ASSUME RelayInit PROVE Relayed!Begin
  OBVIOUS
<1>2. \A p \in Requests : PlaceOf(p) = Away
  BY <1>1 DEF RelayInit, Init, PlaceOf
<1>3. \A p \in Requests : fed[p] = << >>
  BY <1>1 DEF RelayInit
<1>4. received = [p \in Requests |-> 0]
  BY <1>1 DEF RelayInit
<1>5. QED
  BY <1>2, <1>3, <1>4 DEF Relayed!Begin

\* A step that attaches no peer moves none.
LEMMA PlacesStay ==
    ASSUME UNCHANGED scache,
           \A p \in Requests : scache[p] # None => req'[p] = req[p]
    PROVE  UNCHANGED Placement
<1>1. \A p \in Requests : PlaceOf(p)' = PlaceOf(p)
  BY DEF PlaceOf
<1>2. QED
  BY <1>1 DEF Placement

\* SetStreamCache gives a peer its place.
LEMMA AttachImplements ==
    ASSUME RInv, NEW r \in Requests, SetPublisher(r) \/ AddPlayer(r),
           UNCHANGED <<received, fed>>
    PROVE  Relayed!TakePlace(r)
<1> DEFINE where == [on |-> req[r].stream, as |-> req[r].kind]
<1>1. /\ scache' = [scache EXCEPT ![r] = req[r].stream]
      /\ req' = req /\ phase[r] = "writing"
  BY DEF SetPublisher, AddPlayer, WriteReturns
<1>2. scache[r] = None /\ req[r] \in Asked
  BY <1>1 DEF RInv, IInv, HandlersKnow
<1>3. /\ where \in Relayed!Places
      /\ req[r].stream # None
  BY <1>2, SignallingAssumption DEF Asked, Kinds, Relayed!Places
<1>4. /\ PlaceOf(r) = Away
      /\ PlaceOf(r)' = where
      /\ \A p \in Requests : p # r => PlaceOf(p)' = PlaceOf(p)
  BY <1>1, <1>2, <1>3 DEF PlaceOf, RInv, IInv, TypeOK
<1>5. Placement' = [Placement EXCEPT ![r] = where] /\ Placement[r] = Away
  BY <1>4 DEF Placement
<1>6. UNCHANGED <<received, Sight>>
  BY DEF Sight, SeenBy
<1>7. QED
  BY <1>3, <1>5, <1>6 DEF Relayed!TakePlace, Placement, Sight, SeenBy

LEMMA SignalImplements ==
    ASSUME RInv, Signal
    PROVE  [\E p \in Requests : Relayed!Act(p)]_(Relayed!view)
<1>1. UNCHANGED <<received, fed>>
  BY DEF Signal
<1>2. PICK r \in Requests : Handle(r)
  BY DEF Signal, Next
<1>3. CASE SetPublisher(r) \/ AddPlayer(r)
  BY <1>1, <1>3, AttachImplements DEF Relayed!Act
<1>4. CASE ~(SetPublisher(r) \/ AddPlayer(r))
  <2>1. UNCHANGED scache
    BY <1>2, <1>4
    DEF Handle, Arrive, ServeOther, RejectBody, HandlePublish, HandlePlay,
        Admit, Refuse, AnswerLeaves
  <2>2. \A p \in Requests : scache[p] # None => req'[p] = req[p]
    BY HandlersKeepPeers DEF RInv, Signal
  <2>3. UNCHANGED <<Placement, Sight>>
    BY <1>1, <2>1, <2>2, PlacesStay DEF Sight, SeenBy
  <2>4. QED
    BY <1>1, <2>3, UnseenStutters
<1>5. QED
  BY <1>3, <1>4

\* Receiving a frame of an attached publisher is sending it there.
LEMMA StartRelayImplements ==
    ASSUME RInv, NEW t \in Threads, NEW p \in Requests, IsPublish(p),
           scache[p] # None, StartRelay(t, p, scache[p])
    PROVE  Relayed!Send(p)
<1>1. /\ received' = [received EXCEPT ![p] = @ + 1]
      /\ UNCHANGED <<scache, req, fed>>
  BY DEF StartRelay, sigVars
<1>2. UNCHANGED <<Placement, Sight>>
  BY <1>1, PlacesStay DEF Sight, SeenBy
<1>3. PlaceOf(p) # Away /\ PlaceOf(p).as = "publish"
  <2>1. PlaceOf(p) = [on |-> scache[p], as |-> "publish"]
    BY DEF PlaceOf, IsPublish
  <2>2. scache[p] \in Streams
    BY DEF RInv, IInv, TypeOK
  <2>3. QED
    BY <2>1, <2>2, SignallingAssumption DEF Away
<1>4. QED
  BY <1>1, <1>2, <1>3 DEF Relayed!Send, Placement, Sight, SeenBy

LEMMA PlayerIsPlaced ==
    ASSUME NEW s, s # None, NEW place, place = [on |-> s, as |-> "play"]
    PROVE  place # Away /\ place.as = "play" /\ place.on = s
  BY DEF Away

\* A frame of the right stream is fed to the player whose turn it is, which has
\* not seen it before.
LEMMA TurnImplements ==
    ASSUME RInv, NEW t \in Threads, Busy(t), relay[t].at <= relay[t].end,
           Turn(t, players[relay[t].on][relay[t].at])
    PROVE  [\E p \in Requests : Relayed!Act(p)]_(Relayed!view)
<1> SUFFICES ASSUME NEW p, p = players[relay[t].on][relay[t].at],
                    NEW frame, frame = relay[t].frame
             PROVE  [\E q \in Requests : Relayed!Act(q)]_(Relayed!view)
  OBVIOUS
<1> DEFINE from == frame.from
           pair == <<frame.from, frame.number>>
<1>1. /\ UNCHANGED <<scache, req, received>>
      /\ fed' = IF state[p] = "connected"
                THEN [fed EXCEPT ![p] = Append(@, frame)] ELSE fed
  BY DEF Turn, sigVars
<1>2. UNCHANGED Placement
  BY <1>1, PlacesStay
<1>3. CASE state[p] # "connected"
  <2>1. UNCHANGED Sight
    BY <1>1, <1>3 DEF Sight, SeenBy
  <2>2. QED
    BY <1>1, <1>2, <2>1, UnseenStutters
<1>4. CASE state[p] = "connected"
  <2>1. /\ p \in Requests /\ IsPlay(p) /\ scache[p] = relay[t].on
        /\ scache[p] # None
        /\ p \notin Passed(t)
    BY TurnOfPlayer
  <2>2. /\ frame \in Frames /\ from \in Requests /\ frame.number \in 1..MaxFrames
        /\ frame.number <= received[from]
        /\ IsPublish(from) /\ scache[from] = relay[t].on
    BY CallsAreTyped DEF RInv, CallsKnown, Frames
  <2>3. frame.number \in 1..received[from]
    BY <2>2, RelayAssumption DEF RInv, RelayTypeOK
  <2>4. /\ Placement[p] = [on |-> relay[t].on, as |-> "play"]
        /\ Placement[from] = [on |-> relay[t].on, as |-> "publish"]
    BY <2>1, <2>2 DEF Placement, PlaceOf, IsPlay, IsPublish
  <2>5. Placement[p] # Away /\ Placement[p].as = "play"
        /\ Placement[from] = [on |-> Placement[p].on, as |-> "publish"]
    <3>1. relay[t].on # None
      BY <2>1, Zenon
    <3>2. /\ Placement[p] # Away /\ Placement[p].as = "play"
          /\ Placement[p].on = relay[t].on
      BY <2>4, <3>1, PlayerIsPlaced, Zenon
    <3>3. QED
      BY <2>4, <3>2, Zenon
  <2>6. fed[p] \in Seq(Frames)
    BY <2>1 DEF RInv, RelayTypeOK
  <2>7. pair \notin {SeenBy(p)[i] : i \in 1..Len(SeenBy(p))}
    <3>1. \A i \in 1..Len(fed[p]) : ~SameFrame(fed[p][i], frame)
      BY <2>1 DEF RInv, FedBefore
    <3>2. /\ Len(SeenBy(p)) = Len(fed[p])
          /\ \A i \in 1..Len(fed[p]) :
                SeenBy(p)[i] = <<fed[p][i].from, fed[p][i].number>>
      BY <2>6, SeenIsSequence DEF SeenBy, AsPairs
    <3>3. SUFFICES ASSUME NEW i \in 1..Len(SeenBy(p)), pair = SeenBy(p)[i]
                   PROVE  FALSE
      OBVIOUS
    <3>4. i \in 1..Len(fed[p]) /\ pair = <<fed[p][i].from, fed[p][i].number>>
      BY <3>2, <3>3
    <3>5. frame.from = fed[p][i].from /\ frame.number = fed[p][i].number
      BY <3>4
    <3>6. QED
      BY <3>1, <3>4, <3>5 DEF SameFrame
  <2>8. Sight' = [Sight EXCEPT ![p] = Append(Sight[p], pair)]
    <3>1. \A q \in Requests : fed'[q] = IF q = p THEN Append(fed[p], frame) ELSE fed[q]
      BY <1>1, <1>4, <2>1 DEF RInv, RelayTypeOK
    <3>2. SeenBy(p)' = Append(SeenBy(p), pair)
      <4>1. SeenBy(p) = AsPairs(fed[p]) /\ SeenBy(p)' = AsPairs(fed'[p])
        BY DEF SeenBy, AsPairs
      <4>2. fed'[p] = Append(fed[p], frame)
        BY <2>1, <3>1
      <4>3. frame \in Frames
        BY <2>2
      <4>4. AsPairs(Append(fed[p], frame)) = Append(AsPairs(fed[p]), pair)
        BY <2>6, <4>3, SeenGrows
      <4>5. QED
        BY <4>1, <4>2, <4>4, Zenon
    <3>3. \A q \in Requests : q # p => SeenBy(q)' = SeenBy(q)
      BY <3>1 DEF SeenBy
    <3>4. QED
      BY <2>1, <3>2, <3>3 DEF Sight
  <2>9. Relayed!Show(p, from, frame.number)
    BY <1>1, <1>2, <2>1, <2>5, <2>7, <2>8
    DEF Relayed!Show, Relayed!Shown, Placement, Sight, SeenBy
  <2>10. QED
    BY <2>1, <2>2, <2>3, <2>9 DEF Relayed!Act
<1>5. QED
  BY <1>3, <1>4

\* Every step of the media plane and of the handlers is one of FrameRelay or a
\* stutter.
LEMMA RelayNextImplements ==
    RInv /\ [RelayNext]_relayVars =>
        [\E p \in Requests : Relayed!Act(p)]_(Relayed!view)
<1>1. SUFFICES ASSUME RInv, RelayNext \/ UNCHANGED relayVars
               PROVE  [\E p \in Requests : Relayed!Act(p)]_(Relayed!view)
  OBVIOUS
<1>2. CASE UNCHANGED <<scache, req, received, fed>>
  BY <1>2, PlacesStay, UnseenStutters DEF Sight, SeenBy
<1>3. CASE Signal
  BY <1>1, <1>3, SignalImplements
<1>4. ASSUME NEW t \in Threads, CacheMedia(t)
      PROVE  [\E p \in Requests : Relayed!Act(p)]_(Relayed!view)
  <2>1. \/ UNCHANGED <<scache, req, received, fed>>
        \/ /\ Busy(t) /\ relay[t].at <= relay[t].end
           /\ Turn(t, players[relay[t].on][relay[t].at])
    BY <1>4 DEF CacheMedia, FeedPlayer, ReturnFromCacheMedia, NobodyFed, Crash,
       sigVars
  <2>2. QED
    BY <1>1, <1>2, <2>1, TurnImplements
<1>5. ASSUME NEW t \in Threads, NEW p \in Requests, OnRecvMediaData(t, p)
      PROVE  [\E q \in Requests : Relayed!Act(q)]_(Relayed!view)
  <2>1. CASE scache[p] # None /\ StartRelay(t, p, scache[p])
    <3>1. Relayed!Send(p)
      BY <1>1, <1>5, <2>1, StartRelayImplements
      DEF OnRecvMediaData, CanReceive
    <3>2. QED
      BY <3>1 DEF Relayed!Act
  <2>2. CASE Crash("null", p)
    BY <1>2, <2>2 DEF Crash
  <2>3. QED
    BY <1>5, <2>1, <2>2 DEF OnRecvMediaData
<1>6. ASSUME NEW t \in Threads, NEW p \in Requests,
             Connect(t, p) \/ RequestIFrame(t, p) \/ Disconnect(t, p)
      PROVE  UNCHANGED <<scache, req, received, fed>>
  BY <1>6 DEF Connect, RequestIFrame, Disconnect, Crash, sigVars
<1>7. UNCHANGED relayVars => UNCHANGED <<scache, req, received, fed>>
  BY DEF relayVars, mediaVars, sigVars
<1>8. QED
  BY <1>1, <1>2, <1>3, <1>4, <1>5, <1>6, <1>7 DEF RelayNext

\* The media plane keeps the promise of FrameRelay: whoever plays a stream is
\* shown frames sent there, each at most once, whatever two threads and the
\* handlers do (rtc_publisher.cpp:15-18, scache.cpp:26-34).
THEOREM RelayImplementsFrameRelay == RelaySpec => ImplementsFrameRelay
<1>1. RelayInit => Relayed!Begin
  BY BeginImplemented
<1>2. RInv /\ [RelayNext]_relayVars =>
          [\E p \in Requests : Relayed!Act(p)]_(Relayed!view)
  BY RelayNextImplements
<1>3. QED
  BY <1>1, <1>2, RelayInductiveInvariant, PTL
  DEF RelaySpec, ImplementsFrameRelay, Relayed!Promise

=============================================================================
