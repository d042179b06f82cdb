----------------------------- MODULE FrameRelay -----------------------------
(***************************************************************************)
(* What the media plane of sars promises its clients: a peer takes a place *)
(* at a stream for good, as one that sends frames or as one that watches,  *)
(* and whoever watches sees frames that were sent on its own stream, each  *)
(* of them at most once.  Frames may be missed.  How and when frames are   *)
(* carried over is not said.                                               *)
(***************************************************************************)
EXTENDS Naturals, Sequences

CONSTANTS Peers, Channels, Nowhere

VARIABLES
    place,    \* where each peer is, and whether it publishes or plays there
    sent,     \* how many frames each peer has sent
    seen      \* the frames each peer has been shown, in that order

view == <<place, sent, seen>>

Places == [on : Channels, as : {"publish", "play"}]

Shown(p) == {seen[p][i] : i \in 1..Len(seen[p])}

Begin ==
    /\ place = [p \in Peers |-> Nowhere]
    /\ sent = [p \in Peers |-> 0]
    /\ seen = [p \in Peers |-> << >>]

TakePlace(p) ==
    /\ place[p] = Nowhere
    /\ \E where \in Places : place' = [place EXCEPT ![p] = where]
    /\ UNCHANGED <<sent, seen>>

Send(p) ==
    /\ place[p] # Nowhere /\ place[p].as = "publish"
    /\ sent' = [sent EXCEPT ![p] = @ + 1]
    /\ UNCHANGED <<place, seen>>

\* Peer p is shown frame n of peer q.
Show(p, q, n) ==
    /\ place[p] # Nowhere /\ place[p].as = "play"
    /\ place[q] = [on |-> place[p].on, as |-> "publish"]
    /\ <<q, n>> \notin Shown(p)
    /\ seen' = [seen EXCEPT ![p] = Append(@, <<q, n>>)]
    /\ UNCHANGED <<place, sent>>

Act(p) ==
    \/ TakePlace(p)
    \/ Send(p)
    \/ \E q \in Peers : \E n \in 1..sent[q] : Show(p, q, n)

Promise == Begin /\ [][\E p \in Peers : Act(p)]_view

=============================================================================
