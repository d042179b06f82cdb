---------------------------- MODULE StreamAccess ----------------------------
(***************************************************************************)
(* What sars promises its clients about streams, without handlers, tables  *)
(* or blocking calls.  A peer claims a stream that nobody has published,   *)
(* and some time later takes it; a peer books a seat on a published        *)
(* stream, and some time later joins its audience.                         *)
(*                                                                         *)
(* A published stream stays published and keeps its audience.  Its speaker *)
(* can still change, but only to a peer whose claim is older than the      *)
(* publication: there is no claim on a published stream.                   *)
(***************************************************************************)
CONSTANTS Peers, Streams, None

VARIABLES
    live,       \* the published streams
    speaker,    \* the peer that publishes each stream
    audience,   \* the peers that play each stream
    intent      \* what each peer has been granted, and on which stream

accessVars == <<live, speaker, audience, intent>>

NoIntent == [what |-> "nothing", on |-> None]

Init ==
    /\ live = {}
    /\ speaker = [s \in Streams |-> None]
    /\ audience = [s \in Streams |-> {}]
    /\ intent = [p \in Peers |-> NoIntent]

Claim(p, s) ==
    /\ s \notin live
    /\ intent[p] = NoIntent
    /\ intent' = [intent EXCEPT ![p] = [what |-> "claim", on |-> s]]
    /\ UNCHANGED <<live, speaker, audience>>

Take(p, s) ==
    /\ intent[p] = [what |-> "claim", on |-> s]
    /\ intent' = [intent EXCEPT ![p] = [what |-> "done", on |-> s]]
    /\ live' = live \cup {s}
    /\ speaker' = [speaker EXCEPT ![s] = p]
    /\ UNCHANGED audience

Book(p, s) ==
    /\ s \in live
    /\ intent[p] = NoIntent
    /\ intent' = [intent EXCEPT ![p] = [what |-> "book", on |-> s]]
    /\ UNCHANGED <<live, speaker, audience>>

Join(p, s) ==
    /\ intent[p] = [what |-> "book", on |-> s]
    /\ intent' = [intent EXCEPT ![p] = [what |-> "done", on |-> s]]
    /\ audience' = [audience EXCEPT ![s] = @ \cup {p}]
    /\ UNCHANGED <<live, speaker>>

Next ==
    \E p \in Peers, s \in Streams :
        Claim(p, s) \/ Take(p, s) \/ Book(p, s) \/ Join(p, s)

Spec == Init /\ [][Next]_accessVars

=============================================================================
