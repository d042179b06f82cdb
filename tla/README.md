# A TLA+ model of sars

sars is a WebRTC relay. A client publishes a stream or plays one by POSTing an SDP offer; the server
answers, becomes the ICE peer of the client, and from then on hands the frames of each publisher to
the players of its stream. This directory holds TLA+ modules for the parts of it that are hard to
get right, the TLC configurations that check them, and TLAPS proofs. File names below are relative
to `src/` of the repository.

## 1. The system

### Parts, their state, their operations

| Part | Source | State | Operations |
|---|---|---|---|
| HTTP signalling | `signalling.cpp` | none of its own | `/v1/publish`, `/v1/play` (POST), `/`, `/hello` |
| Tables of `RTCServer` | `rtc_server.cpp` | `SarsPeersStreamIDMaps`, `SarsPeersUfragMaps`, `SarsPeersAddrMaps` | `GetOrCreateStreamCache`, `CreateRtcPeer` |
| Media socket | `rtc_server.cpp` | the UDP listener | `Cycle`, `OnRecvClientPkt`, `SendPktToClient` |
| Stream cache | `scache.cpp` | `CanPublish`, `_publisher`, `players` | `SetPublisher`, `AddPlayer`, `CacheMedia` |
| Publisher, player | `rtc_publisher.cpp`, `rtc_player.cpp` | `_scache` | callbacks of webrtc-core |
| `RtcPeer` | `rtc_peer.cpp` | `peer_connection_`, `ufrag`, `remote_addr`, connection state, loss flags, payload types, dump file | callbacks, `OnTimer`, packets in and out |
| Client texts | `rtc_peer.cpp`, `rtc_server.cpp` | none | `GetStreamIdFromStreamUrl`, `getUfragFromSdp` |
| main | `sars.cpp` | an iterator over the peers | start, and a timer sweep every second |
| STUN codec | `Stun.cpp`, `Stun.h` | one message | `Parse`, `CheckAuthentication`, `Serialize` |
| Helpers | `Utils.cpp`, `Utils.h` | none | bytes, padding, CRC, HMAC, time |

`rtc_ingester.cpp` and `rtc_forwarder.cpp` are empty. coco (threads, HTTP, UDP), webrtc-core (ICE,
DTLS, RTP) and nlohmann json are submodules whose sources are not in the repository.

### How they interact

All threads are cooperative (State Threads, through coco): one thread per HTTP connection, one in
`RTCServer::Cycle`, and main. There are no locks. A thread runs alone until it calls something that
blocks, and everything it read before may have changed when the call returns. The blocking calls are
`body_read_all` and `Write` in the handlers, `RecvFrom` in `Cycle`, `st_usleep` in main, and
`SendTo`, which webrtc-core reaches through `OnSendDataToRemote` from inside `FeedMediaData`,
`ProcessRemoteData` and `OnTime`.

A publish request reads its body, gets or creates the `StreamCache_` of the stream, returns -15 if
the stream is already published, creates a peer (which registers it under its ICE name), writes the
answer, and *then* makes the peer the publisher. A play request does the same with the test
reversed. Datagrams find their peer by ICE name (STUN binding requests) or by address (the rest).
webrtc-core calls back into the publisher with each frame, and `CacheMedia` feeds it to the players.

### What is hard

* Check, block, act: `CanPublish` is tested before `Write` and acted upon after it.
* A peer is reachable by datagrams before it is attached to its stream.
* `CacheMedia` iterates over a vector, and main over a map, to which handlers insert meanwhile.
* Three tables refer to the same peers; two are filled with `emplace`, whose failure is not noticed.
* Results of failing calls are dropped (`CreateRtcPeer`, `Write`).
* Nothing is ever removed: no unpublish, no disconnect, no timeout reaches the tables.
* Sixteen-bit positions and lengths from the network in the STUN parser.
* `npos` and `size_t` arithmetic on texts that clients send, with an exit at the end of it.
* A thread is deep inside webrtc-core, in the middle of a datagram or a timer, when it relays
  frames.

`PROJECT.json` lists these as hazards, line by line, with the properties that answer each.

### What makes each part correct

* Signalling: a stream has at most one publisher at a time, which only a request admitted before the
  publication can replace; players are attached to published streams only, once, on both sides.
* Tables: a name leads to a peer that has that name; an address leads to one peer, for good, and
  that peer answers to no other peer's address.
* Relay: a player is shown frames of its own stream only, each once; it is passed over by no call
  during which it is connected; one thread keeps their order; in each of its connections it has
  asked a publisher of its stream for a key frame; no callback meets a null pointer but behind an
  early client or a failed creation, and dangling iterators only in a vector that outgrew the loop's
  end.
* The process: what is fed to a connected peer leaves for an address that is its own; frames go from
  one client that was heard from to another; both threads come back from every call.
* A peer: a time-out means a failed ICE or a lost connection, and what it means depends on the
  class; a dump is bounded and its file open; the payload type of its frames is that of its first
  track.
* Texts: the stream id is the last segment of the path, whatever the query; the ICE name is the
  first; the process exits only for urls without a segment.
* main: every registered peer has its timer run, once per sweep, again and again.
* STUN: no read beyond the datagram; the loop ends; attributes in the order of RFC 5389; a message
  is as long as its header says, and what is written is parsed back to the same fields.

## 2. The modules

`Signalling` is the core. `UdpDemux`, `Relay` and `MainLoop` each EXTEND it and compose with it: a
step is a step of a handler, or a step of the other thread, and they share its variables. `Sars`
EXTENDS the three and is the whole process. `PeerObject`, `ClientTexts` and the STUN modules stand
on their own.

**`StreamAccess`**: the abstract contract of signalling. Peers *claim* an unpublished stream and
later *take* it, or *book* a published one and later *join* it. No handlers, tables or answers.

**`Signalling`**: `signalling.cpp` with the tables of `RTCServer` and the fields of `StreamCache_`.
A handler is `idle`, `reading` (in `body_read_all`), `writing` (in `Write`), `served` or `refused`;
`HandlePublish`/`HandlePlay` are the code between the two blocking calls and
`SetPublisher`/`AddPlayer` the code after the second. A request creates at most one peer, so peers
are named by their requests. `CreateRtcPeer` can fail at each of its returns. Both outcomes of a bad
body are there: the exit in `GetStreamIdFromStreamUrl`, and a JSON exception, which ends the process
or, if the HTTP library catches it, the request. The SDP and the JSON are abstracted to the stream
and the ICE name they carry. `Access` maps this state to `StreamAccess`: a handler in Write holds a
claim or a booking.

**`UdpDemux`**: `Cycle` and `OnRecvClientPkt`. A datagram is a binding request with a name, or any
other; `BindingRequest` learns the address and then, as the code does, delivers to whatever peer the
address leads to. `Deliver` is the common end of `OnRecvClientPkt`, and `Drop` an early return,
which loses the buffer that `Cycle` allocated: `leaked` is a history of whose buffers were lost,
`strange` of who sent what a client does not send (STUN that does not parse, a name nobody has, or
anything before a binding request). `inserted` is a history of what the log says. The names in
binding requests are not restricted to those whose client has the answer: this allows more
behaviours than webrtc clients show.

**`Relay`**: the callbacks and `CacheMedia`. `relay[t]` is the call that thread t is in, with the
end that the range-based `for` evaluated at its start; `FeedPlayer` is one turn of the loop, because
feeding can send and sending can block. `Reallocate` adds to every handler step what `push_back`
does to the capacity (doubling, as libstdc++ does) and marks calls whose iterators are left
dangling. A turn of such a call reads the old element, takes what it reads for a player that is not
connected and passes over it, or crashes; what freed memory could hold besides, an arbitrary other
player say, is not modelled. A null dereference ends the process. `fault` is the undefined behaviour
that ended it, and the peer whose callback met it. `fed` is a history of the frames each player got,
and of the thread that relayed them; `asked` of the publisher each player asked for a key frame
last, which its disconnection clears.

**`FrameRelay`**: what the media plane promises. Peers take a place at a stream for good, send
frames there, and are shown frames of their own stream, each at most once. `Relayed` in `Relay` maps
caches to places, and the histories of `received` and `fed` to what was sent and shown.

**`MainLoop`**: `sars.cpp`. `it` is the iterator of the sweep, at a name of the map; it moves to the
next larger name of the map as it is when the timer returns. The names are numbers, for `std::map`
is ordered. `Boot` has both outcomes of `signalling->run()`, which has no return statement.

**`Sars`**: all of it at once. `serving` is the peer whose datagram `Cycle` is in: `Receive` is
`OnRecvClientPkt` up to `ProcessRemoteData`, `CycleReturns` its end, and between the two webrtc-core
may call back for that peer, on the thread of `Cycle`. While main's sweep is at a peer, its timer
may call back for that peer, on the thread of main. A datagram may bring any callback, a timer all
but the connection. Neither thread moves on while it is in `CacheMedia`. In `Relay` callbacks come
on any thread at any time; here they have a cause.

**`PeerObject`**: one `RtcPeer`, or one of the classes that override its callbacks, which come in
any order: the loss flags, the payload types of the local tracks, the dump and the destructor. sars
never sets a dump file nor asks `IsPeerTimeOut`; they are for the owner of the object, and are
modelled as calls that may come at any time.

**`ClientTexts`**: `GetStreamIdFromStreamUrl` and `getUfragFromSdp` as operators on a text that
grows character by character. The characters are those that the two functions look for, and one for
all others; "ice-ufrag" with the character after it is one. `npos` is 0, the position before the
first, where the code's unsigned arithmetic makes it -1: `npos + 1` is the first position in both.

**`StunParse`**: `Stun::Parse`, one action per attribute; what the datagram holds is chosen as it is
read. `pos` is computed modulo 2^16 as in the code, `readTo` is a history of the highest byte read.

**`WireNumbers`**: the arithmetic of `Utils.h` on numbers of fixed width: the padding and the
sixteen-bit numbers both STUN modules use, the order of wrapping timestamps, and NTP time. The last
two are called by nothing, and have theorems instead of runs. (`Plus`, the clock that advances in
one of them, is in `StunParseProofs`: the code has no such addition.)

**`StunMessage`**: the other half of the codec, a `Stun` object with its setters, `Authenticate` and
`Serialize`, one action per attribute. The size is computed first, with the conditions and the
numbers of the first half of the function (`Counts`, `Counted`), and the attributes are written with
those of the second (`Adds`, `Advance`): two lists, as in the code, that nothing but the properties
compares. The buffer is a list of attributes with their positions; of the HMAC and the CRC only what
they are computed from is kept, so that two of them are equal if and only if they were computed from
the same bytes. An object can be changed and serialised again.

**`StunRoundTrip`** composes the two halves: it EXTENDS `StunMessage` and takes the actions of
`StunParse` as its reader's, at the bytes that were written, and adds `CheckAuthentication`, which
overwrites the length field of the datagram and restores it.

Operators whose comment begins with "Faulty variant" are not the code: each is a plausible bug in
the definition that follows it, and breaks a property when it takes the place of that definition.

### What is assumed of the libraries

* coco: blocking calls are the ones listed above; the last byte of an answer may (`AnswerMayLead`)
  or may not reach the client before `Write` returns to its handler.
* webrtc-core: calls back only on the thread that called it, and not for a peer without connection;
  connects a peer only if datagrams can reach it and its client has the answer; delivers media of
  connected publishers; sends from `FeedMediaData`. If it only queued there, CacheMedia would be
  atomic, which is a special case of what is modelled.
* SDP: any peer can be given any ICE name, also one that is taken.

## 3. The runs

| Run | Instance | What it shows |
|---|---|---|
| `handlers` | 4 requests, 2 streams, 2 names, failures and early answers | the tables agree, play finds a publisher, nothing attached is lost, and the handlers implement `StreamAccess` |
| `failed_create` (violation) | 2 requests | a peer whose creation failed becomes publisher |
| `demux` | 3 requests, 2 names, 2 addresses | the tables agree, answers go to a peer's own addresses, addresses keep their peers, only strange datagrams leak |
| `insert_log` (violation) | 2 requests, 1 address | "insert ... into map" is logged when nothing was inserted |
| `relay` | 3 peers, 2 streams, 2 threads, 2 frames each, failures and early answers | implements `FrameRelay`; nobody skipped; an I frame asked of an own publisher in each connection of a player; order per thread; no null pointer without an early client or a failed creation, no dangling iterator but in a vector that outgrew its loop |
| `sars` | 2 requests, 2 names, 2 addresses, 2 frames each, both threads, failures and early answers | connected peers are reached at their own address, frames go from one client that was heard from to another, both threads come back |
| `timers` | 3 requests, 3 ordered names | sweeps are complete and without repetition, timers run for ever |
| `stun_parse` | all sizes to 52 bytes, all lengths | bounds, exact end, order, progress |
| `stun_round_trip` | all combinations of attributes, 3 lengths of user names, 2 passwords | computed size is written size, no stale pointer, written is accepted, fields survive, authentication goes by the password |
| `stun_username` (violation) | one size | a user name of more than 512 bytes is accepted |
| `client_texts` | all texts of up to 6 characters | last segment, query, exits, first ICE name |
| `peer_object` | 3 classes, 2 files, a dump of 2 frames, 2 tracks with 2 payload types | dump bounded and open, what a time-out tells of each class, payload type of the first track |

Bounds. Two publish requests on one stream, and a play request, are all it takes to race the
CanPublish test; the fourth request adds a bystander on the same or another stream, and two names
for four peers make names collide. Two addresses are needed for answers to go astray, a third adds
nothing. In `relay`, one publisher and two players grow the vector from one to two elements under a
running call; two publishers and one player race a publication; two frames suffice for one to
overtake another. In `sars` one peer of each kind and an address for each let a frame go all the way
from a datagram, or a timer, to a player that is heard from elsewhere, and a second frame be relayed
by the other thread meanwhile; the third peer is in `relay` and `demux`, whose properties it needs.
How long the loop is with more players, `CallsRunToTheirEndTogether` says for any number. TLC
compares the states of `sars` without histories that neither its steps nor its properties read
(`View`): states that differ in nothing else have the same futures. Six characters hold a path of
two segments with a query that has one more, and an ICE name with its line end after another; the
arithmetic depends on the order of the special characters and on whether something is between them.
A dump of two frames has a first frame, a last and one too many, and a second file meets the counter
the first one left. Three names have one inserted before, at and after the iterator. 32 bytes of
attributes hold MESSAGE-INTEGRITY followed by FINGERPRINT, or eight empty attributes, and every
padding; lengths up to 33 and 65535 are too long in every way. Messages that are written have at
most one attribute of each type, so that all combinations of presence are all there is; user names
of 0, 3 and 512 bytes are absent, padded and the longest.

Deadlock is not checked where instances are finite scripts: once all requests are handled and all
frames fed, or the process has ended, nothing is left to do.

Fairness. `sars` assumes that a thread in `CacheMedia` runs again (its send completes: the UDP
socket becomes writable, and the scheduler serves ready threads in turn), that main goes on when its
sleep or a timer is over, and that `ProcessRemoteData` returns to `Cycle`. The last two are strong
fairness: a callback may come first and take the thread into `CacheMedia`, but for one datagram or
one timer webrtc-core does not call back for ever. `timers`, where main never relays, assumes the
same of main weakly. Nothing is assumed of clients, of requests, of datagrams or of media, and main
may fail to start.

Type invariants that a theorem proves (`DemuxTypeOK`, `MainTypeOK`) are not checked again by a run.

The violations. (1) `CreateRtcPublisher` drops the result of `CreateRtcPeer`, so the handler's test
for a null peer is dead and a nameless peer takes the stream; since nothing unpublishes, the stream
is lost until the process restarts. (2) `emplace` does not replace the entry of a known address, yet
the log says so. (3) `Stun.h` says user names are shorter than 513 bytes; nothing enforces it.

Reachable, and in no document to be contradicted: `fault.why = "null"` in `relay` when an answer
leads or a creation fails without a connection, and `fault.why = "wild"` whenever a player joins a
full vector during `CacheMedia`; frames that two threads relay can overtake each other; the
publisher that was asked for a key frame can be replaced by another that is not asked; a player that
lost its connection is not seen as timed out, and a publisher that came back is; an address that
another peer used before leads to that peer; a stream whose publisher left stays taken.

## 4. The proofs

`SignallingProofs` proves, for any sets of requests, streams and names and either value of the two
switches, type correctness and the three invariants of `handlers`. The inductive invariant `IInv`
adds to them what each handler's phase says about its request, name and cache (`HandlersKnow`), that
`CanPublish` is the absence of a publisher, who is a served publish request for that stream
(`PublisherKnown`), and that the players of a stream are its served play requests, each once
(`PlayersKnown`). It is needed because `PlayFindsPublisher` alone does not say that a publisher,
once set, is never unset, and `AttachmentAgrees` says nothing of requests that are still to attach.
Steps before admission are handled by one lemma (`QuietStep`): nothing in the invariant speaks of
their requests.

From the same invariant it also proves that nothing is lost (`NothingIsLost`) and that the handlers
implement `StreamAccess` (`HandlersImplementAccess`): admission is a claim or a booking,
`SetPublisher` takes, `AddPlayer` joins, and everything else is a stutter, for the two actions only
count on what `phase` and `req` say of the handler that moves.

`StunParseProofs` proves, for datagrams of any size up to 65532 and attributes of any length, that
reads stay in bounds, the loop ends exactly at the end, each turn advances by four bytes or more,
and accepted messages have their attributes in order. The heart is `PaddingIsExact`: padding a
position inside a datagram whose size is a multiple of four neither wraps nor leaves it. The size
bound is assumed; `Cycle` receives into 2048 bytes.

`StunMessageProofs` proves, for user names of any length below 513, any error codes and passwords,
that the size is exact. The invariant (`OnTheWay`) is that the position and what is still ahead make
up the computed size; it rests on `CountedIsAdded`, that a user name is counted if and only if it is
written, which is wrong for lengths from 65533 on, where the padding wraps to 0, and on
`CountedIsAdvance`, that the two lists of numbers are the same. That is why the documented bound of
`Stun.h:111` is assumed.

It also proves the properties of the round trip: what is written is accepted, its fields survive,
and authentication goes by the password, for all those messages. `RTInv` adds to `IInv` what is in
the buffer (`BufferKnown`): attributes have the lengths and values of the message's fields, follow
each other without gaps, are in the order of `Order` with none missing, and the HMAC and the CRC
were made at their places. The reader (`ReaderKnown`) has then taken the first attributes of that
list and no others, and what it has stored is what they say (`PacketRead`). A turn of its loop
cannot refuse (`ParseAttributeTakes`), for the attribute at its position is the next one
(`PositionsDiffer`), has a good length (`AttributeIsGood`) and comes in order (`ReaderIsInOrder`);
and it goes on to where the writer went (`PaddingShifts`), although one adds padded lengths and the
other pads the sum, in sixteen bits. That `CheckAuthentication` gives the datagram back
(`DatagramIsGivenBack`) is what lets the same bytes be parsed and checked again.

`ClientTextsProofs` proves the four properties of `client_texts` for texts of any length, so that
its bound of six characters leaves nothing out. No invariant is needed but that the text is one:
they are lemmas about the operators. That `find` and `rfind` return the first and the last position
is from the well-foundedness of the natural numbers; `SlashIsLast`, `IdIsBetween` and
`UfragIsBetween` reduce the arithmetic with `npos` to which of the positions exist and how they are
ordered.

`UdpDemuxProofs` proves all the properties of `demux`, for any requests, names and addresses. `DInv`
adds to `IInv` of the handlers that a named peer has a connection, that a peer is heard from where
it sends (`RemoteIsOwn`), and that whoever sent a request with a registered name is known
(`InsertedAreKnown`), which is why a client that behaves leaks nothing. A handler's step keeps the
tables in agreement because names are never rebound: that is `NextGrows` of `SignallingProofs`.

`RelayProofs` proves all the properties of `relay`, for any peers, streams, threads and frames.
`RInv` adds to `IInv` of the handlers what a call in `CacheMedia` knows while others run
(`CallsKnown`): the end it evaluated is within the vector, which only grows; its frame is one its
publisher received; and whoever is still due was connected all along. Order on one thread and the
absence of double feeds rest on `FedBefore`, that what a player was fed earlier is older than the
frame of a running call, or is that frame and the player was passed; and on `CallsDiffer`, that no
two calls carry the same frame. That nobody is skipped rests on what handlers leave alone: they
append to a vector, so that a turn of the loop stays the turn of the same player. In a call whose
vector was moved this is all lost, so that `NobodySkipped` and `CallsRunToTheirEnd` leave it out.
That it was moved means that the vector has outgrown the end of the call (`CallsKnown`), for only a
`push_back` beyond the capacity moves it, and the end was within the capacity. That null pointers
have two causes only, and that each connection has asked for its key frame (whose publisher keeps
its kind, its cache and its connection), rests on `ConnectedAreNamed`: whoever connected has a name
and its answer, and with a name the phase of the handler says which pointers are set
(`HandlersMoveOn` and `HandlersKeepNames` of `SignallingProofs` say that handlers take neither
away). That the process stops at a fault (`FaultIsFinal`) keeps the cause in place. For
`FrameRelay`, a step is a placement (a handler got a cache), the receipt of a frame, the showing of
one, or a stutter, with a lemma for each: what an abstract peer sees depends on `scache`, `req`,
`received` and `fed` only (`Sight`, `SeenBy`).

A turn of the loop disturbs most of `RInv`, so it is taken apart: `CallMoves` and `FedMore` say what
it does to the calls and to what was fed, and each part of `RInv` has a lemma that uses no more than
that. Two results of `RInv` have no run of their own, for other properties of `relay` cover what TLC
could show of them. `CallsRunToTheirEnd`: a call keeps its frame and its end and goes forward one
player at a time, so that it has `end + 1 - at` turns left at most, and it returns only when whoever
stayed connected has the frame, unless its vector was moved. With it, `ThreadsComeBack` comes down
to the fairness of the threads, which the prover cannot state. `FedFromOwnStreamOnce` says in the
terms of the code what `FrameRelay` promises: frames of the own stream, each once. `SarsProofs`
shows both of the whole process.

`SarsProofs` begins with `MainLoop`: `SweepIsComplete`, for any ordered names. What the sweep has
behind it are exactly the names before the iterator (`SweepKnown`). That the map has a first name at
all is `MinIsFirst`, from the well-foundedness of the natural numbers.

It goes on to prove that the parts stay correct when they are one process. `SInv` is the conjunction
of the inductive invariants of the parts (`DInv`, `RInv`, `MInv`) with what ties them: whose
datagram `Cycle` is in (`ServingIsHeard`), that connected peers were heard from
(`ConnectedAreHeard`), and that both ends of each fed frame were connected once
(`PartnersConnected`, whose preservation is `RelayNextKeepsPartners` of `RelayProofs`): hence
`FramesReachOthers`. Every part's step must leave the invariants of the others alone;
`HandlersStill` names what the media steps, the socket and the sweep have in common, and three
lemmas say that it keeps each invariant. From `SInv` follow the two invariants of `sars`, the eleven
safety invariants of the other runs in the whole process (`PartsStaySafe`), its two action
properties (`NothingIsEverLost`, `AddressesStayForAll`), and that it implements `StreamAccess` and
`FrameRelay` as a whole. It does not implement the specifications of its parts to the letter: it may
end for reasons of another part.

`PeerObjectProofs` proves the properties of `peer_object`, for any limit, files, tracks and payload
types. `PInv` has a part each for the flags, the dump and the tracks, and each callback disturbs one
of them. `is_peer_break_` is exactly the history `lost`, but in a player (`FlagIsLoss`). That the
dump is bounded needs that files not yet set are empty, and counts frames as the members of a finite
set, to which `Dump` adds one: `FramesDumped` is a union so that it can be counted this way. That a
first track exists (`PayloadTypesAreFirst`) is from the well-foundedness of the natural numbers.

`StunParseProofs` has the theorems about `WireNumbers` too: for every even range, of two different
timestamps exactly one is newer, `LatestTimestamp` is symmetric, and a clock that advances by less
than half the range is seen to advance; and whole milliseconds survive the way to NTP time and back.

The assumptions on constants are these. `SignallingAssumption`, `DemuxAssumption`: None is no
request, stream, name or address. `NamesAreOrdered`: names are numbers, for `std::map` is ordered.
`RelayAssumption`: the bound on frames is a number, any. `SarsAssumption`: there are two threads
that relay, Cycle and main. `PeerAssumption`: the limits are numbers, files are finitely many,
payload types are positive. `ParseAssumption`: the size bound; lengths have sixteen bits.
`MessageAssumption`: user names below 513 bytes, and error codes whose hundreds fit a byte.

Only model-checked are `ThreadsComeBack` and `TimersRun`: liveness under fairness is out of the
reach of the prover. Every other property of a passing run is proved for all values of its
constants.

## 5. Not modelled

* `GetMediaStats`, the tables of remote tracks and the labels it prints: they are written and
  printed, and nothing else reads them. `SetWorkerId`, `SetUdpFd`, `SetPC`, `GetPC`: plain stores
  and reads.
* `WriteH264FileStart`, `CreateDirectory`, `PrintData`, `FilePrintTime`: called by nothing but each
  other; paths and dates.
* The bytes of a `MediaFrame`: a frame is copied for each player, and no decision depends on it.
* CRC, HMAC, random numbers, byte order and `GetAddressInfo` of `Utils`, and `Dump` of `Stun`:
  conversions and printing; the STUN modules keep what a CRC or HMAC is computed from.
* The SDP and RTP parameters that `CreateRtcPeer` passes to webrtc-core.
* The demo page, the build, and the three libraries, whose sources are not in the repository.

## 6. Plan

Done: 1. `StreamAccess`, `Signalling`, `SignallingProofs`. 2. `UdpDemux`, `UdpDemuxProofs`. 3.
`FrameRelay`, `Relay`. 4. `MainLoop`. 5. `StunParse`, `StunParseProofs`. 6. `StunMessage`,
`StunRoundTrip` (which the program does not call: it only parses), `StunMessageProofs` for both. 7.
`ClientTexts`, `ClientTextsProofs`. 8. `PeerObject`. 9. `Sars`. 10. `WireNumbers`, with its theorems
in `StunParseProofs`. 11. `RelayProofs`. 12. `PeerObjectProofs`. 13. `SarsProofs`, with the theorems
of `MainLoop`.

No safety property that a run checks is left without a theorem, and the leaves of the proofs need a
small part of the prover's time limits only. What is left to prove is how much the proofs need:
whether `StunParse` can do without the size bound, which holds of all that `Cycle` receives, and
`StunMessage` with one closer to 65533, where the computed size goes wrong.
