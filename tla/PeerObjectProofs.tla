-------------------------- MODULE PeerObjectProofs --------------------------
(***************************************************************************)
(* Proofs about PeerObject, for dumps of every limit, any number of files  *)
(* and tracks, and all payload types.                                      *)
(***************************************************************************)
EXTENDS PeerObject, FiniteSetTheorems, WellFoundedInduction, TLAPS

-----------------------------------------------------------------------------
(* The inductive invariant. *)

\* A file that was never set is empty and replaces nothing.
UnopenedAreEmpty ==
    \A f \in Files : file[f].is = "unopened" => file[f].frames = 0 /\ f \notin replaced

\* What the flag stands for; a player does not set it.
FlagIsLoss == is_peer_break_ <=> lost /\ class # "RtcPlayer"

\* The invariant has three parts, one for each that the state falls into: what
\* is said of the flags, of the dump and of the tracks.
FlagPart ==
    /\ class \in Classes
    /\ peerconnection_state_ \in States
    /\ is_peer_break_ \in BOOLEAN /\ is_ice_break_ \in BOOLEAN
    /\ lost \in BOOLEAN
    /\ FlagIsLoss

DumpPart ==
    /\ alive \in BOOLEAN
    /\ fp_h264_ \in Files \cup {None}
    /\ dump_h264_frame_num_ \in Nat
    /\ file \in [Files -> [is : {"unopened", "open", "closed"}, frames : Nat]]
    /\ replaced \in SUBSET Files
    /\ UnopenedAreEmpty
    /\ DumpFileIsOpen
    /\ IsFiniteSet(FramesDumped)
    /\ DumpIsBounded

TrackPart ==
    /\ local_payloadtype_ \in [Media -> PayloadTypes \cup {0}]
    /\ offered \in [Media -> Seq(CodecMaps)]
    /\ PayloadTypeIsFirstOffered

PInv == FlagPart /\ DumpPart /\ TrackPart

\* The parts that a step leaves alone.
LEMMA FlagsStay == FlagPart /\ UNCHANGED <<class, flagVars>> => FlagPart'
BY DEF FlagPart, FlagIsLoss, flagVars

LEMMA DumpStays == DumpPart /\ UNCHANGED <<alive, dumpVars>> => DumpPart'
BY DEF DumpPart, UnopenedAreEmpty, DumpFileIsOpen, DumpIsBounded, FramesDumped,
       Closed, dumpVars

LEMMA TracksStay == TrackPart /\ UNCHANGED trackVars => TrackPart'
BY DEF TrackPart, PayloadTypeIsFirstOffered, trackVars

-----------------------------------------------------------------------------
LEMMA PeerInitEstablishesPInv == Init => PInv
<1>1. SUFFICES ASSUME Init PROVE PInv
  OBVIOUS
<1>2. FlagPart
  BY <1>1 DEF Init, FlagPart, FlagIsLoss, States
<1>3. DumpPart
  <2>1. /\ file \in [Files -> [is : {"unopened", "open", "closed"}, frames : Nat]]
        /\ \A f \in Files : file[f].is = "unopened" /\ file[f].frames = 0
    BY <1>1 DEF Init
  <2>2. FramesDumped = {}
    BY <2>1 DEF FramesDumped
  <2>3. Closed = {}
    BY <2>1 DEF Closed
  <2>4. IsFiniteSet(FramesDumped) /\ Cardinality(FramesDumped) = 0
        /\ Cardinality(Closed) = 0
    BY <2>2, <2>3, FS_EmptySet
  <2>5. DumpIsBounded
    BY <1>1, <2>4, PeerAssumption DEF Init, DumpIsBounded
  <2>6. UnopenedAreEmpty /\ DumpFileIsOpen
    BY <1>1, <2>1 DEF Init, UnopenedAreEmpty, DumpFileIsOpen
  <2>7. QED
    BY <1>1, <2>1, <2>4, <2>5, <2>6 DEF Init, DumpPart
<1>4. TrackPart
  <2>1. /\ local_payloadtype_ = [m \in Media |-> 0]
        /\ offered = [m \in Media |-> << >>]
    BY <1>1 DEF Init
  <2>2. PayloadTypeIsFirstOffered
    BY <2>1 DEF PayloadTypeIsFirstOffered
  <2>3. QED
    BY <2>1, <2>2 DEF TrackPart
<1>5. QED
  BY <1>2, <1>3, <1>4 DEF PInv

-----------------------------------------------------------------------------
(* The flags. *)

LEMMA ConnectionChangePreservesPInv ==
    ASSUME PInv, NEW s \in States, OnConnectionChange(s)
    PROVE  PInv'
<1>1. FlagPart'
  BY DEF PInv, FlagPart, FlagIsLoss, OnConnectionChange, Classes
<1>2. DumpPart' /\ TrackPart'
  BY DumpStays, TracksStay DEF PInv, OnConnectionChange
<1>3. QED
  BY <1>1, <1>2 DEF PInv

LEMMA IceFailurePreservesPInv ==
    ASSUME PInv, OnIceConnectionFailed
    PROVE  PInv'
<1>1. FlagPart'
  BY DEF PInv, FlagPart, FlagIsLoss, OnIceConnectionFailed
<1>2. DumpPart' /\ TrackPart'
  BY DumpStays, TracksStay DEF PInv, OnIceConnectionFailed
<1>3. QED
  BY <1>1, <1>2 DEF PInv

-----------------------------------------------------------------------------
(* The dump. *)

\* A step that writes nothing keeps what is known of the sizes, if the number of
\* closed files does not get smaller.
LEMMA SizesStay ==
    ASSUME DumpPart,
           \A f \in Files : file'[f].frames = file[f].frames,
           Closed \subseteq Closed'
    PROVE  /\ IsFiniteSet(FramesDumped')
           /\ Cardinality(FramesDumped') = Cardinality(FramesDumped)
           /\ Cardinality(Closed) <= Cardinality(Closed')
           /\ Cardinality(Closed) \in Nat /\ Cardinality(Closed') \in Nat
<1>1. FramesDumped' = FramesDumped
  BY DEF FramesDumped
<1>2. Closed' \subseteq Files
  BY DEF Closed
<1>3. IsFiniteSet(Closed')
  BY <1>2, FS_Subset, PeerAssumption
<1>4. IsFiniteSet(Closed) /\ Cardinality(Closed) <= Cardinality(Closed')
  BY <1>3, FS_Subset
<1>5. QED
  BY <1>1, <1>3, <1>4, FS_CardinalityType DEF DumpPart

LEMMA SetDumpFilePreservesPInv ==
    ASSUME PInv, NEW f \in Files \cup {None}, SetDumpFile(f)
    PROVE  PInv'
<1> USE DEF PInv
<1>1. /\ FlagPart' /\ TrackPart'
      /\ alive /\ UNCHANGED <<alive, dump_h264_frame_num_>>
      /\ fp_h264_' = f
      /\ replaced' = replaced \cup ({fp_h264_} \ {None})
      /\ f # None => file[f].is = "unopened"
  BY FlagsStay, TracksStay DEF SetDumpFile
<1>2. /\ file' \in [Files -> [is : {"unopened", "open", "closed"}, frames : Nat]]
      /\ \A g \in Files : /\ file'[g].frames = file[g].frames
                          /\ file'[g].is = IF g = f THEN "open" ELSE file[g].is
  BY DEF SetDumpFile, DumpPart
<1>3. UnopenedAreEmpty'
  BY <1>1, <1>2 DEF DumpPart, UnopenedAreEmpty, DumpFileIsOpen
<1>4. DumpFileIsOpen'
  <2>1. f # None => f \in Files /\ f # fp_h264_ /\ f \notin replaced
    BY <1>1 DEF DumpPart, UnopenedAreEmpty, DumpFileIsOpen
  <2>2. \A g \in Files : file[g].is = "open" => g = fp_h264_ \/ g \in replaced
    BY DEF DumpPart, DumpFileIsOpen
  <2>3. QED
    BY <1>1, <1>2, <2>1, <2>2, PeerAssumption DEF DumpFileIsOpen
<1>5. Closed \subseteq Closed'
  BY <1>1, <1>2, PeerAssumption DEF Closed
<1>6. IsFiniteSet(FramesDumped)' /\ DumpIsBounded'
  BY <1>1, <1>2, <1>5, SizesStay, PeerAssumption
  DEF DumpPart, DumpIsBounded, UnopenedAreEmpty
<1>7. DumpPart'
  BY <1>1, <1>2, <1>3, <1>4, <1>6 DEF DumpPart
<1>8. QED
  BY <1>1, <1>7

LEMMA DestroyPreservesPInv ==
    ASSUME PInv, Destroy
    PROVE  PInv'
<1> USE DEF PInv
<1>1. /\ FlagPart' /\ TrackPart'
      /\ alive' = FALSE /\ UNCHANGED <<replaced, dump_h264_frame_num_>>
      /\ fp_h264_' = None
  BY FlagsStay, TracksStay DEF Destroy
<1>2. /\ file' \in [Files -> [is : {"unopened", "open", "closed"}, frames : Nat]]
      /\ \A g \in Files :
            /\ file'[g].frames = file[g].frames
            /\ file'[g].is = IF g = fp_h264_ THEN "closed" ELSE file[g].is
  BY DEF Destroy, DumpPart
<1>3. UnopenedAreEmpty' /\ DumpFileIsOpen'
  BY <1>1, <1>2 DEF DumpPart, UnopenedAreEmpty, DumpFileIsOpen
<1>4. Closed \subseteq Closed'
  BY <1>2 DEF Closed
<1>5. IsFiniteSet(FramesDumped)' /\ DumpIsBounded'
  BY <1>1, <1>2, <1>4, SizesStay, PeerAssumption DEF DumpPart, DumpIsBounded
<1>6. DumpPart'
  BY <1>1, <1>2, <1>3, <1>5 DEF DumpPart
<1>7. QED
  BY <1>1, <1>6

\* What a frame does to the dump file: it gets longer by one frame or by none,
\* and is closed if the limit was reached.
LEMMA FrameIsWritten ==
    ASSUME DumpPart, OnRecvVideo
    PROVE  /\ fp_h264_ \in Files
           /\ file' \in [Files -> [is : {"unopened", "open", "closed"},
                                   frames : Nat]]
           /\ \A g \in Files \ {fp_h264_} : file'[g] = file[g]
           /\ file'[fp_h264_].frames
                  \in {file[fp_h264_].frames, file[fp_h264_].frames + 1}
           /\ file'[fp_h264_].is =
                  IF DumpLimit <= dump_h264_frame_num_ THEN "closed" ELSE "open"
<1>1. fp_h264_ \in Files /\ file[fp_h264_].is = "open"
  BY DEF DumpPart, DumpFileIsOpen, OnRecvVideo
<1>2. PICK written \in WriteFile(fp_h264_) :
          file' = IF DumpLimit <= dump_h264_frame_num_
                  THEN [written EXCEPT ![fp_h264_].is = "closed"] ELSE written
  BY DEF OnRecvVideo, WriteAndStop
<1>3. /\ written \in [Files -> [is : {"unopened", "open", "closed"}, frames : Nat]]
      /\ \A g \in Files \ {fp_h264_} : written[g] = file[g]
      /\ written[fp_h264_].frames
             \in {file[fp_h264_].frames, file[fp_h264_].frames + 1}
      /\ written[fp_h264_].is = "open"
  BY <1>1 DEF WriteFile, DumpPart
<1>4. QED
  BY <1>1, <1>2, <1>3

LEMMA OnRecvVideoPreservesPInv ==
    ASSUME PInv, OnRecvVideo
    PROVE  PInv'
<1> USE DEF PInv
<1> DEFINE f == fp_h264_
           n == file[f].frames + 1
<1>1. /\ FlagPart' /\ TrackPart'
      /\ alive /\ UNCHANGED <<alive, replaced>>
      /\ dump_h264_frame_num_' = dump_h264_frame_num_ + 1
      /\ fp_h264_' = IF DumpLimit <= dump_h264_frame_num_ THEN None ELSE f
      /\ f # None
  BY FlagsStay, TracksStay DEF OnRecvVideo
<1>2. /\ f \in Files
      /\ file' \in [Files -> [is : {"unopened", "open", "closed"}, frames : Nat]]
      /\ \A g \in Files \ {f} : file'[g] = file[g]
      /\ file'[f].frames \in {n - 1, n}
      /\ file'[f].is = IF DumpLimit <= dump_h264_frame_num_ THEN "closed" ELSE "open"
  BY FrameIsWritten DEF DumpPart
<1>3. UnopenedAreEmpty' /\ DumpFileIsOpen'
  <2>1. file[f].is = "open" /\ f \notin replaced
    BY <1>1 DEF DumpPart, DumpFileIsOpen
  <2>2. \A g \in Files \ {f} :
            /\ file[g].is = "unopened" => file[g].frames = 0 /\ g \notin replaced
            /\ file[g].is = "open" => g \in replaced
    BY DEF DumpPart, UnopenedAreEmpty, DumpFileIsOpen
  <2>3. QED
    BY <1>1, <1>2, <2>1, <2>2 DEF UnopenedAreEmpty, DumpFileIsOpen
<1>4. /\ IsFiniteSet(FramesDumped')
      /\ Cardinality(FramesDumped') \in Nat
      /\ Cardinality(FramesDumped') <= dump_h264_frame_num_'
  <2>1. FramesDumped' \subseteq FramesDumped \cup {<<f, n>>}
    BY <1>2 DEF FramesDumped, DumpPart
  <2>2. /\ IsFiniteSet(FramesDumped \cup {<<f, n>>})
        /\ Cardinality(FramesDumped \cup {<<f, n>>}) <= Cardinality(FramesDumped) + 1
        /\ Cardinality(FramesDumped) \in Nat
    <3>1. /\ IsFiniteSet(FramesDumped)
          /\ Cardinality(FramesDumped) \in Nat
      BY FS_CardinalityType DEF DumpPart
    <3>2. \A x : /\ IsFiniteSet(FramesDumped \cup {x})
                 /\ Cardinality(FramesDumped \cup {x}) <= Cardinality(FramesDumped) + 1
      BY <3>1, FS_AddElement
    <3>3. QED
      BY <3>1, <3>2, Zenon
  <2>3. /\ IsFiniteSet(FramesDumped')
        /\ Cardinality(FramesDumped') <= Cardinality(FramesDumped \cup {<<f, n>>})
    BY <2>1, <2>2, FS_Subset
  <2>4. Cardinality(FramesDumped') \in Nat
    BY <2>3, FS_CardinalityType
  <2>5. Cardinality(FramesDumped \cup {<<f, n>>}) \in Nat
    BY <2>2, FS_CardinalityType
  <2>6. QED
    BY <1>1, <2>2, <2>3, <2>4, <2>5 DEF DumpPart, DumpIsBounded
<1>5. /\ Cardinality(Closed) \in Nat /\ Cardinality(Closed') \in Nat
      /\ Cardinality(Closed') =
            IF DumpLimit <= dump_h264_frame_num_ THEN Cardinality(Closed) + 1
            ELSE Cardinality(Closed)
  <2>1. Closed \subseteq Files /\ f \notin Closed
    BY <1>1 DEF Closed, DumpPart, DumpFileIsOpen
  <2>2. IsFiniteSet(Closed)
    BY <2>1, FS_Subset, PeerAssumption
  <2>3. Closed' = IF DumpLimit <= dump_h264_frame_num_ THEN Closed \cup {f}
                  ELSE Closed
    BY <1>2, <2>1 DEF Closed
  <2>4. QED
    BY <2>1, <2>2, <2>3, FS_AddElement, FS_CardinalityType
<1>6. DumpIsBounded'
  BY <1>1, <1>4, <1>5, PeerAssumption DEF DumpPart, DumpIsBounded
<1>7. DumpPart'
  BY <1>1, <1>2, <1>3, <1>4, <1>6 DEF DumpPart
<1>8. QED
  BY <1>1, <1>7

-----------------------------------------------------------------------------
(* The tracks. *)

\* A set of numbers has a smallest one, Min is it, and there is no other.
LEMMA MinIsSmallest ==
    ASSUME NEW S, S \subseteq Nat, S # {}
    PROVE  /\ Min(S) \in S
           /\ \A n \in S : Min(S) <= n
           /\ \A k \in S : (\A n \in S : k <= n) => k = Min(S)
<1> DEFINE Less == OpToRel(<, Nat)
<1>1. \E k \in S : \A n \in S : k <= n
  <2>1. \A m, n \in Nat : m < n => <<m, n>> \in Less
    BY DEF OpToRel
  <2>2. IsWellFoundedOn(Less, Nat)
    BY NatLessThanWellFounded
  <2> HIDE DEF Less
  <2>3. PICK k \in S : \A n \in S : ~ (<<n, k>> \in Less)
    BY <2>2, WFMin
  <2>4. \A n \in S : ~ (n < k)
    BY <2>1, <2>3
  <2>5. QED
    BY <2>4
<1>2. Min(S) \in S /\ \A n \in S : Min(S) <= n
  BY <1>1, Zenon DEF Min
<1>3. ASSUME NEW k \in S, \A n \in S : k <= n
      PROVE  k = Min(S)
  <2>1. /\ k <= Min(S) /\ Min(S) <= k
        /\ k \in Nat /\ Min(S) \in Nat
    BY <1>2, <1>3
  <2>2. QED
    BY <2>1
<1>4. QED
  BY <1>2, <1>3

\* The codec that is looked for has a payload type of the map, or none.
LEMMA WantedIsOffered ==
    ASSUME NEW codec_info_map \in CodecMaps
    PROVE  FirstWanted(codec_info_map) \in PayloadTypes \cup {0}
<1> DEFINE types == {p \in DOMAIN codec_info_map : codec_info_map[p] = "wanted"}
<1>1. types \subseteq PayloadTypes /\ types \subseteq Nat
  BY PeerAssumption DEF CodecMaps
<1>2. types # {} => Min(types) \in types
  BY <1>1, MinIsSmallest
<1>3. QED
  BY <1>1, <1>2 DEF FirstWanted

\* The payload type of the first of the maps that has the codec.
FoundIn(maps) == {i \in DOMAIN maps : FirstWanted(maps[i]) # 0}

FirstFound(maps) ==
    IF FoundIn(maps) = {} THEN 0 ELSE FirstWanted(maps[Min(FoundIn(maps))])

\* A further map matters only while none had the codec.
LEMMA FirstFoundStays ==
    ASSUME NEW maps \in Seq(CodecMaps), NEW c \in CodecMaps
    PROVE  FirstFound(Append(maps, c)) =
               IF FirstFound(maps) = 0 THEN FirstWanted(c) ELSE FirstFound(maps)
<1> DEFINE n == Len(maps)
           more == Append(maps, c)
<1>1. /\ n \in Nat /\ DOMAIN maps = 1..n /\ DOMAIN more = 1..(n + 1)
      /\ \A i \in 1..n : more[i] = maps[i]
      /\ more[n + 1] = c
  OBVIOUS
<1>2. FoundIn(maps) \subseteq 1..n
  BY <1>1 DEF FoundIn
<1>3. FoundIn(more) = IF FirstWanted(c) = 0 THEN FoundIn(maps)
                      ELSE FoundIn(maps) \cup {n + 1}
  BY <1>1 DEF FoundIn
<1> HIDE DEF n, more
<1>4. CASE FoundIn(maps) = {}
  <2>1. FirstFound(maps) = 0
    BY <1>4 DEF FirstFound
  <2>2. CASE FirstWanted(c) = 0
    BY <1>3, <1>4, <2>1, <2>2 DEF FirstFound, more
  <2>3. CASE FirstWanted(c) # 0
    <3>1. FoundIn(more) = {n + 1}
      BY <1>3, <1>4, <2>3
    <3>2. Min(FoundIn(more)) = n + 1
      BY <1>1, <3>1, MinIsSmallest
    <3>3. QED
      BY <1>1, <2>1, <3>1, <3>2 DEF FirstFound, more
  <2>4. QED
    BY <2>2, <2>3
<1>5. CASE FoundIn(maps) # {}
  <2> DEFINE first == Min(FoundIn(maps))
  <2>1. first \in FoundIn(maps) /\ \A i \in FoundIn(maps) : first <= i
    BY <1>2, <1>5, MinIsSmallest
  <2>2. first \in 1..n /\ more[first] = maps[first]
        /\ FirstWanted(maps[first]) # 0
    BY <1>1, <1>2, <2>1 DEF FoundIn
  <2>3. first = Min(FoundIn(more))
    <3>1. FoundIn(more) \subseteq Nat /\ first \in FoundIn(more)
      BY <1>1, <1>2, <1>3, <2>1
    <3>2. \A i \in FoundIn(more) : first <= i
      BY <1>1, <1>3, <2>1, <2>2
    <3>3. QED
      BY <3>1, <3>2, MinIsSmallest
  <2>4. FoundIn(more) # {}
    BY <1>3, <1>5
  <2>5. QED
    BY <1>5, <2>2, <2>3, <2>4 DEF FirstFound, more
<1>6. QED
  BY <1>4, <1>5

LEMMA AddTrackPreservesPInv ==
    ASSUME PInv, NEW m \in Media, NEW c \in CodecMaps, OnAddLocalTrack(m, c)
    PROVE  PInv'
<1> USE DEF PInv
<1>1. FlagPart' /\ DumpPart'
  BY FlagsStay, DumpStays DEF OnAddLocalTrack
<1>2. FirstWanted(c) \in PayloadTypes \cup {0}
  BY WantedIsOffered
<1>3. /\ local_payloadtype_' =
            [local_payloadtype_ EXCEPT ![m] =
                IF @ = 0 THEN FirstWanted(c) ELSE @]
      /\ offered' = [offered EXCEPT ![m] = Append(@, c)]
      /\ local_payloadtype_ \in [Media -> PayloadTypes \cup {0}]
      /\ offered \in [Media -> Seq(CodecMaps)]
  BY DEF OnAddLocalTrack, TrackPart
<1>4. /\ local_payloadtype_' \in [Media -> PayloadTypes \cup {0}]
      /\ offered' \in [Media -> Seq(CodecMaps)]
  BY <1>2, <1>3
<1>5. \A k \in Media : local_payloadtype_[k] = FirstFound(offered[k])
  BY DEF TrackPart, PayloadTypeIsFirstOffered, FirstFound, FoundIn
<1>6. ASSUME NEW k \in Media
      PROVE  local_payloadtype_'[k] = FirstFound(offered'[k])
  <2>1. CASE k = m
    <3>1. /\ offered'[m] = Append(offered[m], c)
          /\ local_payloadtype_'[m] = IF local_payloadtype_[m] = 0
                THEN FirstWanted(c) ELSE local_payloadtype_[m]
      BY <1>3
    <3>2. FirstFound(Append(offered[m], c)) =
              IF FirstFound(offered[m]) = 0 THEN FirstWanted(c)
              ELSE FirstFound(offered[m])
      BY <1>3, FirstFoundStays
    <3>3. QED
      BY <1>5, <2>1, <3>1, <3>2
  <2>2. CASE k # m
    BY <1>3, <1>5, <2>2
  <2>3. QED
    BY <2>1, <2>2
<1>7. PayloadTypeIsFirstOffered'
  BY <1>6 DEF PayloadTypeIsFirstOffered, FirstFound, FoundIn
<1>8. QED
  BY <1>1, <1>4, <1>7 DEF TrackPart

-----------------------------------------------------------------------------
(* The theorems. *)

LEMMA PeerNextPreservesPInv == PInv /\ [Next]_vars => PInv'
<1>1. SUFFICES ASSUME PInv, [Next]_vars PROVE PInv'
  OBVIOUS
<1>2. CASE UNCHANGED vars
  BY <1>1, <1>2, FlagsStay, DumpStays, TracksStay
  DEF PInv, vars, flagVars, dumpVars, trackVars
<1>3. CASE Next
  BY <1>1, <1>3, ConnectionChangePreservesPInv, IceFailurePreservesPInv,
     AddTrackPreservesPInv, SetDumpFilePreservesPInv, OnRecvVideoPreservesPInv,
     DestroyPreservesPInv
  DEF Next
<1>4. QED
  BY <1>1, <1>2, <1>3

\* What holds of a peer object throughout its life, whatever its class and
\* whatever order webrtc-core calls it back in.
THEOREM PeerInductiveInvariant == Spec => []PInv
<1>1. Init => PInv
  BY PeerInitEstablishesPInv
<1>2. QED
  BY <1>1, PeerNextPreservesPInv, PTL DEF Spec

\* The state has its type, the counter of the dump and its files included
\* (rtc_peer.cpp:326-333).
THEOREM PeerTypeCorrect == Spec => []TypeOK
<1>1. PInv => TypeOK
  BY DEF PInv, FlagPart, DumpPart, TrackPart, TypeOK
<1>2. QED
  BY <1>1, PeerInductiveInvariant, PTL

\* The frames in the files of a dump never outnumber those that were counted,
\* and the counter passes the limit by one for each file that is closed
\* (rtc_peer.cpp:326-333).
THEOREM DumpsAreBounded == Spec => []DumpIsBounded
<1>1. PInv => DumpIsBounded
  BY DEF PInv, DumpPart
<1>2. QED
  BY <1>1, PeerInductiveInvariant, PTL

\* A frame is written to an open file and to no other (rtc_peer.cpp:326-333), and
\* the files that stay open are known.
THEOREM DumpFilesAreOpen == Spec => []DumpFileIsOpen
<1>1. PInv => DumpFileIsOpen
  BY DEF PInv, DumpPart
<1>2. QED
  BY <1>1, PeerInductiveInvariant, PTL

\* What a timed out peer tells: a failure of ICE, or a connection lost at some
\* time, the latter of every class but the player's, whose losses leave no trace
\* (rtc_peer.cpp:209-212, 389-395, rtc_player.cpp:20).
THEOREM TimeOutsAreLosses == Spec => []TimeOutIsLoss
<1>1. PInv => TimeOutIsLoss
  BY DEF PInv, FlagPart, FlagIsLoss, TimeOutIsLoss, IsPeerTimeOut
<1>2. QED
  BY <1>1, PeerInductiveInvariant, PTL

\* The payload type of the frames a peer sends is that of the first track that
\* had the codec (rtc_peer.cpp:229).
THEOREM PayloadTypesAreFirst == Spec => []PayloadTypeIsFirstOffered
<1>1. PInv => PayloadTypeIsFirstOffered
  BY DEF PInv, TrackPart
<1>2. QED
  BY <1>1, PeerInductiveInvariant, PTL


=============================================================================
