----------------------------- MODULE PeerObject -----------------------------
(***************************************************************************)
(* One RtcPeer object (rtc_peer.cpp), apart from its connection: the flags *)
(* that say it is lost, the codecs of its local tracks, and the file that  *)
(* the video it receives is dumped to.  Its class is RtcPeer itself, or    *)
(* RtcPublisher or RtcPlayer, whose overrides replace some callbacks.      *)
(*                                                                         *)
(* The callbacks come from webrtc-core in any order.  SetDumpFile,         *)
(* IsPeerTimeOut and the destructor are for the owner of the object; sars  *)
(* itself never calls the first two, and keeps its peers for ever.         *)
(***************************************************************************)
EXTENDS Integers, Sequences, FiniteSetsExt

CONSTANTS
    DumpLimit,       \* how many frames a dump takes: 1200 in the code
    Files,           \* files that WriteH264FileStart opens
    PayloadTypes,    \* RTP payload types, in the order of std::map
    MaxTracks,       \* bound: the local tracks that are announced
    None

ASSUME PeerAssumption ==
    /\ DumpLimit \in Nat
    /\ None \notin Files
    /\ IsFiniteSet(Files)
    /\ PayloadTypes \subseteq Nat \ {0}
    /\ MaxTracks \in Nat

VARIABLES
    class,                      \* the class of the object
    alive,                      \* the destructor has not run
    peerconnection_state_,      \* the last state webrtc-core told
    is_peer_break_,             \* for IsPeerTimeOut
    is_ice_break_,
    fp_h264_,                   \* the dump file
    dump_h264_frame_num_,       \* frames dumped
    file,                       \* what became of each file, and its frames
    local_payloadtype_,         \* local_video_payloadtype_ and its audio twin
    lost,                       \* history: the connection was once lost
    replaced,                   \* history: files SetDumpFile put another for
    offered                     \* history: codec maps, track after track

flagVars == <<peerconnection_state_, is_peer_break_, is_ice_break_, lost>>
dumpVars == <<fp_h264_, dump_h264_frame_num_, file, replaced>>
trackVars == <<local_payloadtype_, offered>>
vars == <<class, alive, flagVars, dumpVars, trackVars>>

Classes == {"RtcPeer", "RtcPublisher", "RtcPlayer"}
States == {"kNew", "kConnected", "kDisconnected"}
Media == {"video", "audio"}

\* The codec that is looked for, H264 or Opus, or another.
Codecs == {"wanted", "other"}
CodecMaps == UNION {[P -> Codecs] : P \in SUBSET PayloadTypes}

TypeOK ==
    /\ class \in Classes
    /\ alive \in BOOLEAN
    /\ peerconnection_state_ \in States
    /\ is_peer_break_ \in BOOLEAN /\ is_ice_break_ \in BOOLEAN
    /\ lost \in BOOLEAN
    /\ fp_h264_ \in Files \cup {None}
    /\ dump_h264_frame_num_ \in Nat
    /\ file \in [Files -> [is : {"unopened", "open", "closed"}, frames : Nat]]
    /\ replaced \in SUBSET Files
    /\ local_payloadtype_ \in [Media -> PayloadTypes \cup {0}]
    /\ offered \in [Media -> Seq(CodecMaps)]

\* RtcPeer::RtcPeer.
Init ==
    /\ class \in Classes
    /\ alive = TRUE
    /\ peerconnection_state_ = "kNew"
    /\ is_peer_break_ = FALSE /\ is_ice_break_ = FALSE
    /\ lost = FALSE
    /\ fp_h264_ = None
    /\ dump_h264_frame_num_ = 0
    /\ file = [f \in Files |-> [is |-> "unopened", frames |-> 0]]
    /\ replaced = {}
    /\ local_payloadtype_ = [m \in Media |-> 0]
    /\ offered = [m \in Media |-> << >>]

-----------------------------------------------------------------------------
(* Connection and ICE states. *)

\* Faulty variant: a connection that comes back clears the flag.
OnConnectionChangeForgives(new_state) ==
    /\ alive
    /\ peerconnection_state_' = new_state
    /\ lost' = (lost \/ new_state = "kDisconnected")
    /\ is_peer_break_' = (class # "RtcPlayer" /\ new_state = "kDisconnected")
    /\ UNCHANGED <<class, alive, is_ice_break_, dumpVars, trackVars>>

\* OnConnectionChange.  kFailed and kClosed are to it what kDisconnected is.
\* The override of RtcPlayer does not set the flag.
OnConnectionChange(new_state) ==
    /\ alive
    /\ peerconnection_state_' = new_state
    /\ lost' = (lost \/ new_state = "kDisconnected")
    /\ is_peer_break_' =
          (is_peer_break_ \/ (class # "RtcPlayer" /\ new_state = "kDisconnected"))
    /\ UNCHANGED <<class, alive, is_ice_break_, dumpVars, trackVars>>

\* OnIceConnectionChange, with kIceConnectionFailed or kIceConnectionClosed.
\* With other states it does nothing.
OnIceConnectionFailed ==
    /\ alive
    /\ is_ice_break_' = TRUE
    /\ UNCHANGED <<class, alive, peerconnection_state_, is_peer_break_, lost,
                   dumpVars, trackVars>>

IsPeerTimeOut == is_ice_break_ \/ is_peer_break_

-----------------------------------------------------------------------------
(* Local tracks. *)

\* What the loop over the codecs finds, if it finds any.
FirstWanted(codec_info_map) ==
    LET types == {p \in DOMAIN codec_info_map : codec_info_map[p] = "wanted"}
    IN IF types = {} THEN 0 ELSE Min(types)

\* Faulty variant: the payload type is looked up again for each track.
OnAddLocalTrackAnew(m, codec_info_map) ==
    /\ alive
    /\ Len(offered["video"]) + Len(offered["audio"]) < MaxTracks
    /\ local_payloadtype_' =
          [local_payloadtype_ EXCEPT ![m] = FirstWanted(codec_info_map)]
    /\ offered' = [offered EXCEPT ![m] = Append(@, codec_info_map)]
    /\ UNCHANGED <<class, alive, flagVars, dumpVars>>

\* OnAddLocalVideoTrack and OnAddLocalAudioTrack.  The codecs and the ssrc are
\* those of the latest track; the payload type is the first that was found.
OnAddLocalTrack(m, codec_info_map) ==
    /\ alive
    /\ Len(offered["video"]) + Len(offered["audio"]) < MaxTracks
    /\ local_payloadtype_' =
          [local_payloadtype_ EXCEPT ![m] =
              IF @ = 0 THEN FirstWanted(codec_info_map) ELSE @]
    /\ offered' = [offered EXCEPT ![m] = Append(@, codec_info_map)]
    /\ UNCHANGED <<class, alive, flagVars, dumpVars>>

-----------------------------------------------------------------------------
(* The dump. *)

\* SetDumpFile, with a file that was just opened or with a null pointer.  The
\* file it replaces stays open.
SetDumpFile(f) ==
    /\ alive
    /\ f # None => file[f].is = "unopened"
    /\ fp_h264_' = f
    /\ file' = [g \in Files |-> IF g = f THEN [file[g] EXCEPT !.is = "open"]
                                ELSE file[g]]
    /\ replaced' = replaced \cup ({fp_h264_} \ {None})
    /\ UNCHANGED <<class, alive, flagVars, trackVars, dump_h264_frame_num_>>

\* WriteFile writes a frame to the dump, unless the frame is empty or the disk
\* full, and its result is ignored.  WriteH264FileStop closes the file.
WriteFile(f) ==
    {file, [file EXCEPT ![f].frames = @ + 1]}
WriteAndStop(f) ==
    {[written EXCEPT ![f].is = "closed"] : written \in WriteFile(f)}

\* Faulty variant: the counter starts again with each file.
OnRecvVideoResets ==
    /\ alive
    /\ class # "RtcPublisher"
    /\ fp_h264_ # None
    /\ IF DumpLimit <= dump_h264_frame_num_
       THEN /\ file' \in WriteAndStop(fp_h264_)
            /\ fp_h264_' = None
            /\ dump_h264_frame_num_' = 0
       ELSE /\ file' \in WriteFile(fp_h264_)
            /\ dump_h264_frame_num_' = dump_h264_frame_num_ + 1
            /\ UNCHANGED fp_h264_
    /\ UNCHANGED <<class, alive, flagVars, trackVars, replaced>>

\* Faulty variant: WriteH264FileStop sets only its own copy of the pointer.
OnRecvVideoKeepsPointer ==
    /\ alive
    /\ class # "RtcPublisher"
    /\ fp_h264_ # None
    /\ file' \in IF DumpLimit <= dump_h264_frame_num_
                 THEN WriteAndStop(fp_h264_) ELSE WriteFile(fp_h264_)
    /\ dump_h264_frame_num_' = dump_h264_frame_num_ + 1
    /\ UNCHANGED <<class, alive, flagVars, trackVars, replaced, fp_h264_>>

\* OnRecvMediaData with a video frame, while there is a dump file.  Without one,
\* and with audio, it does nothing.  RtcPublisher overrides it, and dumps
\* nothing.  Frames count whether they were written or not.
OnRecvVideo ==
    /\ alive
    /\ class # "RtcPublisher"
    /\ fp_h264_ # None
    /\ IF DumpLimit <= dump_h264_frame_num_
       THEN file' \in WriteAndStop(fp_h264_) /\ fp_h264_' = None
       ELSE file' \in WriteFile(fp_h264_) /\ UNCHANGED fp_h264_
    /\ dump_h264_frame_num_' = dump_h264_frame_num_ + 1
    /\ UNCHANGED <<class, alive, flagVars, trackVars, replaced>>

\* RtcPeer::~RtcPeer.
Destroy ==
    /\ alive
    /\ alive' = FALSE
    /\ file' = [f \in Files |-> IF f = fp_h264_ THEN [file[f] EXCEPT !.is = "closed"]
                                ELSE file[f]]
    /\ fp_h264_' = None
    /\ UNCHANGED <<class, flagVars, trackVars, dump_h264_frame_num_, replaced>>

Next ==
    \/ \E s \in States : OnConnectionChange(s)
    \/ OnIceConnectionFailed
    \/ \E m \in Media, c \in CodecMaps : OnAddLocalTrack(m, c)
    \/ \E f \in Files \cup {None} : SetDumpFile(f)
    \/ OnRecvVideo
    \/ Destroy

Spec == Init /\ [][Next]_vars

-----------------------------------------------------------------------------
(***************************************************************************)
(* Properties.                                                             *)
(***************************************************************************)

Closed == {f \in Files : file[f].is = "closed"}

\* The frames in the files, numbered from the first of each file.
FramesDumped == UNION {{f} \X (1..file[f].frames) : f \in Files}

\* The counter of dumped frames is never reset (rtc_peer.cpp:330), so that the
\* limit is one for the life of the object: beyond it, each file that is set
\* gets a single frame at most and is closed.
DumpIsBounded ==
    /\ Cardinality(FramesDumped) <= dump_h264_frame_num_
    /\ dump_h264_frame_num_ <= DumpLimit + Cardinality(Closed)
    /\ fp_h264_ # None /\ dump_h264_frame_num_ > DumpLimit =>
          file[fp_h264_].frames = 0

\* Frames are written to an open file only, and closing is done once
\* (rtc_peer.cpp:326-333): the pointer is forgotten where the file is closed.  A
\* file stays open only if it is the one in use or SetDumpFile replaced it, and
\* when the object is gone only the replaced are left.
DumpFileIsOpen ==
    /\ fp_h264_ # None => file[fp_h264_].is = "open" /\ fp_h264_ \notin replaced
    /\ \A f \in Files : file[f].is = "open" => f = fp_h264_ \/ f \in replaced
    /\ ~alive => fp_h264_ = None

\* What IsPeerTimeOut tells of the past (rtc_peer.cpp:209-212, 353-356, 389-395).
\* Of an RtcPeer or an RtcPublisher: that its connection was lost at some time,
\* even if it has come back since, or that ICE failed.  Of an RtcPlayer: only
\* that ICE failed.  Its override of OnConnectionChange leaves the flag alone
\* (rtc_player.cpp:20), so that a player that lost its connection looks alive.
TimeOutIsLoss ==
    IsPeerTimeOut <=> is_ice_break_ \/ (lost /\ class # "RtcPlayer")

\* The payload type that StreamCache_ gives to frames (scache.cpp:36) is that
\* of the first track that had the codec (rtc_peer.cpp:229), though the codec
\* map and the ssrc are those of the last.
PayloadTypeIsFirstOffered ==
    \A m \in Media :
        LET found == {i \in DOMAIN offered[m] : FirstWanted(offered[m][i]) # 0} IN
        local_payloadtype_[m] =
            IF found = {} THEN 0 ELSE FirstWanted(offered[m][Min(found)])

=============================================================================
