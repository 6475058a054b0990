---------------------------- MODULE MediaPlayer -----------------------------
(***************************************************************************)
(* A media player (adapter/service/mediaplayer).  The device changes the   *)
(* metadata on its own when it plays another track.                        *)
(***************************************************************************)
EXTENDS ServiceCalls

CONSTANT Specification

PlaybackReport == "evt.playback.report"
PlaybackModeReport == "evt.playbackmode.report"
VolumeReport == "evt.volume.report"
MuteReport == "evt.mute.report"
MetadataReport == "evt.metadata.report"

Specifications ==
    [sup_playback : {{"play", "pause", "next_track"}}, sup_modes : {{"repeat"}}]

States == {"play", "pause"}
Modes == {"repeat", "crossfade"}

\* Actions and modes are compared as they are spelled.
validatePlaybackAction(action) ==
    action \in {Listed(a) : a \in Specification.sup_playback}

validateMode(mode) == DOMAIN mode \subseteq Specification.sup_modes

SetPlayback(action) ==
    Given(validatePlaybackAction(action),
          Set(Takes(Attribute(PlaybackReport, Empty),
                    IF action[1] \in States THEN {action[1]} ELSE States)))

SendPlaybackReport(force) == Report(PlaybackReport, NoKey, OnChange, force)

\* A mode is the set of modes that are on; a command names some modes, and the
\* device turns on no other that it does not support.
SetPlaybackMode(mode) ==
    Given(validateMode(mode),
          Set(Takes(Attribute(PlaybackModeReport, Empty),
                    {on \in SUBSET (Specification.sup_modes \cup DOMAIN mode) :
                         \A m \in DOMAIN mode : mode[m] = (m \in on)})))

SendPlaybackModeReport(force) == Report(PlaybackModeReport, NoKey, OnChange, force)

SetVolume(level) == Set(Takes(Attribute(VolumeReport, Empty), {level}))

SendVolumeReport(force) == Report(VolumeReport, NoKey, OnChange, force)

SetMute(mute) == Set(Takes(Attribute(MuteReport, Empty), {mute}))

SendMuteReport(force) == Report(MuteReport, NoKey, OnChange, force)

SendMetadataReport(force) == Report(MetadataReport, NoKey, OnChange, force)

handleCmdPlaybackSet(value) ==
    <<SetPlayback(value), SendPlaybackReport(TRUE), SendMetadataReport(FALSE)>>

handleCmdPlaybackGetReport == <<SendPlaybackReport(TRUE)>>

handleCmdPlaybackModeSet(value) ==
    <<SetPlaybackMode(value), SendPlaybackModeReport(TRUE)>>

handleCmdPlaybackModeGetReport == <<SendPlaybackModeReport(TRUE)>>

handleCmdVolumeSet(value) == <<SetVolume(value), SendVolumeReport(TRUE)>>

handleCmdVolumeGetReport == <<SendVolumeReport(TRUE)>>

handleCmdMuteSet(value) == <<SetMute(value), SendMuteReport(TRUE)>>

handleCmdMuteGetReport == <<SendMuteReport(TRUE)>>

handleCmdMetadataGetReport == <<SendMetadataReport(TRUE)>>

handleReporting ==
    <<SendPlaybackReport(FALSE), SendPlaybackModeReport(FALSE),
      SendVolumeReport(FALSE), SendMuteReport(FALSE), SendMetadataReport(FALSE)>>

Values ==
    [a \in {Attribute(e, Empty) : e \in {PlaybackReport, PlaybackModeReport, VolumeReport,
                                         MuteReport, MetadataReport}}
        |-> CASE a[1] = PlaybackReport     -> States
              [] a[1] = PlaybackModeReport -> SUBSET Modes
              [] a[1] = VolumeReport       -> {0, 1}
              [] a[1] = MuteReport         -> BOOLEAN
              [] a[1] = MetadataReport     -> {"track1", "track2"}]

\* The message that turns one mode on or off.
Turned(mode, on) == [m \in {mode} |-> on]

\* What the specification lets a command set.
Limits == Takes(Attribute(PlaybackModeReport, Empty), SUBSET Specification.sup_modes)

Commands ==
    {handleCmdPlaybackSet(a) : a \in Spelled({"play", "next_track", "rewind"})}
    \cup {handleCmdPlaybackModeSet(Turned(m, b)) : m \in Modes, b \in BOOLEAN}
    \cup {handleCmdVolumeSet(v) : v \in {0, 1}}
    \cup {handleCmdMuteSet(b) : b \in BOOLEAN}
    \cup {handleCmdPlaybackGetReport, handleCmdPlaybackModeGetReport,
          handleCmdVolumeGetReport, handleCmdMuteGetReport, handleCmdMetadataGetReport}
=============================================================================
