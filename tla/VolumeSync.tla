----------------------------- MODULE VolumeSync -----------------------------
(***************************************************************************)
(* Volume synchronisation (runtime.rs set_volume, set_volume_remote), on   *)
(* top of the stream engine whose atomics carry the volume to the callback.*)
(*                                                                         *)
(* A volume exists three times: in the running engine, in the runtime      *)
(* (last_volume_sent) and at BlueZ, per transport.  Local changes go       *)
(* through a D-Bus call to BlueZ, during which everything but the control  *)
(* thread goes on; changes at BlueZ, its answer to a local one included,   *)
(* come back as VolumeChanged events in the order they were made.  Such an *)
(* event says nothing of its transport to the code; the model keeps it to  *)
(* state the property.                                                     *)
(***************************************************************************)
EXTENDS StreamEngine, Sequences

CONSTANTS
    MaxVolume,      \* the top of the AVRCP scale, 127 in the code
    Word,           \* the width of u16, 2^16 in the code
    VolumeStep,     \* what VolumeUp and VolumeDown add, 10 in the code
    Requests,       \* the c_uint values callers pass
    NoVolume,
    MaxNotices      \* bound on the volume changes in flight

ASSUME VolumeAssumption ==
    /\ MaxVolume \in Nat /\ VolumeStep \in Nat /\ MaxNotices \in Nat
    /\ Word \in Nat /\ Word > MaxVolume
    /\ Requests \subseteq Nat
    /\ NoVolume \notin Nat

VARIABLES
    volume,         \* EngineHandle.volume of each generation
    lastVolume,     \* Runtime.last_volume_sent
    sending,        \* the volume set_volume waits for BlueZ to take
    bzVolume,       \* MediaTransport1.Volume of each transport
    notices,        \* VolumeChanged signals and events, oldest first
    polled,         \* the one the event loop has in hand
    agreed          \* history: have BlueZ and the runtime agreed on a volume
                    \* for the active transport since it became active?

volumeVars == <<volume, lastVolume, sending, bzVolume, notices, polled, agreed>>
vsVars == <<vars, volumeVars>>

Levels == 0 .. MaxVolume
NoNotice == [volume |-> NoVolume, path |-> NoTransport]
Notices == [volume : Levels, path : Transports]

VSInit ==
    /\ Init
    /\ volume = [g \in Gens |-> MaxVolume]
    /\ lastVolume = MaxVolume
    /\ sending = NoVolume
    /\ bzVolume \in [Transports -> Levels]
    /\ notices = <<>>
    /\ polled = NoNotice
    /\ agreed = FALSE

-----------------------------------------------------------------------------
(* Control thread                                                          *)

\* The control thread is between calls.
Idle == cpc = "idle" /\ sending = NoVolume

\* Mutant: the runtime does not limit what it is given.
ClipCastOnly(request) == request % Word

\* The FFI cuts the request to u16 before the runtime limits it.
Clip(request) ==
    IF request % Word <= MaxVolume THEN request % Word ELSE MaxVolume

\* EngineHandle::set_volume of the engine in place, if there is one.
EngineVolume(v) ==
    IF engine = 0 THEN volume ELSE [volume EXCEPT ![engine] = v]

\* Runtime::set_volume up to its D-Bus call.  A value equal to the last one
\* is not sent; without an active transport nobody is told.
SetVolume(request) ==
    LET v == Clip(request) IN
    /\ Idle
    /\ volume' = EngineVolume(v)
    /\ lastVolume' = v
    /\ IF v # lastVolume /\ active # NoTransport
       THEN sending' = v /\ UNCHANGED agreed
       ELSE agreed' = (agreed /\ v = lastVolume) /\ UNCHANGED sending
    /\ UNCHANGED <<vars, bzVolume, notices, polled>>

\* Runtime::get_volume
GetVolume == IF engine = 0 THEN lastVolume ELSE volume[engine]

\* CmdVolumeUp and CmdVolumeDown: read, step within the scale, set.
VolumeUp ==
    SetVolume(IF GetVolume + VolumeStep <= MaxVolume
              THEN GetVolume + VolumeStep ELSE MaxVolume)
VolumeDown ==
    SetVolume(IF GetVolume >= VolumeStep THEN GetVolume - VolumeStep ELSE 0)

\* The value of a transport's Volume changes: BlueZ signals it.
Announce(t, v) ==
    /\ bzVolume' = [bzVolume EXCEPT ![t] = v]
    /\ notices' = IF v = bzVolume[t] THEN notices
                  ELSE Append(notices, [volume |-> v, path |-> t])

\* BlueZ takes the volume set_volume is sending, and set_volume returns.
SetVolumeReply ==
    /\ sending # NoVolume /\ Len(notices) < MaxNotices
    /\ Announce(active, sending)
    /\ sending' = NoVolume
    /\ agreed' = TRUE
    /\ UNCHANGED <<vars, volume, lastVolume, polled>>

\* The D-Bus call fails, which is only logged.
SetVolumeFailed ==
    /\ sending # NoVolume
    /\ sending' = NoVolume
    /\ agreed' = FALSE
    /\ UNCHANGED <<vars, volume, lastVolume, bzVolume, notices, polled>>

\* poll_event hands out the oldest VolumeChanged, unless the end of the
\* stream goes first.
PollVolume ==
    /\ Idle /\ ~StreamEnded
    /\ polled = NoNotice /\ notices # <<>>
    /\ polled' = Head(notices)
    /\ notices' = Tail(notices)
    /\ UNCHANGED <<vars, volume, lastVolume, sending, bzVolume, agreed>>

\* Mutant: a remote change leaves last_volume_sent alone.
SetVolumeRemoteEngineOnly ==
    /\ Idle /\ polled # NoNotice
    /\ volume' = EngineVolume(Clip(polled.volume))
    /\ agreed' = (active = polled.path)
    /\ polled' = NoNotice
    /\ UNCHANGED <<vars, lastVolume, sending, bzVolume, notices>>

\* The handler calls Runtime::set_volume_remote: engine and runtime follow,
\* whichever transport the change was made on, and BlueZ is not called.
SetVolumeRemote ==
    /\ Idle /\ polled # NoNotice
    /\ volume' = EngineVolume(Clip(polled.volume))
    /\ lastVolume' = Clip(polled.volume)
    /\ agreed' = (active = polled.path)
    /\ polled' = NoNotice
    /\ UNCHANGED <<vars, sending, bzVolume, notices>>

\* The remote turns its volume knob.
RemoteChange(t, v) ==
    /\ v # bzVolume[t] /\ Len(notices) < MaxNotices
    /\ Announce(t, v)
    /\ UNCHANGED <<vars, volume, lastVolume, sending, polled, agreed>>

-----------------------------------------------------------------------------
(* The engine's steps                                                      *)

\* start_sink creates the volume at its maximum, before play().
VSBuildAudio ==
    /\ BuildAudio
    /\ volume' = [volume EXCEPT ![gen + 1] = MaxVolume]

\* Mutant: start_stream does not pass the stored volume on.
VSPublishEngineLoud ==
    /\ PublishEngine
    /\ UNCHANGED volume

\* start_stream gives the new engine the stored volume and keeps it.
VSPublishEngine ==
    /\ PublishEngine
    /\ volume' = [volume EXCEPT ![gen] = lastVolume]

\* The steps that leave the volume alone.  Calls start only when the control
\* thread is free.
OtherStep ==
    \/ sending = NoVolume /\ (ControlCall \/ PollEvent)
    \/ Joined \/ AcquireFailed \/ AcquireReply \/ AcquireReturn
    \/ BuildAudioFailed \/ SpawnThread \/ SpawnThreadFailed
    \/ \E g \in Gens : BtStep(g) \/ BtIoReturn(g) \/ AudioCallback(g)

\* A step of the engine.  Agreement ends with the transport.
EngineStep ==
    /\ \/ VSBuildAudio
       \/ VSPublishEngine
       \/ OtherStep /\ UNCHANGED volume
    /\ agreed' = (agreed /\ active' = active)
    /\ UNCHANGED <<lastVolume, sending, bzVolume, notices, polled>>

VolumeCall == (\E r \in Requests : SetVolume(r)) \/ VolumeUp \/ VolumeDown

VSNext ==
    \/ EngineStep \/ VolumeCall \/ SetVolumeReply \/ SetVolumeFailed
    \/ PollVolume \/ SetVolumeRemote
    \/ \E t \in Transports, v \in Levels : RemoteChange(t, v)

VSSpec == VSInit /\ [][VSNext]_vsVars

-----------------------------------------------------------------------------
(* Properties                                                              *)

VSTypeOK ==
    /\ TypeOK
    /\ volume \in [Gens -> Levels]
    /\ lastVolume \in Levels
    /\ sending \in Levels \cup {NoVolume}
    /\ bzVolume \in [Transports -> Levels]
    /\ notices \in Seq(Notices) /\ Len(notices) <= MaxNotices
    /\ polled \in Notices \cup {NoNotice}
    /\ agreed \in BOOLEAN

\* A stream the user can hear is at the stored volume, except in the window
\* between play() and the end of start_stream, where it is at the maximum.
OffVolumeOnlyWhileStarting ==
    \A g \in Gens :
        audio[g] /\ volume[g] # lastVolume =>
            cpc \in {"playing", "spawned"} /\ volume[g] = MaxVolume

\* A change of t is still on its way to the runtime.
Unapplied(t) ==
    polled.path = t \/ \E i \in 1 .. Len(notices) : notices[i].path = t

\* Local and remote changes race, and an old remote change may undo a newer
\* local one for a while; but once all changes of the active transport are
\* applied, runtime and BlueZ have the same volume, unless the last local
\* change failed or a change of another transport was applied instead.
VolumesConverge ==
    agreed /\ ~Unapplied(active) /\ sending = NoVolume =>
        lastVolume = bzVolume[active]

\* Why they converge: the newest unapplied change of a transport carries the
\* value BlueZ has.
NewestIsCurrent ==
    \A t \in Transports :
        /\ \A i \in 1 .. Len(notices) :
              /\ notices[i].path = t
              /\ \A j \in i + 1 .. Len(notices) : notices[j].path # t
              => notices[i].volume = bzVolume[t]
        /\ /\ polled.path = t
           /\ \A j \in 1 .. Len(notices) : notices[j].path # t
           => polled.volume = bzVolume[t]

\* A call to BlueZ is made for the active transport, with the stored volume,
\* while no other call is in progress; agreement is about that transport.
SendingShape ==
    /\ sending # NoVolume =>
          cpc = "idle" /\ active \in Transports /\ sending = lastVolume
    /\ agreed => active \in Transports

\* The inductive invariant behind both properties.
VSInv ==
    /\ IndInv
    /\ VSTypeOK
    /\ OffVolumeOnlyWhileStarting
    /\ SendingShape
    /\ NewestIsCurrent
    /\ VolumesConverge

=============================================================================
