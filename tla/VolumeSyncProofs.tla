-------------------------- MODULE VolumeSyncProofs --------------------------
(* The volume stays consistent, for any scale, number of transports and    *)
(* number of changes in flight.                                            *)
EXTENDS VolumeSync, StreamEngineProofs

\* Requests come out on the scale, and a level of the scale is not changed.
LEMMA ClipLevels ==
  /\ \A r \in Nat : Clip(r) \in Levels
  /\ \A v \in Levels : Clip(v) = v
<1> USE VolumeAssumption
<1>1. ASSUME NEW r \in Nat PROVE Clip(r) \in Levels
  <2>1. r % Word \in 0 .. Word - 1
    BY SMTT(20)
  <2>2. QED
    BY <2>1 DEF Clip, Levels
<1>2. ASSUME NEW v \in Levels PROVE Clip(v) = v
  <2>1. v \in Nat /\ v < Word
    BY DEF Levels
  <2>2. v % Word = v
    BY <2>1, SMTT(20)
  <2>3. QED
    BY <2>1, <2>2 DEF Clip, Levels
<1>3. QED
  BY <1>1, <1>2

\* The engine's part of every step is a step of StreamEngine.
LEMMA VolumeEngineStep == [VSNext]_vsVars => [Next]_vars
<1> SUFFICES ASSUME [VSNext]_vsVars PROVE [Next]_vars
  OBVIOUS
<1>1. CASE EngineStep
  BY <1>1 DEF EngineStep, OtherStep, VSBuildAudio, VSPublishEngine, Next, ControlStep
<1>2. CASE ~EngineStep
  <2>1. UNCHANGED vars
    BY <1>2 DEF VSNext, VolumeCall, VolumeUp, VolumeDown, SetVolume,
                SetVolumeReply, SetVolumeFailed, PollVolume, SetVolumeRemote,
                RemoteChange, vsVars
  <2>2. QED
    BY <2>1
<1>3. QED
  BY <1>1, <1>2

LEMMA VSInitInv == VSInit => VSInv
<1> SUFFICES ASSUME VSInit PROVE VSInv
  OBVIOUS
<1> USE VolumeAssumption, TransportAssumption DEF VSInit
<1>1. IndInv
  BY InitIndInv
<1>2. agreed \in BOOLEAN
  BY Zenon
<1>3. VSTypeOK
  BY <1>1, <1>2 DEF VSTypeOK, IndInv, Levels
<1>4. OffVolumeOnlyWhileStarting
  BY DEF OffVolumeOnlyWhileStarting
<1>5. SendingShape /\ VolumesConverge
  BY DEF SendingShape, VolumesConverge
<1>6. NewestIsCurrent
  BY DEF NewestIsCurrent, NoNotice
<1>7. QED
  BY <1>1, <1>3, <1>4, <1>5, <1>6 DEF VSInv

\* Between calls, the only stream that can be heard is the engine in place.
LEMMA AudibleIsEngine ==
  IndInv /\ cpc = "idle" => \A g \in Gens : audio[g] => g = engine
  BY DEF IndInv, OwnedAudio, Owned, ControlShape, Joins, Gens

\* Giving the engine in place and the runtime the same volume.
LEMMA BothFollow ==
  ASSUME IndInv, VSTypeOK, cpc = "idle", NEW v \in Levels,
         volume' = EngineVolume(v), lastVolume' = v, UNCHANGED vars
  PROVE  /\ volume' \in [Gens -> Levels]
         /\ OffVolumeOnlyWhileStarting'
<1>1. engine \in Gens \cup {0}
  BY DEF IndInv, TypeOK, Gens
<1>2. volume' \in [Gens -> Levels]
  BY <1>1 DEF EngineVolume, VSTypeOK
<1>3. ASSUME NEW g \in Gens, audio[g] PROVE volume'[g] = v
  <2>1. g = engine /\ g # 0
    BY <1>3, AudibleIsEngine DEF Gens
  <2>2. QED
    BY <2>1 DEF EngineVolume, VSTypeOK
<1>4. QED
  BY <1>2, <1>3 DEF OffVolumeOnlyWhileStarting, vars

\* set_volume up to its D-Bus call.
LEMMA SetVolumeKeeps ==
  ASSUME VSInv, NEW r \in Nat, SetVolume(r)
  PROVE  VSInv'
<1> DEFINE v == Clip(r)
<1> USE VolumeAssumption, TransportAssumption
<1>1. v \in Levels
  BY ClipLevels
<1> HIDE DEF v
<1>2. /\ cpc = "idle" /\ sending = NoVolume
      /\ volume' = EngineVolume(v) /\ lastVolume' = v
      /\ UNCHANGED <<vars, bzVolume, notices, polled>>
  BY DEF SetVolume, Idle, v
<1>3. IF v # lastVolume /\ active # NoTransport
      THEN sending' = v /\ UNCHANGED agreed
      ELSE agreed' = (agreed /\ v = lastVolume) /\ UNCHANGED sending
  BY DEF SetVolume, v
<1>4. IndInv'
  BY <1>2, StepIndInv DEF VSInv
<1>5. volume' \in [Gens -> Levels] /\ OffVolumeOnlyWhileStarting'
  BY <1>1, <1>2, BothFollow DEF VSInv
<1>6. agreed' \in BOOLEAN
  BY <1>3, Zenon DEF VSInv, VSTypeOK
<1>7. VSTypeOK'
  BY <1>1, <1>2, <1>3, <1>4, <1>5, <1>6 DEF VSInv, VSTypeOK, IndInv
<1>8. active \in Transports \cup {NoTransport} /\ active' = active /\ cpc' = cpc
  BY <1>2 DEF VSInv, IndInv, TypeOK, vars
<1>9. SendingShape'
  BY <1>1, <1>2, <1>3, <1>8 DEF VSInv, SendingShape
<1>10. NewestIsCurrent'
  BY <1>2 DEF VSInv, NewestIsCurrent
<1>11. VolumesConverge'
  <2>1. v # NoVolume
    BY <1>1 DEF Levels
  <2>2. sending' = NoVolume /\ agreed' => agreed /\ v = lastVolume
    <3>1. CASE v # lastVolume /\ active # NoTransport
      BY <1>3, <2>1, <3>1
    <3>2. CASE ~(v # lastVolume /\ active # NoTransport)
      BY <1>3, <3>2, Zenon
    <3>3. QED
      BY <3>1, <3>2
  <2>3. Unapplied(active)' <=> Unapplied(active)
    BY <1>2, <1>8 DEF Unapplied
  <2>4. QED
    BY <1>2, <1>8, <2>2, <2>3 DEF VSInv, VolumesConverge
<1>12. QED
  BY <1>4, <1>5, <1>7, <1>9, <1>10, <1>11 DEF VSInv

\* BlueZ has a new volume for t: the newest unapplied change is the new one.
LEMMA AnnounceKeeps ==
  ASSUME VSInv, NEW t \in Transports, NEW v \in Levels, Announce(t, v),
         Len(notices) < MaxNotices, UNCHANGED polled
  PROVE  /\ bzVolume' \in [Transports -> Levels]
         /\ notices' \in Seq(Notices) /\ Len(notices') <= MaxNotices
         /\ NewestIsCurrent'
         /\ \A u \in Transports \cup {NoTransport} :
               ~Unapplied(u)' => ~Unapplied(u) /\ (u # t => bzVolume'[u] = bzVolume[u])
         /\ ~Unapplied(t)' => v = bzVolume[t]
<1> USE VolumeAssumption
<1>1. /\ bzVolume \in [Transports -> Levels]
      /\ notices \in Seq(Notices) /\ Len(notices) \in Nat
      /\ bzVolume' = [bzVolume EXCEPT ![t] = v]
  BY DEF VSInv, VSTypeOK, Announce
<1>2. CASE v = bzVolume[t]
  <2>1. notices' = notices /\ bzVolume' = bzVolume
    BY <1>1, <1>2 DEF Announce
  <2>2. QED
    BY <1>1, <1>2, <2>1 DEF VSInv, VSTypeOK, NewestIsCurrent, Unapplied
<1>3. CASE v # bzVolume[t]
  <2> DEFINE n == [volume |-> v, path |-> t]
  <2>1. notices' = Append(notices, n) /\ n \in Notices
    BY <1>3 DEF Announce, Notices
  <2>2. /\ Len(notices') = Len(notices) + 1
        /\ notices'[Len(notices) + 1] = n
        /\ \A i \in 1 .. Len(notices) : notices'[i] = notices[i]
        /\ notices' \in Seq(Notices)
    BY <1>1, <2>1
  <2>3. n.volume = v /\ n.path = t
    OBVIOUS
  <2> HIDE DEF n
  <2>4. Unapplied(t)'
    BY <1>1, <2>2, <2>3 DEF Unapplied
  <2>5. ASSUME NEW u \in Transports \cup {NoTransport}, ~Unapplied(u)'
        PROVE  ~Unapplied(u) /\ (u # t => bzVolume'[u] = bzVolume[u])
    <3>1. CASE u \in Transports
      BY <1>1, <2>2, <2>5, <3>1 DEF Unapplied
    <3>2. CASE u = NoTransport
      BY <1>1, <2>2, <2>5, <3>2, TransportAssumption DEF Unapplied
    <3>3. QED
      BY <3>1, <3>2
  <2>6. NewestIsCurrent'
    <3> SUFFICES ASSUME NEW u \in Transports
                 PROVE  /\ \A i \in 1 .. Len(notices') :
                             /\ notices'[i].path = u
                             /\ \A j \in i + 1 .. Len(notices') : notices'[j].path # u
                             => notices'[i].volume = bzVolume'[u]
                        /\ /\ polled'.path = u
                           /\ \A j \in 1 .. Len(notices') : notices'[j].path # u
                           => polled'.volume = bzVolume'[u]
      BY DEF NewestIsCurrent
    <3>1. CASE u = t
      BY <1>1, <2>2, <2>3, <3>1
    <3>2. CASE u # t
      <4>1. bzVolume'[u] = bzVolume[u]
        BY <1>1, <3>2
      <4>2. ASSUME NEW i \in 1 .. Len(notices'), notices'[i].path = u,
                   \A j \in i + 1 .. Len(notices') : notices'[j].path # u
            PROVE  notices'[i].volume = bzVolume[u]
        <5>1. i \in 1 .. Len(notices)
          BY <1>1, <2>2, <2>3, <3>2, <4>2
        <5>2. \A j \in i + 1 .. Len(notices) : notices[j].path # u
          BY <1>1, <2>2, <4>2, <5>1
        <5>3. QED
          BY <2>2, <4>2, <5>1, <5>2 DEF VSInv, NewestIsCurrent
      <4>3. ASSUME polled'.path = u,
                   \A j \in 1 .. Len(notices') : notices'[j].path # u
            PROVE  polled'.volume = bzVolume[u]
        <5>1. \A j \in 1 .. Len(notices) : notices[j].path # u
          BY <1>1, <2>2, <4>3
        <5>2. QED
          BY <4>3, <5>1 DEF VSInv, NewestIsCurrent
      <4>4. QED
        BY <4>1, <4>2, <4>3
    <3>3. QED
      BY <3>1, <3>2
  <2>7. QED
    BY <1>1, <2>2, <2>4, <2>5, <2>6
<1>4. QED
  BY <1>2, <1>3

\* BlueZ takes the volume, or the call fails.
LEMMA ReplyKeeps ==
  ASSUME VSInv, SetVolumeReply \/ SetVolumeFailed
  PROVE  VSInv'
<1> USE VolumeAssumption, TransportAssumption
<1>1. UNCHANGED <<vars, volume, lastVolume, polled>> /\ sending # NoVolume
  BY DEF SetVolumeReply, SetVolumeFailed
<1>2. IndInv' /\ OffVolumeOnlyWhileStarting'
  BY <1>1, StepIndInv DEF VSInv, OffVolumeOnlyWhileStarting, vars
<1>3. active' = active /\ active \in Transports /\ sending \in Levels
      /\ sending = lastVolume
  BY <1>1 DEF VSInv, SendingShape, VSTypeOK, vars
<1>4. agreed' \in BOOLEAN
  BY Zenon DEF SetVolumeReply, SetVolumeFailed
<1>5. CASE SetVolumeReply
  <2>1. Announce(active, sending) /\ sending' = NoVolume
        /\ Len(notices) < MaxNotices
    BY <1>5 DEF SetVolumeReply
  <2>2. /\ bzVolume' \in [Transports -> Levels]
        /\ notices' \in Seq(Notices) /\ Len(notices') <= MaxNotices
        /\ NewestIsCurrent'
    BY <1>1, <1>3, <2>1, AnnounceKeeps
  <2>3. VSTypeOK' /\ SendingShape'
    BY <1>1, <1>2, <1>3, <1>4, <2>1, <2>2
    DEF VSInv, VSTypeOK, SendingShape, IndInv
  <2>4. bzVolume'[active] = sending
    BY <2>1, <1>3 DEF Announce, VSInv, VSTypeOK
  <2>5. VolumesConverge'
    BY <1>1, <1>3, <2>4 DEF VolumesConverge
  <2>6. QED
    BY <1>2, <2>2, <2>3, <2>5 DEF VSInv
<1>6. CASE SetVolumeFailed
  <2>1. UNCHANGED <<bzVolume, notices>> /\ sending' = NoVolume /\ ~agreed'
    BY <1>6 DEF SetVolumeFailed
  <2>2. VSTypeOK' /\ SendingShape' /\ NewestIsCurrent' /\ VolumesConverge'
    BY <1>1, <1>2, <1>4, <2>1
    DEF VSInv, VSTypeOK, SendingShape, NewestIsCurrent, VolumesConverge, IndInv
  <2>3. QED
    BY <1>2, <2>2 DEF VSInv
<1>7. QED
  BY <1>5, <1>6

\* The remote changes its volume.
LEMMA RemoteChangeKeeps ==
  ASSUME VSInv, NEW t \in Transports, NEW v \in Levels, RemoteChange(t, v)
  PROVE  VSInv'
<1> USE VolumeAssumption, TransportAssumption
<1>1. UNCHANGED <<vars, volume, lastVolume, sending, polled, agreed>>
      /\ Announce(t, v) /\ Len(notices) < MaxNotices /\ v # bzVolume[t]
  BY DEF RemoteChange
<1>2. IndInv' /\ OffVolumeOnlyWhileStarting' /\ active' = active
      /\ active \in Transports \cup {NoTransport}
  BY <1>1, StepIndInv
  DEF VSInv, OffVolumeOnlyWhileStarting, vars, IndInv, TypeOK
<1>3. /\ bzVolume' \in [Transports -> Levels]
      /\ notices' \in Seq(Notices) /\ Len(notices') <= MaxNotices
      /\ NewestIsCurrent'
      /\ \A u \in Transports \cup {NoTransport} :
            ~Unapplied(u)' => ~Unapplied(u) /\ (u # t => bzVolume'[u] = bzVolume[u])
      /\ ~Unapplied(t)' => v = bzVolume[t]
  BY <1>1, AnnounceKeeps
<1>4. VSTypeOK' /\ SendingShape'
  BY <1>1, <1>2, <1>3 DEF VSInv, VSTypeOK, SendingShape, IndInv, vars
<1>5. VolumesConverge'
  <2> SUFFICES ASSUME agreed', ~Unapplied(active)', sending' = NoVolume
               PROVE  lastVolume' = bzVolume'[active]
    BY <1>2 DEF VolumesConverge, Unapplied
  <2>1. ~Unapplied(active) /\ active # t /\ bzVolume'[active] = bzVolume[active]
    BY <1>1, <1>2, <1>3 DEF Unapplied
  <2>2. QED
    BY <1>1, <2>1 DEF VSInv, VolumesConverge
<1>6. QED
  BY <1>2, <1>3, <1>4, <1>5 DEF VSInv

\* poll_event takes the oldest change off the channel.
LEMMA PollVolumeKeeps ==
  ASSUME VSInv, PollVolume
  PROVE  VSInv'
<1> USE VolumeAssumption, TransportAssumption
<1>1. /\ UNCHANGED <<vars, volume, lastVolume, sending, bzVolume, agreed>>
      /\ polled = NoNotice /\ notices # <<>>
      /\ polled' = Head(notices) /\ notices' = Tail(notices)
  BY DEF PollVolume
<1>2. IndInv' /\ OffVolumeOnlyWhileStarting' /\ SendingShape' /\ active' = active
      /\ active \in Transports \cup {NoTransport}
  BY <1>1, StepIndInv
  DEF VSInv, OffVolumeOnlyWhileStarting, SendingShape, vars, IndInv, TypeOK
<1>3. notices \in Seq(Notices) /\ Len(notices) \in Nat
      /\ Len(notices) <= MaxNotices
  BY DEF VSInv, VSTypeOK
<1>4. /\ Len(notices') = Len(notices) - 1 /\ notices' \in Seq(Notices)
      /\ \A i \in 1 .. Len(notices') : notices'[i] = notices[i + 1]
      /\ Len(notices) >= 1 /\ polled' = notices[1] /\ polled' \in Notices
  BY <1>1, <1>3
<1>5. VSTypeOK'
  BY <1>1, <1>2, <1>3, <1>4 DEF VSInv, VSTypeOK, IndInv
<1>6. NewestIsCurrent'
  <2> SUFFICES ASSUME NEW u \in Transports
               PROVE  /\ \A i \in 1 .. Len(notices') :
                           /\ notices'[i].path = u
                           /\ \A j \in i + 1 .. Len(notices') : notices'[j].path # u
                           => notices'[i].volume = bzVolume'[u]
                      /\ /\ polled'.path = u
                         /\ \A j \in 1 .. Len(notices') : notices'[j].path # u
                         => polled'.volume = bzVolume'[u]
    BY DEF NewestIsCurrent
  <2>1. ASSUME NEW k \in 1 .. Len(notices), notices[k].path = u,
               \A j \in k .. Len(notices') : notices'[j].path # u
        PROVE  notices[k].volume = bzVolume[u]
    <3>1. \A j \in k + 1 .. Len(notices) :
             j - 1 \in k .. Len(notices') /\ notices[j] = notices'[j - 1]
      BY <1>3, <1>4
    <3>2. \A j \in k + 1 .. Len(notices) : notices[j].path # u
      BY <2>1, <3>1
    <3>3. QED
      BY <2>1, <3>2 DEF VSInv, NewestIsCurrent
  <2>2. ASSUME NEW i \in 1 .. Len(notices'), notices'[i].path = u,
               \A j \in i + 1 .. Len(notices') : notices'[j].path # u
        PROVE  notices'[i].volume = bzVolume[u]
    <3>1. i + 1 \in 1 .. Len(notices) /\ notices'[i] = notices[i + 1]
      BY <1>3, <1>4
    <3>2. QED
      BY <2>1, <2>2, <3>1
  <2>3. ASSUME polled'.path = u,
               \A j \in 1 .. Len(notices') : notices'[j].path # u
        PROVE  polled'.volume = bzVolume[u]
    <3>1. 1 \in 1 .. Len(notices)
      BY <1>3, <1>4
    <3>2. QED
      BY <1>4, <2>1, <2>3, <3>1
  <2>4. QED
    BY <1>1, <2>2, <2>3
<1>7. VolumesConverge'
  <2> SUFFICES ASSUME agreed', ~Unapplied(active)', sending' = NoVolume
               PROVE  lastVolume' = bzVolume'[active]
    BY <1>2 DEF VolumesConverge, Unapplied
  <2>1. active \in Transports
    BY <1>1 DEF VSInv, SendingShape
  <2>2. ASSUME NEW i \in 1 .. Len(notices) PROVE notices[i].path # active
    <3>1. CASE i = 1
      BY <1>2, <1>4, <3>1 DEF Unapplied
    <3>2. CASE i # 1
      <4>1. i - 1 \in 1 .. Len(notices') /\ notices[i] = notices'[i - 1]
        BY <1>3, <1>4, <3>2
      <4>2. QED
        BY <1>2, <4>1 DEF Unapplied
    <3>3. QED
      BY <3>1, <3>2
  <2>3. ~Unapplied(active)
    BY <1>1, <2>1, <2>2 DEF Unapplied, NoNotice
  <2>4. QED
    BY <1>1, <2>3 DEF VSInv, VolumesConverge
<1>8. QED
  BY <1>2, <1>5, <1>6, <1>7 DEF VSInv

\* The handler applies a remote change to engine and runtime.
LEMMA RemoteAppliedKeeps ==
  ASSUME VSInv, SetVolumeRemote
  PROVE  VSInv'
<1> USE VolumeAssumption, TransportAssumption
<1> DEFINE v == polled.volume
<1>1. polled \in Notices /\ polled # NoNotice
  BY DEF VSInv, VSTypeOK, SetVolumeRemote
<1>2. v \in Levels /\ polled.path \in Transports
  BY <1>1 DEF Notices
<1>3. Clip(v) = v
  BY <1>2, ClipLevels
<1>4. /\ cpc = "idle" /\ sending = NoVolume /\ polled' = NoNotice
      /\ volume' = EngineVolume(v) /\ lastVolume' = v
      /\ UNCHANGED <<vars, sending, bzVolume, notices>>
  BY <1>3 DEF SetVolumeRemote, Idle
<1>5. agreed' \in BOOLEAN /\ (agreed' => active = polled.path)
  BY Zenon DEF SetVolumeRemote
<1>6. IndInv' /\ active' = active
  BY <1>4, StepIndInv DEF VSInv, vars
<1>7. volume' \in [Gens -> Levels] /\ OffVolumeOnlyWhileStarting'
  BY <1>2, <1>4, BothFollow DEF VSInv
<1>8. VSTypeOK' /\ SendingShape'
  BY <1>2, <1>4, <1>5, <1>6, <1>7
  DEF VSInv, VSTypeOK, SendingShape, IndInv, vars
<1>9. NewestIsCurrent'
  BY <1>4 DEF VSInv, NewestIsCurrent, NoNotice
<1>10. VolumesConverge'
  <2> SUFFICES ASSUME agreed', ~Unapplied(active)'
               PROVE  v = bzVolume[active]
    BY <1>4, <1>6 DEF VolumesConverge, Unapplied
  <2>1. active = polled.path
    BY <1>5
  <2>2. \A j \in 1 .. Len(notices) : notices[j].path # active
    BY <1>4, <1>6 DEF Unapplied
  <2>3. QED
    BY <1>2, <2>1, <2>2 DEF VSInv, NewestIsCurrent
<1>11. QED
  BY <1>6, <1>7, <1>8, <1>9, <1>10 DEF VSInv

\* No other control step changes what can be heard or how loud.
LEMMA EngineStepKeeps ==
  ASSUME VSInv, EngineStep
  PROVE  VSInv'
<1> USE VolumeAssumption, TransportAssumption, BoundAssumption
<1>1. /\ UNCHANGED <<lastVolume, sending, bzVolume, notices, polled>>
      /\ agreed' \in BOOLEAN /\ (agreed' => agreed /\ active' = active)
  BY Zenon DEF EngineStep
<1>2. [VSNext]_vsVars
  BY DEF VSNext
<1>3. IndInv /\ IndInv' /\ VSTypeOK
  BY <1>2, VolumeEngineStep, StepIndInv DEF VSInv
<1>4. volume' \in [Gens -> Levels] /\ OffVolumeOnlyWhileStarting'
  <2>1. CASE VSBuildAudio
    <3>1. /\ volume' = [volume EXCEPT ![gen + 1] = MaxVolume]
          /\ audio' = [audio EXCEPT ![gen + 1] = TRUE]
          /\ cpc = "starting" /\ cpc' = "playing"
      BY <2>1 DEF VSBuildAudio, BuildAudio
    <3>2. gen + 1 \in Gens /\ \A g \in Gens : ~audio[g]
      BY <1>3, <3>1 DEF IndInv, TypeOK, ControlShape, OwnedAudio, Owned, Joins,
                        Gens
    <3>3. MaxVolume \in Levels
      BY DEF Levels
    <3>4. QED
      BY <1>3, <3>1, <3>2, <3>3
      DEF VSTypeOK, OffVolumeOnlyWhileStarting, IndInv, TypeOK
  <2>2. CASE VSPublishEngine
    <3>1. /\ volume' = [volume EXCEPT ![gen] = lastVolume]
          /\ audio' = audio /\ cpc = "spawned"
      BY <2>2 DEF VSPublishEngine, PublishEngine
    <3>2. \A g \in Gens : audio[g] => g = gen
      BY <1>3 DEF IndInv, OwnedAudio
    <3>3. QED
      BY <1>1, <1>3, <3>1, <3>2 DEF VSTypeOK, OffVolumeOnlyWhileStarting
  <2>3. CASE OtherStep /\ UNCHANGED volume
    <3> USE <2>3 DEF OtherStep, ControlCall, StopStream, StopStreamNoop,
          StartStream, EnterStartStream, BeginStop, Shutdown,
          CallWithoutRuntime, AcquireAndStart, Joined, PollEvent,
          AcquireFailed, AcquireReply, AcquireReturn, BuildAudioFailed,
          CreateStreamBuffers, SpawnThread, SpawnThreadFailed, BtStep,
          BtIoReturn, AudioCallback, CodecCreated, CodecFailed, StopSeen,
          EnterRead, TakeFrame, ThreadExit, ReadData, ReadRetry, ReadEnd,
          WriteReturned, WriteBrokenPipe, OutputCallback, InputCallback,
          control, vars
    <3>1. audio \in [Gens -> BOOLEAN]
      BY <1>3 DEF IndInv, TypeOK
    <3>2. \A g \in Gens : audio'[g] => audio[g]
      BY <3>1
    <3>3. cpc = "playing" =>
             \/ cpc' \in {"playing", "spawned"}
             \/ audio' = [audio EXCEPT ![gen] = FALSE]
      BY DEF Joins
    <3>4. cpc = "spawned" => cpc' = "spawned"
      BY DEF Joins
    <3>5. \A g \in Gens : audio[g] => g = gen
      BY <1>3 DEF IndInv, OwnedAudio
    <3>6. QED
      BY <1>1, <1>3, <3>1, <3>2, <3>3, <3>4, <3>5
      DEF VSInv, VSTypeOK, OffVolumeOnlyWhileStarting
  <2>4. QED
    BY <2>1, <2>2, <2>3 DEF EngineStep
<1>5. SendingShape'
  <2>1. CASE sending = NoVolume
    BY <1>1, <2>1 DEF VSInv, SendingShape
  <2>2. CASE sending # NoVolume
    <3>1. cpc = "idle" /\ active \in Transports /\ sending = lastVolume
      BY <2>2 DEF VSInv, SendingShape
    <3>2. cpc' = cpc /\ active' = active
      BY <2>2, <3>1
      DEF EngineStep, OtherStep, VSBuildAudio, BuildAudio, VSPublishEngine,
          PublishEngine, Joined, Joins, AcquireFailed, AcquireReply,
          AcquireReturn, BuildAudioFailed, SpawnThread, SpawnThreadFailed,
          BtStep, BtIoReturn, AudioCallback, CodecCreated, CodecFailed,
          StopSeen, EnterRead, TakeFrame, ThreadExit, ReadData, ReadRetry,
          ReadEnd, WriteReturned, WriteBrokenPipe, OutputCallback,
          InputCallback, control
    <3>3. QED
      BY <1>1, <3>1, <3>2 DEF SendingShape
  <2>3. QED
    BY <2>1, <2>2
<1>6. VSTypeOK' /\ NewestIsCurrent'
  BY <1>1, <1>3, <1>4 DEF VSInv, VSTypeOK, NewestIsCurrent, IndInv
<1>7. VolumesConverge'
  BY <1>1 DEF VSInv, VolumesConverge, Unapplied
<1>8. QED
  BY <1>3, <1>4, <1>5, <1>6, <1>7 DEF VSInv

LEMMA VolumeCallKeeps ==
  ASSUME VSInv, VolumeCall
  PROVE  VSInv'
<1>1. lastVolume \in Levels /\ engine \in Gens \cup {0} /\ volume \in [Gens -> Levels]
  BY DEF VSInv, VSTypeOK, TypeOK, Gens
<1>2. GetVolume \in Nat
  BY <1>1 DEF GetVolume, Levels, Gens
<1>3. \A r \in Nat : SetVolume(r) => VSInv'
  BY SetVolumeKeeps
<1>4. CASE VolumeUp
  <2>1. (IF GetVolume + VolumeStep <= MaxVolume
         THEN GetVolume + VolumeStep ELSE MaxVolume) \in Nat
    BY <1>2, VolumeAssumption
  <2>2. QED
    BY <1>3, <1>4, <2>1 DEF VolumeUp
<1>5. CASE VolumeDown
  <2>1. (IF GetVolume >= VolumeStep THEN GetVolume - VolumeStep ELSE 0) \in Nat
    BY <1>2, VolumeAssumption
  <2>2. QED
    BY <1>3, <1>5, <2>1 DEF VolumeDown
<1>6. QED
  BY <1>3, <1>4, <1>5, VolumeAssumption DEF VolumeCall

\* Every step, stuttering included, keeps the invariant.
LEMMA StepVSInv ==
  ASSUME VSInv, [VSNext]_vsVars
  PROVE  VSInv'
<1>1. CASE UNCHANGED vsVars
  <2>1. IndInv'
    BY <1>1, StepIndInv DEF VSInv, vsVars
  <2>2. QED
    BY <1>1, <2>1
    DEF VSInv, vsVars, volumeVars, vars, VSTypeOK, OffVolumeOnlyWhileStarting,
        SendingShape, NewestIsCurrent, VolumesConverge, Unapplied, IndInv
<1>2. CASE VSNext
  BY <1>2, EngineStepKeeps, VolumeCallKeeps, ReplyKeeps, PollVolumeKeeps,
     RemoteAppliedKeeps, RemoteChangeKeeps
  DEF VSNext
<1>3. QED
  BY <1>1, <1>2

\* Volume synchronisation keeps its inductive invariant, types included.
THEOREM VolumeInvariant == VSSpec => []VSInv
<1>1. QED
  BY VSInitInv, StepVSInv, PTL DEF VSSpec

\* What is heard is at the stored volume except while start_stream is
\* between play() and its end, where it is at the maximum (engine.rs 98-100,
\* runtime.rs start_stream), whatever calls and remote changes come in.
THEOREM AudibleVolume == VSSpec => []OffVolumeOnlyWhileStarting
<1>1. VSInv => OffVolumeOnlyWhileStarting
  BY DEF VSInv
<1>2. QED
  BY <1>1, VolumeInvariant, PTL

\* Racing local and remote changes (runtime.rs set_volume against
\* set_volume_remote) end with one volume for any number of changes.
THEOREM VolumesAgree == VSSpec => []VolumesConverge
<1>1. VSInv => VolumesConverge
  BY DEF VSInv
<1>2. QED
  BY <1>1, VolumeInvariant, PTL

=============================================================================
