------------------------ MODULE StreamEngineProofs --------------------------
(* Safety of StreamEngine, and its refinement of StreamService, for any    *)
(* number of transports and generations.                                   *)
EXTENDS StreamRefinement, TLAPS

\* Before the first call nothing runs.
LEMMA InitIndInv == Init => IndInv
<1> USE TransportAssumption, BoundAssumption
<1> SUFFICES ASSUME Init PROVE IndInv
  OBVIOUS
<1>1. TypeOK
  <2>1. running \in BOOLEAN /\ played \in BOOLEAN
    BY Zenon DEF Init
  <2>2. stopFlag \in [Gens -> BOOLEAN] /\ audio \in [Gens -> BOOLEAN]
    BY Zenon DEF Init
  <2>3. QED
    BY <2>1, <2>2
    DEF Init, TypeOK, ControlPoints, Joins, BtPoints, LivePoints, Gens
<1>2. ControlShape
  BY DEF Init, ControlShape, Joins
<1>3. OwnedThreads /\ OwnedAudio /\ NotRunningMeansFinished
  BY DEF Init, OwnedThreads, OwnedAudio, NotRunningMeansFinished, Live,
         LivePoints, Gens
<1>4. QED
  BY <1>1, <1>2, <1>3 DEF IndInv

\* Every step of the control thread, of a BT thread or of a callback keeps
\* IndInv.  poll_event relies on NotRunningMeansFinished: the handle it drops
\* without a join has no live thread.
LEMMA StepIndInv == IndInv /\ [Next]_vars => IndInv'
<1> SUFFICES ASSUME IndInv, [Next]_vars PROVE IndInv'
  OBVIOUS
<1> USE TransportAssumption, BoundAssumption, DirectionAssumption
<1> USE DEF IndInv, TypeOK, ControlShape, OwnedThreads, OwnedAudio,
            NotRunningMeansFinished, Owned, Live, LivePoints, BtPoints,
            ControlPoints, Joins, Gens
<1>1. CASE StopStream
  BY <1>1 DEF StopStream, BeginStop
<1>2. CASE StopStreamNoop
  BY <1>2 DEF StopStreamNoop, vars
<1>3. CASE StartStream
  BY <1>3 DEF StartStream, EnterStartStream, BeginStop
<1>4. CASE Shutdown
  BY <1>4 DEF Shutdown, BeginStop
<1>5. CASE CallWithoutRuntime
  BY <1>5 DEF CallWithoutRuntime, vars
<1>6. CASE \E t \in Transports : AcquireAndStart(t)
  BY <1>6 DEF AcquireAndStart
<1>7. CASE AcquireFailed
  BY <1>7 DEF AcquireFailed
<1>8. CASE AcquireReply
  BY <1>8 DEF AcquireReply
<1>9. CASE AcquireReturn
  BY <1>9 DEF AcquireReturn, EnterStartStream, BeginStop
<1>10. CASE BuildAudio
  <2>1. running' \in BOOLEAN /\ played' \in BOOLEAN
    BY <1>10, Zenon DEF BuildAudio, CreateStreamBuffers
  <2>2. TypeOK'
    BY <1>10, <2>1 DEF BuildAudio, CreateStreamBuffers
  <2>3. ControlShape'
    BY <1>10 DEF BuildAudio, CreateStreamBuffers
  <2>4. OwnedThreads' /\ OwnedAudio'
    BY <1>10 DEF BuildAudio, CreateStreamBuffers
  <2>5. NotRunningMeansFinished'
    BY <1>10 DEF BuildAudio, CreateStreamBuffers
  <2>6. QED
    BY <2>2, <2>3, <2>4, <2>5
<1>11. CASE BuildAudioFailed
  <2>1. running' \in BOOLEAN /\ played' \in BOOLEAN
    BY <1>11, Zenon DEF BuildAudioFailed, CreateStreamBuffers
  <2>2. TypeOK'
    BY <1>11, <2>1 DEF BuildAudioFailed, CreateStreamBuffers
  <2>3. ControlShape'
    BY <1>11 DEF BuildAudioFailed, CreateStreamBuffers
  <2>4. OwnedThreads' /\ OwnedAudio'
    BY <1>11 DEF BuildAudioFailed, CreateStreamBuffers
  <2>5. NotRunningMeansFinished'
    BY <1>11 DEF BuildAudioFailed, CreateStreamBuffers
  <2>6. QED
    BY <2>2, <2>3, <2>4, <2>5
<1>12. CASE SpawnThread
  BY <1>12 DEF SpawnThread
<1>13. CASE SpawnThreadFailed
  BY <1>13 DEF SpawnThreadFailed
<1>14. CASE PublishEngine
  BY <1>14 DEF PublishEngine
<1>15. CASE Joined
  BY <1>15 DEF Joined
<1>16. CASE PollEvent
  BY <1>16 DEF PollEvent, StreamEnded
<1>17. CASE \E g \in Gens : CodecCreated(g)
  BY <1>17 DEF CodecCreated, control, BtGoto
<1>18. CASE \E g \in Gens : CodecFailed(g)
  <2>1. running' \in BOOLEAN /\ played' \in BOOLEAN
    BY <1>18, Zenon DEF CodecFailed, control, BtGoto
  <2>2. TypeOK'
    BY <1>18, <2>1 DEF CodecFailed, control, BtGoto
  <2>3. ControlShape'
    BY <1>18 DEF CodecFailed, control, BtGoto
  <2>4. OwnedThreads' /\ OwnedAudio'
    BY <1>18 DEF CodecFailed, control, BtGoto
  <2>5. NotRunningMeansFinished'
    BY <1>18 DEF CodecFailed, control, BtGoto
  <2>6. QED
    BY <2>2, <2>3, <2>4, <2>5
<1>19. CASE \E g \in Gens : StopSeen(g)
  BY <1>19 DEF StopSeen, control, BtGoto
<1>20. CASE \E g \in Gens : EnterRead(g)
  BY <1>20 DEF EnterRead, control, BtGoto
<1>21. CASE \E g \in Gens : TakeFrame(g)
  BY <1>21 DEF TakeFrame, control, BtGoto
<1>22. CASE \E g \in Gens : ThreadExit(g)
  <2>1. running' \in BOOLEAN /\ played' \in BOOLEAN
    BY <1>22, Zenon DEF ThreadExit, control, BtGoto
  <2>2. TypeOK'
    BY <1>22, <2>1 DEF ThreadExit, control, BtGoto
  <2>3. ControlShape'
    BY <1>22 DEF ThreadExit, control, BtGoto
  <2>4. OwnedThreads' /\ OwnedAudio'
    BY <1>22 DEF ThreadExit, control, BtGoto
  <2>5. NotRunningMeansFinished'
    BY <1>22 DEF ThreadExit, control, BtGoto
  <2>6. QED
    BY <2>2, <2>3, <2>4, <2>5
<1>23. CASE \E g \in Gens : ReadData(g)
  BY <1>23 DEF ReadData, control, BtGoto
<1>24. CASE \E g \in Gens : ReadRetry(g)
  BY <1>24 DEF ReadRetry, control, BtGoto
<1>25. CASE \E g \in Gens : ReadEnd(g)
  BY <1>25 DEF ReadEnd, control, BtGoto
<1>26. CASE \E g \in Gens : WriteReturned(g)
  BY <1>26 DEF WriteReturned, control, BtGoto
<1>27. CASE \E g \in Gens : WriteBrokenPipe(g)
  BY <1>27 DEF WriteBrokenPipe, control, BtGoto
<1>28. CASE \E g \in Gens : AudioCallback(g)
  <2>1. running' \in BOOLEAN /\ played' \in BOOLEAN
    BY <1>28, Zenon DEF AudioCallback, OutputCallback, InputCallback
  <2>2. PICK g \in Gens : AudioCallback(g)
    BY <1>28
  <2>3. PICK n \in 0 .. RingCap : ring' = [ring EXCEPT ![g] = n]
    <3>1. CASE OutputCallback(g)
      <4>1. PICK left \in 0 .. ring[g] : ring' = [ring EXCEPT ![g] = left]
        BY <3>1 DEF OutputCallback
      <4>2. left \in 0 .. RingCap
        OBVIOUS
      <4>3. QED
        BY <4>1, <4>2
    <3>2. CASE InputCallback(g)
      <4>1. PICK n \in ring[g] .. RingCap : ring' = [ring EXCEPT ![g] = n]
        BY <3>2 DEF InputCallback
      <4>2. n \in 0 .. RingCap
        OBVIOUS
      <4>3. QED
        BY <4>1, <4>2
    <3>3. QED
      BY <2>2, <3>1, <3>2 DEF AudioCallback
  <2>4. ring' \in [Gens -> 0 .. RingCap]
    BY <2>3
  <2>5. UNCHANGED <<control, bt, stopFlag, audio, running>>
    BY <2>2 DEF AudioCallback, OutputCallback, InputCallback
  <2>6. TypeOK'
    BY <2>1, <2>4, <2>5 DEF control
  <2>7. ControlShape' /\ OwnedThreads' /\ OwnedAudio'
    BY <2>5 DEF control
  <2>8. NotRunningMeansFinished'
    BY <2>5 DEF control
  <2>9. QED
    BY <2>6, <2>7, <2>8
<1>29. CASE UNCHANGED vars
  BY <1>29 DEF vars
<1>30. QED
  BY <1>1, <1>2, <1>3, <1>4, <1>5, <1>6, <1>7, <1>8, <1>9, <1>10, <1>11, <1>12, <1>13, <1>14, <1>15, <1>16, <1>17, <1>18, <1>19, <1>20, <1>21, <1>22, <1>23, <1>24, <1>25, <1>26, <1>27, <1>28, <1>29 DEF Next, ControlCall, ControlStep, BtStep, BtIoReturn

\* IndInv holds in every reachable state of the engine.
THEOREM IndInvHolds == Spec => []IndInv
<1>1. QED
  BY InitIndInv, StepIndInv, PTL DEF Spec

\* Every variable keeps its type; in particular no push ever exceeds the ring
\* and no start ever exceeds the generations allocated.
THEOREM TypeCorrect == Spec => []TypeOK
<1>1. IndInv => TypeOK
  BY DEF IndInv
<1>2. QED
  BY <1>1, IndInvHolds, PTL

\* However often a stream is restarted, stopped or dropped by poll_event, at
\* most one BT thread is alive.
THEOREM SingleBtThreadHolds == Spec => []SingleBtThread
<1>1. IndInv => SingleBtThread
  BY DEF IndInv, OwnedThreads, SingleBtThread
<1>2. QED
  BY <1>1, IndInvHolds, PTL

\* Between calls, no engine means no BT thread and no audio stream.
THEOREM QuietWithoutEngineHolds == Spec => []QuietWithoutEngine
<1>1. IndInv => QuietWithoutEngine
  <2> SUFFICES ASSUME IndInv, cpc \in {"idle", "down"}, engine = 0,
                      NEW g \in Gens
               PROVE ~Live(g) /\ ~audio[g]
    BY DEF QuietWithoutEngine
  <2>1. joining = 0
    BY DEF IndInv, ControlShape, Joins
  <2>2. ~Owned(g)
    BY <2>1 DEF Owned, Gens
  <2>3. QED
    BY <2>2 DEF IndInv, OwnedThreads, OwnedAudio
<1>2. QED
  BY <1>1, IndInvHolds, PTL

\* A thread of an earlier generation never clears running under a later one.
THEOREM NotRunningMeansFinishedHolds == Spec => []NotRunningMeansFinished
<1>1. IndInv => NotRunningMeansFinished
  BY DEF IndInv
<1>2. QED
  BY <1>1, IndInvHolds, PTL

\* Only the newest generation plays.
THEOREM OnlyNewestPlaysHolds == Spec => []OnlyNewestPlays
<1>1. IndInv => OnlyNewestPlays
  BY DEF IndInv, OwnedAudio, OnlyNewestPlays
<1>2. QED
  BY <1>1, IndInvHolds, PTL

-----------------------------------------------------------------------------
(* StreamEngine implements StreamService                                   *)

\* Points of a call at which a descriptor waits for its stream.
Holding == {"acquired", "restarting", "starting", "playing"}

\* Such a call has a descriptor, and the generation it is about to spawn a
\* thread for is above every generation that ever had one.
StartedInOrder ==
    /\ cpc \in Holding => target # NoTransport
    /\ \A g \in Started : g <= gen /\ (cpc = "playing" => g < gen)

LEMMA OrderInit == Init => StartedInOrder
  BY DEF Init, StartedInOrder, Started, Holding

\* A control step other than a spawn leaves every thread alone.
LEMMA OrderStep == IndInv /\ StartedInOrder /\ [Next]_vars => StartedInOrder'
<1> SUFFICES ASSUME IndInv, StartedInOrder, [Next]_vars
             PROVE StartedInOrder'
  OBVIOUS
<1> USE TransportAssumption, BoundAssumption
<1> USE DEF StartedInOrder, Started, Holding, IndInv, TypeOK, ControlShape,
            Gens, Joins
<1>1. CASE StopStream \/ StopStreamNoop \/ Shutdown \/ CallWithoutRuntime
  BY <1>1 DEF StopStream, StopStreamNoop, Shutdown, CallWithoutRuntime,
              BeginStop, vars
<1>2. CASE StartStream
  BY <1>2 DEF StartStream, EnterStartStream, BeginStop
<1>3. CASE AcquireReturn
  BY <1>3 DEF AcquireReturn, EnterStartStream, BeginStop
<1>4. CASE (\E t \in Transports : AcquireAndStart(t)) \/ AcquireFailed
           \/ AcquireReply
  BY <1>4 DEF AcquireAndStart, AcquireFailed, AcquireReply
<1>5. CASE BuildAudio \/ BuildAudioFailed
  BY <1>5 DEF BuildAudio, BuildAudioFailed, CreateStreamBuffers
<1>6. CASE SpawnThread
  BY <1>6 DEF SpawnThread
<1>7. CASE SpawnThreadFailed \/ PublishEngine \/ Joined \/ PollEvent
  <2>1. CASE SpawnThreadFailed
    BY <2>1 DEF SpawnThreadFailed
  <2>2. CASE PublishEngine
    BY <2>2 DEF PublishEngine
  <2>3. CASE Joined
    BY <2>3 DEF Joined
  <2>4. CASE PollEvent
    BY <2>4 DEF PollEvent
  <2>5. QED
    BY <1>7, <2>1, <2>2, <2>3, <2>4, Zenon
<1>8. CASE \E g \in Gens : BtStep(g)
  <2>1. PICK g \in Gens : BtStep(g)
    BY <1>8
  <2>2. /\ UNCHANGED control /\ bt[g] # "none"
        /\ \E point \in BtPoints : bt' = [bt EXCEPT ![g] = point]
    BY <2>1 DEF BtStep, CodecCreated, CodecFailed, StopSeen, EnterRead,
                TakeFrame, ThreadExit, BtGoto, BtPoints, LivePoints
  <2>3. UNCHANGED <<cpc, target, gen>> /\ Started' \subseteq Started
    BY <2>2 DEF control
  <2>4. QED
    BY <2>3
<1>9. CASE \E g \in Gens : BtIoReturn(g)
  <2>1. PICK g \in Gens : BtIoReturn(g)
    BY <1>9
  <2>2. /\ UNCHANGED control /\ bt[g] # "none"
        /\ \E point \in BtPoints : bt' = [bt EXCEPT ![g] = point]
    BY <2>1 DEF BtIoReturn, ReadData, ReadRetry, ReadEnd, WriteReturned,
                WriteBrokenPipe, BtGoto, BtPoints, LivePoints
  <2>3. UNCHANGED <<cpc, target, gen>> /\ Started' \subseteq Started
    BY <2>2 DEF control
  <2>4. QED
    BY <2>3
<1>10. CASE \E g \in Gens : AudioCallback(g)
  BY <1>10 DEF AudioCallback, OutputCallback, InputCallback, control
<1>11. CASE UNCHANGED vars
  BY <1>11 DEF vars
<1>12. QED
  BY <1>1, <1>2, <1>3, <1>4, <1>5, <1>6, <1>7, <1>8, <1>9, <1>10, <1>11
  DEF Next, ControlCall, ControlStep

\* Where threads and descriptors are left alone, so are the streams.
LEMMA SameStreams ==
  UNCHANGED <<bt, fd>> => LiveStreams' = LiveStreams /\ Started' = Started
  BY DEF LiveStreams, Started, Live

\* A step inside the loop of a BT thread changes no stream.
LEMMA LoopStepSame ==
  ASSUME TypeOK, NEW g \in Gens, Live(g), NEW p \in LivePoints, BtGoto(g, p),
         UNCHANGED fd
  PROVE  LiveStreams' = LiveStreams /\ Started' = Started
<1>1. /\ bt'[g] \in LivePoints
      /\ \A h \in Gens : h # g => bt'[h] = bt[h]
  BY DEF BtGoto, TypeOK
<1>2. \A h \in Gens : Live(h)' <=> Live(h)
  BY <1>1 DEF Live
<1>3. LiveStreams' = LiveStreams
  BY <1>2 DEF LiveStreams
<1>4. \A h \in Gens : bt'[h] = "none" <=> bt[h] = "none"
  BY <1>1 DEF Live, LivePoints
<1>5. Started' = Started
  BY <1>4 DEF Started
<1>6. QED
  BY <1>3, <1>5

\* The thread that finishes is the only one alive.
LEMMA ThreadEnds ==
  ASSUME IndInv, NEW g \in Gens, Live(g), BtGoto(g, "done"), UNCHANGED fd
  PROVE  LiveStreams # {} /\ LiveStreams' = {} /\ Started' = Started
<1>1. \A h \in Gens : Live(h) => h = g
  BY DEF IndInv, OwnedThreads
<1>2. bt'[g] = "done" /\ \A h \in Gens : h # g => bt'[h] = bt[h]
  BY DEF BtGoto, IndInv, TypeOK
<1>3. \A h \in Gens : ~Live(h)'
  BY <1>1, <1>2 DEF Live, LivePoints
<1>4. LiveStreams' = {}
  BY <1>3 DEF LiveStreams
<1>5. <<g, fd[g]>> \in LiveStreams
  BY DEF LiveStreams
<1>6. \A h \in Gens : bt'[h] = "none" <=> bt[h] = "none"
  BY <1>2 DEF Live, LivePoints
<1>7. Started' = Started
  BY <1>6 DEF Started
<1>8. QED
  BY <1>4, <1>5, <1>7

LEMMA MapsInit == Init => Service!SInit
<1> SUFFICES ASSUME Init PROVE Service!SInit
  OBVIOUS
<1>1. Granted = NoTransport
  BY DEF Init, Granted
<1>2. LiveStreams = {} /\ Started = {}
  BY DEF Init, LiveStreams, Started, Live, LivePoints
<1>3. QED
  BY <1>1, <1>2 DEF Service!SInit

\* Every step maps to a grant, a begin, a discard, an end, or to nothing.
LEMMA MapsStep ==
  IndInv /\ StartedInOrder /\ [Next]_vars => [Service!SNext]_(Service!svars)
<1> SUFFICES ASSUME IndInv, StartedInOrder, [Next]_vars
             PROVE Service!SNext \/ UNCHANGED Service!svars
  OBVIOUS
<1> USE TransportAssumption
<1> USE DEF Service!SNext, Service!svars
<1>1. CASE StopStream \/ StopStreamNoop \/ Shutdown \/ CallWithoutRuntime
  <2>1. Granted' = Granted /\ UNCHANGED <<bt, fd>>
    BY <1>1 DEF StopStream, StopStreamNoop, Shutdown, CallWithoutRuntime,
                BeginStop, vars, Granted
  <2>2. QED
    BY <2>1, SameStreams
<1>2. CASE StartStream
  <2>1. Granted = NoTransport /\ Granted' = RawFd /\ UNCHANGED <<bt, fd>>
    BY <1>2 DEF StartStream, EnterStartStream, BeginStop, Granted
  <2>2. Service!Grant(RawFd)
    BY <2>1, SameStreams DEF Service!Grant
  <2>3. QED
    BY <2>2
<1>3. CASE AcquireReturn
  <2>1. Granted' = Granted /\ UNCHANGED <<bt, fd>>
    BY <1>3 DEF AcquireReturn, EnterStartStream, BeginStop, Granted
  <2>2. QED
    BY <2>1, SameStreams
<1>4. CASE (\E t \in Transports : AcquireAndStart(t)) \/ AcquireFailed
  <2>1. Granted' = Granted /\ UNCHANGED <<bt, fd>>
    BY <1>4 DEF AcquireAndStart, AcquireFailed, Granted
  <2>2. QED
    BY <2>1, SameStreams
<1>5. CASE AcquireReply
  <2>1. Granted = NoTransport /\ Granted' = target /\ target \in Transports
    BY <1>5 DEF AcquireReply, Granted, IndInv, ControlShape
  <2>2. UNCHANGED <<bt, fd>>
    BY <1>5 DEF AcquireReply
  <2>3. Service!Grant(target)
    BY <2>1, <2>2, SameStreams DEF Service!Grant
  <2>4. QED
    BY <2>1, <2>3
<1>6. CASE BuildAudio
  <2>1. Granted' = Granted /\ UNCHANGED <<bt, fd>>
    BY <1>6 DEF BuildAudio, Granted
  <2>2. QED
    BY <2>1, SameStreams
<1>7. CASE BuildAudioFailed \/ SpawnThreadFailed
  <2>1. Granted = target /\ target # NoTransport /\ Granted' = NoTransport
    BY <1>7 DEF BuildAudioFailed, SpawnThreadFailed, Granted, StartedInOrder,
                Holding
  <2>2. UNCHANGED <<bt, fd>>
    BY <1>7 DEF BuildAudioFailed, SpawnThreadFailed
  <2>3. Service!Discard
    BY <2>1, <2>2, SameStreams DEF Service!Discard
  <2>4. QED
    BY <2>3
<1>8. CASE SpawnThread
  <2>1. /\ cpc = "playing" /\ engine = 0 /\ joining = 0 /\ gen \in Gens
        /\ bt \in [Gens -> BtPoints] /\ fd \in [Gens -> Transports \cup {NoTransport, RawFd}]
    BY <1>8, BoundAssumption
    DEF SpawnThread, IndInv, TypeOK, ControlShape, Joins, Gens
  <2>2. \A h \in Gens : ~Live(h)
    BY <2>1 DEF IndInv, OwnedThreads, Owned, Gens
  <2>3. bt' = [bt EXCEPT ![gen] = "init"] /\ fd' = [fd EXCEPT ![gen] = target]
    BY <1>8 DEF SpawnThread
  <2>4. \A h \in Gens : Live(h)' <=> h = gen
    BY <2>1, <2>2, <2>3 DEF Live, LivePoints
  <2>5. LiveStreams = {}
    BY <2>2 DEF LiveStreams
  <2>6. LiveStreams' = {<<gen, target>>}
    BY <2>1, <2>3, <2>4 DEF LiveStreams
  <2>7. Started' = Started \cup {gen}
    BY <2>1, <2>3 DEF Started
  <2>8. \A m \in Started : m < gen
    BY <2>1 DEF StartedInOrder
  <2>9. Granted = target /\ target # NoTransport /\ Granted' = NoTransport
    BY <1>8 DEF SpawnThread, Granted, StartedInOrder, Holding
  <2>10. Service!Begin
    BY <2>1, <2>5, <2>6, <2>7, <2>8, <2>9 DEF Service!Begin
  <2>11. QED
    BY <2>10
<1>9. CASE PublishEngine \/ Joined \/ PollEvent
  <2>1. Granted' = Granted /\ UNCHANGED <<bt, fd>>
    BY <1>9 DEF PublishEngine, Joined, PollEvent, Granted, Joins
  <2>2. QED
    BY <2>1, SameStreams
<1>10. ASSUME NEW g \in Gens, BtStep(g) \/ BtIoReturn(g)
       PROVE Service!SNext \/ UNCHANGED Service!svars
  <2>1. Granted' = Granted /\ UNCHANGED fd /\ Live(g) /\ TypeOK
    BY <1>10 DEF BtStep, CodecCreated, CodecFailed, StopSeen, EnterRead,
                 TakeFrame, ThreadExit, BtIoReturn, ReadData, ReadRetry,
                 ReadEnd, WriteReturned, WriteBrokenPipe, control, Granted,
                 Live, LivePoints, IndInv
  <2>2. CASE BtGoto(g, "done")
    <3>1. Service!End
      BY <2>1, <2>2, ThreadEnds DEF Service!End
    <3>2. QED
      BY <3>1
  <2>3. CASE \E p \in LivePoints : BtGoto(g, p)
    BY <2>1, <2>3, LoopStepSame
  <2>4. QED
    BY <1>10, <2>2, <2>3
    DEF BtStep, CodecCreated, CodecFailed, StopSeen, EnterRead, TakeFrame,
        ThreadExit, BtIoReturn, ReadData, ReadRetry, ReadEnd, WriteReturned,
        WriteBrokenPipe, LivePoints
<1>11. CASE \E g \in Gens : AudioCallback(g)
  <2>1. Granted' = Granted /\ UNCHANGED <<bt, fd>>
    BY <1>11 DEF AudioCallback, OutputCallback, InputCallback, control, Granted
  <2>2. QED
    BY <2>1, SameStreams
<1>12. CASE UNCHANGED vars
  <2>1. Granted' = Granted /\ UNCHANGED <<bt, fd>>
    BY <1>12 DEF vars, Granted
  <2>2. QED
    BY <2>1, SameStreams
<1>13. QED
  BY <1>1, <1>2, <1>3, <1>4, <1>5, <1>6, <1>7, <1>8, <1>9, <1>10, <1>11, <1>12
  DEF Next, ControlCall, ControlStep

\* The safety part of the specification is all the refinement needs.
LEMMA SafetyImplementsService == Init /\ [][Next]_vars => ImplementsService
<1>1. Init => IndInv /\ StartedInOrder
  BY InitIndInv, OrderInit
<1>2. IndInv /\ StartedInOrder /\ [Next]_vars => IndInv' /\ StartedInOrder'
  BY StepIndInv, OrderStep
<1>3. QED
  BY <1>1, <1>2, MapsInit, MapsStep, PTL
  DEF ImplementsService, Service!SSpec

\* Every behaviour of the runtime and its threads is, seen through the
\* mapping, a behaviour of StreamService: one stream per descriptor, one
\* stream at a time, numbers that only grow.
THEOREM EngineImplementsService == Spec => ImplementsService
  BY SafetyImplementsService, PTL DEF Spec

=============================================================================
