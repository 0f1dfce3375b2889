------------------------- MODULE ControlPlaneProofs -------------------------
(* The daemon drives the runtime only in ways that StreamEngine allows, so *)
(* what is proved of StreamEngine holds in the daemon.                     *)
EXTENDS ControlPlane, StreamEngineProofs

\* What the runtime puts on its channel is well formed.
LEMMA EventForms ==
  /\ \A t \in Transports, k \in EventKinds : BlueZEvent(k, t) \in BlueZEvents
  /\ \A k \in EventKinds \ {"TransportPending"} :
        BlueZEvent(k, NoTransport) \in BlueZEvents
  /\ \A t \in Transports, c \in Configs \cup {NoConfig} : CodecNegotiated(t, c) \in BlueZEvents
  BY DEF BlueZEvent, BlueZEvents, CodecNegotiated, EventKinds

\* The channel, the signals and the event in hand stay well formed.
LEMMA EventsStep == TypeOK /\ ControlShape /\ EventsOK /\ [CPNext]_allVars => EventsOK'
<1> SUFFICES ASSUME TypeOK, ControlShape, EventsOK, [CPNext]_allVars
             PROVE EventsOK'
  OBVIOUS
<1> USE DEF EventsOK
<1>1. CASE BluezStep
  <2>1. CASE \E d \in Devices : Connect(d) \/ Disconnect(d)
    <3>1. /\ BlueZEvent("DeviceConnected", NoTransport) \in BlueZEvents
          /\ BlueZEvent("DeviceDisconnected", NoTransport) \in BlueZEvents
      BY EventForms DEF EventKinds
    <3>2. CASE \E d \in Devices : Connect(d)
      BY <3>1, <3>2 DEF Connect, SendSignal, haskell, runtime
    <3>3. CASE \E d \in Devices : Disconnect(d)
      BY <3>1, <3>3 DEF Disconnect, SendSignal, haskell, runtime
    <3>4. QED
      BY <2>1, <3>2, <3>3, Zenon
  <2>2. CASE \E d \in Devices, t \in Transports, c \in Configs \cup {NoConfig} :
                SetConfiguration(d, t, c)
    BY <2>2, EventForms DEF SetConfiguration, haskell
  <2>3. CASE \E t \in Transports : BecomePending(t)
    <3>1. \A t \in Transports :
             BlueZEvent("TransportPending", t) \in BlueZEvents
      BY EventForms DEF EventKinds
    <3>2. QED
      BY <2>3, <3>1 DEF BecomePending, SendSignal, haskell, runtime
  <2>4. CASE \E t \in Transports : BecomeIdle(t)
    BY <2>4 DEF BecomeIdle, haskell, runtime
  <2>5. CASE \E t \in Transports : ClearConfiguration(t)
    <3>1. \A t \in Transports :
             BlueZEvent("TransportReleased", t) \in BlueZEvents
      BY EventForms DEF EventKinds
    <3>2. QED
      BY <2>5, <3>1 DEF ClearConfiguration, haskell
  <2>6. QED
    BY <1>1, <2>1, <2>2, <2>3, <2>4, <2>5 DEF BluezStep
<1>2. CASE Watch
  BY <1>2 DEF Watch, haskell
<1>3. CASE PollStreamEnd
  <2>1. BlueZEvent("TransportReleased", active) \in BlueZEvents
    BY EventForms DEF EventKinds, TypeOK
  <2>2. QED
    BY <1>3, <2>1 DEF PollStreamEnd, runtime, remote
<1>4. CASE PollQueue
  BY <1>4 DEF PollQueue, remote
<1>5. CASE HandleConnected \/ HandleStopped \/ HandlePendingDone
           \/ HandleAcquired \/ HandleCodec
  BY <1>5 DEF HandleConnected, HandleStopped, HandlePendingDone,
              HandleAcquired, HandleCodec, HandlerDone, runtime, remote
<1>6. CASE HandleDisconnected \/ HandleReleased \/ HandlePending
  BY <1>6 DEF HandleDisconnected, HandleReleased, HandlePending, HandlerDone,
              CallStopStream, runtime, remote
<1>7. CASE CPAcquireReply
  <2>1. target \in Transports
    BY <1>7 DEF CPAcquireReply, AcquireReply, ControlShape
  <2>2. BlueZEvent("TransportAcquired", target) \in BlueZEvents
    BY <2>1, EventForms DEF EventKinds
  <2>3. QED
    BY <1>7, <2>2 DEF CPAcquireReply, haskell
<1>8. CASE RuntimeStep /\ ~CPAcquireReply
  BY <1>8 DEF RuntimeStep, CPSpawnThread, CPPublishEngine, haskell, runtime,
              remote
<1>9. CASE \E g \in Gens : CPBtStep(g) \/ CPBtIoReturn(g) \/ CPAudioCallback(g)
  BY <1>9 DEF CPBtStep, CPBtIoReturn, CPAudioCallback, haskell, runtime, remote
<1>10. CASE UNCHANGED allVars
  BY <1>10 DEF allVars, haskell, runtime, remote
<1>11. QED
  BY <1>1, <1>2, <1>3, <1>4, <1>5, <1>6, <1>7, <1>8, <1>9, <1>10
  DEF CPNext, LoopStep

\* Every step of BlueZ, the event loop, the runtime or the audio threads is a
\* step of StreamEngine or leaves the engine alone.
LEMMA DaemonStep == EventsOK /\ [CPNext]_allVars => [Next]_vars
<1> SUFFICES ASSUME EventsOK, [CPNext]_allVars PROVE [Next]_vars
  OBVIOUS
<1>1. CASE BluezStep \/ Watch
  BY <1>1 DEF BluezStep, Watch, Connect, Disconnect, SetConfiguration,
              BecomePending, BecomeIdle, ClearConfiguration
<1>2. CASE PollStreamEnd \/ PollQueue
  BY <1>2 DEF PollStreamEnd, PollQueue, Next
<1>3. CASE HandleConnected \/ HandleStopped \/ HandlePendingDone
           \/ HandleAcquired \/ HandleCodec
  BY <1>3 DEF HandleConnected, HandleStopped, HandlePendingDone,
              HandleAcquired, HandleCodec
<1>4. CASE HandleDisconnected \/ HandleReleased
  BY <1>4 DEF HandleDisconnected, HandleReleased, CallStopStream, Next,
              ControlCall
<1>5. CASE HandlePending
  <2>1. CASE IsStreaming
    BY <1>5, <2>1 DEF HandlePending
  <2>2. CASE ~IsStreaming
    <3>1. AcquireAndStart(event.path)
      BY <1>5, <2>2 DEF HandlePending
    <3>2. event.path \in Transports
      BY <1>5 DEF HandlePending, Handling, EventsOK, BlueZEvents, NoEvent,
                  BlueZEvent
    <3>3. QED
      BY <3>1, <3>2 DEF Next, ControlCall
  <2>3. QED
    BY <2>1, <2>2
<1>6. CASE RuntimeStep
  BY <1>6 DEF RuntimeStep, CPAcquireReply, CPSpawnThread, CPPublishEngine,
              Next, ControlStep
<1>7. CASE \E g \in Gens : CPBtStep(g) \/ CPBtIoReturn(g) \/ CPAudioCallback(g)
  BY <1>7 DEF CPBtStep, CPBtIoReturn, CPAudioCallback, Next
<1>8. CASE UNCHANGED allVars
  BY <1>8 DEF allVars
<1>9. QED
  BY <1>1, <1>2, <1>3, <1>4, <1>5, <1>6, <1>7, <1>8 DEF CPNext, LoopStep

\* The invariant of the daemon: the engine's own and well-formed events.
THEOREM DaemonInvHolds == CPSpec => [](IndInv /\ EventsOK)
<1>1. CPInit => IndInv /\ EventsOK
  BY InitIndInv DEF CPInit, EventsOK
<1>2. IndInv /\ EventsOK /\ [CPNext]_allVars => IndInv' /\ EventsOK'
  BY DaemonStep, StepIndInv, EventsStep DEF IndInv
<1>3. QED
  BY <1>1, <1>2, PTL DEF CPSpec

\* The daemon is a StreamEngine: every behaviour of event loop, BlueZ and
\* runtime together is a behaviour of the runtime under arbitrary calls.
THEOREM DaemonImplementsEngine == CPSpec => Init /\ [][Next]_vars
<1>1. CPInit => Init
  BY DEF CPInit
<1>2. QED
  BY <1>1, DaemonStep, DaemonInvHolds, PTL DEF CPSpec

\* Through any sequence of connections, releases and stream ends the daemon
\* never has two BT threads alive.
THEOREM DaemonSingleBtThread == CPSpec => []SingleBtThread
<1>1. IndInv => SingleBtThread
  BY DEF IndInv, OwnedThreads, SingleBtThread
<1>2. QED
  BY <1>1, DaemonInvHolds, PTL

\* So does the daemon implement StreamService, whatever BlueZ and the remote
\* devices do: a transport BlueZ grants is read by at most one thread.
THEOREM DaemonImplementsService == CPSpec => ImplementsService
  BY DaemonImplementsEngine, SafetyImplementsService, PTL

-----------------------------------------------------------------------------
(* The invariant of the daemon as a whole.                                 *)

\* Length and elements of a channel with one more event.
LEMMA AppendElements ==
  ASSUME NEW S, NEW q \in Seq(S), NEW e \in S
  PROVE /\ Append(q, e) \in Seq(S)
        /\ Len(q) \in Nat /\ Len(Append(q, e)) = Len(q) + 1
        /\ \A i \in 1 .. Len(q) : Append(q, e)[i] = q[i]
        /\ Append(q, e)[Len(q) + 1] = e
  OBVIOUS

\* Length and elements of a channel whose first event was taken.
LEMMA TailElements ==
  ASSUME NEW S, NEW q \in Seq(S), q # <<>>
  PROVE /\ Tail(q) \in Seq(S) /\ Head(q) = q[1] /\ Head(q) \in S
        /\ Len(q) \in Nat /\ Len(q) >= 1 /\ Len(Tail(q)) = Len(q) - 1
        /\ \A i \in 1 .. Len(q) - 1 : Tail(q)[i] = q[i + 1]
  OBVIOUS

\* What driveEvent makes of the events the handlers feed it, for a session
\* between two events.
LEMMA DriveEventResults ==
  ASSUME NEW T, NEW s \in [state : {"Idle", "Configured", "Streaming"},
                           transport : T], NEW p
  PROVE /\ DriveEvent(s, AbortEvent) = IdleSession
        /\ DriveEvent(s, TransportClosed) =
              IF s.state = "Streaming" THEN IdleSession ELSE s
        /\ DriveEvent(s, CodecConfigured) =
              IF s.state = "Idle"
              THEN [state |-> "Configured", transport |-> s.transport] ELSE s
        /\ DriveEvent(DriveEvent(s, TransportOpened(p)), StreamStarted) =
              IF s.state = "Configured"
              THEN [state |-> "Streaming", transport |-> p] ELSE s
<1> USE DEF Event, AbortEvent, TransportClosed, CodecConfigured,
            TransportOpened, StreamStarted, Configure, OpenTransport, Start,
            Abort, Close, Suspend
<1>1. DriveEvent(s, AbortEvent) = IdleSession
  BY DEF DriveEvent
<1>2. DriveEvent(s, TransportClosed) =
        IF s.state = "Streaming" THEN IdleSession ELSE s
  BY DEF DriveEvent
<1>3. DriveEvent(s, CodecConfigured) =
        IF s.state = "Idle"
        THEN [state |-> "Configured", transport |-> s.transport] ELSE s
  BY DEF DriveEvent
<1>4. DriveEvent(s, TransportOpened(p)) =
        IF s.state = "Configured" THEN [state |-> "Open", transport |-> p]
                                  ELSE s
  BY DEF DriveEvent
<1>5. DriveEvent(DriveEvent(s, TransportOpened(p)), StreamStarted) =
        IF s.state = "Configured" THEN [state |-> "Streaming", transport |-> p]
                                  ELSE s
  <2>1. CASE s.state = "Configured"
    <3> DEFINE o == [state |-> "Open", transport |-> p]
    <3>1. DriveEvent(o, StreamStarted) = [state |-> "Streaming", transport |-> p]
      BY DEF DriveEvent
    <3>2. QED
      BY <1>4, <2>1, <3>1
  <2>2. CASE s.state # "Configured"
    <3>1. DriveEvent(s, StreamStarted) = s
      BY DEF DriveEvent
    <3>2. QED
      BY <1>4, <2>2, <3>1
  <2>3. QED
    BY <2>1, <2>2
<1>6. QED
  BY <1>1, <1>2, <1>3, <1>5

\* The threads change nothing of the control thread's, and none comes alive.
LEMMA ThreadStep ==
  ASSUME TypeOK, NEW g \in Gens,
         BtStep(g) \/ BtIoReturn(g) \/ AudioCallback(g)
  PROVE UNCHANGED control /\ \A h \in Gens : Live(h)' => Live(h)
<1> USE DEF Live, LivePoints, BtGoto, TypeOK
<1>1. CASE BtStep(g)
  BY <1>1 DEF BtStep, CodecCreated, CodecFailed, StopSeen, EnterRead,
              TakeFrame, ThreadExit
<1>2. CASE BtIoReturn(g)
  BY <1>2 DEF BtIoReturn, ReadData, ReadRetry, ReadEnd, WriteReturned,
              WriteBrokenPipe
<1>3. CASE AudioCallback(g)
  BY <1>3 DEF AudioCallback, OutputCallback, InputCallback
<1>4. QED
  BY <1>1, <1>2, <1>3

\* The parts of DaemonInv that every step argument uses.
LEMMA DaemonFacts ==
  ASSUME DaemonInv
  PROVE /\ TypeOK /\ ControlShape /\ EventsOK /\ IndInv /\ LoopShape
        /\ queue \in Seq(BlueZEvents) /\ signals \in Seq(BlueZEvents)
        /\ session \in [state : {"Idle", "Configured", "Streaming"},
                        transport : Transports \cup {NoTransport}]
        /\ Len(queue) \in Nat /\ Len(signals) \in Nat
        /\ MaxQueue \in Nat /\ MaxSignals \in Nat
<1>1. session \in [state : {"Idle", "Configured", "Streaming"},
                   transport : Transports \cup {NoTransport}]
  BY DEF DaemonInv, CPTypeOK, SessionKept
<1>2. QED
  BY <1>1, QueueAssumption DEF DaemonInv, CPTypeOK, IndInv, EventsOK

\* The session keeps its type: driveEvent takes it between the three states in
\* which a handler can leave it.
LEMMA SessionStep ==
  ASSUME DaemonInv, [CPNext]_allVars
  PROVE session' \in [state : {"Idle", "Configured", "Streaming"},
                      transport : Transports \cup {NoTransport}]
<1> DEFINE Sessions == [state : {"Idle", "Configured", "Streaming"},
                        transport : Transports \cup {NoTransport}]
<1>0. session \in Sessions /\ EventsOK
  BY DaemonFacts
<1>a. IdleSession \in Sessions
  BY DEF IdleSession
<1>1. CASE UNCHANGED session
  BY <1>0, <1>1
<1>2. CASE HandleDisconnected
  BY <1>0, <1>a, <1>1, <1>2, DriveEventResults
  DEF HandleDisconnected, HandlerDone, CallStopStream
<1>3. CASE HandleStopped
  BY <1>0, <1>a, <1>3, DriveEventResults DEF HandleStopped, HandlerDone
<1>4. CASE HandleAcquired
  <2>1. event.path \in Transports \cup {NoTransport}
    BY <1>0, <1>4 DEF HandleAcquired, Handling, EventsOK, BlueZEvents, NoEvent,
                      BlueZEvent
  <2>2. session' = IF session.state = "Configured"
                   THEN [state |-> "Streaming", transport |-> event.path]
                   ELSE session
    BY <1>0, <1>4, DriveEventResults DEF HandleAcquired, HandlerDone
  <2>3. QED
    BY <1>0, <2>1, <2>2
<1>5. CASE HandleCodec
  <2>1. session' = IF session.state = "Idle"
                   THEN [state |-> "Configured",
                         transport |-> session.transport] ELSE session
    BY <1>0, <1>5, DriveEventResults DEF HandleCodec, HandlerDone
  <2>2. QED
    BY <1>0, <2>1
<1>6. CASE BluezStep \/ Watch
  BY <1>1, <1>6 DEF BluezStep, Watch, Connect, Disconnect, SetConfiguration,
                    BecomePending, BecomeIdle, ClearConfiguration, haskell
<1>7. CASE PollStreamEnd \/ PollQueue \/ HandleConnected \/ HandleReleased
           \/ HandlePending \/ HandlePendingDone
  BY <1>1, <1>7 DEF PollStreamEnd, PollQueue, HandleConnected, HandleReleased,
                    HandlePending, HandlePendingDone, HandlerDone,
                    CallStopStream
<1>8. CASE RuntimeStep
  BY <1>1, <1>8 DEF RuntimeStep, CPAcquireReply, CPSpawnThread,
                    CPPublishEngine, haskell
<1>9. CASE \E g \in Gens : CPBtStep(g) \/ CPBtIoReturn(g) \/ CPAudioCallback(g)
  BY <1>1, <1>9 DEF CPBtStep, CPBtIoReturn, CPAudioCallback, haskell
<1>10. CASE UNCHANGED allVars
  BY <1>1, <1>10 DEF allVars, haskell
<1>11. QED
  BY <1>2, <1>3, <1>4, <1>5, <1>6, <1>7, <1>8, <1>9, <1>10
  DEF CPNext, LoopStep

\* The signals on their way and the queue stay within their bounds, although
\* Acquire's answer is put in the channel without one.
LEMMA BoundStep ==
  ASSUME DaemonInv, [CPNext]_allVars
  PROVE Len(queue') <= MaxQueue + 1 /\ Len(signals') <= MaxSignals
<1>0. /\ queue \in Seq(BlueZEvents) /\ signals \in Seq(BlueZEvents)
      /\ Len(queue) \in Nat /\ Len(signals) \in Nat
      /\ MaxQueue \in Nat /\ MaxSignals \in Nat
      /\ Len(queue) <= MaxQueue + 1 /\ Len(signals) <= MaxSignals
      /\ cpc = "acquiring" => Len(queue) <= MaxQueue
  BY DaemonFacts DEF DaemonInv, CPTypeOK, LoopShape
<1>1. CASE UNCHANGED <<queue, signals>>
  BY <1>0, <1>1
<1>2. CASE \E d \in Devices : Connect(d) \/ Disconnect(d)
  BY <1>0, <1>2 DEF Connect, Disconnect, SendSignal, runtime
<1>3. CASE \E d \in Devices, t \in Transports, c \in Configs \cup {NoConfig} :
              SetConfiguration(d, t, c)
  BY <1>0, <1>3 DEF SetConfiguration
<1>4. CASE \E t \in Transports : BecomePending(t)
  BY <1>0, <1>4 DEF BecomePending, SendSignal, runtime
<1>5. CASE \E t \in Transports : BecomeIdle(t)
  BY <1>1, <1>5 DEF BecomeIdle, runtime
<1>6. CASE \E t \in Transports : ClearConfiguration(t)
  BY <1>0, <1>6 DEF ClearConfiguration
<1>7. CASE Watch
  BY <1>0, <1>7 DEF Watch
<1>8. CASE PollQueue
  BY <1>0, <1>8 DEF PollQueue, remote
<1>9. CASE CPAcquireReply
  BY <1>0, <1>9 DEF CPAcquireReply, AcquireReply
<1>10. CASE PollStreamEnd \/ HandleConnected \/ HandleReleased \/ HandleStopped
            \/ HandlePending \/ HandlePendingDone \/ HandleDisconnected
            \/ HandleAcquired \/ HandleCodec
  BY <1>1, <1>10 DEF PollStreamEnd, HandleConnected, HandleReleased,
       HandlePending, HandlePendingDone, HandlerDone, CallStopStream, runtime,
       remote, HandleStopped, HandleDisconnected, HandleAcquired, HandleCodec
<1>11. CASE RuntimeStep /\ ~CPAcquireReply
  BY <1>1, <1>11 DEF RuntimeStep, CPSpawnThread, CPPublishEngine, runtime,
                     remote
<1>12. CASE \E g \in Gens : CPBtStep(g) \/ CPBtIoReturn(g) \/ CPAudioCallback(g)
  BY <1>1, <1>12 DEF CPBtStep, CPBtIoReturn, CPAudioCallback, runtime, remote
<1>13. CASE UNCHANGED allVars
  BY <1>1, <1>13 DEF allVars, runtime, remote
<1>14. QED
  BY <1>2, <1>3, <1>4, <1>5, <1>6, <1>7, <1>8, <1>9, <1>10, <1>11, <1>12, <1>13
  DEF CPNext, LoopStep, BluezStep

\* Types are kept.
LEMMA DaemonTypeStep ==
  ASSUME DaemonInv, [CPNext]_allVars
  PROVE CPTypeOK' /\ IndInv'
<1>0. IndInv /\ TypeOK /\ ControlShape /\ EventsOK
  BY DaemonFacts
<1>1. IndInv' /\ TypeOK'
  BY <1>0, DaemonStep, StepIndInv DEF IndInv
<1>2. EventsOK'
  BY <1>0, EventsStep
<1>3. session' \in [state : AVDTPState,
                    transport : Transports \cup {NoTransport}]
  BY SessionStep DEF AVDTPState
<1>4. Len(queue') <= MaxQueue + 1 /\ Len(signals') <= MaxSignals
  BY BoundStep
<1> DEFINE
      Rest == /\ hpc \in {"poll", "handle", "stopped", "acquired"}
              /\ lastConfig \in Configs \cup {NoConfig, DefaultConfig}
              /\ engineConfig \in [Gens -> Configs \cup {NoConfig, DefaultConfig}]
              /\ linked \subseteq Devices
              /\ bluez \in [Transports -> BluezStates]
              /\ bluezConfig \in [Transports -> Configs \cup {NoConfig}]
              /\ owner \in [Transports -> Devices \cup {NoDevice}]
<1>5. Rest
  BY DEF DaemonInv, CPTypeOK
<1>6. Rest'
  <2>1. CASE \E d \in Devices : Connect(d) \/ Disconnect(d)
    BY <1>5, <2>1 DEF Connect, Disconnect, haskell, runtime
  <2>2. CASE \E d \in Devices, t \in Transports, c \in Configs \cup {NoConfig} :
                SetConfiguration(d, t, c)
    BY <1>5, <2>2 DEF SetConfiguration, haskell, BluezStates
  <2>3. CASE \E t \in Transports : BecomePending(t)
    BY <1>5, <2>3 DEF BecomePending, haskell, runtime, BluezStates
  <2>4. CASE \E t \in Transports : BecomeIdle(t)
    BY <1>5, <2>4 DEF BecomeIdle, haskell, runtime, BluezStates
  <2>5. CASE \E t \in Transports : ClearConfiguration(t)
    BY <1>5, <2>5 DEF ClearConfiguration, haskell, BluezStates
  <2>6. CASE Watch
    BY <1>5, <2>6 DEF Watch, haskell
  <2>7. CASE PollStreamEnd
    BY <1>5, <2>7 DEF PollStreamEnd, runtime, remote
  <2>8. CASE PollQueue
    <3>1. Head(queue) \in BlueZEvents
      BY <1>0, <2>8, TailElements DEF PollQueue, EventsOK
    <3>2. Head(queue).config \in Configs \cup {NoConfig}
      BY <3>1 DEF BlueZEvents
    <3>3. QED
      BY <1>5, <2>8, <3>2 DEF PollQueue, remote
  <2>9. CASE HandleConnected \/ HandleReleased \/ HandleStopped
             \/ HandlePending \/ HandlePendingDone \/ HandleDisconnected
             \/ HandleAcquired \/ HandleCodec
    BY <1>5, <2>9 DEF HandleConnected, HandleReleased, HandleStopped,
         HandlePending, HandlePendingDone, HandleDisconnected, HandleAcquired,
         HandleCodec, HandlerDone, CallStopStream, runtime, remote
  <2>10. CASE CPAcquireReply
    BY <1>5, <2>10 DEF CPAcquireReply, haskell, BluezStates
  <2>11. CASE CPSpawnThread
    BY <1>5, <2>11 DEF CPSpawnThread, haskell, remote, CodecConfig, Chosen
  <2>12. CASE CPPublishEngine
    <3>1. gen \in Gens
      BY <1>0, <2>12 DEF CPPublishEngine, PublishEngine, ControlShape, TypeOK,
                         Gens
    <3>2. QED
      BY <1>5, <2>12, <3>1 DEF CPPublishEngine, haskell, remote
  <2>13. CASE UNCHANGED <<haskell, runtime, remote>>
    BY <1>5, <2>13 DEF haskell, runtime, remote
  <2>14. QED
    BY <2>1, <2>2, <2>3, <2>4, <2>5, <2>6, <2>7, <2>8, <2>9, <2>10, <2>11,
       <2>12, <2>13
    DEF CPNext, LoopStep, BluezStep, RuntimeStep, CPBtStep, CPBtIoReturn,
        CPAudioCallback, allVars
<1>7. QED
  BY <1>1, <1>2, <1>3, <1>4, <1>6 DEF CPTypeOK

\* The watcher's signals are of three kinds.
LEMMA SignalStep ==
  ASSUME DaemonInv, [CPNext]_allVars
  PROVE SignalShape'
<1>0. /\ signals \in Seq(BlueZEvents) /\ Len(signals) \in Nat /\ SignalShape
  BY DaemonFacts DEF DaemonInv
<1>1. CASE UNCHANGED signals
  BY <1>0, <1>1 DEF SignalShape
<1>2. ASSUME NEW e \in BlueZEvents, signals' = Append(signals, e),
             e.kind \in {"DeviceConnected", "DeviceDisconnected",
                         "TransportPending"}
      PROVE SignalShape'
  <2>1. SUFFICES ASSUME NEW i \in 1 .. Len(signals')
                 PROVE signals'[i].kind \in {"DeviceConnected",
                            "DeviceDisconnected", "TransportPending"}
    BY DEF SignalShape
  <2>2. CASE i \in 1 .. Len(signals)
    BY <1>0, <1>2, <2>2 DEF SignalShape
  <2>3. CASE i = Len(signals) + 1
    BY <1>0, <1>2, <2>3
  <2>4. QED
    BY <1>0, <1>2, <2>2, <2>3
<1>3. CASE \E d \in Devices : Connect(d) \/ Disconnect(d)
  <2>1. PICK k \in {"DeviceConnected", "DeviceDisconnected"} :
           signals' = Append(signals, BlueZEvent(k, NoTransport))
    BY <1>3 DEF Connect, Disconnect, SendSignal
  <2>2. BlueZEvent(k, NoTransport) \in BlueZEvents
    BY EventForms DEF EventKinds
  <2>3. BlueZEvent(k, NoTransport).kind = k
    BY DEF BlueZEvent
  <2>4. QED
    BY <1>2, <2>1, <2>2, <2>3
<1>4. CASE \E t \in Transports : BecomePending(t)
  <2>1. PICK t \in Transports :
           signals' = Append(signals, BlueZEvent("TransportPending", t))
    BY <1>4 DEF BecomePending, SendSignal
  <2>2. BlueZEvent("TransportPending", t) \in BlueZEvents
    BY EventForms DEF EventKinds
  <2>3. BlueZEvent("TransportPending", t).kind = "TransportPending"
    BY DEF BlueZEvent
  <2>4. QED
    BY <1>2, <2>1, <2>2, <2>3
<1>5. CASE Watch
  BY <1>0, <1>5, TailElements DEF Watch, SignalShape
<1>6. CASE BluezStep /\ UNCHANGED signals
  BY <1>1, <1>6
<1>7. CASE LoopStep
  BY <1>1, <1>7 DEF LoopStep, PollStreamEnd, PollQueue, HandleConnected,
       HandleReleased, HandleStopped, HandlePending, HandlePendingDone,
       HandleDisconnected, HandleAcquired, HandleCodec, HandlerDone,
       CallStopStream, remote
<1>8. CASE RuntimeStep
  BY <1>1, <1>8 DEF RuntimeStep, CPAcquireReply, CPSpawnThread,
                    CPPublishEngine, remote
<1>9. CASE \E g \in Gens : CPBtStep(g) \/ CPBtIoReturn(g) \/ CPAudioCallback(g)
  BY <1>1, <1>9 DEF CPBtStep, CPBtIoReturn, CPAudioCallback, remote
<1>10. CASE UNCHANGED allVars
  BY <1>1, <1>10 DEF allVars, remote
<1>11. QED
  BY <1>3, <1>4, <1>5, <1>6, <1>7, <1>8, <1>9, <1>10
  DEF CPNext, BluezStep, SetConfiguration, BecomeIdle, ClearConfiguration

\* The loop makes one call at a time and waits for it.
LEMMA LoopShapeStep ==
  ASSUME DaemonInv, [CPNext]_allVars
  PROVE LoopShape'
<1>0. /\ TypeOK /\ ControlShape /\ EventsOK /\ LoopShape
      /\ queue \in Seq(BlueZEvents) /\ Len(queue) \in Nat /\ MaxQueue \in Nat
      /\ Len(queue) <= MaxQueue + 1
  BY DaemonFacts DEF DaemonInv, CPTypeOK
<1>1. CASE UNCHANGED <<vars, haskell, runtime>>
  BY <1>0, <1>1 DEF LoopShape, vars, haskell, runtime, Handling, CodecConfig
<1>2. ASSUME UNCHANGED <<vars, haskell, lastConfig, engineConfig>>,
             NEW e \in BlueZEvents, queue' = Append(queue, e),
             Len(queue) < MaxQueue
      PROVE LoopShape'
  <2>1. Len(queue') <= MaxQueue
    BY <1>0, <1>2, AppendElements
  <2>2. QED
    BY <1>0, <1>2, <2>1 DEF LoopShape, vars, haskell, Handling, CodecConfig
<1>3. CASE \E d \in Devices, t \in Transports, c \in Configs \cup {NoConfig} :
              SetConfiguration(d, t, c)
  BY <1>2, <1>3, EventForms DEF SetConfiguration
<1>4. CASE \E t \in Transports : ClearConfiguration(t)
  <2>1. \A t \in Transports : BlueZEvent("TransportReleased", t) \in BlueZEvents
    BY EventForms DEF EventKinds
  <2>2. QED
    BY <1>2, <1>4, <2>1 DEF ClearConfiguration
<1>5. CASE Watch
  <2>1. Head(signals) \in BlueZEvents
    BY <1>0, <1>5, TailElements DEF Watch, EventsOK
  <2>2. QED
    BY <1>2, <1>5, <2>1 DEF Watch
<1>6. CASE PollStreamEnd
  <2>1. event'.kind = "TransportReleased"
    BY <1>6 DEF PollStreamEnd, BlueZEvent
  <2>2. QED
    BY <1>0, <1>6, <2>1 DEF PollStreamEnd, PollEvent, LoopShape, runtime,
                            Handling
<1>7. CASE PollQueue
  <2>1. Len(queue') <= MaxQueue
    BY <1>0, <1>7, TailElements DEF PollQueue
  <2>2. QED
    BY <1>0, <1>7, <2>1 DEF PollQueue, LoopShape, vars, Handling
<1>8. CASE HandleConnected \/ HandleStopped \/ HandlePendingDone
           \/ HandleAcquired \/ HandleCodec
  BY <1>0, <1>8 DEF HandleConnected, HandleStopped, HandlePendingDone,
       HandleAcquired, HandleCodec, HandlerDone, Handling, LoopShape, vars,
       runtime, CodecConfig
<1>9. ASSUME Handling("DeviceDisconnected") \/ Handling("TransportReleased"),
             CallStopStream
      PROVE LoopShape'
  BY <1>0, <1>9 DEF CallStopStream, StopStream, StopStreamNoop, BeginStop,
       Handling, LoopShape, vars, runtime, CodecConfig
<1>10. CASE HandleReleased
  BY <1>9, <1>10 DEF HandleReleased
<1>11. CASE HandleDisconnected
  <2>1. CASE IsStreaming
    BY <1>9, <1>11, <2>1 DEF HandleDisconnected
  <2>2. CASE ~IsStreaming
    BY <1>0, <1>11, <2>2 DEF HandleDisconnected, HandlerDone, Handling,
         LoopShape, vars, runtime, CodecConfig
  <2>3. QED
    BY <2>1, <2>2
<1>12. CASE HandlePending
  <2>1. CASE IsStreaming
    BY <1>0, <1>12, <2>1 DEF HandlePending, HandlerDone, Handling, LoopShape,
         vars, runtime, CodecConfig
  <2>2. CASE ~IsStreaming
    BY <1>0, <1>12, <2>2 DEF HandlePending, AcquireAndStart, Handling,
         LoopShape, Starting, runtime, CodecConfig
  <2>3. QED
    BY <2>1, <2>2
<1>13. ASSUME cpc \in Starting PROVE hpc = "acquired"
  BY <1>0, <1>13 DEF LoopShape, Starting, CPTypeOK, DaemonInv
<1>14. CASE CPAcquireReply
  BY <1>0, <1>13, <1>14 DEF CPAcquireReply, AcquireReply, Handling, LoopShape,
       haskell, Starting, CodecConfig
<1>15. CASE CPSpawnThread
  <2>1. gen \in Gens /\ cpc = "playing" /\ hpc = "acquired" /\ engine = 0
    BY <1>0, <1>13, <1>15 DEF CPSpawnThread, SpawnThread, ControlShape, TypeOK,
                              Gens, Starting
  <2>2. fd'[gen] = target /\ engineConfig'[gen] = CodecConfig
    BY <1>0, <1>15, <2>1 DEF CPSpawnThread, SpawnThread, TypeOK, DaemonInv,
                             CPTypeOK
  <2>3. QED
    BY <1>0, <1>15, <2>1, <2>2 DEF CPSpawnThread, SpawnThread, Handling,
         LoopShape, haskell, Starting, CodecConfig
<1>16. CASE CPPublishEngine
  <2>1. cpc = "spawned" /\ hpc = "acquired" /\ fd[gen] = target
    BY <1>0, <1>13, <1>16 DEF CPPublishEngine, PublishEngine, LoopShape,
                              Starting
  <2>2. target \in Transports
    BY <1>0, <2>1 DEF LoopShape, EventsOK, BlueZEvents, NoEvent, BlueZEvent
  <2>3. QED
    BY <1>0, <1>16, <2>1, <2>2 DEF CPPublishEngine, PublishEngine, Handling,
         LoopShape, haskell, Starting
<1>17. CASE /\ \/ AcquireFailed \/ AcquireReturn \/ BuildAudio
               \/ BuildAudioFailed \/ SpawnThreadFailed \/ Joined
            /\ UNCHANGED <<haskell, runtime, remote>>
  <2> USE <1>0 DEF LoopShape, Starting, haskell, runtime, Handling, CodecConfig
  <2>1. CASE AcquireFailed
    BY <1>13, <1>17, <2>1 DEF AcquireFailed
  <2>2. CASE AcquireReturn
    BY <1>13, <1>17, <2>2 DEF AcquireReturn, EnterStartStream, BeginStop
  <2>3. CASE BuildAudio \/ BuildAudioFailed
    BY <1>13, <1>17, <2>3 DEF BuildAudio, BuildAudioFailed, CreateStreamBuffers
  <2>4. CASE SpawnThreadFailed
    BY <1>13, <1>17, <2>4 DEF SpawnThreadFailed
  <2>5. CASE Joined
    BY <1>17, <2>5 DEF Joined, Joins, ControlShape
  <2>6. QED
    BY <1>17, <2>1, <2>2, <2>3, <2>4, <2>5
<1>18. ASSUME NEW g \in Gens, CPBtStep(g) \/ CPBtIoReturn(g) \/ CPAudioCallback(g)
       PROVE LoopShape'
  <2>1. UNCHANGED control /\ UNCHANGED <<haskell, runtime>>
    BY <1>0, <1>18, ThreadStep DEF CPBtStep, CPBtIoReturn, CPAudioCallback
  <2>2. QED
    BY <1>0, <2>1 DEF LoopShape, control, haskell, runtime, Handling,
                      CodecConfig
<1>19. CASE UNCHANGED allVars
  BY <1>1, <1>19 DEF allVars
<1>20. CASE \/ \E d \in Devices : Connect(d) \/ Disconnect(d)
            \/ \E t \in Transports : BecomePending(t) \/ BecomeIdle(t)
  BY <1>1, <1>20 DEF Connect, Disconnect, BecomePending, BecomeIdle
<1>21. QED
  BY <1>3, <1>4, <1>5, <1>6, <1>7, <1>8, <1>10, <1>11, <1>12, <1>14, <1>15,
     <1>16, <1>17, <1>18, <1>19, <1>20
  DEF CPNext, LoopStep, BluezStep, RuntimeStep

\* An event put in the channel hides none of those before it.
LEMMA QueueGrows ==
  ASSUME queue \in Seq(BlueZEvents), NEW e \in BlueZEvents,
         queue' = Append(queue, e), NEW t
  PROVE /\ \A i \in Nat : ReleasedAfter(i, t) => ReleasedAfter(i, t)'
        /\ e.kind = "TransportReleased" /\ e.path = t =>
              \A i \in 0 .. Len(queue) : ReleasedAfter(i, t)'
        /\ \A i \in Nat : CodecAfter(i, t)' =>
              CodecAfter(i, t) \/ (e.kind = "CodecNegotiated" /\ e.path = t)
<1>1. /\ Len(queue) \in Nat /\ Len(queue') = Len(queue) + 1
      /\ \A i \in 1 .. Len(queue) : queue'[i] = queue[i]
      /\ queue'[Len(queue) + 1] = e
  BY AppendElements
<1>2. \A i \in Nat : ReleasedAfter(i, t) => ReleasedAfter(i, t)'
  BY <1>1 DEF ReleasedAfter
<1>3. e.kind = "TransportReleased" /\ e.path = t =>
         \A i \in 0 .. Len(queue) : ReleasedAfter(i, t)'
  BY <1>1 DEF ReleasedAfter
<1>4. ASSUME NEW i \in Nat, CodecAfter(i, t)'
      PROVE CodecAfter(i, t) \/ (e.kind = "CodecNegotiated" /\ e.path = t)
  <2>1. PICK j \in i + 1 .. Len(queue') :
           queue'[j].kind = "CodecNegotiated" /\ queue'[j].path = t
    BY <1>4 DEF CodecAfter
  <2>2. CASE j <= Len(queue)
    BY <1>1, <2>1, <2>2 DEF CodecAfter
  <2>3. CASE j = Len(queue) + 1
    BY <1>1, <2>1, <2>3
  <2>4. QED
    BY <1>1, <2>1, <2>2, <2>3
<1>5. QED
  BY <1>2, <1>3, <1>4

\* Taking the first event moves the others up by one.
LEMMA QueueShrinks ==
  ASSUME queue \in Seq(BlueZEvents), queue # <<>>, queue' = Tail(queue), NEW t
  PROVE /\ \A i \in Nat : ReleasedAfter(i + 1, t) => ReleasedAfter(i, t)'
        /\ \A i \in Nat : CodecAfter(i, t)' => CodecAfter(i + 1, t)
        /\ ReleasedAfter(0, t) =>
              \/ ReleasedAfter(1, t)
              \/ queue[1].kind = "TransportReleased"
<1>1. /\ Len(queue) \in Nat /\ Len(queue') = Len(queue) - 1
      /\ \A i \in 1 .. Len(queue) - 1 : queue'[i] = queue[i + 1]
  BY TailElements
<1>2. ASSUME NEW i \in Nat, ReleasedAfter(i + 1, t)
      PROVE ReleasedAfter(i, t)'
  <2>1. PICK j \in i + 2 .. Len(queue) :
           queue[j].kind = "TransportReleased" /\ queue[j].path = t
    BY <1>2 DEF ReleasedAfter
  <2>2. j - 1 \in i + 1 .. Len(queue') /\ queue'[j - 1] = queue[j]
    BY <1>1, <2>1
  <2>3. QED
    BY <2>1, <2>2 DEF ReleasedAfter
<1>3. ASSUME NEW i \in Nat, CodecAfter(i, t)'
      PROVE CodecAfter(i + 1, t)
  <2>1. PICK j \in i + 1 .. Len(queue') :
           queue'[j].kind = "CodecNegotiated" /\ queue'[j].path = t
    BY <1>3 DEF CodecAfter
  <2>2. j + 1 \in (i + 1) + 1 .. Len(queue) /\ queue'[j] = queue[j + 1]
    BY <1>1, <2>1
  <2>3. QED
    BY <2>1, <2>2 DEF CodecAfter
<1>4. ReleasedAfter(0, t) =>
         ReleasedAfter(1, t) \/ queue[1].kind = "TransportReleased"
  <2>1. SUFFICES ASSUME NEW j \in 1 .. Len(queue),
                        queue[j].kind = "TransportReleased", queue[j].path = t
                 PROVE ReleasedAfter(1, t) \/ queue[1].kind = "TransportReleased"
    BY DEF ReleasedAfter
  <2>2. CASE j = 1
    BY <2>1, <2>2
  <2>3. CASE j # 1
    <3>1. j \in 2 .. Len(queue)
      BY <1>1, <2>3
    <3>2. QED
      BY <2>1, <3>1 DEF ReleasedAfter
  <2>4. QED
    BY <2>2, <2>3
<1>5. QED
  BY <1>2, <1>3, <1>4

\* The step that puts event e in the channel.
Announced(e) ==
    \/ \E d \in Devices, t \in Transports, c \in Configs \cup {NoConfig} :
          SetConfiguration(d, t, c) /\ e = CodecNegotiated(t, c)
    \/ \E t \in Transports :
          ClearConfiguration(t) /\ e = BlueZEvent("TransportReleased", t)
    \/ Watch /\ signals # <<>> /\ e = Head(signals)
    \/ /\ CPAcquireReply /\ target \in Transports
       /\ e = BlueZEvent("TransportAcquired", target)

\* How the event channel changes in a step: not at all, by one event at its
\* end, or by taking the first.
LEMMA QueueStep ==
  ASSUME DaemonInv, [CPNext]_allVars
  PROVE \/ queue' = queue
        \/ \E e \in BlueZEvents : queue' = Append(queue, e) /\ Announced(e)
        \/ PollQueue /\ queue # <<>> /\ queue' = Tail(queue)
<1>0. ControlShape /\ EventsOK
  BY DaemonFacts
<1>1. CASE \E d \in Devices, t \in Transports, c \in Configs \cup {NoConfig} :
              SetConfiguration(d, t, c)
  <2>1. PICK d \in Devices, t \in Transports, c \in Configs \cup {NoConfig} :
           SetConfiguration(d, t, c)
    BY <1>1
  <2>2. /\ CodecNegotiated(t, c) \in BlueZEvents
        /\ queue' = Append(queue, CodecNegotiated(t, c))
    BY <2>1, EventForms DEF SetConfiguration
  <2>3. Announced(CodecNegotiated(t, c))
    BY <2>1 DEF Announced
  <2>4. QED
    BY <2>2, <2>3
<1>2. CASE \E t \in Transports : ClearConfiguration(t)
  <2>1. PICK t \in Transports : ClearConfiguration(t)
    BY <1>2
  <2>2. /\ BlueZEvent("TransportReleased", t) \in BlueZEvents
        /\ queue' = Append(queue, BlueZEvent("TransportReleased", t))
    BY <2>1, EventForms DEF EventKinds, ClearConfiguration
  <2>3. Announced(BlueZEvent("TransportReleased", t))
    BY <2>1 DEF Announced
  <2>4. QED
    BY <2>2, <2>3
<1>3. CASE Watch
  <2>1. /\ Head(signals) \in BlueZEvents /\ signals # <<>>
        /\ queue' = Append(queue, Head(signals))
    BY <1>0, <1>3, TailElements DEF Watch, EventsOK
  <2>2. Announced(Head(signals))
    BY <1>3, <2>1 DEF Announced
  <2>3. QED
    BY <2>1, <2>2
<1>4. CASE PollQueue
  BY <1>4 DEF PollQueue
<1>5. CASE CPAcquireReply
  <2>1. target \in Transports
    BY <1>0, <1>5 DEF CPAcquireReply, AcquireReply, ControlShape
  <2>2. /\ BlueZEvent("TransportAcquired", target) \in BlueZEvents
        /\ queue' = Append(queue, BlueZEvent("TransportAcquired", target))
    BY <1>5, <2>1, EventForms DEF EventKinds, CPAcquireReply
  <2>3. Announced(BlueZEvent("TransportAcquired", target))
    BY <1>5, <2>1 DEF Announced
  <2>4. QED
    BY <2>2, <2>3
<1>6. CASE LoopStep /\ ~PollQueue
  BY <1>6 DEF LoopStep, PollStreamEnd, HandleConnected, HandleReleased,
       HandleStopped, HandlePending, HandlePendingDone, HandleDisconnected,
       HandleAcquired, HandleCodec, HandlerDone, CallStopStream, runtime
<1>7. CASE RuntimeStep /\ ~CPAcquireReply
  BY <1>7 DEF RuntimeStep, CPSpawnThread, CPPublishEngine, runtime
<1>8. CASE \E g \in Gens : CPBtStep(g) \/ CPBtIoReturn(g) \/ CPAudioCallback(g)
  BY <1>8 DEF CPBtStep, CPBtIoReturn, CPAudioCallback, runtime
<1>9. CASE UNCHANGED allVars
  BY <1>9 DEF allVars, runtime
<1>10. CASE \/ \E d \in Devices : Connect(d) \/ Disconnect(d)
            \/ \E t \in Transports : BecomePending(t) \/ BecomeIdle(t)
  BY <1>10 DEF Connect, Disconnect, BecomePending, BecomeIdle, runtime
<1>11. QED
  BY <1>1, <1>2, <1>3, <1>4, <1>5, <1>6, <1>7, <1>8, <1>9, <1>10
  DEF CPNext, BluezStep

\* How BlueZ's view of one transport changes in a step: it is configured, it is
\* cleared, or it only moves between its states.
LEMMA TransportStep ==
  ASSUME DaemonInv, [CPNext]_allVars, NEW t \in Transports
  PROVE \/ \E d \in Devices, c \in Configs \cup {NoConfig} : SetConfiguration(d, t, c)
        \/ ClearConfiguration(t)
        \/ /\ HasTransport(t)' <=> HasTransport(t)
           /\ (bluez'[t] = "none") <=> (bluez[t] = "none")
           /\ bluezConfig'[t] = bluezConfig[t] /\ owner'[t] = owner[t]
<1>0. /\ bluez \in [Transports -> BluezStates]
      /\ bluezConfig \in [Transports -> Configs \cup {NoConfig}]
      /\ owner \in [Transports -> Devices \cup {NoDevice}]
      /\ TypeOK /\ ControlShape
  BY DaemonFacts DEF DaemonInv, CPTypeOK
<1>1. CASE UNCHANGED <<bluez, bluezConfig, owner>>
  BY <1>1 DEF HasTransport
<1>2. ASSUME NEW d \in Devices, NEW u \in Transports, NEW c \in Configs \cup {NoConfig}, u # t,
             SetConfiguration(d, u, c)
      PROVE /\ HasTransport(t)' <=> HasTransport(t)
            /\ (bluez'[t] = "none") <=> (bluez[t] = "none")
            /\ bluezConfig'[t] = bluezConfig[t] /\ owner'[t] = owner[t]
  BY <1>0, <1>2 DEF SetConfiguration, HasTransport
<1>3. ASSUME NEW u \in Transports, u # t, ClearConfiguration(u)
      PROVE /\ HasTransport(t)' <=> HasTransport(t)
            /\ (bluez'[t] = "none") <=> (bluez[t] = "none")
            /\ bluezConfig'[t] = bluezConfig[t] /\ owner'[t] = owner[t]
  BY <1>0, <1>3 DEF ClearConfiguration, HasTransport
<1>4. ASSUME NEW u \in Transports, BecomePending(u) \/ BecomeIdle(u)
      PROVE /\ HasTransport(t)' <=> HasTransport(t)
            /\ (bluez'[t] = "none") <=> (bluez[t] = "none")
            /\ bluezConfig'[t] = bluezConfig[t] /\ owner'[t] = owner[t]
  BY <1>0, <1>4 DEF BecomePending, BecomeIdle, HasTransport
<1>5. CASE CPAcquireReply
  BY <1>0, <1>5 DEF CPAcquireReply, HasTransport
<1>6. CASE LoopStep
  BY <1>1, <1>6 DEF LoopStep, PollStreamEnd, PollQueue, HandleConnected,
       HandleReleased, HandleStopped, HandlePending, HandlePendingDone,
       HandleDisconnected, HandleAcquired, HandleCodec, HandlerDone,
       CallStopStream, remote
<1>7. CASE RuntimeStep /\ ~CPAcquireReply
  BY <1>1, <1>7 DEF RuntimeStep, CPSpawnThread, CPPublishEngine, remote
<1>8. CASE \E g \in Gens : CPBtStep(g) \/ CPBtIoReturn(g) \/ CPAudioCallback(g)
  BY <1>1, <1>8 DEF CPBtStep, CPBtIoReturn, CPAudioCallback, remote
<1>9. CASE UNCHANGED allVars
  BY <1>1, <1>9 DEF allVars, remote
<1>10. CASE Watch \/ \E d \in Devices : Connect(d) \/ Disconnect(d)
  BY <1>1, <1>10 DEF Watch, Connect, Disconnect
<1>11. QED
  BY <1>2, <1>3, <1>4, <1>5, <1>6, <1>7, <1>8, <1>9, <1>10
  DEF CPNext, BluezStep

\* A transport that is there or whose release is on its way stays so, but for
\* the step that finishes the handling of a release.
LEMMA KeptStep ==
  ASSUME DaemonInv, [CPNext]_allVars, ~HandleStopped, NEW t \in Transports,
         HasTransport(t) \/ ReleaseComing(t)
  PROVE (HasTransport(t) \/ ReleaseComing(t))'
<1>0. queue \in Seq(BlueZEvents) /\ EventsOK
  BY DaemonFacts
<1>1. CASE HasTransport(t)
  <2>1. CASE HasTransport(t)'
    BY <2>1
  <2>2. CASE ~HasTransport(t)'
    <3>1. ClearConfiguration(t)
      <4>1. ~\E d \in Devices, c \in Configs \cup {NoConfig} : SetConfiguration(d, t, c)
        BY <1>1 DEF SetConfiguration, HasTransport
      <4>2. QED
        BY <1>1, <2>2, <4>1, TransportStep
    <3> DEFINE e == BlueZEvent("TransportReleased", t)
    <3>2. /\ e \in BlueZEvents /\ e.kind = "TransportReleased" /\ e.path = t
          /\ queue' = Append(queue, e)
      BY <3>1, EventForms DEF ClearConfiguration, EventKinds, BlueZEvent
    <3>3. 0 \in 0 .. Len(queue)
      BY <1>0
    <3> HIDE DEF e
    <3>4. ReleasedAfter(0, t)'
      BY <1>0, <3>2, <3>3, QueueGrows
    <3>5. QED
      BY <3>4 DEF ReleaseComing
  <2>3. QED
    BY <2>1, <2>2
<1>2. CASE ReleasedAfter(0, t)
  <2>1. CASE queue' = queue
    BY <1>2, <2>1 DEF ReleaseComing, ReleasedAfter
  <2>2. CASE \E e \in BlueZEvents : queue' = Append(queue, e)
    BY <1>0, <1>2, <2>2, QueueGrows DEF ReleaseComing
  <2>3. CASE PollQueue /\ queue # <<>> /\ queue' = Tail(queue)
    <3>1. CASE ReleasedAfter(1, t)
      <4>1. \A i \in Nat : ReleasedAfter(i + 1, t) => ReleasedAfter(i, t)'
        BY <1>0, <2>3, QueueShrinks
      <4>2. ReleasedAfter(0 + 1, t) => ReleasedAfter(0, t)'
        BY <4>1
      <4>3. QED
        BY <3>1, <4>2 DEF ReleaseComing
    <3>2. CASE queue[1].kind = "TransportReleased"
      <4>1. event' = queue[1] /\ hpc' = "handle"
        BY <1>0, <2>3, TailElements DEF PollQueue
      <4>2. QED
        BY <3>2, <4>1 DEF ReleaseComing
    <3>3. QED
      BY <1>0, <1>2, <2>3, <3>1, <3>2, QueueShrinks
  <2>4. QED
    BY <2>1, <2>2, <2>3, QueueStep
<1>3. CASE hpc \in {"handle", "stopped"} /\ event.kind = "TransportReleased"
  <2>1. CASE UNCHANGED <<hpc, event>>
    BY <1>3, <2>1 DEF ReleaseComing
  <2>2. CASE HandleReleased
    BY <1>3, <2>2 DEF HandleReleased, CallStopStream, ReleaseComing
  <2>3. CASE LoopStep /\ ~HandleReleased
    BY <1>3, <2>3 DEF LoopStep, PollStreamEnd, PollQueue, HandleConnected,
         HandlePending, HandlePendingDone, HandleDisconnected, HandleAcquired,
         HandleCodec, Handling
  <2>4. CASE RuntimeStep
    BY <2>1, <2>4 DEF RuntimeStep, CPAcquireReply, CPSpawnThread,
                      CPPublishEngine, haskell
  <2>5. CASE \E g \in Gens : CPBtStep(g) \/ CPBtIoReturn(g) \/ CPAudioCallback(g)
    BY <2>1, <2>5 DEF CPBtStep, CPBtIoReturn, CPAudioCallback, haskell
  <2>6. CASE BluezStep \/ Watch
    BY <2>1, <2>6 DEF BluezStep, Watch, Connect, Disconnect, SetConfiguration,
                      BecomePending, BecomeIdle, ClearConfiguration, haskell
  <2>7. CASE UNCHANGED allVars
    BY <2>1, <2>7 DEF allVars, haskell
  <2>8. QED
    BY <2>2, <2>3, <2>4, <2>5, <2>6, <2>7 DEF CPNext
<1>4. QED
  BY <1>1, <1>2, <1>3 DEF ReleaseComing

\* Once stop_stream has returned, the runtime uses no transport.
LEMMA StoppedUsesNothing ==
  ASSUME DaemonInv, HandleStopped, NEW t \in Transports
  PROVE ~InUse(t)'
<1>0. /\ engine = 0 /\ cpc = "idle" /\ joining = 0 /\ OwnedThreads
      /\ UNCHANGED vars
  BY DaemonFacts DEF HandleStopped, LoopShape, ControlShape, IndInv, Joins
<1>1. \A g \in Gens : ~Live(g)
  BY <1>0 DEF OwnedThreads, Owned, Gens
<1>2. ~InUse(t)
  BY <1>0, <1>1 DEF InUse, Starting
<1>3. QED
  BY <1>0, <1>2 DEF InUse, vars, Live

\* A step starts to use a transport only when BlueZ grants it.
LEMMA UseStep ==
  ASSUME DaemonInv, [CPNext]_allVars, NEW t \in Transports, InUse(t)'
  PROVE InUse(t) \/ (CPAcquireReply /\ t = target)
<1>0. TypeOK /\ ControlShape /\ LoopShape
  BY DaemonFacts
<1>1. ASSUME UNCHANGED <<fd, engine, cpc, target>>,
             \A h \in Gens : Live(h)' => Live(h)
      PROVE InUse(t)
  BY <1>1 DEF InUse
<1>2. ASSUME UNCHANGED vars PROVE InUse(t)
  BY <1>1, <1>2 DEF vars, Live
<1>3. CASE PollStreamEnd
  BY <1>0, <1>3 DEF PollStreamEnd, PollEvent, InUse, Live, Starting
<1>4. ASSUME CallStopStream PROVE InUse(t)
  <2>1. CASE StopStream
    BY <1>0, <1>4, <2>1 DEF StopStream, BeginStop, InUse, Live, Starting
  <2>2. QED
    BY <1>2, <1>4, <2>1 DEF CallStopStream, StopStreamNoop
<1>5. CASE HandlePending
  <2>1. CASE AcquireAndStart(event.path)
    BY <1>0, <2>1 DEF AcquireAndStart, InUse, Live, Starting
  <2>2. QED
    BY <1>2, <1>5, <2>1 DEF HandlePending
<1>6. CASE HandleReleased \/ HandleDisconnected
  BY <1>2, <1>4, <1>6 DEF HandleReleased, HandleDisconnected
<1>7. CASE CPAcquireReply
  BY <1>0, <1>7 DEF CPAcquireReply, AcquireReply, InUse, Live, Starting
<1>8. CASE CPSpawnThread
  <2>1. /\ cpc = "playing" /\ gen \in Gens /\ engine' = engine /\ engine = 0
        /\ bt' = [bt EXCEPT ![gen] = "init"] /\ fd' = [fd EXCEPT ![gen] = target]
        /\ target' = target
    BY <1>0, <1>8 DEF CPSpawnThread, SpawnThread, ControlShape, TypeOK, Gens
  <2>2. CASE target = t
    BY <2>1, <2>2 DEF InUse, Starting
  <2>3. CASE target # t
    BY <1>0, <2>1, <2>3 DEF InUse, Live, TypeOK
  <2>4. QED
    BY <2>2, <2>3
<1>9. CASE CPPublishEngine
  <2>1. /\ cpc = "spawned" /\ gen \in Gens /\ engine' = gen /\ fd' = fd
        /\ bt' = bt /\ fd[gen] = target /\ cpc' = "idle"
    BY <1>0, <1>9 DEF CPPublishEngine, PublishEngine, ControlShape, TypeOK,
                      Gens, LoopShape
  <2>2. QED
    BY <2>1 DEF InUse, Live, Starting
<1>10. CASE \/ AcquireFailed \/ AcquireReturn \/ BuildAudio
            \/ BuildAudioFailed \/ SpawnThreadFailed \/ Joined
  <2> USE <1>0 DEF InUse, Live, Starting
  <2>1. CASE AcquireFailed
    BY <2>1 DEF AcquireFailed
  <2>2. CASE AcquireReturn
    BY <2>2 DEF AcquireReturn, EnterStartStream, BeginStop
  <2>3. CASE BuildAudio \/ BuildAudioFailed
    BY <2>3 DEF BuildAudio, BuildAudioFailed
  <2>4. CASE SpawnThreadFailed
    BY <2>4 DEF SpawnThreadFailed
  <2>5. CASE Joined
    BY <2>5 DEF Joined
  <2>6. QED
    BY <1>10, <2>1, <2>2, <2>3, <2>4, <2>5
<1>11. CASE \E g \in Gens : CPBtStep(g) \/ CPBtIoReturn(g) \/ CPAudioCallback(g)
  <2>1. UNCHANGED control /\ \A h \in Gens : Live(h)' => Live(h)
    BY <1>0, <1>11, ThreadStep DEF CPBtStep, CPBtIoReturn, CPAudioCallback
  <2>2. QED
    BY <1>1, <2>1 DEF control
<1>12. CASE BluezStep \/ Watch
  BY <1>2, <1>12 DEF BluezStep, Watch, Connect, Disconnect, SetConfiguration,
                     BecomePending, BecomeIdle, ClearConfiguration
<1>13. CASE PollQueue \/ HandleConnected \/ HandleStopped \/ HandlePendingDone
            \/ HandleAcquired \/ HandleCodec
  BY <1>2, <1>13 DEF PollQueue, HandleConnected, HandleStopped,
                     HandlePendingDone, HandleAcquired, HandleCodec
<1>14. CASE UNCHANGED allVars
  BY <1>2, <1>14 DEF allVars
<1>15. QED
  BY <1>3, <1>5, <1>6, <1>7, <1>8, <1>9, <1>10, <1>11, <1>12, <1>13, <1>14
  DEF CPNext, LoopStep, RuntimeStep

\* What the runtime uses is there or about to be released.
LEMMA UseKeptStep ==
  ASSUME DaemonInv, [CPNext]_allVars
  PROVE UseKept'
<1>1. SUFFICES ASSUME NEW t \in Transports, InUse(t)'
               PROVE (HasTransport(t) \/ ReleaseComing(t))'
  BY DEF UseKept
<1>2. ~HandleStopped
  BY <1>1, StoppedUsesNothing
<1>3. CASE InUse(t)
  <2>1. HasTransport(t) \/ ReleaseComing(t)
    BY <1>3 DEF DaemonInv, UseKept
  <2>2. QED
    BY <1>2, <2>1, KeptStep
<1>4. CASE CPAcquireReply /\ t = target
  BY <1>4 DEF CPAcquireReply, HasTransport, DaemonInv, CPTypeOK
<1>5. QED
  BY <1>1, <1>3, <1>4, UseStep

\* The session's transport is there or about to be released.
LEMMA SessionKeptStep ==
  ASSUME DaemonInv, [CPNext]_allVars
  PROVE SessionKept'
<1>0. /\ EventsOK
      /\ session \in [state : {"Idle", "Configured", "Streaming"},
                      transport : Transports \cup {NoTransport}]
      /\ session' \in [state : {"Idle", "Configured", "Streaming"},
                       transport : Transports \cup {NoTransport}]
  BY DaemonFacts, SessionStep
<1>1. SUFFICES ASSUME session'.state = "Streaming"
               PROVE \E v \in Transports :
                        /\ v = session'.transport
                        /\ HasTransport(v)' \/ ReleaseComing(v)'
  BY <1>0 DEF SessionKept, HasTransport, ReleaseComing, ReleasedAfter
<1>a. IdleSession.state = "Idle"
  BY DEF IdleSession
<1>2. ~HandleStopped
  <2>1. SUFFICES ASSUME HandleStopped PROVE FALSE
    OBVIOUS
  <2>2. session'.state # "Streaming"
    BY <1>0, <1>a, <2>1, DriveEventResults DEF HandleStopped, HandlerDone
  <2>3. QED
    BY <1>1, <2>2
<1>3. CASE UNCHANGED session
  <2>1. /\ session.transport \in Transports
        /\ HasTransport(session.transport) \/ ReleaseComing(session.transport)
    BY <1>1, <1>3 DEF DaemonInv, SessionKept
  <2>3. ASSUME NEW v \in Transports, HasTransport(v) \/ ReleaseComing(v)
        PROVE (HasTransport(v) \/ ReleaseComing(v))'
    BY <1>2, <2>3, KeptStep
  <2>4. PICK v \in Transports : v = session.transport
    BY <2>1
  <2>5. HasTransport(v)' \/ ReleaseComing(v)'
    BY <2>1, <2>3, <2>4
  <2>6. v = session'.transport
    BY <1>3, <2>4
  <2>7. QED
    BY <2>5, <2>6
<1>4. CASE HandleAcquired
  <2>1. \/ UNCHANGED session
        \/ session' = [state |-> "Streaming", transport |-> event.path]
    BY <1>0, <1>4, DriveEventResults DEF HandleAcquired, HandlerDone
  <2>2. CASE session' = [state |-> "Streaming", transport |-> event.path]
    <3>1. session'.transport = event.path
      BY <2>2
    <3>2. /\ event.path \in Transports
          /\ HasTransport(event.path) \/ ReleasedAfter(0, event.path)
      BY <1>4 DEF HandleAcquired, DaemonInv, AcquiredKept
    <3>3. UNCHANGED <<bluez, queue>>
      BY <1>4 DEF HandleAcquired, HandlerDone, runtime, remote
    <3>4. PICK v \in Transports : v = event.path
      BY <3>2
    <3>5. HasTransport(v)' \/ ReleaseComing(v)'
      BY <3>2, <3>3, <3>4 DEF HasTransport, ReleaseComing, ReleasedAfter
    <3>6. QED
      BY <3>1, <3>4, <3>5
  <2>3. QED
    BY <1>3, <2>1, <2>2
<1>5. CASE HandleCodec \/ HandleDisconnected
  <2>1. CASE HandleCodec
    <3>1. \/ UNCHANGED session
          \/ session' = [state |-> "Configured", transport |-> session.transport]
      BY <1>0, <2>1, DriveEventResults DEF HandleCodec, HandlerDone
    <3>2. QED
      BY <1>1, <1>3, <3>1
  <2>2. CASE HandleDisconnected
    <3>1. UNCHANGED session \/ session' = IdleSession
      BY <1>0, <2>2, DriveEventResults
      DEF HandleDisconnected, HandlerDone, CallStopStream
    <3>2. QED
      BY <1>1, <1>3, <1>a, <3>1
  <2>3. QED
    BY <1>5, <2>1, <2>2
<1>6. CASE BluezStep \/ Watch
  BY <1>3, <1>6 DEF BluezStep, Watch, Connect, Disconnect, SetConfiguration,
                    BecomePending, BecomeIdle, ClearConfiguration, haskell
<1>7. CASE PollStreamEnd \/ PollQueue \/ HandleConnected \/ HandleReleased
           \/ HandlePending \/ HandlePendingDone
  BY <1>3, <1>7 DEF PollStreamEnd, PollQueue, HandleConnected, HandleReleased,
                    HandlePending, HandlePendingDone, HandlerDone,
                    CallStopStream
<1>8. CASE RuntimeStep
  BY <1>3, <1>8 DEF RuntimeStep, CPAcquireReply, CPSpawnThread,
                    CPPublishEngine, haskell
<1>9. CASE \E g \in Gens : CPBtStep(g) \/ CPBtIoReturn(g) \/ CPAudioCallback(g)
  BY <1>3, <1>9 DEF CPBtStep, CPBtIoReturn, CPAudioCallback, haskell
<1>10. CASE UNCHANGED allVars
  BY <1>3, <1>10 DEF allVars, haskell
<1>11. QED
  BY <1>2, <1>4, <1>5, <1>6, <1>7, <1>8, <1>9, <1>10 DEF CPNext, LoopStep

\* A device never has two transports.
LEMMA OneTransportStep ==
  ASSUME DaemonInv, [CPNext]_allVars
  PROVE OneTransportEach'
<1>0. /\ OneTransportEach
      /\ bluez \in [Transports -> BluezStates]
      /\ bluezConfig \in [Transports -> Configs \cup {NoConfig}]
      /\ owner \in [Transports -> Devices \cup {NoDevice}]
  BY DEF DaemonInv, CPTypeOK
<1>1. CASE \E d \in Devices, t \in Transports, c \in Configs \cup {NoConfig} :
              SetConfiguration(d, t, c)
  <2>1. PICK d \in Devices, t \in Transports, c \in Configs \cup {NoConfig} :
           SetConfiguration(d, t, c)
    BY <1>1
  <2>2. /\ bluez' = [bluez EXCEPT ![t] = "idle"]
        /\ bluezConfig' = [bluezConfig EXCEPT ![t] = c]
        /\ owner' = [owner EXCEPT ![t] = d]
        /\ \A u \in Transports : HasTransport(u) => owner[u] # d
    BY <2>1 DEF SetConfiguration
  <2>3. \A u \in Transports : u # t =>
           /\ HasTransport(u)' <=> HasTransport(u)
           /\ bluezConfig'[u] = bluezConfig[u] /\ owner'[u] = owner[u]
    BY <1>0, <2>2 DEF HasTransport
  <2>4. owner'[t] = d /\ bluezConfig'[t] = c
    BY <1>0, <2>2
  <2>5. QED
    BY <1>0, <2>2, <2>3, <2>4 DEF OneTransportEach
<1>2. CASE ~\E d \in Devices, t \in Transports, c \in Configs \cup {NoConfig} :
              SetConfiguration(d, t, c)
  <2>1. ASSUME NEW t \in Transports
        PROVE HasTransport(t)' => /\ HasTransport(t)
                                  /\ bluezConfig'[t] = bluezConfig[t]
                                  /\ owner'[t] = owner[t]
    <3>1. CASE ClearConfiguration(t)
      BY <1>0, <3>1 DEF ClearConfiguration, HasTransport
    <3>2. QED
      BY <1>2, <3>1, TransportStep
  <2>2. QED
    BY <1>0, <2>1 DEF OneTransportEach
<1>3. QED
  BY <1>1, <1>2

\* A transport that was configured stays known to BlueZ.
LEMMA KnownStays ==
  ASSUME DaemonInv, [CPNext]_allVars, NEW t \in Transports, bluez[t] # "none"
  PROVE bluez'[t] # "none"
<1>0. bluez \in [Transports -> BluezStates]
  BY DEF DaemonInv, CPTypeOK
<1>1. CASE \E d \in Devices, c \in Configs \cup {NoConfig} : SetConfiguration(d, t, c)
  BY <1>1 DEF SetConfiguration
<1>2. CASE ClearConfiguration(t)
  BY <1>0, <1>2 DEF ClearConfiguration
<1>3. QED
  BY <1>1, <1>2, TransportStep

\* An event of the channel keeps, behind it, the release of a transport that
\* is gone; the release follows when the transport goes.
LEMMA BehindKept ==
  ASSUME DaemonInv, [CPNext]_allVars, NEW t \in Transports,
         NEW i \in 0 .. Len(queue),
         HasTransport(t) \/ ReleasedAfter(i, t),
         queue' = queue \/ \E e \in BlueZEvents : queue' = Append(queue, e)
  PROVE HasTransport(t)' \/ ReleasedAfter(i, t)'
<1>0. queue \in Seq(BlueZEvents) /\ Len(queue) \in Nat
  BY DaemonFacts
<1>1. CASE ReleasedAfter(i, t)
  <2>1. CASE queue' = queue
    BY <1>1, <2>1 DEF ReleasedAfter
  <2>2. CASE \E e \in BlueZEvents : queue' = Append(queue, e)
    <3>1. i \in Nat
      BY <1>0
    <3>2. \A k \in Nat : ReleasedAfter(k, t) => ReleasedAfter(k, t)'
      BY <1>0, <2>2, QueueGrows
    <3>3. QED
      BY <1>1, <3>1, <3>2, Zenon
  <2>3. QED
    BY <2>1, <2>2
<1>2. CASE HasTransport(t) /\ ~HasTransport(t)'
  <2>1. ClearConfiguration(t)
    <3>1. ~\E d \in Devices, c \in Configs \cup {NoConfig} : SetConfiguration(d, t, c)
      BY <1>2 DEF SetConfiguration, HasTransport
    <3>2. QED
      BY <1>2, <3>1, TransportStep
  <2> DEFINE e == BlueZEvent("TransportReleased", t)
  <2>2. /\ e \in BlueZEvents /\ e.kind = "TransportReleased" /\ e.path = t
        /\ queue' = Append(queue, e)
    BY <2>1, EventForms DEF ClearConfiguration, EventKinds, BlueZEvent
  <2> HIDE DEF e
  <2>3. \A k \in 0 .. Len(queue) : ReleasedAfter(k, t)'
    BY <1>0, <2>2, QueueGrows
  <2>4. QED
    BY <2>3, Zenon
<1>3. QED
  BY <1>1, <1>2

\* The same when the loop takes the first event.
LEMMA BehindKeptPoll ==
  ASSUME DaemonInv, PollQueue, NEW t \in Transports, NEW i \in Nat,
         HasTransport(t) \/ ReleasedAfter(i + 1, t)
  PROVE HasTransport(t)' \/ ReleasedAfter(i, t)'
<1>1. queue \in Seq(BlueZEvents) /\ queue # <<>> /\ queue' = Tail(queue)
  BY DaemonFacts DEF PollQueue
<1>2. bluez' = bluez
  BY DEF PollQueue, remote
<1>3. QED
  BY <1>1, <1>2, QueueShrinks DEF HasTransport

\* An acquisition in the channel or in hand speaks of a transport that is
\* there, or its release comes after it.
LEMMA AcquiredKeptStep ==
  ASSUME DaemonInv, [CPNext]_allVars
  PROVE AcquiredKept'
<1>0. /\ queue \in Seq(BlueZEvents) /\ Len(queue) \in Nat /\ EventsOK
      /\ AcquiredKept /\ SignalShape
  BY DaemonFacts DEF DaemonInv
<1>1. ASSUME NEW i \in 1 .. Len(queue'), queue'[i].kind = "TransportAcquired"
      PROVE \E u \in Transports :
               u = queue'[i].path /\ (HasTransport(u)' \/ ReleasedAfter(i, u)')
  <2>1. ASSUME i \in 1 .. Len(queue), queue'[i] = queue[i],
               queue' = queue \/ \E e \in BlueZEvents : queue' = Append(queue, e)
        PROVE \E u \in Transports :
                 u = queue'[i].path /\ (HasTransport(u)' \/ ReleasedAfter(i, u)')
    <3>1. PICK u \in Transports :
             u = queue[i].path /\ (HasTransport(u) \/ ReleasedAfter(i, u))
      BY <1>0, <1>1, <2>1 DEF AcquiredKept
    <3>2. HasTransport(u)' \/ ReleasedAfter(i, u)'
      BY <1>0, <2>1, <3>1, BehindKept
    <3>3. QED
      BY <2>1, <3>1, <3>2
  <2>2. CASE queue' = queue
    BY <2>1, <2>2
  <2>3. ASSUME NEW e \in BlueZEvents, queue' = Append(queue, e), Announced(e)
        PROVE \E u \in Transports :
                 u = queue'[i].path /\ (HasTransport(u)' \/ ReleasedAfter(i, u)')
    <3>1. /\ Len(queue') = Len(queue) + 1
          /\ \A j \in 1 .. Len(queue) : queue'[j] = queue[j]
          /\ queue'[Len(queue) + 1] = e
      BY <1>0, <2>3, AppendElements
    <3>2. CASE i \in 1 .. Len(queue)
      BY <2>1, <2>3, <3>1, <3>2
    <3>3. CASE i = Len(queue) + 1
      <4>1. e.kind = "TransportAcquired"
        BY <1>1, <3>1, <3>3
      <4>2. signals # <<>> => Head(signals).kind # "TransportAcquired"
        BY <1>0, TailElements DEF SignalShape, EventsOK
      <4>3. /\ CPAcquireReply /\ target \in Transports
            /\ e = BlueZEvent("TransportAcquired", target)
        BY <2>3, <4>1, <4>2 DEF Announced, CodecNegotiated, BlueZEvent
      <4>4. HasTransport(target)' /\ e.path = target /\ target' = target
        BY <4>3 DEF CPAcquireReply, AcquireReply, HasTransport, BlueZEvent,
                    DaemonInv, CPTypeOK
      <4>5. PICK u \in Transports : u = target
        BY <4>3
      <4>6. HasTransport(u)'
        BY <4>4, <4>5 DEF HasTransport
      <4>7. QED
        BY <3>1, <3>3, <4>4, <4>5, <4>6
    <3>4. QED
      BY <1>0, <1>1, <3>1, <3>2, <3>3
  <2>4. CASE PollQueue /\ queue # <<>> /\ queue' = Tail(queue)
    <3>1. i + 1 \in 1 .. Len(queue) /\ queue'[i] = queue[i + 1]
      BY <1>0, <1>1, <2>4, TailElements
    <3>2. PICK u \in Transports :
             u = queue[i + 1].path /\ (HasTransport(u) \/ ReleasedAfter(i + 1, u))
      BY <1>0, <1>1, <3>1 DEF AcquiredKept
    <3>3. HasTransport(u)' \/ ReleasedAfter(i, u)'
      BY <1>0, <2>4, <3>2, BehindKeptPoll
    <3>4. QED
      BY <3>1, <3>2, <3>3
  <2>5. QED
    BY <2>2, <2>3, <2>4, QueueStep
<1>2. ASSUME Handling("TransportAcquired")'
      PROVE \E u \in Transports :
               u = event'.path /\ (HasTransport(u)' \/ ReleasedAfter(0, u)')
  <2>1. CASE PollQueue
    <3>1. /\ queue # <<>> /\ 1 \in 1 .. Len(queue) /\ event' = queue[1]
          /\ queue[1].kind = "TransportAcquired"
      BY <1>0, <1>2, <2>1, TailElements DEF PollQueue, Handling
    <3>2. PICK u \in Transports :
             u = queue[1].path /\ (HasTransport(u) \/ ReleasedAfter(1, u))
      BY <1>0, <3>1 DEF AcquiredKept
    <3>3. HasTransport(u)' \/ ReleasedAfter(0, u)'
      <4>1. HasTransport(u) \/ ReleasedAfter(0 + 1, u)
        BY <3>2
      <4>2. QED
        BY <2>1, <4>1, BehindKeptPoll
    <3>4. QED
      BY <3>1, <3>2, <3>3
  <2>2. CASE UNCHANGED <<hpc, event>> /\ ~PollQueue
    <3>1. PICK u \in Transports :
             u = event.path /\ (HasTransport(u) \/ ReleasedAfter(0, u))
      BY <1>0, <1>2, <2>2 DEF AcquiredKept, Handling
    <3>2. queue' = queue \/ \E e \in BlueZEvents : queue' = Append(queue, e)
      BY <2>2, QueueStep
    <3>3. HasTransport(u)' \/ ReleasedAfter(0, u)'
      BY <1>0, <3>1, <3>2, BehindKept
    <3>4. QED
      BY <2>2, <3>1, <3>3
  <2>3. CASE LoopStep /\ ~PollQueue
    BY <1>2, <2>3 DEF LoopStep, PollStreamEnd, HandleConnected, HandleReleased,
         HandleStopped, HandlePending, HandlePendingDone, HandleDisconnected,
         HandleAcquired, HandleCodec, HandlerDone, CallStopStream, Handling,
         BlueZEvent
  <2>4. CASE ~LoopStep
    <3>1. UNCHANGED <<hpc, event>>
      BY <2>4 DEF CPNext, RuntimeStep, CPAcquireReply, CPSpawnThread,
           CPPublishEngine, CPBtStep, CPBtIoReturn, CPAudioCallback,
           BluezStep, Watch, Connect, Disconnect, SetConfiguration,
           BecomePending, BecomeIdle, ClearConfiguration, haskell, allVars
    <3>2. QED
      BY <2>2, <2>4, <3>1 DEF LoopStep
  <2>5. QED
    BY <2>1, <2>3, <2>4
<1>3. QED
  BY <1>1, <1>2 DEF AcquiredKept, HasTransport, ReleasedAfter, Handling

\* A transport that is known to BlueZ is not negotiated again, so an event that
\* no negotiation of its transport follows keeps that place.
LEMMA NoCodecBehind ==
  ASSUME DaemonInv, [CPNext]_allVars, NEW t \in Transports, NEW i \in Nat,
         bluez[t] # "none", ~CodecAfter(i, t), ~PollQueue
  PROVE ~CodecAfter(i, t)'
<1>0. queue \in Seq(BlueZEvents) /\ EventsOK /\ SignalShape
  BY DaemonFacts DEF DaemonInv
<1>1. CASE queue' = queue
  BY <1>1 DEF CodecAfter
<1>2. ASSUME NEW e \in BlueZEvents, queue' = Append(queue, e), Announced(e)
      PROVE ~CodecAfter(i, t)'
  <2>1. signals # <<>> => Head(signals).kind # "CodecNegotiated"
    BY <1>0, TailElements DEF SignalShape, EventsOK
  <2>2. ~(e.kind = "CodecNegotiated" /\ e.path = t)
    <3>1. ASSUME NEW d \in Devices, NEW u \in Transports, NEW c \in Configs \cup {NoConfig},
                 SetConfiguration(d, u, c), e = CodecNegotiated(u, c)
          PROVE e.path # t
      BY <3>1 DEF SetConfiguration, CodecNegotiated
    <3>2. \A u : /\ BlueZEvent("TransportReleased", u).kind # "CodecNegotiated"
                 /\ BlueZEvent("TransportAcquired", u).kind # "CodecNegotiated"
      BY DEF BlueZEvent
    <3>3. QED
      BY <1>2, <2>1, <3>1, <3>2 DEF Announced
  <2>3. \A k \in Nat : CodecAfter(k, t)' =>
           CodecAfter(k, t) \/ (e.kind = "CodecNegotiated" /\ e.path = t)
    BY <1>0, <1>2, QueueGrows
  <2>4. QED
    BY <2>2, <2>3
<1>3. QED
  BY <1>1, <1>2, QueueStep

\* How the watcher's signals change in a step.
LEMMA SignalsStep ==
  ASSUME DaemonInv, [CPNext]_allVars
  PROVE \/ signals' = signals
        \/ \E e \in BlueZEvents :
              signals' = Append(signals, e) /\ e.kind # "TransportPending"
        \/ \E t \in Transports :
              /\ BecomePending(t)
              /\ signals' = Append(signals, BlueZEvent("TransportPending", t))
        \/ Watch /\ signals # <<>> /\ signals' = Tail(signals)
<1>1. CASE \E d \in Devices : Connect(d) \/ Disconnect(d)
  <2>1. PICK k \in {"DeviceConnected", "DeviceDisconnected"} :
           signals' = Append(signals, BlueZEvent(k, NoTransport))
    BY <1>1 DEF Connect, Disconnect, SendSignal
  <2>2. BlueZEvent(k, NoTransport) \in BlueZEvents
    BY EventForms DEF EventKinds
  <2>3. BlueZEvent(k, NoTransport).kind # "TransportPending"
    BY DEF BlueZEvent
  <2>4. QED
    BY <2>1, <2>2, <2>3
<1>2. CASE \E t \in Transports : BecomePending(t)
  BY <1>2 DEF BecomePending, SendSignal
<1>3. CASE Watch
  BY <1>3 DEF Watch
<1>4. CASE LoopStep
  BY <1>4 DEF LoopStep, PollStreamEnd, PollQueue, HandleConnected,
       HandleReleased, HandleStopped, HandlePending, HandlePendingDone,
       HandleDisconnected, HandleAcquired, HandleCodec, HandlerDone,
       CallStopStream, remote
<1>5. CASE RuntimeStep
  BY <1>5 DEF RuntimeStep, CPAcquireReply, CPSpawnThread, CPPublishEngine,
              remote
<1>6. CASE \E g \in Gens : CPBtStep(g) \/ CPBtIoReturn(g) \/ CPAudioCallback(g)
  BY <1>6 DEF CPBtStep, CPBtIoReturn, CPAudioCallback, remote
<1>7. CASE UNCHANGED allVars
  BY <1>7 DEF allVars, remote
<1>8. QED
  BY <1>1, <1>2, <1>3, <1>4, <1>5, <1>6, <1>7
  DEF CPNext, BluezStep, SetConfiguration, BecomeIdle, ClearConfiguration

\* A live thread of the next state was alive before, on the same transport
\* with the same configuration, unless it is just spawned.
LEMMA LiveStep ==
  ASSUME DaemonInv, [CPNext]_allVars, NEW g \in Gens, g # gen \/ ~CPSpawnThread
  PROVE /\ fd'[g] = fd[g] /\ engineConfig'[g] = engineConfig[g]
        /\ Live(g)' => Live(g)
<1>0. TypeOK /\ engineConfig \in [Gens -> Configs \cup {NoConfig, DefaultConfig}]
  BY DaemonFacts DEF DaemonInv, CPTypeOK
<1>1. CASE UNCHANGED <<bt, fd, engineConfig>>
  BY <1>1 DEF Live
<1>2. CASE CPSpawnThread
  BY <1>0, <1>2 DEF CPSpawnThread, SpawnThread, Live, TypeOK
<1>3. CASE RuntimeStep /\ ~CPSpawnThread
  <2>1. UNCHANGED engineConfig
    BY <1>3 DEF RuntimeStep, CPAcquireReply, CPPublishEngine, runtime
  <2>2. UNCHANGED <<bt, fd>>
    BY <1>3 DEF RuntimeStep, CPAcquireReply, CPPublishEngine, AcquireReply,
         PublishEngine, AcquireFailed, AcquireReturn, BuildAudio,
         BuildAudioFailed, SpawnThreadFailed, Joined
  <2>3. QED
    BY <1>1, <2>1, <2>2
<1>4. CASE LoopStep
  <2>1. UNCHANGED engineConfig
    BY <1>4 DEF LoopStep, PollStreamEnd, PollQueue, HandleConnected,
         HandleReleased, HandleStopped, HandlePending, HandlePendingDone,
         HandleDisconnected, HandleAcquired, HandleCodec, HandlerDone,
         CallStopStream, runtime
  <2>2. UNCHANGED <<bt, fd>>
    BY <1>4 DEF LoopStep, PollStreamEnd, PollQueue, HandleConnected,
         HandleReleased, HandleStopped, HandlePending, HandlePendingDone,
         HandleDisconnected, HandleAcquired, HandleCodec, CallStopStream,
         PollEvent, StopStream, StopStreamNoop, AcquireAndStart, vars
  <2>3. QED
    BY <1>1, <2>1, <2>2
<1>5. ASSUME NEW h \in Gens, CPBtStep(h) \/ CPBtIoReturn(h) \/ CPAudioCallback(h)
      PROVE /\ fd'[g] = fd[g] /\ engineConfig'[g] = engineConfig[g]
            /\ Live(g)' => Live(g)
  BY <1>0, <1>5, ThreadStep DEF CPBtStep, CPBtIoReturn, CPAudioCallback,
                                runtime, control
<1>6. CASE BluezStep \/ Watch
  BY <1>1, <1>6 DEF BluezStep, Watch, Connect, Disconnect, SetConfiguration,
                    BecomePending, BecomeIdle, ClearConfiguration, vars,
                    runtime
<1>7. CASE UNCHANGED allVars
  BY <1>1, <1>7 DEF allVars, vars, runtime
<1>8. QED
  BY <1>2, <1>3, <1>4, <1>5, <1>6, <1>7 DEF CPNext

\* The transport a call acquires and starts is the one its handler was given.
LEMMA SpawnTarget ==
  ASSUME DaemonInv, CPSpawnThread
  PROVE /\ target \in Transports /\ bluez[target] # "none"
        /\ ~CodecAfter(0, target) /\ gen \in Gens
<1>0. TypeOK /\ ControlShape /\ EventsOK /\ LoopShape /\ NegotiatedFirst
  BY DaemonFacts DEF DaemonInv
<1>1. hpc = "acquired" /\ event.kind = "TransportPending" /\ target = event.path
  BY <1>0 DEF CPSpawnThread, SpawnThread, LoopShape, DaemonInv, CPTypeOK
<1>2. target \in Transports
  BY <1>0, <1>1 DEF EventsOK, BlueZEvents, NoEvent, BlueZEvent
<1>3. QED
  BY <1>0, <1>1, <1>2 DEF NegotiatedFirst, CPSpawnThread, SpawnThread,
                          ControlShape, TypeOK, Gens

\* The negotiation of a transport is always handled before its pending signal.
LEMMA NegotiatedStep ==
  ASSUME DaemonInv, [CPNext]_allVars
  PROVE NegotiatedFirst'
<1>0. /\ queue \in Seq(BlueZEvents) /\ Len(queue) \in Nat /\ EventsOK
      /\ signals \in Seq(BlueZEvents) /\ Len(signals) \in Nat
      /\ NegotiatedFirst /\ SignalShape /\ LoopShape
      /\ bluez \in [Transports -> BluezStates]
  BY DaemonFacts DEF DaemonInv, CPTypeOK
<1>a. \A e \in BlueZEvents : e.kind = "TransportPending" => e.path \in Transports
  BY DEF BlueZEvents
<1>1. ASSUME NEW i \in 1 .. Len(signals'), signals'[i].kind = "TransportPending"
      PROVE bluez'[signals'[i].path] # "none"
  <2>1. ASSUME NEW j \in 1 .. Len(signals), signals'[i] = signals[j]
        PROVE bluez'[signals'[i].path] # "none"
    <3>1. signals[j] \in BlueZEvents /\ signals[j].kind = "TransportPending"
      BY <1>0, <1>1, <2>1
    <3>2. PICK u \in Transports : u = signals[j].path
      BY <1>a, <3>1
    <3>3. bluez[u] # "none"
      BY <1>0, <3>1, <3>2 DEF NegotiatedFirst
    <3>4. bluez'[u] # "none"
      BY <3>3, KnownStays
    <3>5. QED
      BY <2>1, <3>2, <3>4
  <2>2. CASE signals' = signals
    BY <1>1, <2>1, <2>2
  <2>3. ASSUME NEW e \in BlueZEvents, signals' = Append(signals, e),
               e.kind # "TransportPending"
        PROVE bluez'[signals'[i].path] # "none"
    <3>1. i \in 1 .. Len(signals) /\ signals'[i] = signals[i]
      BY <1>0, <1>1, <2>3, AppendElements
    <3>2. QED
      BY <2>1, <3>1
  <2>4. ASSUME NEW t \in Transports, BecomePending(t),
               signals' = Append(signals, BlueZEvent("TransportPending", t))
        PROVE bluez'[signals'[i].path] # "none"
    <3> DEFINE e == BlueZEvent("TransportPending", t)
    <3>1. e \in BlueZEvents /\ e.path = t /\ signals' = Append(signals, e)
      BY <2>4, EventForms DEF EventKinds, BlueZEvent
    <3>2. bluez'[t] # "none"
      BY <1>0, <2>4 DEF BecomePending
    <3> HIDE DEF e
    <3>3. \/ i \in 1 .. Len(signals) /\ signals'[i] = signals[i]
          \/ signals'[i] = e
      BY <1>0, <1>1, <3>1, AppendElements
    <3>4. QED
      BY <2>1, <3>1, <3>2, <3>3
  <2>5. CASE Watch /\ signals # <<>> /\ signals' = Tail(signals)
    <3>1. i + 1 \in 1 .. Len(signals) /\ signals'[i] = signals[i + 1]
      BY <1>0, <1>1, <2>5, TailElements
    <3>2. QED
      BY <2>1, <3>1
  <2>6. QED
    BY <2>2, <2>3, <2>4, <2>5, SignalsStep
<1>2. ASSUME NEW i \in 1 .. Len(queue'), queue'[i].kind = "TransportPending"
      PROVE \E u \in Transports : /\ u = queue'[i].path
                                  /\ bluez'[u] # "none" /\ ~CodecAfter(i, u)'
  <2>1. ASSUME i \in 1 .. Len(queue), queue'[i] = queue[i], ~PollQueue
        PROVE \E u \in Transports : /\ u = queue'[i].path
                                    /\ bluez'[u] # "none" /\ ~CodecAfter(i, u)'
    <3>1. queue[i] \in BlueZEvents /\ queue[i].kind = "TransportPending"
      BY <1>0, <1>2, <2>1
    <3>2. PICK u \in Transports : u = queue[i].path
      BY <1>a, <3>1
    <3>3. bluez[u] # "none" /\ ~CodecAfter(i, u) /\ i \in Nat
      BY <1>0, <2>1, <3>1, <3>2 DEF NegotiatedFirst
    <3>4. QED
      BY <2>1, <3>2, <3>3, KnownStays, NoCodecBehind
  <2>2. CASE queue' = queue /\ ~PollQueue
    BY <1>2, <2>1, <2>2
  <2>3. ASSUME NEW e \in BlueZEvents, queue' = Append(queue, e), Announced(e),
               ~PollQueue
        PROVE \E u \in Transports : /\ u = queue'[i].path
                                    /\ bluez'[u] # "none" /\ ~CodecAfter(i, u)'
    <3>1. /\ Len(queue') = Len(queue) + 1
          /\ \A j \in 1 .. Len(queue) : queue'[j] = queue[j]
          /\ queue'[Len(queue) + 1] = e
      BY <1>0, <2>3, AppendElements
    <3>2. CASE i \in 1 .. Len(queue)
      BY <2>1, <2>3, <3>1, <3>2
    <3>3. CASE i = Len(queue) + 1
      <4>1. e.kind = "TransportPending"
        BY <1>2, <3>1, <3>3
      <4>2. signals # <<>> /\ e = Head(signals)
        BY <2>3, <4>1 DEF Announced, CodecNegotiated, BlueZEvent
      <4>3. e = signals[1] /\ 1 \in 1 .. Len(signals)
        BY <1>0, <4>2, TailElements
      <4>4. PICK u \in Transports : u = e.path
        BY <1>a, <4>1
      <4>5. bluez[u] # "none"
        BY <1>0, <4>1, <4>3, <4>4 DEF NegotiatedFirst
      <4>6. bluez'[u] # "none"
        BY <4>5, KnownStays
      <4>7. ~CodecAfter(i, u)'
        BY <1>0, <3>1, <3>3 DEF CodecAfter
      <4>8. QED
        BY <3>1, <3>3, <4>4, <4>6, <4>7
    <3>4. QED
      BY <1>0, <1>2, <3>1, <3>2, <3>3
  <2>4. CASE PollQueue
    <3>1. queue # <<>> /\ queue' = Tail(queue)
      BY <2>4 DEF PollQueue
    <3>2. i + 1 \in 1 .. Len(queue) /\ queue'[i] = queue[i + 1] /\ i \in Nat
      BY <1>0, <1>2, <3>1, TailElements
    <3>3. queue[i + 1] \in BlueZEvents /\ queue[i + 1].kind = "TransportPending"
      BY <1>0, <1>2, <3>2
    <3>4. PICK u \in Transports : u = queue[i + 1].path
      BY <1>a, <3>3
    <3>5. bluez[u] # "none" /\ ~CodecAfter(i + 1, u)
      BY <1>0, <3>2, <3>3, <3>4 DEF NegotiatedFirst
    <3>6. ~CodecAfter(i, u)'
      BY <1>0, <3>1, <3>2, <3>5, QueueShrinks
    <3>7. QED
      BY <3>2, <3>4, <3>5, <3>6, KnownStays
  <2>5. QED
    BY <2>2, <2>3, <2>4, QueueStep
<1>3. ASSUME hpc' \in {"handle", "acquired"}, event'.kind = "TransportPending"
      PROVE \E u \in Transports : /\ u = event'.path
                                  /\ bluez'[u] # "none" /\ ~CodecAfter(0, u)'
  <2>1. CASE PollQueue
    <3>1. queue # <<>> /\ queue' = Tail(queue) /\ event' = Head(queue)
      BY <2>1 DEF PollQueue
    <3>2. /\ event' = queue[1] /\ 1 \in 1 .. Len(queue)
          /\ queue[1] \in BlueZEvents /\ queue[1].kind = "TransportPending"
      BY <1>0, <1>3, <3>1, TailElements
    <3>3. PICK u \in Transports : u = queue[1].path
      BY <1>a, <3>2
    <3>4. bluez[u] # "none" /\ ~CodecAfter(1, u)
      BY <1>0, <3>2, <3>3 DEF NegotiatedFirst
    <3>5. ~CodecAfter(0, u)'
      <4>1. CodecAfter(0, u)' => CodecAfter(0 + 1, u)
        BY <1>0, <3>1, QueueShrinks
      <4>2. QED
        BY <3>4, <4>1
    <3>6. QED
      BY <3>2, <3>3, <3>4, <3>5, KnownStays
  <2>2. CASE hpc \in {"handle", "acquired"} /\ UNCHANGED event /\ ~PollQueue
    <3>1. event \in BlueZEvents /\ event.kind = "TransportPending"
      BY <1>0, <1>3, <2>2 DEF EventsOK, NoEvent, BlueZEvent
    <3>2. PICK u \in Transports : u = event.path
      BY <1>a, <3>1
    <3>3. bluez[u] # "none" /\ ~CodecAfter(0, u)
      BY <1>0, <2>2, <3>1, <3>2 DEF NegotiatedFirst
    <3>4. QED
      BY <2>2, <3>2, <3>3, KnownStays, NoCodecBehind
  <2>3. CASE LoopStep /\ ~PollQueue
    <3>1. CASE HandlePending
      BY <1>3, <2>2, <2>3, <3>1 DEF HandlePending, Handling, HandlerDone
    <3>2. QED
      BY <1>3, <2>3, <3>1 DEF LoopStep, PollStreamEnd, HandleConnected,
           HandleReleased, HandleStopped, HandlePendingDone,
           HandleDisconnected, HandleAcquired, HandleCodec, HandlerDone,
           CallStopStream, Handling, BlueZEvent
  <2>4. CASE ~LoopStep
    <3>1. UNCHANGED <<hpc, event>>
      BY <2>4 DEF CPNext, RuntimeStep, CPAcquireReply, CPSpawnThread,
           CPPublishEngine, CPBtStep, CPBtIoReturn, CPAudioCallback,
           BluezStep, Watch, Connect, Disconnect, SetConfiguration,
           BecomePending, BecomeIdle, ClearConfiguration, haskell, allVars
    <3>2. QED
      BY <1>3, <2>2, <2>4, <3>1 DEF LoopStep
  <2>5. QED
    BY <2>1, <2>3, <2>4
<1>4. ASSUME NEW g \in Gens, fd'[g] \in Transports
      PROVE bluez'[fd'[g]] # "none"
  <2>1. CASE g # gen \/ ~CPSpawnThread
    <3>1. fd'[g] = fd[g]
      BY <2>1, LiveStep
    <3>2. PICK u \in Transports : u = fd[g]
      BY <1>4, <3>1
    <3>3. bluez[u] # "none"
      BY <1>0, <3>2 DEF NegotiatedFirst
    <3>4. bluez'[u] # "none"
      BY <3>3, KnownStays
    <3>5. QED
      BY <3>1, <3>2, <3>4
  <2>2. CASE g = gen /\ CPSpawnThread
    <3>1. target \in Transports /\ bluez[target] # "none"
      BY <2>2, SpawnTarget
    <3>2. fd'[g] = target /\ bluez' = bluez
      BY <2>2, DaemonFacts DEF CPSpawnThread, SpawnThread, TypeOK, remote
    <3>3. QED
      BY <3>1, <3>2
  <2>3. QED
    BY <2>1, <2>2
<1>5. QED
  BY <1>1, <1>2, <1>3, <1>4 DEF NegotiatedFirst, CodecAfter

\* With one device, a transport that is there after a step was there before
\* with the same configuration, or is the one just configured.
LEMMA OnlyTransportStep ==
  ASSUME DaemonInv, [CPNext]_allVars, OneDevice, NEW t \in Transports,
         HasTransport(t)'
  PROVE \/ \E d \in Devices, c \in Configs \cup {NoConfig} : SetConfiguration(d, t, c)
        \/ /\ HasTransport(t) /\ bluezConfig'[t] = bluezConfig[t]
           /\ ~\E d \in Devices, u \in Transports, c \in Configs \cup {NoConfig} :
                 SetConfiguration(d, u, c)
<1>0. bluez \in [Transports -> BluezStates] /\ OneTransportEach
  BY DEF DaemonInv, CPTypeOK
<1>1. ~ClearConfiguration(t)
  BY <1>0 DEF ClearConfiguration, HasTransport
<1>2. ASSUME HasTransport(t), NEW d \in Devices, NEW u \in Transports,
             NEW c \in Configs \cup {NoConfig}, SetConfiguration(d, u, c)
      PROVE FALSE
  BY <1>0, <1>2 DEF SetConfiguration, OneTransportEach, OneDevice
<1>3. QED
  BY <1>1, <1>2, TransportStep

\* The configuration the runtime would use changes only when the loop takes a
\* negotiation out of the channel: storing back the one the stream was started
\* with changes nothing, even if that was the default.
LEMMA LastConfigStep ==
  ASSUME DaemonInv, [CPNext]_allVars, ~PollQueue
  PROVE CodecConfig' = CodecConfig
<1>1. CASE CPPublishEngine
  <2>1. engineConfig[gen] = CodecConfig
    BY <1>1, DaemonFacts DEF CPPublishEngine, PublishEngine, LoopShape
  <2>2. QED
    BY <1>1, <2>1, ConfigAssumption DEF CPPublishEngine, CodecConfig, Chosen
<1>2. CASE ~CPPublishEngine
  <2>1. lastConfig' = lastConfig
    BY <1>2 DEF CPNext, LoopStep, PollStreamEnd, HandleConnected, HandleReleased,
       HandleStopped, HandlePending, HandlePendingDone, HandleDisconnected,
       HandleAcquired, HandleCodec, HandlerDone, CallStopStream, RuntimeStep,
       CPAcquireReply, CPSpawnThread, CPBtStep, CPBtIoReturn, CPAudioCallback,
       BluezStep, Watch, Connect, Disconnect, SetConfiguration, BecomePending,
       BecomeIdle, ClearConfiguration, allVars, runtime
  <2>2. QED
    BY <2>1 DEF CodecConfig, Chosen
<1>3. QED
  BY <1>1, <1>2

\* With one device the configuration of its transport is the runtime's, or the
\* last that is on its way to it.
LEMMA ConfigCurrentStep ==
  ASSUME DaemonInv, [CPNext]_allVars, OneDevice
  PROVE ConfigCurrent'
<1>0. /\ queue \in Seq(BlueZEvents) /\ Len(queue) \in Nat /\ EventsOK
      /\ ConfigCurrent /\ OneTransportEach /\ SignalShape
      /\ bluezConfig \in [Transports -> Configs \cup {NoConfig}]
  BY DaemonFacts DEF DaemonInv, CPTypeOK
<1>1. SUFFICES ASSUME NEW t \in Transports, HasTransport(t)'
      PROVE \/ \E i \in 1 .. Len(queue') :
                  /\ queue'[i] = CodecNegotiated(t, bluezConfig'[t])
                  /\ \A j \in i + 1 .. Len(queue') :
                        queue'[j].kind # "CodecNegotiated"
            \/ /\ \A j \in 1 .. Len(queue') : queue'[j].kind # "CodecNegotiated"
               /\ CodecConfig' = Chosen(bluezConfig'[t])
  BY DEF ConfigCurrent, CodecNegotiated, Chosen
<1>2. CASE \E d \in Devices, c \in Configs \cup {NoConfig} : SetConfiguration(d, t, c)
  <2>1. PICK d \in Devices, c \in Configs \cup {NoConfig} : SetConfiguration(d, t, c)
    BY <1>2
  <2>2. /\ queue' = Append(queue, CodecNegotiated(t, c)) /\ bluezConfig'[t] = c
        /\ CodecNegotiated(t, c) \in BlueZEvents
    BY <1>0, <2>1, EventForms DEF SetConfiguration
  <2>3. /\ Len(queue') = Len(queue) + 1
        /\ queue'[Len(queue) + 1] = CodecNegotiated(t, c)
    BY <1>0, <2>2, AppendElements
  <2>4. Len(queue) + 1 \in 1 .. Len(queue')
    BY <1>0, <2>3
  <2>5. \A j \in (Len(queue) + 1) + 1 .. Len(queue') :
           queue'[j].kind # "CodecNegotiated"
    BY <1>0, <2>3
  <2>6. QED
    BY <2>2, <2>3, <2>4, <2>5
<1>3. CASE /\ HasTransport(t) /\ bluezConfig'[t] = bluezConfig[t]
           /\ ~\E d \in Devices, u \in Transports, c \in Configs \cup {NoConfig} :
                 SetConfiguration(d, u, c)
  <2> DEFINE b == bluezConfig[t]
  <2>0. bluezConfig'[t] = b
    BY <1>3
  <2>1. \/ \E i \in 1 .. Len(queue) :
              /\ queue[i] = CodecNegotiated(t, b)
              /\ \A j \in i + 1 .. Len(queue) : queue[j].kind # "CodecNegotiated"
        \/ /\ \A j \in 1 .. Len(queue) : queue[j].kind # "CodecNegotiated"
           /\ CodecConfig = Chosen(b)
    BY <1>0, <1>3 DEF ConfigCurrent
  <2> HIDE DEF b
  <2>2. CodecConfig = Chosen(b) /\ ~PollQueue => CodecConfig' = Chosen(b)
    BY LastConfigStep, Zenon
  <2>3. CASE queue' = queue /\ ~PollQueue
    BY <2>0, <2>1, <2>2, <2>3
  <2>4. ASSUME NEW e \in BlueZEvents, queue' = Append(queue, e), Announced(e),
               ~PollQueue
        PROVE \/ \E i \in 1 .. Len(queue') :
                    /\ queue'[i] = CodecNegotiated(t, b)
                    /\ \A j \in i + 1 .. Len(queue') :
                          queue'[j].kind # "CodecNegotiated"
              \/ /\ \A j \in 1 .. Len(queue') :
                       queue'[j].kind # "CodecNegotiated"
                 /\ CodecConfig' = Chosen(b)
    <3>1. /\ Len(queue') = Len(queue) + 1
          /\ \A j \in 1 .. Len(queue) : queue'[j] = queue[j]
          /\ queue'[Len(queue) + 1] = e
      BY <1>0, <2>4, AppendElements
    <3>2. signals # <<>> => Head(signals).kind # "CodecNegotiated"
      BY <1>0, TailElements DEF SignalShape, EventsOK
    <3>3. e.kind # "CodecNegotiated"
      BY <1>3, <2>4, <3>2 DEF Announced, BlueZEvent
    <3>4. CASE \E i \in 1 .. Len(queue) :
                  /\ queue[i] = CodecNegotiated(t, b)
                  /\ \A j \in i + 1 .. Len(queue) :
                        queue[j].kind # "CodecNegotiated"
      <4>1. PICK i \in 1 .. Len(queue) :
                  /\ queue[i] = CodecNegotiated(t, b)
                  /\ \A j \in i + 1 .. Len(queue) :
                        queue[j].kind # "CodecNegotiated"
        BY <3>4
      <4>2. i \in 1 .. Len(queue') /\ queue'[i] = queue[i]
        BY <1>0, <3>1
      <4>3. ASSUME NEW j \in i + 1 .. Len(queue')
            PROVE queue'[j].kind # "CodecNegotiated"
        BY <1>0, <3>1, <3>3, <4>1
      <4>4. QED
        BY <4>1, <4>2, <4>3
    <3>5. CASE /\ \A j \in 1 .. Len(queue) : queue[j].kind # "CodecNegotiated"
               /\ CodecConfig = Chosen(b)
      <4>1. ASSUME NEW j \in 1 .. Len(queue')
            PROVE queue'[j].kind # "CodecNegotiated"
        BY <1>0, <3>1, <3>3, <3>5
      <4>2. QED
        BY <2>2, <2>4, <3>5, <4>1
    <3>6. QED
      BY <2>1, <3>4, <3>5
  <2>5. CASE PollQueue
    <3>1. /\ queue # <<>> /\ queue' = Tail(queue)
          /\ lastConfig' = IF Head(queue).kind = "CodecNegotiated"
                           THEN Head(queue).config ELSE lastConfig
      BY <2>5 DEF PollQueue
    <3>2. /\ Len(queue') = Len(queue) - 1 /\ Head(queue) = queue[1]
          /\ Len(queue) >= 1
          /\ \A j \in 1 .. Len(queue) - 1 : queue'[j] = queue[j + 1]
      BY <1>0, <3>1, TailElements
    <3>3. CASE \E i \in 1 .. Len(queue) :
                  /\ queue[i] = CodecNegotiated(t, b)
                  /\ \A j \in i + 1 .. Len(queue) :
                        queue[j].kind # "CodecNegotiated"
      <4>1. PICK i \in 1 .. Len(queue) :
                  /\ queue[i] = CodecNegotiated(t, b)
                  /\ \A j \in i + 1 .. Len(queue) :
                        queue[j].kind # "CodecNegotiated"
        BY <3>3
      <4>2. CASE i = 1
        <5>1. CodecConfig' = Chosen(b)
          <6>1. lastConfig' = b
            BY <3>1, <3>2, <4>1, <4>2 DEF CodecNegotiated
          <6>2. QED
            BY <6>1 DEF CodecConfig, Chosen
        <5>2. ASSUME NEW j \in 1 .. Len(queue')
              PROVE queue'[j].kind # "CodecNegotiated"
          <6>1. j + 1 \in i + 1 .. Len(queue) /\ queue'[j] = queue[j + 1]
            BY <1>0, <3>2, <4>2
          <6>2. QED
            BY <4>1, <6>1
        <5>3. QED
          BY <2>0, <5>1, <5>2
      <4>3. CASE i # 1
        <5>1. i - 1 \in 1 .. Len(queue') /\ queue'[i - 1] = queue[i]
          BY <1>0, <3>2, <4>1, <4>3
        <5>2. ASSUME NEW j \in (i - 1) + 1 .. Len(queue')
              PROVE queue'[j].kind # "CodecNegotiated"
          <6>1. j + 1 \in i + 1 .. Len(queue) /\ queue'[j] = queue[j + 1]
            BY <1>0, <3>2, <4>1, <4>3
          <6>2. QED
            BY <4>1, <6>1
        <5>3. QED
          BY <2>0, <4>1, <5>1, <5>2
      <4>4. QED
        BY <4>2, <4>3
    <3>4. CASE /\ \A j \in 1 .. Len(queue) : queue[j].kind # "CodecNegotiated"
               /\ CodecConfig = Chosen(b)
      <4>1. CodecConfig' = Chosen(b)
        <5>1. lastConfig' = lastConfig
          BY <1>0, <3>1, <3>2, <3>4
        <5>2. CodecConfig' = CodecConfig
          BY <5>1 DEF CodecConfig, Chosen
        <5>3. QED
          BY <3>4, <5>2, Zenon
      <4>2. ASSUME NEW j \in 1 .. Len(queue')
            PROVE queue'[j].kind # "CodecNegotiated"
        <5>1. j + 1 \in 1 .. Len(queue) /\ queue'[j] = queue[j + 1]
          BY <1>0, <3>2
        <5>2. QED
          BY <3>4, <5>1
      <4>3. QED
        BY <2>0, <4>1, <4>2
    <3>5. QED
      BY <2>1, <3>3, <3>4
  <2>6. QED
    BY <2>0, <2>3, <2>4, <2>5, QueueStep
<1>4. QED
  BY <1>1, <1>2, <1>3, OnlyTransportStep

\* With one device a stream is started with the configuration of its transport.
LEMMA StreamConfigStep ==
  ASSUME DaemonInv, [CPNext]_allVars, OneDevice
  PROVE StreamUsesNegotiatedConfig'
<1>0. /\ ConfigCurrent /\ StreamUsesNegotiatedConfig /\ NegotiatedFirst
      /\ OneTransportEach
  BY DEF DaemonInv
<1>1. SUFFICES ASSUME NEW g \in Gens, NEW t \in Transports, Live(g)',
                      fd'[g] = t, HasTransport(t)'
               PROVE engineConfig'[g] = Chosen(bluezConfig'[t])
  BY DEF StreamUsesNegotiatedConfig, Chosen
<1>2. CASE g # gen \/ ~CPSpawnThread
  <2>1. /\ fd[g] = t /\ engineConfig'[g] = engineConfig[g] /\ Live(g)
    BY <1>1, <1>2, LiveStep
  <2>2. bluez[t] # "none"
    BY <1>0, <2>1 DEF NegotiatedFirst
  <2>3. HasTransport(t) /\ bluezConfig'[t] = bluezConfig[t]
    BY <1>1, <2>2, OnlyTransportStep DEF SetConfiguration
  <2>4. QED
    BY <1>0, <2>1, <2>3 DEF StreamUsesNegotiatedConfig
<1>3. CASE g = gen /\ CPSpawnThread
  <2>1. target \in Transports /\ ~CodecAfter(0, target) /\ gen \in Gens
    BY <1>3, SpawnTarget
  <2>2. /\ fd'[g] = target /\ engineConfig'[g] = CodecConfig
        /\ bluez' = bluez /\ bluezConfig' = bluezConfig
    BY <1>3, <2>1, DaemonFacts
    DEF CPSpawnThread, SpawnThread, TypeOK, remote, DaemonInv, CPTypeOK
  <2>3. t = target /\ HasTransport(t)
    BY <1>1, <2>2 DEF HasTransport
  <2>4. \A i \in 1 .. Len(queue) : queue[i] # CodecNegotiated(t, bluezConfig[t])
    BY <2>1, <2>3 DEF CodecAfter, CodecNegotiated
  <2>5. CodecConfig = Chosen(bluezConfig[t])
    BY <1>0, <2>3, <2>4 DEF ConfigCurrent
  <2>6. QED
    BY <2>2, <2>3, <2>5
<1>4. QED
  BY <1>2, <1>3

\* The daemon starts in DaemonInv.
LEMMA InitDaemonInv == CPInit => DaemonInv
<1> SUFFICES ASSUME CPInit PROVE DaemonInv
  OBVIOUS
<1>1. IndInv /\ TypeOK
  BY InitIndInv DEF CPInit, IndInv
<1>2. CPTypeOK
  BY <1>1, QueueAssumption DEF CPInit, CPTypeOK, EventsOK, IdleSession,
                               AVDTPState, BluezStates
<1>3. \A t \in Transports : ~HasTransport(t)
  BY DEF CPInit, HasTransport
<1>4. /\ LoopShape /\ SignalShape /\ AcquiredKept /\ SessionKept
      /\ OneTransportEach
  BY <1>3, QueueAssumption DEF CPInit, Init, LoopShape, SignalShape,
       AcquiredKept, SessionKept, OneTransportEach, IdleSession, Handling,
       Starting
<1>5. NegotiatedFirst
  BY TransportAssumption DEF CPInit, Init, NegotiatedFirst
<1>6. UseKept
  BY DEF CPInit, Init, UseKept, InUse, Live, LivePoints, Starting
<1>7. ConfigCurrent /\ StreamUsesNegotiatedConfig
  BY <1>3 DEF ConfigCurrent, StreamUsesNegotiatedConfig
<1>8. QED
  BY <1>1, <1>2, <1>4, <1>5, <1>6, <1>7 DEF DaemonInv

\* The event loop, the runtime and BlueZ agree on which transport is in use,
\* which release is still to come and which configuration is current.
THEOREM DaemonInvariant == CPSpec => []DaemonInv
<1>1. DaemonInv /\ [CPNext]_allVars => DaemonInv'
  BY DaemonTypeStep, LoopShapeStep, SignalStep, UseKeptStep, AcquiredKeptStep,
     SessionKeptStep, OneTransportStep, NegotiatedStep, ConfigCurrentStep,
     StreamConfigStep
  DEF DaemonInv, OneDevice
<1>2. QED
  BY InitDaemonInv, <1>1, PTL DEF CPSpec

\* A stream whose transport BlueZ has cleared is always about to be stopped,
\* for any number of devices.
THEOREM NoOrphanStreamHolds == CPSpec => []NoOrphanStream
<1>1. DaemonInv => NoOrphanStream
  BY DEF DaemonInv, UseKept, InUse, NoOrphanStream
<1>2. QED
  BY <1>1, DaemonInvariant, PTL

\* With one device, every live stream decodes with the configuration that was
\* negotiated for its transport.
THEOREM StreamConfigHolds ==
  ASSUME OneDevice PROVE CPSpec => []StreamUsesNegotiatedConfig
<1>1. DaemonInv => StreamUsesNegotiatedConfig
  BY DEF DaemonInv
<1>2. QED
  BY <1>1, DaemonInvariant, PTL

\* With one device and nothing left to handle, a session in Streaming names
\* the transport that the engine plays.
THEOREM SessionNamesStreamHolds ==
  ASSUME OneDevice PROVE CPSpec => []SessionNamesStream
<1>1. DaemonInv => SessionNamesStream
  <2>1. SUFFICES ASSUME DaemonInv, AtRest, engine # 0,
                        session.state = "Streaming"
                 PROVE session.transport = fd[engine]
    BY DEF SessionNamesStream
  <2>2. \A t \in Transports : ~ReleaseComing(t)
    BY <2>1 DEF AtRest, ReleaseComing, ReleasedAfter
  <2>3. session.transport \in Transports /\ HasTransport(session.transport)
    BY <2>1, <2>2 DEF DaemonInv, SessionKept
  <2>4. fd[engine] \in Transports /\ HasTransport(fd[engine])
    BY <2>1, <2>2 DEF DaemonInv, LoopShape, UseKept, InUse
  <2>5. owner[session.transport] = owner[fd[engine]]
    BY <2>1, <2>3, <2>4 DEF DaemonInv, OneTransportEach, OneDevice
  <2>6. QED
    BY <2>1, <2>3, <2>4, <2>5 DEF DaemonInv, OneTransportEach
<1>2. QED
  BY <1>1, DaemonInvariant, PTL

=============================================================================
