---------------------------- MODULE ControlPlane ----------------------------
(***************************************************************************)
(* The daemon: the Haskell event loop (BT.hs) on top of the Rust runtime   *)
(* (StreamEngine), fed by the BlueZ events of bluez.rs and runtime.rs.     *)
(*                                                                         *)
(* The loop polls one event, runs its handler to the end and polls again;  *)
(* a handler's FFI call may take many engine steps, during which BlueZ and *)
(* the audio threads go on.  Events reach the runtime's channel from two   *)
(* sources that are ordered each, but not with each other: the MediaEndpoint1 *)
(* methods BlueZ calls (CodecNegotiated, TransportReleased) and the D-Bus  *)
(* signals the watcher task forwards (TransportPending, Device...).        *)
(* Volume and AVRCP events do not touch this state and are left out.       *)
(***************************************************************************)
EXTENDS StreamEngine, Sequences

CONSTANTS
    Devices,        \* remote devices
    NoDevice,
    Configs,        \* codec configurations BlueZ may negotiate
    NoConfig,       \* the empty configuration
    DefaultConfig,  \* the SBC configuration used in that case
    MaxQueue,       \* bound on the events BlueZ may leave in the channel
    MaxSignals      \* bound on the signals the watcher has not forwarded

ASSUME ConfigAssumption == NoConfig \notin Configs \cup {DefaultConfig}
ASSUME QueueAssumption == MaxQueue \in Nat /\ MaxSignals \in Nat

INSTANCE AVDTP

VARIABLES
    hpc,            \* where the event loop is
    event,          \* the event being handled
    session,        \* sessionRef
    queue,          \* the runtime's event channel
    lastConfig,     \* Runtime.last_codec_config
    engineConfig,   \* codec_config each BT thread was given
    linked,         \* the connected devices
    bluez,          \* what BlueZ knows of each transport
    bluezConfig,    \* the configuration announced for each transport
    owner,          \* the device of each transport
    signals         \* D-Bus signals on their way to the watcher

haskell == <<hpc, event, session>>
runtime == <<queue, lastConfig, engineConfig>>
remote == <<linked, bluez, bluezConfig, owner, signals>>
allVars == <<vars, haskell, runtime, remote>>

\* A transport is created idle by SetConfiguration, may become pending and
\* active, and is gone after ClearConfiguration; BlueZ numbers transports
\* afresh, so a path never comes back.
BluezStates == {"none", "idle", "pending", "active", "cleared"}
HasTransport(t) == bluez[t] \in {"idle", "pending", "active"}

BlueZEvent(kind, path) == [kind |-> kind, path |-> path, config |-> NoConfig]
CodecNegotiated(t, c) ==
    [kind |-> "CodecNegotiated", path |-> t, config |-> c]
EventKinds == {"DeviceConnected", "DeviceDisconnected", "TransportPending",
               "TransportAcquired", "TransportReleased", "CodecNegotiated"}
NoEvent == BlueZEvent("None", NoTransport)

CPInit ==
    /\ Init
    /\ hpc = "poll"
    /\ event = NoEvent
    /\ session = IdleSession
    /\ queue = <<>>
    /\ lastConfig = NoConfig
    /\ engineConfig = [g \in Gens |-> NoConfig]
    /\ linked = {}
    /\ bluez = [t \in Transports |-> "none"]
    /\ bluezConfig = [t \in Transports |-> NoConfig]
    /\ owner = [t \in Transports |-> NoDevice]
    /\ signals = <<>>

-----------------------------------------------------------------------------
(* BlueZ and the remote device                                             *)

SendSignal(kind, t) ==
    /\ Len(signals) < MaxSignals
    /\ signals' = Append(signals, BlueZEvent(kind, t))

Connect(d) ==
    /\ d \notin linked
    /\ linked' = linked \cup {d}
    /\ SendSignal("DeviceConnected", NoTransport)
    /\ UNCHANGED <<vars, haskell, runtime, bluez, bluezConfig, owner>>

\* BlueZ calls SetConfiguration for a new transport of a device that has
\* none, and waits for the reply, which comes after CodecNegotiated is in
\* the channel.  A Configuration that is missing or cannot be decoded is
\* announced as the empty one.
SetConfiguration(d, t, c) ==
    /\ d \in linked /\ bluez[t] = "none" /\ Len(queue) < MaxQueue
    /\ \A u \in Transports : HasTransport(u) => owner[u] # d
    /\ bluez' = [bluez EXCEPT ![t] = "idle"]
    /\ bluezConfig' = [bluezConfig EXCEPT ![t] = c]
    /\ owner' = [owner EXCEPT ![t] = d]
    /\ queue' = Append(queue, CodecNegotiated(t, c))
    /\ UNCHANGED <<vars, haskell, lastConfig, engineConfig, linked, signals>>

\* The remote starts the stream: State becomes "pending".
BecomePending(t) ==
    /\ bluez[t] = "idle"
    /\ bluez' = [bluez EXCEPT ![t] = "pending"]
    /\ SendSignal("TransportPending", t)
    /\ UNCHANGED <<vars, haskell, runtime, linked, bluezConfig, owner>>

\* The remote suspends: State becomes "idle", which the watcher ignores.
BecomeIdle(t) ==
    /\ bluez[t] \in {"pending", "active"}
    /\ bluez' = [bluez EXCEPT ![t] = "idle"]
    /\ UNCHANGED <<vars, haskell, runtime, linked, bluezConfig, owner,
                   signals>>

\* BlueZ calls ClearConfiguration.
ClearConfiguration(t) ==
    /\ HasTransport(t) /\ Len(queue) < MaxQueue
    /\ bluez' = [bluez EXCEPT ![t] = "cleared"]
    /\ queue' = Append(queue, BlueZEvent("TransportReleased", t))
    /\ UNCHANGED <<vars, haskell, lastConfig, engineConfig, linked,
                   bluezConfig, owner, signals>>

\* The device goes away once its transport is gone.
Disconnect(d) ==
    /\ d \in linked
    /\ \A t \in Transports : HasTransport(t) => owner[t] # d
    /\ linked' = linked \ {d}
    /\ SendSignal("DeviceDisconnected", NoTransport)
    /\ UNCHANGED <<vars, haskell, runtime, bluez, bluezConfig, owner>>

\* start_bluez_watcher forwards the next signal.
Watch ==
    /\ signals # <<>> /\ Len(queue) < MaxQueue
    /\ signals' = Tail(signals)
    /\ queue' = Append(queue, Head(signals))
    /\ UNCHANGED <<vars, haskell, lastConfig, engineConfig, linked, bluez,
                   bluezConfig, owner>>

-----------------------------------------------------------------------------
(* The event loop                                                          *)

\* poll_event: a stream that has ended is reported before any queued event,
\* as the release of its transport.
PollStreamEnd ==
    /\ hpc = "poll"
    /\ PollEvent
    /\ event' = BlueZEvent("TransportReleased", active)
    /\ hpc' = "handle"
    /\ UNCHANGED <<session, runtime, remote>>

\* Mutant: the first configuration negotiated is kept.
PollQueueKeepsConfig ==
    /\ hpc = "poll" /\ cpc = "idle" /\ ~StreamEnded
    /\ queue # <<>>
    /\ event' = Head(queue)
    /\ queue' = Tail(queue)
    /\ lastConfig' = IF Head(queue).kind = "CodecNegotiated"
                         /\ lastConfig = NoConfig
                     THEN Head(queue).config ELSE lastConfig
    /\ hpc' = "handle"
    /\ UNCHANGED <<vars, session, engineConfig, remote>>

\* poll_event: otherwise the next event of the channel.
PollQueue ==
    /\ hpc = "poll" /\ cpc = "idle" /\ ~StreamEnded
    /\ queue # <<>>
    /\ event' = Head(queue)
    /\ queue' = Tail(queue)
    /\ lastConfig' = IF Head(queue).kind = "CodecNegotiated"
                     THEN Head(queue).config ELSE lastConfig
    /\ hpc' = "handle"
    /\ UNCHANGED <<vars, session, engineConfig, remote>>

Handling(kind) == hpc = "handle" /\ event.kind = kind
HandlerDone(s) ==
    /\ hpc' = "poll" /\ event' = NoEvent /\ session' = s
    /\ UNCHANGED <<runtime, remote>>

HandleConnected ==
    /\ Handling("DeviceConnected")
    /\ HandlerDone(session)
    /\ UNCHANGED vars

\* A handler that stops the stream first waits for stop_stream to return.
CallStopStream ==
    /\ hpc' = "stopped"
    /\ StopStream \/ StopStreamNoop
    /\ UNCHANGED <<event, session, runtime, remote>>

HandleDisconnected ==
    /\ Handling("DeviceDisconnected")
    /\ IF IsStreaming
       THEN CallStopStream
       ELSE HandlerDone(DriveEvent(session, AbortEvent)) /\ UNCHANGED vars

\* Mutant: the stream is stopped only if the session says it is streaming.
HandleReleasedBySession ==
    /\ Handling("TransportReleased")
    /\ IF session.state = "Streaming"
       THEN CallStopStream
       ELSE HandlerDone(DriveEvent(session, TransportClosed)) /\ UNCHANGED vars

HandleReleased ==
    /\ Handling("TransportReleased")
    /\ CallStopStream

\* Mutant: the release of a transport leaves the session as it was.
HandleStoppedKeepsSession ==
    /\ hpc = "stopped" /\ cpc = "idle"
    /\ HandlerDone(IF event.kind = "DeviceDisconnected"
                   THEN DriveEvent(session, AbortEvent) ELSE session)
    /\ UNCHANGED vars

\* stop_stream has returned: the session follows, whatever the transport or
\* the device of the event.
HandleStopped ==
    /\ hpc = "stopped" /\ cpc = "idle"
    /\ HandlerDone(DriveEvent(session,
          IF event.kind = "DeviceDisconnected" THEN AbortEvent
                                               ELSE TransportClosed))
    /\ UNCHANGED vars

\* A pending transport is acquired unless something is streaming.
HandlePending ==
    /\ Handling("TransportPending")
    /\ IF IsStreaming
       THEN HandlerDone(session) /\ UNCHANGED vars
       ELSE /\ AcquireAndStart(event.path)
            /\ hpc' = "acquired"
            /\ UNCHANGED <<event, session, runtime, remote>>

\* acquireAndStart has returned; an error is only printed.
HandlePendingDone ==
    /\ hpc = "acquired" /\ cpc = "idle"
    /\ HandlerDone(session)
    /\ UNCHANGED vars

HandleAcquired ==
    /\ Handling("TransportAcquired")
    /\ HandlerDone(DriveEvent(DriveEvent(session, TransportOpened(event.path)),
                              StreamStarted))
    /\ UNCHANGED vars

HandleCodec ==
    /\ Handling("CodecNegotiated")
    /\ HandlerDone(DriveEvent(session, CodecConfigured))
    /\ UNCHANGED vars

-----------------------------------------------------------------------------
(* The runtime's part of a call in progress, and the audio threads          *)

\* BlueZ grants Acquire only in the pending state; TransportAcquired is in
\* the channel before the engine starts.
CPAcquireReply ==
    /\ AcquireReply
    /\ bluez[target] = "pending"
    /\ bluez' = [bluez EXCEPT ![target] = "active"]
    /\ queue' = Append(queue, BlueZEvent("TransportAcquired", target))
    /\ UNCHANGED <<haskell, lastConfig, engineConfig, linked, bluezConfig,
                   owner, signals>>

\* The configuration used for one that was announced.
Chosen(c) == IF c = NoConfig THEN DefaultConfig ELSE c
CodecConfig == Chosen(lastConfig)

\* The thread is given the configuration acquire_and_start chose.
CPSpawnThread ==
    /\ SpawnThread
    /\ engineConfig' = [engineConfig EXCEPT ![gen] = CodecConfig]
    /\ UNCHANGED <<haskell, queue, lastConfig, remote>>

CPPublishEngine ==
    /\ PublishEngine
    /\ lastConfig' = engineConfig[gen]
    /\ UNCHANGED <<haskell, queue, engineConfig, remote>>

RuntimeStep ==
    \/ CPAcquireReply \/ CPSpawnThread \/ CPPublishEngine
    \/ /\ \/ AcquireFailed \/ AcquireReturn \/ BuildAudio
          \/ BuildAudioFailed \/ SpawnThreadFailed \/ Joined
       /\ UNCHANGED <<haskell, runtime, remote>>

CPBtStep(g) == BtStep(g) /\ UNCHANGED <<haskell, runtime, remote>>
CPBtIoReturn(g) == BtIoReturn(g) /\ UNCHANGED <<haskell, runtime, remote>>
CPAudioCallback(g) == AudioCallback(g) /\ UNCHANGED <<haskell, runtime, remote>>

BluezStep ==
    \/ \E d \in Devices :
          \/ Connect(d) \/ Disconnect(d)
          \/ \E t \in Transports, c \in Configs \cup {NoConfig} :
                SetConfiguration(d, t, c)
    \/ \E t \in Transports :
          BecomePending(t) \/ BecomeIdle(t) \/ ClearConfiguration(t)

LoopStep ==
    \/ PollStreamEnd \/ PollQueue
    \/ HandleConnected \/ HandleDisconnected \/ HandleReleased
    \/ HandleStopped \/ HandlePending \/ HandlePendingDone
    \/ HandleAcquired \/ HandleCodec

CPNext ==
    \/ BluezStep \/ Watch \/ LoopStep \/ RuntimeStep
    \/ \E g \in Gens : CPBtStep(g) \/ CPBtIoReturn(g) \/ CPAudioCallback(g)

\* The event loop runs forever, the runtime's tasks and threads are
\* scheduled, Acquire is answered and I/O on the descriptor returns (it is
\* non-blocking, or the peer keeps sending).  BlueZ may do nothing at all.
CPFairness ==
    /\ WF_allVars(LoopStep)
    /\ WF_allVars(RuntimeStep)
    /\ WF_allVars(Watch)
    /\ \A g \in Gens : WF_allVars(CPBtStep(g)) /\ WF_allVars(CPBtIoReturn(g))

CPSpec == CPInit /\ [][CPNext]_allVars /\ CPFairness

-----------------------------------------------------------------------------
(* Properties                                                              *)

\* An event names a transport wherever its handler uses one.
BlueZEvents ==
    {e \in [kind : EventKinds, path : Transports \cup {NoTransport},
            config : Configs \cup {NoConfig}] :
        e.kind = "TransportPending" => e.path \in Transports}

EventsOK ==
    /\ queue \in Seq(BlueZEvents)
    /\ signals \in Seq(BlueZEvents)
    /\ event \in BlueZEvents \cup {NoEvent}

CPTypeOK ==
    /\ TypeOK
    /\ EventsOK
    /\ hpc \in {"poll", "handle", "stopped", "acquired"}
    /\ session \in [state : AVDTPState,
                    transport : Transports \cup {NoTransport}]
    /\ Len(queue) <= MaxQueue + 1
    /\ lastConfig \in Configs \cup {NoConfig, DefaultConfig}
    /\ engineConfig \in [Gens -> Configs \cup {NoConfig, DefaultConfig}]
    /\ linked \subseteq Devices
    /\ bluez \in [Transports -> BluezStates]
    /\ bluezConfig \in [Transports -> Configs \cup {NoConfig}]
    /\ owner \in [Transports -> Devices \cup {NoDevice}]
    /\ Len(signals) <= MaxSignals

\* Nothing is left to handle.
AtRest == hpc = "poll" /\ queue = <<>> /\ signals = <<>>

\* The release of t is in the channel behind its first i events.
ReleasedAfter(i, t) ==
    \E j \in i + 1 .. Len(queue) :
        queue[j].kind = "TransportReleased" /\ queue[j].path = t

\* The release of t is in the channel or in the hands of its handler.
ReleaseComing(t) ==
    \/ ReleasedAfter(0, t)
    \/ hpc \in {"handle", "stopped"} /\ event.kind = "TransportReleased"

\* A stream never outlives its transport unnoticed: once BlueZ has cleared
\* the transport of a live stream, its release is still to be handled.
NoOrphanStream ==
    \A g \in Gens : \A t \in Transports :
        Live(g) /\ fd[g] = t /\ ~HasTransport(t) => ReleaseComing(t)

\* With one device, a live stream decodes with the configuration announced
\* for its transport, or the default if none was, although the runtime keeps
\* one configuration for all transports, writes the default into it, and
\* reads it long after the transport became pending.  (With two devices this
\* need not hold.)
StreamUsesNegotiatedConfig ==
    \A g \in Gens : \A t \in Transports :
        Live(g) /\ fd[g] = t /\ HasTransport(t) =>
            engineConfig[g] = Chosen(bluezConfig[t])

\* With nothing left to handle, a session in Streaming names the transport the
\* engine plays, also after the device has come back with a new transport.
SessionNamesStream ==
    AtRest /\ engine # 0 /\ session.state = "Streaming" =>
        session.transport = fd[engine]

-----------------------------------------------------------------------------
(* The inductive invariant behind the three properties above               *)

OneDevice == \A d, e \in Devices : d = e

\* Points at which a call to acquire and start a stream is in progress.
Starting == {"acquiring", "acquired", "restarting", "starting", "playing",
             "spawned"}

\* Which runtime call goes with which point of the event loop, and what the
\* call works on; Acquire's answer always finds room in the channel.
LoopShape ==
    /\ hpc \in {"poll", "handle"} => cpc = "idle"
    /\ hpc = "stopped" => cpc \in {"idle", "stopping"} /\ engine = 0
    /\ hpc = "acquired" => /\ event.kind = "TransportPending"
                           /\ cpc \in Starting \cup {"idle"}
                           /\ cpc # "idle" => target = event.path
    /\ cpc = "spawned" => fd[gen] = target /\ engineConfig[gen] = CodecConfig
    /\ engine # 0 => fd[engine] \in Transports
    /\ cpc = "acquiring" \/ Handling("TransportPending") =>
          Len(queue) <= MaxQueue

\* Only the endpoint methods and Acquire put the other events in the channel.
SignalShape ==
    \A i \in 1 .. Len(signals) :
        signals[i].kind \in {"DeviceConnected", "DeviceDisconnected",
                            "TransportPending"}

\* A transport the runtime plays, or is about to, is there or its release is
\* still to be handled.
InUse(t) ==
    \/ \E g \in Gens : Live(g) /\ fd[g] = t
    \/ engine # 0 /\ fd[engine] = t
    \/ cpc \in Starting \ {"acquiring"} /\ target = t
UseKept ==
    \A t \in Transports : InUse(t) => HasTransport(t) \/ ReleaseComing(t)

\* The same for a transport whose acquisition the session has yet to learn,
\* with the release behind it in the channel, and for the session's own.
AcquiredKept ==
    /\ \A i \in 1 .. Len(queue) :
          queue[i].kind = "TransportAcquired" =>
              /\ queue[i].path \in Transports
              /\ HasTransport(queue[i].path) \/ ReleasedAfter(i, queue[i].path)
    /\ Handling("TransportAcquired") =>
          /\ event.path \in Transports
          /\ HasTransport(event.path) \/ ReleasedAfter(0, event.path)

SessionKept ==
    /\ session.state \in {"Idle", "Configured", "Streaming"}
    /\ session.state = "Streaming" =>
          /\ session.transport \in Transports
          /\ HasTransport(session.transport) \/ ReleaseComing(session.transport)

\* A device has one transport at a time.
OneTransportEach ==
    /\ \A t \in Transports : HasTransport(t) => owner[t] \in Devices
    /\ \A t, u \in Transports :
          HasTransport(t) /\ HasTransport(u) /\ owner[t] = owner[u] => t = u

CodecAfter(i, t) ==
    \E j \in i + 1 .. Len(queue) :
        queue[j].kind = "CodecNegotiated" /\ queue[j].path = t

\* The signal that a transport is pending travels apart from the method call
\* that negotiated its codec, and never overtakes it.
NegotiatedFirst ==
    /\ \A i \in 1 .. Len(signals) :
          signals[i].kind = "TransportPending" => bluez[signals[i].path] # "none"
    /\ \A i \in 1 .. Len(queue) :
          queue[i].kind = "TransportPending" =>
              bluez[queue[i].path] # "none" /\ ~CodecAfter(i, queue[i].path)
    /\ hpc \in {"handle", "acquired"} /\ event.kind = "TransportPending" =>
          bluez[event.path] # "none" /\ ~CodecAfter(0, event.path)
    /\ \A g \in Gens : fd[g] \in Transports => bluez[fd[g]] # "none"

\* The configuration of the one transport is the last one in the channel, or
\* the runtime will use it.
ConfigCurrent ==
    \A t \in Transports : HasTransport(t) =>
        \/ \E i \in 1 .. Len(queue) :
              /\ queue[i] = CodecNegotiated(t, bluezConfig[t])
              /\ \A j \in i + 1 .. Len(queue) : queue[j].kind # "CodecNegotiated"
        \/ /\ \A j \in 1 .. Len(queue) : queue[j].kind # "CodecNegotiated"
           /\ CodecConfig = Chosen(bluezConfig[t])

DaemonInv ==
    /\ CPTypeOK
    /\ IndInv
    /\ LoopShape
    /\ SignalShape
    /\ UseKept
    /\ AcquiredKept
    /\ SessionKept
    /\ OneTransportEach
    /\ NegotiatedFirst
    /\ OneDevice => ConfigCurrent /\ StreamUsesNegotiatedConfig

-----------------------------------------------------------------------------
\* A handler always finishes, so the loop comes back to poll.
LoopReturns == (hpc # "poll") ~> (hpc = "poll")

\* Once its transport is cleared, a stream ends.
ClearedStreamEnds ==
    \A g \in Gens : \A t \in Transports :
        (Live(g) /\ fd[g] = t /\ ~HasTransport(t)) ~> ~Live(g)

\* ROADMAP.md:91 on a BT thread that exits: "The Haskell event loop should
\* detect this and clean up state."  With nothing left to handle, a stream
\* that ended and was taken down leaves no session in Streaming.
EndedStreamCleanedUp ==
    AtRest /\ engine = 0 /\ gen # 0 /\ bt[gen] = "done" =>
        session.state # "Streaming"

=============================================================================
