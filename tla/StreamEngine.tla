---------------------------- MODULE StreamEngine ----------------------------
(***************************************************************************)
(* Stream management of the Rust runtime (runtime.rs) together with the    *)
(* threads of the audio engine it starts (engine.rs).                      *)
(*                                                                         *)
(* Three kinds of thread run concurrently:                                 *)
(*   - the control thread, which executes one FFI call at a time; a call   *)
(*     that waits (D-Bus Acquire, join) or that other threads can observe  *)
(*     half done (start_sink) is several steps, told apart by cpc;         *)
(*   - one BT thread per stream generation (bt_reader_loop of a sink,      *)
(*     bt_writer_loop of a source), at bt[g];                              *)
(*   - the CPAL callback of each generation, alive while audio[g].         *)
(* They share the ring, the stop flag of the generation, and the atomics   *)
(* running and frames_processed of StreamMetrics, which all generations    *)
(* share.                                                                  *)
(*                                                                         *)
(* Data is abstracted: a ring holds a number of codec frames, and of       *)
(* frames_processed only "is it above zero" (played) is ever tested.       *)
(***************************************************************************)
EXTENDS Naturals

CONSTANTS
    Transports,     \* D-Bus paths of BlueZ media transports
    NoTransport,    \* active_transport = None
    RawFd,          \* a descriptor that the caller of start_stream opened
    Direction,      \* StreamDirection of the pipeline
    MaxGen,         \* bound: how many stream generations are allocated
    RingCap         \* ring capacity in codec frames

ASSUME TransportAssumption ==
    NoTransport \notin Transports /\ RawFd \notin Transports \cup {NoTransport}
ASSUME DirectionAssumption == Direction \in {"Sink", "Source"}
ASSUME BoundAssumption == MaxGen \in Nat \ {0} /\ RingCap \in Nat \ {0}

Gens == 1 .. MaxGen

VARIABLES
    cpc,        \* where the control thread is inside a Runtime method
    target,     \* whose descriptor the call in progress acquires or starts
    engine,     \* Runtime.engine: generation of the handle, 0 for None
    joining,    \* generation of the handle that stop() is joining, or 0
    active,     \* Runtime.active_transport
    gen,        \* AudioPipeline.stream_generation
    bt,         \* program point of each generation's BT thread
    stopFlag,   \* EngineHandle.stop_flag of each generation
    audio,      \* does the generation's cpal::Stream exist?
    ring,       \* frames in the generation's ring buffer
    fd,         \* bt_fd each generation's BT thread was given
    openFds,    \* transports whose descriptor this process holds open
    running,    \* StreamMetrics.running
    played      \* StreamMetrics.frames_processed > 0

control == <<cpc, target, engine, joining, active, gen, fd, openFds>>
vars == <<cpc, target, engine, joining, active, gen, bt, stopFlag, audio,
          ring, fd, openFds, running, played>>

\* Control points: "idle" between calls; "acquiring" waits for the reply to
\* Acquire, "acquired" holds the reply; "stopping", "restarting" and
\* "closing" wait in join() for stop_stream, start_stream and shutdown;
\* "starting", "playing" and "spawned" are inside start_stream; "down" after
\* demod_bt_shutdown.
Joins == {"stopping", "restarting", "closing"}
ControlPoints == {"idle", "acquiring", "acquired", "starting", "playing",
                  "spawned", "down"} \cup Joins

\* BT thread points: "init" creates the codec, "check" is the top of the
\* loop, "io" is inside read() or write_all(), "ending" has left the loop.
LivePoints == {"init", "check", "io", "ending"}
BtPoints == LivePoints \cup {"none", "done"}

Live(g) == bt[g] \in LivePoints

Init ==
    /\ cpc = "idle"
    /\ target = NoTransport
    /\ engine = 0
    /\ joining = 0
    /\ active = NoTransport
    /\ gen = 0
    /\ bt = [g \in Gens |-> "none"]
    /\ stopFlag = [g \in Gens |-> FALSE]
    /\ audio = [g \in Gens |-> FALSE]
    /\ ring = [g \in Gens |-> 0]
    /\ fd = [g \in Gens |-> NoTransport]
    /\ openFds = {}
    /\ running = FALSE
    /\ played = FALSE

-----------------------------------------------------------------------------
(* Control thread: Runtime methods                                         *)

\* Mutant: stop() joins without raising stop_flag.
BeginStopUnflagged(next) ==
    /\ engine' = 0
    /\ joining' = engine
    /\ cpc' = next
    /\ UNCHANGED stopFlag

\* EngineHandle::stop up to the join: the handle leaves Runtime.engine, its
\* flag is raised and the caller waits at point "next" for the BT thread.
BeginStop(next) ==
    /\ engine' = 0
    /\ joining' = engine
    /\ stopFlag' = [stopFlag EXCEPT ![engine] = TRUE]
    /\ cpc' = next

\* stop_stream with a handle to stop.
StopStream ==
    /\ cpc = "idle" /\ engine # 0
    /\ BeginStop("stopping")
    /\ UNCHANGED <<target, active, gen, bt, audio, ring, fd, openFds,
                   running, played>>

\* stop_stream without one returns at once.
StopStreamNoop ==
    /\ cpc = "idle" /\ engine = 0
    /\ UNCHANGED vars

\* Mutant: the handle is dropped without waiting for its thread.
JoinedEarly ==
    /\ cpc \in Joins
    /\ audio' = [audio EXCEPT ![joining] = FALSE]
    /\ joining' = 0
    /\ active' = NoTransport
    /\ \/ cpc = "stopping" /\ cpc' = "idle"
       \/ cpc = "restarting" /\ cpc' = "starting"
       \/ cpc = "closing" /\ cpc' = "down"
    /\ UNCHANGED <<target, engine, gen, bt, stopFlag, ring, fd, openFds,
                   running, played>>

\* join() returned: the handle is dropped, its cpal::Stream with it, and
\* stop_stream forgets the transport.  start_stream and shutdown go on.
Joined ==
    /\ cpc \in Joins
    /\ bt[joining] = "done"
    /\ audio' = [audio EXCEPT ![joining] = FALSE]
    /\ joining' = 0
    /\ active' = NoTransport
    /\ \/ cpc = "stopping" /\ cpc' = "idle"
       \/ cpc = "restarting" /\ cpc' = "starting"
       \/ cpc = "closing" /\ cpc' = "down"
    /\ UNCHANGED <<target, engine, gen, bt, stopFlag, ring, fd, openFds,
                   running, played>>

\* Mutant: start_stream does not stop an existing engine.
EnterStartStreamBeside ==
    /\ cpc' = "starting"
    /\ UNCHANGED <<engine, joining, stopFlag>>

\* The first lines of start_stream: an existing engine is stopped first.
EnterStartStream ==
    IF engine # 0
    THEN BeginStop("restarting")
    ELSE /\ cpc' = "starting"
         /\ UNCHANGED <<engine, joining, stopFlag>>

\* start_stream called directly with a descriptor of the caller's.
StartStream ==
    /\ cpc = "idle" /\ gen < MaxGen
    /\ target' = RawFd
    /\ EnterStartStream
    /\ UNCHANGED <<active, gen, bt, audio, ring, fd, openFds, running,
                   played>>

\* acquire_and_start sends Acquire() and blocks on the reply.
AcquireAndStart(t) ==
    /\ cpc = "idle"
    /\ target' = t
    /\ cpc' = "acquiring"
    /\ UNCHANGED <<engine, joining, active, gen, bt, stopFlag, audio, ring,
                   fd, openFds, running, played>>

\* Acquire() failed: TransportNotReady or TransportAcquire is returned.
AcquireFailed ==
    /\ cpc = "acquiring"
    /\ cpc' = "idle"
    /\ UNCHANGED <<target, engine, joining, active, gen, bt, stopFlag, audio,
                   ring, fd, openFds, running, played>>

\* BlueZ answered with a descriptor; acquire_transport keeps its number and
\* announces TransportAcquired.
AcquireReply ==
    /\ cpc = "acquiring" /\ gen < MaxGen
    /\ openFds' = openFds \cup {target}
    /\ cpc' = "acquired"
    /\ UNCHANGED <<target, engine, joining, active, gen, bt, stopFlag, audio,
                   ring, fd, running, played>>

\* acquire_transport returns, which drops the OwnedFd and closes it; then
\* active_transport is set and start_stream entered.
AcquireReturn ==
    /\ cpc = "acquired"
    /\ openFds' = openFds \ {target}
    /\ active' = target
    /\ EnterStartStream
    /\ UNCHANGED <<target, gen, bt, audio, ring, fd, running, played>>

\* create_stream_buffers: a new generation with a fresh ring, and all
\* metrics reset.
CreateStreamBuffers ==
    /\ gen' = gen + 1
    /\ ring' = [ring EXCEPT ![gen + 1] = 0]
    /\ running' = FALSE
    /\ played' = FALSE

\* start_sink / start_source up to play(): the callback is running.
BuildAudio ==
    /\ cpc = "starting"
    /\ CreateStreamBuffers
    /\ audio' = [audio EXCEPT ![gen + 1] = TRUE]
    /\ cpc' = "playing"
    /\ UNCHANGED <<target, engine, joining, active, bt, stopFlag, fd, openFds>>

\* No device, or the stream cannot be built or played: start_stream returns
\* EngineStart and the generation is lost.
BuildAudioFailed ==
    /\ cpc = "starting"
    /\ CreateStreamBuffers
    /\ cpc' = "idle"
    /\ UNCHANGED <<target, engine, joining, active, bt, stopFlag, audio, fd,
                   openFds>>

\* thread::Builder::spawn succeeded: the BT thread runs from here on.
SpawnThread ==
    /\ cpc = "playing"
    /\ bt' = [bt EXCEPT ![gen] = "init"]
    /\ fd' = [fd EXCEPT ![gen] = target]
    /\ cpc' = "spawned"
    /\ UNCHANGED <<target, engine, joining, active, gen, stopFlag, audio,
                   ring, openFds, running, played>>

\* spawn failed: the local audio stream is dropped with the error.
SpawnThreadFailed ==
    /\ cpc = "playing"
    /\ audio' = [audio EXCEPT ![gen] = FALSE]
    /\ cpc' = "idle"
    /\ UNCHANGED <<target, engine, joining, active, gen, bt, stopFlag, ring,
                   fd, openFds, running, played>>

\* Mutant: running is never set.
PublishEngineSilent ==
    /\ cpc = "spawned"
    /\ engine' = gen
    /\ cpc' = "idle"
    /\ UNCHANGED <<target, joining, active, gen, bt, stopFlag, audio, ring,
                   fd, openFds, running, played>>

\* running is stored after the spawn, and start_stream keeps the handle.
PublishEngine ==
    /\ cpc = "spawned"
    /\ running' = TRUE
    /\ engine' = gen
    /\ cpc' = "idle"
    /\ UNCHANGED <<target, joining, active, gen, bt, stopFlag, audio, ring,
                   fd, openFds, played>>

\* poll_event's test for an engine that has died after playing something.
StreamEnded == engine # 0 /\ ~running /\ played

\* Mutant: the end is only reported while a transport is known.
PollEventKnownTransport ==
    /\ cpc = "idle"
    /\ StreamEnded /\ active # NoTransport
    /\ engine' = 0
    /\ stopFlag' = [stopFlag EXCEPT ![engine] = TRUE]
    /\ audio' = [audio EXCEPT ![engine] = FALSE]
    /\ active' = NoTransport
    /\ UNCHANGED <<cpc, target, joining, gen, bt, ring, fd, openFds, running,
                   played>>

\* Mutant: any engine that has played is dropped, running or not.
PollEventRunning ==
    /\ cpc = "idle"
    /\ engine # 0 /\ played
    /\ engine' = 0
    /\ stopFlag' = [stopFlag EXCEPT ![engine] = TRUE]
    /\ audio' = [audio EXCEPT ![engine] = FALSE]
    /\ active' = NoTransport
    /\ UNCHANGED <<cpc, target, joining, gen, bt, ring, fd, openFds, running,
                   played>>

\* poll_event finds that a stream which has played is no longer running: it
\* drops the handle (flag and audio stream, no join) and reports a synthetic
\* TransportReleased for active_transport.
PollEvent ==
    /\ cpc = "idle" /\ StreamEnded
    /\ engine' = 0
    /\ stopFlag' = [stopFlag EXCEPT ![engine] = TRUE]
    /\ audio' = [audio EXCEPT ![engine] = FALSE]
    /\ active' = NoTransport
    /\ UNCHANGED <<cpc, target, joining, gen, bt, ring, fd, openFds, running,
                   played>>

\* demod_bt_shutdown takes the runtime and stops the stream; later calls
\* find no runtime.
Shutdown ==
    /\ cpc = "idle"
    /\ IF engine # 0
       THEN BeginStop("closing")
       ELSE cpc' = "down" /\ UNCHANGED <<engine, joining, stopFlag>>
    /\ UNCHANGED <<target, active, gen, bt, audio, ring, fd, openFds,
                   running, played>>

\* "FFI call before init": every call is refused.
CallWithoutRuntime ==
    /\ cpc = "down"
    /\ UNCHANGED vars

\* Runtime::is_streaming
IsStreaming == engine # 0 /\ running

-----------------------------------------------------------------------------
(* BT thread of generation g                                               *)

BtGoto(g, point) == bt' = [bt EXCEPT ![g] = point]

CodecCreated(g) ==
    /\ bt[g] = "init"
    /\ BtGoto(g, "check")
    /\ UNCHANGED <<control, stopFlag, audio, ring, running, played>>

\* create_codec rejects the configuration: the thread returns.
CodecFailed(g) ==
    /\ bt[g] = "init"
    /\ running' = FALSE
    /\ BtGoto(g, "done")
    /\ UNCHANGED <<control, stopFlag, audio, ring, played>>

\* Top of either loop: leave it once stop_flag is set.
StopSeen(g) ==
    /\ bt[g] = "check" /\ stopFlag[g]
    /\ BtGoto(g, "ending")
    /\ UNCHANGED <<control, stopFlag, audio, ring, running, played>>

\* A sink calls read(), which returns only when a Read action does.
EnterRead(g) ==
    /\ Direction = "Sink"
    /\ bt[g] = "check" /\ ~stopFlag[g]
    /\ BtGoto(g, "io")
    /\ UNCHANGED <<control, stopFlag, audio, ring, running, played>>

\* Some bytes arrived.  They complete n frames, which are pushed one by one
\* while they fit; a frame that does not fit is dropped.
ReadData(g) ==
    /\ Direction = "Sink" /\ bt[g] = "io"
    /\ \E n \in 0 .. RingCap :
          ring' = [ring EXCEPT ![g] = IF @ + n <= RingCap THEN @ + n
                                                          ELSE RingCap]
    /\ BtGoto(g, "check")
    /\ UNCHANGED <<control, stopFlag, audio, running, played>>

\* Interrupted or WouldBlock: back to the top of the loop.
ReadRetry(g) ==
    /\ Direction = "Sink" /\ bt[g] = "io"
    /\ BtGoto(g, "check")
    /\ UNCHANGED <<control, stopFlag, audio, ring, running, played>>

\* End of file or any other error.
ReadEnd(g) ==
    /\ Direction = "Sink" /\ bt[g] = "io"
    /\ BtGoto(g, "ending")
    /\ UNCHANGED <<control, stopFlag, audio, ring, running, played>>

\* A source yields while the ring holds less than a frame.  It takes a frame
\* and writes it, unless the encoder refuses it.
TakeFrame(g) ==
    /\ Direction = "Source"
    /\ bt[g] = "check" /\ ~stopFlag[g] /\ ring[g] > 0
    /\ ring' = [ring EXCEPT ![g] = @ - 1]
    /\ \E point \in {"io", "check"} : BtGoto(g, point)
    /\ UNCHANGED <<control, stopFlag, audio, running, played>>

\* write_all succeeded, or failed with an error that is only logged.
WriteReturned(g) ==
    /\ Direction = "Source" /\ bt[g] = "io"
    /\ BtGoto(g, "check")
    /\ UNCHANGED <<control, stopFlag, audio, ring, running, played>>

WriteBrokenPipe(g) ==
    /\ Direction = "Source" /\ bt[g] = "io"
    /\ BtGoto(g, "ending")
    /\ UNCHANGED <<control, stopFlag, audio, ring, running, played>>

\* After the loop: the descriptor is left alone and running is cleared.
ThreadExit(g) ==
    /\ bt[g] = "ending"
    /\ running' = FALSE
    /\ BtGoto(g, "done")
    /\ UNCHANGED <<control, stopFlag, audio, ring, played>>

\* CPAL output callback of a sink: it plays what the ring can fill of its
\* request, which may be part of a frame.  With an empty ring it only counts
\* an underrun.
OutputCallback(g) ==
    /\ Direction = "Sink"
    /\ audio[g] /\ ring[g] > 0
    /\ \E left \in 0 .. ring[g] : ring' = [ring EXCEPT ![g] = left]
    /\ played' = TRUE
    /\ UNCHANGED <<control, bt, stopFlag, audio, running>>

\* CPAL input callback of a source: it pushes its block, which may complete
\* no frame or several, or drops it with a count when it does not fit.
InputCallback(g) ==
    /\ Direction = "Source"
    /\ audio[g]
    /\ \E n \in ring[g] .. RingCap : ring' = [ring EXCEPT ![g] = n]
    /\ played' = TRUE
    /\ UNCHANGED <<control, bt, stopFlag, audio, running>>

AudioCallback(g) == OutputCallback(g) \/ InputCallback(g)

-----------------------------------------------------------------------------
\* Steps of a call in progress that need nobody but BlueZ's reply.
ControlStep ==
    \/ AcquireFailed \/ AcquireReply \/ AcquireReturn
    \/ BuildAudio \/ BuildAudioFailed
    \/ SpawnThread \/ SpawnThreadFailed \/ PublishEngine

\* Calls the control plane may make.
ControlCall ==
    \/ StopStream \/ StopStreamNoop \/ StartStream \/ Shutdown
    \/ CallWithoutRuntime
    \/ \E t \in Transports : AcquireAndStart(t)

\* Steps of a BT thread that do not wait for the peer, and those that do.
BtStep(g) ==
    \/ CodecCreated(g) \/ CodecFailed(g) \/ StopSeen(g)
    \/ EnterRead(g) \/ TakeFrame(g) \/ ThreadExit(g)
BtIoReturn(g) ==
    \/ ReadData(g) \/ ReadRetry(g) \/ ReadEnd(g)
    \/ WriteReturned(g) \/ WriteBrokenPipe(g)

Next ==
    \/ ControlCall \/ ControlStep \/ Joined \/ PollEvent
    \/ \E g \in Gens : BtStep(g) \/ BtIoReturn(g) \/ AudioCallback(g)

\* The threads are scheduled, BlueZ or the D-Bus timeout answers Acquire, and
\* eventLoop polls forever between its other calls.  Nothing makes the peer
\* send: a read may block for good.
Fairness ==
    /\ SF_vars(PollEvent)
    /\ WF_vars(ControlStep)
    /\ WF_vars(Joined)
    /\ \A g \in Gens : WF_vars(BtStep(g))

Spec == Init /\ [][Next]_vars /\ Fairness

\* The same with a descriptor on which I/O always returns: a non-blocking
\* one, or a peer that keeps sending.
IoSpec == Spec /\ \A g \in Gens : WF_vars(BtIoReturn(g))

-----------------------------------------------------------------------------
(* Properties                                                              *)

TypeOK ==
    /\ cpc \in ControlPoints
    /\ target \in Transports \cup {NoTransport, RawFd}
    /\ engine \in 0 .. MaxGen
    /\ joining \in 0 .. MaxGen
    /\ active \in Transports \cup {NoTransport}
    /\ gen \in 0 .. MaxGen
    /\ bt \in [Gens -> BtPoints]
    /\ stopFlag \in [Gens -> BOOLEAN]
    /\ audio \in [Gens -> BOOLEAN]
    /\ ring \in [Gens -> 0 .. RingCap]
    /\ fd \in [Gens -> Transports \cup {NoTransport, RawFd}]
    /\ openFds \subseteq Transports
    /\ running \in BOOLEAN
    /\ played \in BOOLEAN

\* Reconnection never leaves two BT threads alive: start_stream joins the old
\* one, and poll_event drops a handle only once its thread is past its loop.
SingleBtThread ==
    \A g, h \in Gens : Live(g) /\ Live(h) => g = h

\* Whenever the control thread is between calls and holds no engine, no BT
\* thread and no audio stream survives: stop_stream, shutdown, every failed
\* start and poll_event's drop without a join clean up completely.
QuietWithoutEngine ==
    cpc \in {"idle", "down"} /\ engine = 0 =>
        \A g \in Gens : ~Live(g) /\ ~audio[g]

\* The metrics are shared by all generations, so a late store of an old
\* thread could end a new stream.  It never does: if the engine in place is
\* not running, it is its own thread that has finished.
NotRunningMeansFinished ==
    engine # 0 /\ ~running => bt[engine] = "done"

\* A callback of an earlier generation never counts into the metrics of a
\* later one: only the newest generation can have an audio stream.
OnlyNewestPlays ==
    \A g \in Gens : audio[g] => g = gen

\* Who may still hold the BT thread of generation g: the engine, the join in
\* progress, or the start that has just spawned it.
Owned(g) ==
    \/ g = engine
    \/ g = joining
    \/ cpc = "spawned" /\ g = gen

\* Every live thread is owned, and only the newest generation can have one.
OwnedThreads ==
    \A g \in Gens : Live(g) => Owned(g) /\ g = gen

\* Every audio stream is the newest generation's and has an owner.
OwnedAudio ==
    \A g \in Gens :
        audio[g] => g = gen /\ (Owned(g) \/ cpc = "playing")

\* Which points of a call go with a handle in place, a join in progress, a
\* transport to acquire, and room for one more generation.
ControlShape ==
    /\ engine # 0 => engine = gen /\ cpc \in {"idle", "acquiring", "acquired"}
    /\ joining # 0 => joining = gen /\ cpc \in Joins
    /\ cpc \in Joins => joining # 0
    /\ cpc \in {"playing", "spawned"} => gen # 0
    /\ cpc \in {"acquiring", "acquired"} => target \in Transports
    /\ cpc \in {"acquired", "restarting", "starting"} => gen < MaxGen

\* The inductive invariant behind the safety properties: a thread of an
\* earlier generation is never alive, so the shared metrics speak of the
\* newest one only.
IndInv ==
    /\ TypeOK
    /\ ControlShape
    /\ OwnedThreads
    /\ OwnedAudio
    /\ NotRunningMeansFinished

\* stop() waits for the BT thread to exit, and the thread does exit.
StopReturns == (cpc \in Joins) ~> (cpc \notin Joins)

\* A stream that has played and ended is taken down: poll_event reports it,
\* or another call replaces the engine.
PlayedEndReported ==
    \A g \in Gens :
        (engine = g /\ ~running /\ played) ~> (engine # g)

\* engine.rs:367: "Don't close the fd; it belongs to BlueZ."  A BT thread
\* inside read() or write_all() uses a descriptor that is still open.
IoOnOpenFd ==
    \A g \in Gens : bt[g] = "io" => fd[g] \in openFds \cup {RawFd}

=============================================================================
