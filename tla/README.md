# DeMoD BT: verification of the daemon

TLA+ models, TLC runs and TLAPS proofs for the Bluetooth audio daemon in this
repository: a Rust data plane (`rust/src`) driven by a Haskell control plane
(`haskell/src`) through a C interface. Paths below are relative to the
repository root; `PROJECT.json` maps every definition to its source lines.

## 1. Inventory

| Component | State | Operations | Interacts with |
|---|---|---|---|
| Stream management (`runtime.rs`, `ffi.rs`) | `engine`, `active_transport`, `last_codec_config`, event channel | `acquire_and_start`, `start_stream`, `stop_stream`, `poll_event`, `is_streaming`, `shutdown` | called by the event loop; starts and joins engine threads; D-Bus calls to BlueZ |
| Audio engine (`engine.rs`) | per stream: stop flag, ring, BT thread, CPAL stream, volume | reader loop, writer loop, output and input callback | shares ring and atomics between BT thread, audio thread and control thread |
| Pipeline and metrics (`transport.rs`) | `stream_generation`, `StreamMetrics` (one for all generations) | `create_stream_buffers` | engine, `poll_event` |
| SBC codec (`codec.rs`, `sbc_ffi.rs`) | `last_pcm`, `plc_consecutive` | `decode_frame`, `plc`, `encode_frame` | BT thread; libsbc |
| Event loop (`BT.hs`, `FFI.hs`) | `sessionRef` | one handler per event, polled at 20 Hz | FFI calls, one at a time |
| AVDTP session (`AVDTP.hs`) | typed session | `driveEvent` and six transitions | event loop |
| BlueZ layer (`bluez.rs`, watcher in `runtime.rs`) | event channel | `SetConfiguration`, `ClearConfiguration`, `SelectConfiguration`, signal watcher | BlueZ calls and signals, unordered with each other |
| Volume (`runtime.rs`, `engine.rs`, `ffi.rs`) | `last_volume_sent`, engine volume | `set_volume`, `set_volume_remote`, `get_volume` | BlueZ transport volume and its echo |
| Registration (`runtime.rs`, `ffi.rs`, `bluez.rs`, `compat.rs`) | connection and its clones, adapter path, SCMS-T, bitpool cap | `demod_bt_init`, `enumerate_adapter`, `register` with one retry, `shutdown` | BlueZ; the watcher task |
| AVRCP (`avrcp.rs`, `AVRCP.hs`) | `PlaybackInfo` | player methods, metadata updates, `parseCommand`, `handleCommand` | event channel |
| DCF (`dcf.rs`, `dcf_server.rs`, `DCF.hs`) | counters, sessions | header and frame codecs, fragmentation, server loop | pipeline (optional) |
| BLE MIDI (`ble_midi.rs`) | broadcast channel, handle | start, send, stop, notify loop | BlueZ GATT |
| Utilities (`audio.rs`) | jitter target, resampler phase | pure steps | not called by the engine |

What is hard here: three kinds of thread share atomics without a lock, and the
metrics outlive the stream they describe; a stop waits for a thread that may be
blocked in a read; a stream can die at any point of its own start; the runtime's
event channel mixes two unordered sources, and `poll_event` puts a synthetic
event in front of both; the ring is lock-free and its capacity is no multiple of
a frame; reads cut frames anywhere. A volume exists three times and every copy can
change; a registration is six D-Bus steps on a connection that several owners share; a
broadcast channel drops what a slow reader has not taken. `PROJECT.json` lists each hazard at its line.

## 2. Modules

**StreamEngine** is the core: the control thread inside a `Runtime` method, the
BT threads and the CPAL callbacks. A stream is a *generation* (`create_stream_buffers`
counts them); `bt[g]`, `stopFlag[g]`, `audio[g]`, `ring[g]` and `fd[g]` are its thread,
flag, audio stream, ring and descriptor. `cpc` is the point the control thread has
reached. A call is cut into steps exactly where another thread can observe or
disturb it: the wait for `Acquire()`, the drop of the owned descriptor, `play()`, the
spawn, the store of `running`, the join. `EnterStartStream`, `BeginStop` and `Joined`
are shared by the calls that contain them, as in the code. A ring holds frames,
rounded up for a sink and down for a source, which is what "does a frame fit" and
"is there a frame" ask. `Direction` selects reader or writer.

**AVDTP** has the session transitions and `driveEvent` as operators.

**ControlPlane** extends StreamEngine with the event loop, the session, the event
channel, the configuration a stream is started with, and BlueZ: devices that connect
and leave, transports that are configured, become pending or idle and are cleared.
Handlers are atomic except around FFI calls that take time, where `hpc` waits while
everybody else moves. Method calls enter the channel directly and signals through the
watcher, so a `DeviceDisconnected` may be overtaken by the next `CodecNegotiated`.
BlueZ's own rules (`Acquire` is granted only in "pending"; a transport path is not used
again; a device has one transport and loses it before it disconnects) are assumptions
about an external service. A `SetConfiguration` without a usable configuration announces the
empty one; `acquire_and_start` then uses its default, which becomes the runtime's
`last_codec_config` when the stream has started.

**SinkRing** is the PCM path of a sink sample by sample: `push_pcm` and the output
callback over an rtrb ring with its two slices, each thread's check and commit being
separate steps.

**FrameSync** is the byte path of the reader: reassembly across reads, byte-wise
resynchronisation, `decode_frame` and `plc`. libsbc is external, and one thing is assumed of
it: where a whole frame starts (`FrameAt`) it decodes that frame and consumes its length.
Anywhere else `Consumes` lets it refuse or accept any number of the bytes there, because its
CRC covers only the header and the scale factors: a cut or damaged frame may decode and take
the start of the next one with it. All frames have the length `frame_length()` reported at
the start; a sender that changes its bitpool in the stream is outside the model. A PCM frame
carries the bytes it was decoded from and the place in the stream at which it was made (`at`,
which the code does not keep), so that properties can say which bytes it stands for.

**StreamService** is the abstract specification of stream management: a descriptor is
granted, and it becomes the source of at most one stream, which starts only when no other
is alive and under a new number; or it is discarded. No threads, no calls in progress, no
metrics. **StreamRefinement** holds the mapping: a descriptor is granted from the reply to
`Acquire` (or the call of `start_stream`) until the thread is spawned, and a stream is alive
while its BT thread is. `ImplementsService` is the statement.

**VolumeSync** extends StreamEngine with the three copies of the volume: the engine's
atomic, `last_volume_sent` and BlueZ's per transport. `set_volume` waits for BlueZ
(`sending`); changes at BlueZ, the echo of a local one included, come back in order as
`VolumeChanged` (`notices`, `polled`). The code's event does not name its transport; the
model keeps it only to state the property, and `agreed` is a history variable.

**Negotiation** has version detection, the bitpool cap and `select_configuration` as
operators. A flag byte is the set of what it offers, and a chain of tests on it is a
sequence of preferences.

**Registration** extends Negotiation with `demod_bt_init`, the steps of `register()`,
`demod_bt_shutdown` and the player's `PlaybackInfo`. A D-Bus connection is open while
somebody holds a clone of it (`holders`): the call in progress, the runtime, the watcher, or
a watcher that was cancelled and has not been dropped yet. Every step of `register()` can
fail as in the code. BlueZ is external: it forgets the endpoints of a closed connection
after a while, and those of a removed adapter at once. A remote device reads `Track` and
`Position` in any order (each getter takes the lock for itself, also under `GetAll`); `view`
holds what it knows and which of the two it read last.

**BleMidi** has the three MIDI calls, the task that brings the peripheral up and waits for
its shutdown, and one notify task per subscription. The broadcast channel is external: a
receiver that is more than `Capacity` messages behind gets an error.

**Dcf** has `packetize`, `fragment_audio`, `control_message` and `deserialize` with the
widths of their fields as constants. A control message has a payload of any length, which
the code does not compare with the payload size. The wire may lose, cut, repeat and reorder packets of
the last `Window` frames. The repository contains no reassembly; the properties say that
the header allows one.

`MC*` modules add symmetry sets and the byte streams for TLC; `*Proofs` modules hold the
theorems. Operators whose comment starts with "Mutant:" are deliberately wrong variants
of the next definition; they are not used by any specification and serve to show that
each property can fail.

## 3. Runs

| Run | Bounds | Checks |
|---|---|---|
| `engine_sink` | 3 generations, 2 transports, ring of 2 | the inductive invariant, `SingleBtThread`, `QuietWithoutEngine`, `NotRunningMeansFinished`, `OnlyNewestPlays`, and the refinement `ImplementsService` |
| `engine_source` | 2 generations, 1 transport, ring of 2, I/O returns | `StopReturns`, `PlayedEndReported` for the writer (its safety is proved, for both directions) |
| `daemon` | 1 device, 2 transports, 2 configurations and the empty one, 2 generations, 3 events and 2 signals in flight | the inductive invariant `DaemonInv`, `NoOrphanStream`, `StreamUsesNegotiatedConfig`, `SessionNamesStream` |
| `daemon_live` | as above with the empty configuration only, 2 events, 1 signal | `LoopReturns`, `ClearedStreamEnds` |
| `sink_ring` | stereo, 7 frames of 4 samples through a ring of 9, callbacks of 2, 4 and 6 samples | the inductive invariant `HandOverInv`, no overflow (`WithinCapacity`), `ReadChunkGranted`, `CountersAligned`, `InOrder`, `ChannelsAligned` |
| `frame_sync` | all streams of up to 4 segments (whole, cut, damaged, stray), frame length 3, reads of 1 to 4, any verdict of libsbc where no whole frame starts | the inductive invariant `SyncInv`, `BytesConsumedOnce`, `IntactFramesDecoded`, `FadeOnlyDown` |
| `volume_sync` | 2 generations, 2 transports, volumes 0 and 1, words modulo 3, 2 changes in flight | `VSInv`, `OffVolumeOnlyWhileStarting`, `VolumesConverge` |
| `registration` | 2 connections, 2 adapters, 2 tracks, 4 environments, 6 peers around both caps | `RInv`, `NoHalfRegistration`, `ScmsTAsRegistered`, `SecondReadNotOlder`, `NegotiationSound`, `ShutdownForgets` |
| `ble_midi` | 2 subscriptions, capacity 2, 4 messages | `MInv`, `GapFree`, `Delivered`, `MidiStopReturns` |
| `dcf` | 7 frames of 0 to 3 fragments and a control message one byte longer than the payload size; fields modulo 4, 6 and 5; window of 3 frames | the inductive invariant `WireInv` with `PacketsFit`, `Reassembles`, `SequenceTells` |

Why the bounds suffice: three generations let a stream be replaced while the one before
it is still ending and be replaced again; two transports let the release of the old one
meet the stream of the new one; a ring of 9 with frames of 4 wraps at every offset
within seven frames; reads longer and shorter than a frame meet every cut position. Two
volumes and three requests are enough for equal, different, clipped and wrapped values;
two connections for a second registration beside the watcher of the first; four messages
over a capacity of two for a receiver that falls behind and one that keeps up; seven frames
for identifiers (modulo 6) and sequence numbers (modulo 5) to wrap while packets of earlier
frames are still on their way. `Reassembles` needs only that the window is no longer than
the range of identifiers, 65536 in the code. Capacity, generation and queue bounds are
constants, so larger ones only need a cfg. Transports and configurations are only compared,
so the safety runs permute them; the runs with temporal properties use no symmetry.

What some properties say, beyond their comments:

- `StreamUsesNegotiatedConfig`. The negotiated codec enters the channel by a method call and
  the signal that the transport is pending by the watcher, in any order with other devices'
  events; with one device (`OneDevice`) a live stream still decodes with its own transport's
  configuration (the default, if none was usable), always, also while its release is on the
  way. With two devices it does not.
- `BytesConsumedOnce` and `IntactFramesDecoded` relate the PCM frames to places of the stream:
  the first says that they tile it, whatever libsbc accepts. The second says that a frame that
  arrived whole is decoded in its place, with one exception: libsbc accepted bytes at an
  earlier place, where no whole frame starts, that reach into it. Resynchronisation and the
  cuts of reads lose nothing by themselves.
- `SecondReadNotOlder`. A title and a position read one by one may belong to different tracks,
  but only in the direction of time: what was read last is of the same track or a later one
  (a position may also be 0, the start of whatever plays).
- `WireInv` bounds audio packets only (`PacketsFit`): they are what `fragment_audio` cuts to
  size. Control messages are numbered with them and otherwise free.
- `VolumesConverge`. An old remote change may undo a newer local one, but BlueZ announces
  every change of value, the local one included, so after the last announcement both sides
  hold the same. It does not hold after a failed `SetVolume`, which is only logged, nor
  after the change of another transport has been applied; `agreed` names exactly these.
- `OffVolumeOnlyWhileStarting` states the size of the window in which a new stream is heard
  at full volume: from `play()` to the end of `start_stream`, and nowhere else.
- `ShutdownForgets`. `shutdown_background` does not wait for the watcher, whose clone keeps
  the connection open; it is cancelled at its next await and BlueZ then forgets us.
- `GapFree` and `Delivered` together: a host either gets every message since it subscribed or
  sees its notifications end. It never misses a message and goes on.

### Divergences

Two runs show where the code does not do what a line of the repository says (quotes under
"findings" in `PROJECT.json`):

- `engine_fd`: the descriptor is closed when `acquire_transport` returns, before the
  BT thread uses its number.
- `daemon_stale_session`: the synthetic release overtakes `TransportAcquired`, and the
  session stays in Streaming.

Others were met while modelling and have no run:

- `running = true` is stored after the spawn (`engine.rs:214`) and can undo the `false` of a
  thread that has already exited; `is_streaming` then answers for a dead stream.
- Acquiring while an engine is in place forgets the new transport: `start_stream` stops the
  old engine through `stop_stream`, which clears `active_transport` (`runtime.rs:500`, `539`).
- A stream that ends before anything was played is never reported (`runtime.rs:421`), though
  `engine.rs:370-372` says that `poll_event` detects it. A writer whose error is not
  `BrokenPipe` (`engine.rs:502`) never ends by itself.
- With two devices a stream is decoded with the configuration negotiated last
  (`runtime.rs:541`), the release of one transport stops the stream of another
  (`BT.hs:141`), a transport that becomes pending while another streams is never acquired
  (`BT.hs:121`), and a volume change of one is applied to the other (`runtime.rs:378`).
- With a silent peer and a blocking descriptor `StopReturns` fails under `Spec` (the fairness
  of I/O in `IoSpec` is what it needs), while `FFI.hs:5-6` says that calls "complete quickly".
- A pending transport is acquired without a look at the session (`BT.hs:116-126`).
- The attenuation of consecutive concealment frames adds up (shifts 1, 3, 6, ...) where
  `codec.rs:310` says 6 dB each, and the reader pushes one concealment frame per byte it
  skips (`engine.rs:348-353`), not one per lost frame.
- A cut or damaged frame that libsbc accepts consumes bytes of the intact frame behind it,
  which is then lost (`engine.rs:338-347` trusts the consumed count).
- A remote device that reads `Position` before `Track`, with a metadata update in between, shows
  the old track's position beside the new title (`avrcp.rs:166-182`).
- `enumerate_adapter` returns the first adapter of a hash map, powered or not
  (`runtime.rs:166-169`); its comment says "the first powered adapter's object path".
- `select_configuration` may choose a bitpool up to 76 although the endpoint is registered
  with one fixed set of capabilities for every version; it looks only at the peer's range,
  not at "that intersection" (`bluez.rs:146`).
- A second `register()` replaces the connection but not the first watcher, so events come
  twice. An endpoint that BlueZ has forgotten with its adapter is never registered again.
- After the MIDI task has died, `demod_bt_midi_start` and `demod_bt_midi_send` still return 0.
- `fragment_audio` checks neither that a frame has at most 255 fragments nor that the payload
  size exceeds the fragment header (`dcf.rs:236`, `255`); `FieldAssumption` excludes both.
  `control_message` checks no payload against the size either (`dcf.rs:322-326`), and the
  model lets it exceed it.

### Fairness

`Fairness` of StreamEngine: the control thread and the BT threads are scheduled (weak
fairness of their steps), BlueZ or the D-Bus timeout answers `Acquire`, and `eventLoop`
runs `forever` and polls between its other calls (strong fairness of `PollEvent`, because
other calls may disable it in between). Nothing obliges the peer to send: `BtIoReturn` is
fair only in `IoSpec` and `CPSpec`, which describe a descriptor whose I/O returns. BlueZ
and the remote device are never obliged to do anything, and no fairness is asked of the
audio callbacks.

`RFairness`: tokio drops a cancelled task, and the bus tells BlueZ that a client has left.
`MFairness`: the single-worker runtime of the peripheral runs every task that is ready, and
BlueZ answers the calls of `start` and `run`; callers and hosts may do nothing for good, but
a notification in progress is taken or fails. VolumeSync and Dcf have safety properties only.

Deadlock is checked in every run but never reached: the control thread can always make a
call, a byte stream that is used up stutters, packets keep arriving.

## 4. Proofs

All theorems hold for every value of the constants that satisfies the named assumptions
(`TransportAssumption`, `DirectionAssumption`, `BoundAssumption`; in SinkRing that frames
and callback buffers are whole PCM frames of all channels; in VolumeSync that a word is wider
than the scale; in Registration that the fallback adapter is one, and that the caps are
ordered; in BleMidi that the capacity is not 0; in FrameSync that a frame has a byte; in Dcf
that the header's fields can express the frame lengths, and that no more frames are under
way than there are identifiers). Two theorems of ControlPlaneProofs have the hypothesis
`OneDevice`, because the code's properties are false without it (section 3).

- **StreamEngineProofs.** The safety properties are not inductive: that a new thread is
  alone needs that the old one was joined, which depends on where each call is.
  `IndInv` adds `ControlShape` (which control points go with a handle, a join and a spare
  generation), `OwnedThreads` and `OwnedAudio` (a live thread or audio stream is the newest
  generation's and is held by the engine, the join in progress or the start in progress).
  `StepIndInv` has one case per action. `SingleBtThread`, `QuietWithoutEngine`,
  `NotRunningMeansFinished` and `OnlyNewestPlays` follow from it.
- **ControlPlaneProofs.** `DaemonImplementsEngine`: each step of the daemon is a step of
  StreamEngine or leaves its variables alone, so whatever is proved of the runtime under
  arbitrary calls holds in the daemon (`DaemonSingleBtThread`, `DaemonImplementsService`). It
  needs `EventsOK`, an invariant of the channel: a
  `TransportPending` always names a transport, so the handler's call is a legal one.
  `DaemonInv` is the inductive invariant of the event loop, the channel, the watcher and BlueZ
  together, for any number of devices. `LoopShape` says which runtime call goes with which
  point of the loop; `UseKept`, `AcquiredKept` and `SessionKept` say that a transport somebody
  relies on (a thread, a call in progress, an event not yet handled, the session) exists or
  has its release still ahead, behind the event that relies on it; `NegotiatedFirst` and
  `ConfigCurrent` follow a configuration from BlueZ through the channel to the runtime. None
  of the three properties is inductive alone: `NoOrphanStream` needs to know of a stream that
  is still being started, `StreamUsesNegotiatedConfig` of the order of events in the channel,
  and `SessionNamesStream` of all that the session has not yet been told.
  `NoOrphanStream` is proved for any number of devices, the other two for one.
- **SinkRingProofs.** `RingInv` (counters, the chunk granted, the slots seen) gives
  `WithinCapacity` and `ReadChunkGranted`; `CountersAligned` is inductive together with it
  and rests on two lemmas about multiples. `HandOverInv` adds what the memory holds:
  `UnreadIntact` says that slot `p % Capacity` has sample `p` of the accepted frames for every
  count `p` between head and tail. The copy of a frame in two slices keeps it because
  `WithinCapacity` bounds the distance of the two counters (`WrapOnce`, `CopyKeepsUnread`,
  `CopyWritesFrame`); `InOrder` and `ChannelsAligned` follow for every capacity, frame size
  and sequence of callbacks.
- **FrameSyncProofs.** `SyncInv`: source and leftover are windows of the stream (`Buffered`);
  the PCM frames pushed follow each other without gap or overlap up to the bytes consumed
  (`Tiled`); a decoded one has the bytes the stream holds at its place, and where a whole frame
  starts that frame was decoded (`Genuine`); the concealment state is the last frame pushed until silence sets in (`Concealment`).
  `IntactFramesDecoded` then follows: the first byte of a whole frame lies in some PCM frame
  (`Tiled`); if that one starts there, it is the frame (`Genuine`); if not, it is longer than
  a byte, so it was decoded, and from no whole frame, because whole frames do not overlap
  (`FramesApart`). The statement avoids selecting from a sequence, which would need induction over data.
- **DcfProofs.** `WireInv`: identifiers and sequence numbers are frames and packets counted
  modulo the widths (`Numbered`), and an audio packet is the piece its header says, no field
  having wrapped (`Fragmented`). `Reassembles` needs that two frames under way never share an
  identifier (`CloseModulo`, `OneFrame`) and that a byte lies in one chunk (`OneChunkEach`);
  `SequenceTells` is arithmetic of remainders (`DistanceModulo`).
- **Refinement**, in StreamEngineProofs. `EngineImplementsService`: under `IndInv` the mapped initial state
  is the service's, and every step is one of its steps or a stutter. The step that matters is
  the spawn: `OwnedThreads` gives that no thread is alive, and generations only grow.
- **VolumeSyncProofs.** `VSInv` adds to `IndInv` that the newest unapplied change of a transport
  carries BlueZ's value (`NewestIsCurrent`) and that a call in progress is for the active
  transport with the stored value (`SendingShape`). Without the first, applying a change says
  nothing of the ones behind it. Engine steps are handled once, through `OtherStep`.
- **RegistrationProofs.** `RInv` says how far the connection of a call has come at each step
  (`CallShape`), who may hold which connection (`HolderShape`), and that positions and views
  follow the tracks and no view is ahead of its player (`InfoShape`), from which
  `SecondReadNotOlder` follows for either order of the reads. `EveryPeerAnswered` needs that a chain of tests finds a value
  that is offered (`PreferOffered`) and interval reasoning on the bitpool; it holds for every
  set of peers, every cap and every version.
- **BleMidiProofs.** `SubShape` ties the receiver's cursor to the number of messages received,
  which makes `GapFree` inductive for any capacity and any number of hosts.

Every invariant a run checks is proved. Only model-checked: everything temporal under fairness
(`StopReturns`, `PlayedEndReported`, `LoopReturns`, `ClearedStreamEnds`, `ShutdownForgets`,
`Delivered`, `MidiStopReturns`), which TLAPS does not treat; and the two divergences, which are
counterexamples. The refinement `ImplementsService` is both proved and checked by TLC.

## 5. Not modelled, and what is left

Not modelled, and staying so: libsbc, LC3 and AAC bindings, logging, the command line,
`BlueZ.hs` (unused helpers), packaging; `dcf_server.rs`, which is not part of the build;
`audio.rs`, which nothing calls; the AVRCP commands, which end in a log line, and the status
string. The endpoint's map of transports is left out because nothing reads it, and CRC-8
because nothing checks it. The watcher is assumed to receive BlueZ's signals on its
connection: no match rule is added in the code shown.

Left, in this order:

1. The source path at sample level, sharing the ring with SinkRing.
2. A specification for two devices, once the code says which one it prefers.
