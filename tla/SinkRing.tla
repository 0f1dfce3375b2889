------------------------------ MODULE SinkRing ------------------------------
(***************************************************************************)
(* The PCM path of a sink, sample by sample: push_pcm of bt_reader_loop on *)
(* the BT thread writes decoded frames into the SPSC ring, the CPAL output *)
(* callback on the audio thread takes samples out (engine.rs).             *)
(*                                                                         *)
(* The ring is rtrb's, modelled from its use: a chunk is granted or not as *)
(* a whole, is handed over as two slices when it wraps, and becomes        *)
(* visible to the other side at commit_all.  Copying between PCM buffer    *)
(* and slices is the code's own.  head and tail count the samples taken    *)
(* and written since the ring was created.                                 *)
(***************************************************************************)
EXTENDS Integers, Sequences

CONSTANTS
    Channels,       \* channels of the interleaved PCM
    FrameSamples,   \* samples of one decoded frame, all channels
    Capacity,       \* ring capacity in samples
    Requests,       \* lengths of the buffers CPAL asks to fill
    MaxFrames       \* bound on the frames decoded

ASSUME ChannelAssumption == Channels \in Nat \ {0}
ASSUME FrameAssumption ==
    FrameSamples \in Nat \ {0} /\ FrameSamples % Channels = 0
ASSUME CapacityAssumption == Capacity \in Nat \ {0}
ASSUME RequestAssumption ==
    Requests \subseteq Nat /\ \A n \in Requests : n % Channels = 0
ASSUME MaxFramesAssumption == MaxFrames \in Nat

VARIABLES
    slots,      \* contents of the ring's memory
    head,       \* samples taken
    tail,       \* samples committed
    btpc,       \* "decode" or, with a granted chunk, "copy"
    decoded,    \* frames decoded or concealed so far
    cbpc,       \* "wait" or, after slots(), "fill"
    available,  \* what the callback saw in slots()
    needed,     \* data.len()
    data,       \* the buffer last handed to the device
    overruns,   \* StreamMetrics.overruns
    underruns,  \* StreamMetrics.underruns, as "some"
    accepted,   \* history: the frames that were not dropped, in order
    delivered   \* history: the samples the device got, silence left out

ringVars == <<slots, head, tail>>
btVars == <<btpc, decoded, overruns, accepted>>
cbVars == <<cbpc, available, needed, data, underruns, delivered>>
vars == <<slots, head, tail, btpc, decoded, cbpc, available, needed, data,
          overruns, underruns, accepted, delivered>>

\* The i-th sample (from 0) of decoded frame f; frames count from 1.
Pcm(f, i) == <<f, i>>
Silence == <<0, 0>>

\* Length of the first slice of a chunk of n samples that starts at count p;
\* the rest of the chunk is the second slice, from the start of the memory.
FirstSlice(p, n) ==
    IF n <= Capacity - (p % Capacity) THEN n ELSE Capacity - (p % Capacity)

Init ==
    /\ slots = [a \in 0 .. Capacity - 1 |-> Silence]
    /\ head = 0 /\ tail = 0
    /\ btpc = "decode" /\ decoded = 0
    /\ cbpc = "wait" /\ available = 0 /\ needed = 0
    /\ data = <<>>
    /\ overruns = 0 /\ underruns = FALSE
    /\ accepted = <<>> /\ delivered = <<>>

-----------------------------------------------------------------------------
(* BT thread *)

\* Mutant: a chunk is granted one sample early.
GrantChunkTight ==
    /\ btpc = "decode" /\ decoded < MaxFrames
    /\ Capacity - (tail - head) >= FrameSamples - 1
    /\ decoded' = decoded + 1
    /\ btpc' = "copy"
    /\ UNCHANGED <<ringVars, cbVars, overruns, accepted>>

\* A frame is ready and write_chunk_uninit grants room for all of it.
GrantChunk ==
    /\ btpc = "decode" /\ decoded < MaxFrames
    /\ Capacity - (tail - head) >= FrameSamples
    /\ decoded' = decoded + 1
    /\ btpc' = "copy"
    /\ UNCHANGED <<ringVars, cbVars, overruns, accepted>>

\* There is no room: the whole frame is dropped.
Overrun ==
    /\ btpc = "decode" /\ decoded < MaxFrames
    /\ Capacity - (tail - head) < FrameSamples
    /\ decoded' = decoded + 1
    /\ overruns' = overruns + 1
    /\ UNCHANGED <<ringVars, cbVars, btpc, accepted>>

\* Mutant: the second slice is filled from the start of the frame.
CopySlicesUnshifted(start, f) ==
    LET first == FirstSlice(start, FrameSamples)
        base  == start % Capacity
    IN  [a \in 0 .. Capacity - 1 |->
            IF a \in base .. base + first - 1 THEN Pcm(f, a - base)
            ELSE IF a < FrameSamples - first THEN Pcm(f, a)
            ELSE slots[a]]

\* The memory after frame f is copied into the two slices.
CopySlices(start, f) ==
    LET first == FirstSlice(start, FrameSamples)
        base  == start % Capacity
    IN  [a \in 0 .. Capacity - 1 |->
            IF a \in base .. base + first - 1 THEN Pcm(f, a - base)
            ELSE IF a < FrameSamples - first THEN Pcm(f, first + a)
            ELSE slots[a]]

\* The frame is copied and committed.
CommitFrame ==
    /\ btpc = "copy"
    /\ slots' = CopySlices(tail, decoded)
    /\ tail' = tail + FrameSamples
    /\ accepted' = Append(accepted, decoded)
    /\ btpc' = "decode"
    /\ UNCHANGED <<head, cbVars, decoded, overruns>>

-----------------------------------------------------------------------------
(* Audio thread *)

\* The callback is asked for n samples and looks at slots().
CallbackEnter(n) ==
    /\ cbpc = "wait"
    /\ available' = tail - head
    /\ needed' = n
    /\ cbpc' = "fill"
    /\ UNCHANGED <<ringVars, btVars, data, underruns, delivered>>

\* Mutant: the number of samples to take is what was asked for.
ToReadAll == needed

\* Mutant: one sample is left behind when the ring runs short.
ToReadShort == IF available >= needed \/ available = 0
               THEN IF available = 0 THEN 0 ELSE needed
               ELSE available - 1

\* What read_chunk is asked for.
ToRead == IF available >= needed THEN needed ELSE available

\* The n samples of a granted chunk, first slice then second.
ReadSlices(n) ==
    [i \in 1 .. n |->
        LET first == FirstSlice(head, n)
        IN  IF i <= first THEN slots[(head % Capacity) + i - 1]
                          ELSE slots[i - first - 1]]

\* The device's buffer: the chunk, then silence.
FillBuffer(n) ==
    [i \in 1 .. needed |-> IF i <= n THEN ReadSlices(n)[i] ELSE Silence]

\* The rest of the callback: take the chunk, commit it, fill up with
\* silence, count.
CallbackFill ==
    /\ cbpc = "fill"
    /\ LET n == ToRead
       IN  /\ data' = FillBuffer(n)
           /\ head' = head + n
           /\ delivered' = delivered \o ReadSlices(n)
           /\ underruns' = (underruns \/ n < needed)
    /\ cbpc' = "wait"
    /\ UNCHANGED <<slots, tail, btVars, available, needed>>

-----------------------------------------------------------------------------
BtNext == GrantChunk \/ Overrun \/ CommitFrame
CallbackNext == CallbackFill \/ \E n \in Requests : CallbackEnter(n)

Next == BtNext \/ CallbackNext

Spec == Init /\ [][Next]_vars

-----------------------------------------------------------------------------
(* Properties                                                              *)

\* What the ring's memory, the device's buffer and the history hold.
Samples == (0 .. MaxFrames) \X Nat

TypeOK ==
    /\ slots \in [0 .. Capacity - 1 -> Samples]
    /\ data \in Seq(Samples) /\ delivered \in Seq(Samples)
    /\ accepted \in Seq(0 .. MaxFrames)
    /\ head \in Nat /\ tail \in Nat
    /\ btpc \in {"decode", "copy"}
    /\ decoded \in 0 .. MaxFrames
    /\ cbpc \in {"wait", "fill"}
    /\ available \in Nat
    /\ needed \in Nat
    /\ overruns \in Nat
    /\ underruns \in BOOLEAN

\* The callback looks at slots() and asks for its chunk later, while the BT
\* thread goes on: the chunk is nevertheless always granted, so the branches
\* that play a whole buffer of silence although data is there are dead.
ReadChunkGranted == cbpc = "fill" => ToRead <= tail - head

\* The ring never holds more than its capacity, not even once the chunk
\* granted to the BT thread is committed.
WithinCapacity ==
    /\ 0 <= tail - head /\ tail - head <= Capacity
    /\ btpc = "copy" => tail - head + FrameSamples <= Capacity

\* What the callback saw is still there when it asks for its chunk.
SlotsStillThere == cbpc = "fill" => available <= tail - head

\* The inductive invariant behind the two properties above: the counters
\* alone, with the chunk granted to one thread and the slots seen by the
\* other.
RingInv ==
    /\ head \in Nat /\ tail \in Nat
    /\ available \in Nat /\ needed \in Nat
    /\ WithinCapacity
    /\ SlotsStillThere

\* Both threads always stand at the first channel of an interleaved PCM frame,
\* although the ring's capacity need not be a multiple of the channel count
\* and the callback may take any part of a decoded frame.
CountersAligned ==
    /\ head % Channels = 0 /\ tail % Channels = 0
    /\ cbpc = "fill" => available % Channels = 0 /\ needed % Channels = 0

\* Sample p, from 0, of the frames that were not dropped, end to end.
Sample(p) == Pcm(accepted[p \div FrameSamples + 1], p % FrameSamples)

\* The device gets the accepted frames whole, in order and unmixed, whatever
\* the callback sizes, wherever frames wrap around the end of the ring and
\* however many frames are dropped in between.
InOrder ==
    /\ Len(delivered) = head
    /\ \A i \in 1 .. head : delivered[i] = Sample(i - 1)

\* What was committed and not yet taken is in the ring's memory, each sample
\* where its count says, and none of it is overwritten by a later frame.
UnreadIntact ==
    /\ tail = FrameSamples * Len(accepted)
    /\ \A p \in head .. tail - 1 : slots[p % Capacity] = Sample(p)

\* The inductive invariant of the whole hand-over: counters, memory and
\* history.
HandOverInv ==
    /\ TypeOK
    /\ RingInv
    /\ CountersAligned
    /\ UnreadIntact
    /\ InOrder

\* Every sample comes out on the channel it was decoded for: neither dropped
\* frames nor partly filled buffers shift left and right.
ChannelsAligned ==
    \A i \in 1 .. Len(data) :
        data[i] # Silence => data[i][2] % Channels = (i - 1) % Channels

=============================================================================
