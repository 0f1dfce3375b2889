--------------------------- MODULE SinkRingProofs ---------------------------
(* Safety of the SPSC hand-over of SinkRing for every ring size, frame     *)
(* size and sequence of callback sizes.                                    *)
EXTENDS SinkRing, TLAPS

\* A product is a multiple of its factor.
LEMMA ProductMultiple ==
  ASSUME NEW c \in Nat \ {0}, NEW q \in Int
  PROVE (c * q) % c = 0
<1> DEFINE n == c * q
           s == n \div c
           r == n % c
<1>1. n = c * s + r /\ r \in 0 .. c - 1 /\ s \in Int
  OBVIOUS
<1>2. n = c * q
  OBVIOUS
<1> HIDE DEF n, s, r
<1>3. r = c * (q - s) /\ r \in 0 .. c - 1
  BY <1>1, <1>2
<1>4. CASE q - s >= 1
  <2>1. c * (q - s) >= c
    BY <1>1, <1>4
  <2>2. QED
    BY <1>3, <2>1
<1>5. CASE q - s <= -1
  <2>1. c * (q - s) <= -c
    BY <1>1, <1>5
  <2>2. QED
    BY <1>3, <2>1
<1>6. CASE q = s
  BY <1>1, <1>2, <1>6 DEF r, n
<1>7. QED
  BY <1>1, <1>4, <1>5, <1>6

\* Sums and differences of multiples are multiples.
LEMMA MultipleSum ==
  ASSUME NEW c \in Nat \ {0}, NEW a \in Int, NEW b \in Int,
         a % c = 0, b % c = 0
  PROVE (a + b) % c = 0 /\ (a - b) % c = 0
<1>1. a = c * (a \div c) /\ b = c * (b \div c)
  OBVIOUS
<1>2. a \div c \in Int /\ b \div c \in Int
  OBVIOUS
<1>3. a + b = c * ((a \div c) + (b \div c))
  BY <1>1, <1>2
<1>4. a - b = c * ((a \div c) - (b \div c))
  BY <1>1, <1>2
<1>5. (a \div c) + (b \div c) \in Int /\ (a \div c) - (b \div c) \in Int
  BY <1>2
<1>6. /\ (c * ((a \div c) + (b \div c))) % c = 0
      /\ (c * ((a \div c) - (b \div c))) % c = 0
  BY <1>5, ProductMultiple, Zenon
<1>7. QED
  BY <1>3, <1>4, <1>6, Zenon

\* A fresh ring is empty.
LEMMA InitRingInv == Init => RingInv
  BY CapacityAssumption DEF Init, RingInv, WithinCapacity, SlotsStillThere

\* Each thread's step keeps RingInv: the BT thread only adds samples, so what
\* the callback saw stays; the callback only takes samples, so the room that
\* was granted stays.
LEMMA StepRingInv == RingInv /\ [Next]_vars => RingInv'
<1> SUFFICES ASSUME RingInv, [Next]_vars PROVE RingInv'
  OBVIOUS
<1> USE CapacityAssumption, FrameAssumption, RequestAssumption
<1> USE DEF RingInv, WithinCapacity, SlotsStillThere
<1>1. CASE GrantChunk
  BY <1>1 DEF GrantChunk, ringVars, cbVars
<1>2. CASE Overrun
  BY <1>2 DEF Overrun, ringVars, cbVars
<1>3. CASE CommitFrame
  BY <1>3 DEF CommitFrame, cbVars
<1>4. CASE \E n \in Requests : CallbackEnter(n)
  BY <1>4 DEF CallbackEnter, ringVars, btVars
<1>5. CASE CallbackFill
  <2>1. ToRead \in Nat /\ ToRead <= available
    BY DEF ToRead
  <2>2. head' = head + ToRead /\ tail' = tail /\ cbpc' = "wait" /\ btpc' = btpc
    BY <1>5 DEF CallbackFill, btVars
  <2>3. available' = available /\ needed' = needed /\ cbpc = "fill"
    BY <1>5 DEF CallbackFill
  <2>4. QED
    BY <2>1, <2>2, <2>3
<1>6. CASE UNCHANGED vars
  BY <1>6 DEF vars
<1>7. QED
  BY <1>1, <1>2, <1>3, <1>4, <1>5, <1>6 DEF Next, BtNext, CallbackNext

\* RingInv holds in every reachable state of the ring.
THEOREM RingInvHolds == Spec => []RingInv
<1>1. QED
  BY InitRingInv, StepRingInv, PTL DEF Spec

\* The ring never exceeds its capacity.
THEOREM WithinCapacityHolds == Spec => []WithinCapacity
<1>1. RingInv => WithinCapacity
  BY DEF RingInv
<1>2. QED
  BY <1>1, RingInvHolds, PTL

\* The callback's read_chunk is always granted.
THEOREM ReadChunkGrantedHolds == Spec => []ReadChunkGranted
<1>1. RingInv => ReadChunkGranted
  BY DEF RingInv, SlotsStillThere, ReadChunkGranted, ToRead
<1>2. QED
  BY <1>1, RingInvHolds, PTL

\* A fresh ring starts at a whole PCM frame.
LEMMA InitAligned == Init => CountersAligned
  BY ChannelAssumption DEF Init, CountersAligned

\* Whole decoded frames are pushed or dropped, and the callback takes what it
\* was asked for or all that it saw: both are multiples of the channel count.
LEMMA StepAligned ==
  RingInv /\ CountersAligned /\ [Next]_vars => CountersAligned'
<1> SUFFICES ASSUME RingInv, CountersAligned, [Next]_vars
             PROVE CountersAligned'
  OBVIOUS
<1> USE ChannelAssumption, FrameAssumption, RequestAssumption
<1> USE DEF CountersAligned
<1>a. head \in Nat /\ tail \in Nat /\ available \in Nat /\ needed \in Nat
  BY DEF RingInv
<1>b. head \in Int /\ tail \in Int /\ FrameSamples \in Int
  BY <1>a
<1>1. CASE GrantChunk
  BY <1>1 DEF GrantChunk, ringVars, cbVars
<1>2. CASE Overrun
  BY <1>2 DEF Overrun, ringVars, cbVars
<1>3. CASE CommitFrame
  <2>1. (tail + FrameSamples) % Channels = 0
    BY <1>b, MultipleSum, Zenon
  <2>2. QED
    BY <1>3, <2>1 DEF CommitFrame, cbVars
<1>4. CASE \E n \in Requests : CallbackEnter(n)
  <2>1. (tail - head) % Channels = 0
    BY <1>b, MultipleSum, Zenon
  <2>2. QED
    BY <1>4, <2>1 DEF CallbackEnter, ringVars
<1>5. CASE CallbackFill
  <2>1. ToRead \in Int /\ ToRead % Channels = 0
    BY <1>5, <1>a DEF ToRead, CallbackFill
  <2>2. (head + ToRead) % Channels = 0
    BY <1>b, <2>1, MultipleSum, Zenon
  <2>3. head' = head + ToRead /\ tail' = tail /\ cbpc' = "wait"
    BY <1>5 DEF CallbackFill
  <2>4. QED
    BY <2>2, <2>3
<1>6. CASE UNCHANGED vars
  BY <1>6 DEF vars
<1>7. QED
  BY <1>1, <1>2, <1>3, <1>4, <1>5, <1>6 DEF Next, BtNext, CallbackNext

\* Reader and writer of the ring always stand at the first channel.
THEOREM CountersAlignedHolds == Spec => []CountersAligned
<1>1. QED
  BY InitAligned, StepAligned, RingInvHolds, PTL DEF Spec

-----------------------------------------------------------------------------
(* The contents of the ring.                                               *)

\* Quotient and remainder are determined by n = c * q + r with r below c.
LEMMA DivisionUnique ==
  ASSUME NEW c \in Nat \ {0}, NEW q \in Int, NEW r \in 0 .. c - 1
  PROVE (c * q + r) % c = r /\ (c * q + r) \div c = q
<1> DEFINE n == c * q + r
           s == n \div c
           t == n % c
<1>1. n = c * s + t /\ t \in 0 .. c - 1 /\ s \in Int
  OBVIOUS
<1>2. n = c * q + r
  OBVIOUS
<1> HIDE DEF n, s, t
<1>3. t - r = c * (q - s)
  BY <1>1, <1>2
<1>4. CASE q - s >= 1
  <2>1. c * (q - s) >= c
    BY <1>1, <1>4
  <2>2. QED
    BY <1>1, <1>3, <2>1
<1>5. CASE q - s <= -1
  <2>1. c * (q - s) <= -c
    BY <1>1, <1>5
  <2>2. QED
    BY <1>1, <1>3, <2>1
<1>6. CASE q = s
  <2>1. t = r
    BY <1>1, <1>2, <1>6
  <2>2. QED
    BY <1>6, <2>1 DEF s, t, n
<1>7. QED
  BY <1>1, <1>4, <1>5, <1>6

\* Moving on by no more than the size of the ring wraps around at most once.
LEMMA WrapOnce ==
  ASSUME NEW c \in Nat \ {0}, NEW p \in Nat, NEW i \in 0 .. c
  PROVE /\ p % c \in 0 .. c - 1
        /\ (p + i) % c = IF (p % c) + i < c THEN (p % c) + i
                                           ELSE (p % c) + i - c
<1> DEFINE q == p \div c
           r == p % c
<1>1. p = c * q + r /\ r \in 0 .. c - 1 /\ q \in Int
  OBVIOUS
<1> HIDE DEF q, r
<1>2. CASE r + i < c
  <2>1. r + i \in 0 .. c - 1 /\ p + i = c * q + (r + i)
    BY <1>1, <1>2
  <2>2. (c * q + (r + i)) % c = r + i
    BY <1>1, <2>1, DivisionUnique, Zenon
  <2>3. QED
    BY <1>1, <1>2, <2>1, <2>2 DEF r
<1>3. CASE ~(r + i < c)
  <2>1. r + i - c \in 0 .. c - 1 /\ q + 1 \in Int
    BY <1>1, <1>3
  <2>2. p + i = c * (q + 1) + (r + i - c)
    BY <1>1
  <2>3. (c * (q + 1) + (r + i - c)) % c = r + i - c
    BY <2>1, DivisionUnique, Zenon
  <2>4. QED
    BY <1>1, <1>3, <2>2, <2>3 DEF r
<1>4. QED
  BY <1>2, <1>3

\* A position within a frame has the channel of the position in the stream.
LEMMA ChannelOfRemainder ==
  ASSUME NEW c \in Nat \ {0}, NEW f \in Nat \ {0}, f % c = 0, NEW p \in Nat
  PROVE (p % f) % c = p % c
<1> DEFINE q == p \div f
           r == p % f
           k == f \div c
           s == r \div c
           t == r % c
<1>1. p = f * q + r /\ r \in 0 .. f - 1 /\ q \in Int
  OBVIOUS
<1>2. f = c * k /\ k \in Int
  OBVIOUS
<1>3. r = c * s + t /\ t \in 0 .. c - 1 /\ s \in Int
  BY <1>1
<1> HIDE DEF q, r, k, s, t
<1>4. p = c * (k * q + s) + t /\ k * q + s \in Int
  <2>1. f * q = c * (k * q)
    BY <1>1, <1>2
  <2>2. k * q \in Int
    BY <1>1, <1>2
  <2>3. DEFINE m == k * q
  <2> HIDE DEF m
  <2>4. p = c * m + (c * s + t)
    BY <1>1, <1>3, <2>1 DEF m
  <2>5. m \in Int
    BY <2>2 DEF m
  <2>6. p = c * (m + s) + t /\ m + s \in Int
    BY <1>3, <2>4, <2>5
  <2>7. QED
    BY <2>6 DEF m
<1>5. (c * (k * q + s) + t) % c = t
  BY <1>3, <1>4, DivisionUnique, Zenon
<1>6. QED
  BY <1>4, <1>5 DEF t, r

\* A frame copied into its granted chunk leaves the unread samples alone.
LEMMA CopyKeepsUnread ==
  ASSUME RingInv, btpc = "copy", NEW f, NEW p \in head .. tail - 1
  PROVE CopySlices(tail, f)[p % Capacity] = slots[p % Capacity]
<1> USE CapacityAssumption, FrameAssumption
<1>1. /\ p \in Nat /\ tail \in Nat /\ tail - p \in 1 .. Capacity - FrameSamples
      /\ tail = p + (tail - p) /\ tail - p \in 0 .. Capacity
  BY DEF RingInv, WithinCapacity
<1> DEFINE a == p % Capacity
           base == tail % Capacity
           d == tail - p
           first == FirstSlice(tail, FrameSamples)
<1>2. /\ a \in 0 .. Capacity - 1
      /\ (p + d) % Capacity = IF a + d < Capacity THEN a + d
                                                 ELSE a + d - Capacity
  BY <1>1, WrapOnce, Zenon
<1>3. base = IF a + d < Capacity THEN a + d ELSE a + d - Capacity
  BY <1>1, <1>2
<1>4. first = IF FrameSamples <= Capacity - base THEN FrameSamples
                                                ELSE Capacity - base
  BY DEF FirstSlice
<1>5. d \in 1 .. Capacity - FrameSamples
  BY <1>1
<1>6. CopySlices(tail, f)[a] =
        IF a \in base .. base + first - 1 THEN Pcm(f, a - base)
        ELSE IF a < FrameSamples - first THEN Pcm(f, first + a)
        ELSE slots[a]
  BY <1>2 DEF CopySlices
<1> HIDE DEF a, base, d, first
<1>7. ~(a \in base .. base + first - 1) /\ ~(a < FrameSamples - first)
  BY <1>2, <1>3, <1>4, <1>5
<1>8. QED
  BY <1>6, <1>7 DEF a

\* The copy puts sample i of the frame where count tail + i says, on either
\* side of the end of the memory.
LEMMA CopyWritesFrame ==
  ASSUME RingInv, btpc = "copy", NEW f, NEW i \in 0 .. FrameSamples - 1
  PROVE CopySlices(tail, f)[(tail + i) % Capacity] = Pcm(f, i)
<1> USE CapacityAssumption, FrameAssumption
<1>1. tail \in Nat /\ i \in 0 .. Capacity /\ FrameSamples <= Capacity
  BY DEF RingInv, WithinCapacity
<1> DEFINE a == (tail + i) % Capacity
           base == tail % Capacity
           first == FirstSlice(tail, FrameSamples)
<1>2. /\ base \in 0 .. Capacity - 1
      /\ a = IF base + i < Capacity THEN base + i ELSE base + i - Capacity
  BY <1>1, WrapOnce, Zenon
<1>3. first = IF FrameSamples <= Capacity - base THEN FrameSamples
                                                ELSE Capacity - base
  BY DEF FirstSlice
<1>4. a \in 0 .. Capacity - 1
  BY <1>1, <1>2
<1>5. CopySlices(tail, f)[a] =
        IF a \in base .. base + first - 1 THEN Pcm(f, a - base)
        ELSE IF a < FrameSamples - first THEN Pcm(f, first + a)
        ELSE slots[a]
  BY <1>4 DEF CopySlices
<1> HIDE DEF a, base, first
<1>6. CASE base + i < Capacity
  <2>1. a \in base .. base + first - 1 /\ a - base = i
    BY <1>1, <1>2, <1>3, <1>6
  <2>2. QED
    BY <1>5, <2>1 DEF a
<1>7. CASE ~(base + i < Capacity)
  <2>1. /\ ~(a \in base .. base + first - 1) /\ a < FrameSamples - first
        /\ first + a = i
    BY <1>1, <1>2, <1>3, <1>7
  <2>2. QED
    BY <1>5, <2>1 DEF a
<1>8. QED
  BY <1>6, <1>7

\* A granted chunk of n samples yields the samples from count head on, from
\* whichever of the two slices.
LEMMA ReadSlicesCounts ==
  ASSUME TypeOK, RingInv, NEW n \in Nat, n <= tail - head, NEW i \in 1 .. n
  PROVE ReadSlices(n)[i] = slots[(head + i - 1) % Capacity]
<1> USE CapacityAssumption
<1>1. head \in Nat /\ i - 1 \in 0 .. Capacity /\ n <= Capacity
  BY DEF RingInv, WithinCapacity
<1> DEFINE base == head % Capacity
           first == FirstSlice(head, n)
           a == (head + (i - 1)) % Capacity
<1>2. /\ base \in 0 .. Capacity - 1
      /\ a = IF base + (i - 1) < Capacity THEN base + (i - 1)
                                        ELSE base + (i - 1) - Capacity
  BY <1>1, WrapOnce, Zenon
<1>3. first = IF n <= Capacity - base THEN n ELSE Capacity - base
  BY DEF FirstSlice
<1>4. ReadSlices(n)[i] = IF i <= first THEN slots[base + i - 1]
                                       ELSE slots[i - first - 1]
  BY DEF ReadSlices
<1>5. head + i - 1 = head + (i - 1)
  BY <1>1
<1> HIDE DEF base, first, a
<1>6. CASE i <= first
  <2>1. a = base + i - 1
    BY <1>1, <1>2, <1>3, <1>6
  <2>2. QED
    BY <1>4, <1>5, <1>6, <2>1 DEF a
<1>7. CASE ~(i <= first)
  <2>1. a = i - first - 1
    BY <1>1, <1>2, <1>3, <1>7
  <2>2. QED
    BY <1>4, <1>5, <1>7, <2>1 DEF a
<1>8. QED
  BY <1>6, <1>7

\* A chunk of the samples seen is a sequence of samples.
LEMMA ReadSlicesType ==
  ASSUME TypeOK, RingInv, NEW n \in Nat, n <= tail - head
  PROVE ReadSlices(n) \in Seq(Samples) /\ Len(ReadSlices(n)) = n
<1>1. \A i \in 1 .. n : ReadSlices(n)[i] \in Samples
  <2>1. TAKE i \in 1 .. n
  <2>2. (head + i - 1) % Capacity \in 0 .. Capacity - 1
    BY CapacityAssumption DEF RingInv
  <2>3. QED
    BY <2>2, ReadSlicesCounts DEF TypeOK
<1>2. ReadSlices(n) = [i \in 1 .. n |-> ReadSlices(n)[i]]
  BY DEF ReadSlices
<1>3. QED
  BY <1>1, <1>2

\* Length and elements of a concatenation.
LEMMA ConcatElements ==
  ASSUME NEW S, NEW s \in Seq(S), NEW t \in Seq(S)
  PROVE /\ s \o t \in Seq(S) /\ Len(s \o t) = Len(s) + Len(t)
        /\ \A i \in 1 .. Len(s) : (s \o t)[i] = s[i]
        /\ \A i \in 1 .. Len(t) : (s \o t)[Len(s) + i] = t[i]
  OBVIOUS

\* A fresh ring holds nothing and has delivered nothing.
LEMMA InitHandOver == Init => HandOverInv
<1> SUFFICES ASSUME Init PROVE HandOverInv
  OBVIOUS
<1> USE CapacityAssumption, FrameAssumption, MaxFramesAssumption
<1>1. TypeOK
  <2>1. Silence \in Samples
    BY DEF Samples, Silence
  <2>2. slots \in [0 .. Capacity - 1 -> Samples]
    BY <2>1 DEF Init
  <2>3. /\ data = <<>> /\ delivered = <<>> /\ accepted = <<>>
        /\ underruns = FALSE
    BY DEF Init
  <2>4. /\ data \in Seq(Samples) /\ delivered \in Seq(Samples)
        /\ accepted \in Seq(0 .. MaxFrames)
    BY <2>3
  <2>5. underruns \in BOOLEAN
    BY <2>3, Zenon
  <2>6. QED
    BY <2>2, <2>4, <2>5 DEF Init, TypeOK
<1>2. UnreadIntact
  BY DEF Init, UnreadIntact
<1>3. InOrder
  BY DEF Init, InOrder
<1>4. QED
  BY <1>1, <1>2, <1>3, InitRingInv, InitAligned DEF HandOverInv

\* Types are kept.
LEMMA StepType == HandOverInv /\ [Next]_vars => TypeOK'
<1> SUFFICES ASSUME HandOverInv, [Next]_vars PROVE TypeOK'
  OBVIOUS
<1> USE CapacityAssumption, FrameAssumption, RequestAssumption,
        MaxFramesAssumption
<1>a. TypeOK /\ RingInv
  BY DEF HandOverInv
<1>1. CASE GrantChunk
  BY <1>a, <1>1 DEF GrantChunk, ringVars, cbVars, TypeOK
<1>2. CASE Overrun
  BY <1>a, <1>2 DEF Overrun, ringVars, cbVars, TypeOK
<1>3. CASE CommitFrame
  <2>1. slots' \in [0 .. Capacity - 1 -> Samples]
    <3> DEFINE base == tail % Capacity
               first == FirstSlice(tail, FrameSamples)
    <3>1. base \in Nat /\ first \in Int
      BY <1>a DEF RingInv, FirstSlice
    <3>2. first >= 0
      BY <1>a DEF RingInv, FirstSlice
    <3> HIDE DEF base, first
    <3>3. \A i \in Nat : Pcm(decoded, i) \in Samples
      BY <1>a DEF TypeOK, Pcm, Samples
    <3>4. CopySlices(tail, decoded) =
            [a \in 0 .. Capacity - 1 |->
              IF a \in base .. base + first - 1 THEN Pcm(decoded, a - base)
              ELSE IF a < FrameSamples - first THEN Pcm(decoded, first + a)
              ELSE slots[a]]
      BY DEF CopySlices, base, first
    <3>5. \A a \in 0 .. Capacity - 1 : slots[a] \in Samples
      BY <1>a DEF TypeOK
    <3>6. \A a \in 0 .. Capacity - 1 :
            /\ a \in base .. base + first - 1 => a - base \in Nat
            /\ first + a \in Nat
      BY <3>1, <3>2
    <3>7. QED
      BY <1>3, <3>3, <3>4, <3>5, <3>6 DEF CommitFrame
  <2>2. QED
    BY <1>a, <1>3, <2>1 DEF CommitFrame, cbVars, TypeOK
<1>4. CASE \E n \in Requests : CallbackEnter(n)
  BY <1>a, <1>4 DEF CallbackEnter, ringVars, btVars, TypeOK, RingInv,
                    WithinCapacity
<1>5. CASE CallbackFill
  <2>1. ToRead \in Nat /\ ToRead <= tail - head /\ cbpc = "fill"
    BY <1>a, <1>5 DEF CallbackFill, RingInv, SlotsStillThere, ToRead
  <2>2. ReadSlices(ToRead) \in Seq(Samples) /\ Len(ReadSlices(ToRead)) = ToRead
    BY <1>a, <2>1, ReadSlicesType
  <2>3. FillBuffer(ToRead) \in Seq(Samples)
    <3>1. Silence \in Samples
      BY DEF Silence, Samples
    <3>2. \A i \in 1 .. needed : i <= ToRead => ReadSlices(ToRead)[i] \in Samples
      BY <1>a, <2>1, <2>2 DEF TypeOK
    <3>3. needed \in Nat
      BY <1>a DEF TypeOK
    <3>4. QED
      BY <3>1, <3>2, <3>3 DEF FillBuffer
  <2>4. (delivered \o ReadSlices(ToRead)) \in Seq(Samples)
    BY <1>a, <2>2 DEF TypeOK
  <2>5. /\ data' = FillBuffer(ToRead)
        /\ delivered' = delivered \o ReadSlices(ToRead)
        /\ head' = head + ToRead /\ cbpc' = "wait"
        /\ underruns' = (underruns \/ ToRead < needed)
        /\ UNCHANGED <<slots, tail, btVars, available, needed>>
    BY <1>5 DEF CallbackFill
  <2>6. underruns' \in BOOLEAN
    BY <2>5, Zenon
  <2>7. data' \in Seq(Samples) /\ delivered' \in Seq(Samples) /\ head' \in Nat
    BY <1>a, <2>1, <2>3, <2>4, <2>5 DEF TypeOK
  <2>8. QED
    BY <1>a, <2>5, <2>6, <2>7 DEF TypeOK, btVars
<1>6. CASE UNCHANGED vars
  BY <1>a, <1>6 DEF vars, TypeOK
<1>7. QED
  BY <1>1, <1>2, <1>3, <1>4, <1>5, <1>6 DEF Next, BtNext, CallbackNext

\* The sample of a count that was committed does not depend on later frames.
LEMMA SampleStable ==
  ASSUME TypeOK, UnreadIntact, NEW f \in 0 .. MaxFrames,
         NEW p \in 0 .. tail - 1, accepted' = Append(accepted, f)
  PROVE Sample(p)' = Sample(p)
<1> USE FrameAssumption
<1> DEFINE q == p \div FrameSamples
           r == p % FrameSamples
<1>0. p \in Nat
  BY DEF TypeOK
<1>1. /\ p = FrameSamples * q + r /\ r \in 0 .. FrameSamples - 1 /\ q \in Int
      /\ q >= 0
  BY <1>0
<1>2. tail = FrameSamples * Len(accepted) /\ Len(accepted) \in Nat
  BY DEF UnreadIntact, TypeOK
<1> HIDE DEF q, r
<1>3. q < Len(accepted)
  <2>1. SUFFICES ASSUME q >= Len(accepted) PROVE FALSE
    BY <1>1, <1>2
  <2>2. FrameSamples * (q - Len(accepted)) >= 0
    BY <1>1, <1>2, <2>1
  <2>3. FrameSamples * q >= FrameSamples * Len(accepted)
    BY <1>1, <1>2, <2>2
  <2>4. QED
    BY <1>1, <1>2, <2>3 DEF TypeOK
<1>4. accepted'[q + 1] = accepted[q + 1]
  <2>1. accepted \in Seq(0 .. MaxFrames) /\ q + 1 \in 1 .. Len(accepted)
    BY <1>1, <1>2, <1>3 DEF TypeOK
  <2> HIDE FrameAssumption
  <2>2. \A i \in 1 .. Len(accepted) : Append(accepted, f)[i] = accepted[i]
    BY <2>1
  <2>3. QED
    BY <2>1, <2>2, Zenon
<1>5. QED
  BY <1>4 DEF Sample, q, Pcm

\* What is committed stays where it belongs until it is taken, and what is
\* taken is what comes next in the stream.
LEMMA StepContents ==
  HandOverInv /\ [Next]_vars => UnreadIntact' /\ InOrder'
<1> SUFFICES ASSUME HandOverInv, [Next]_vars PROVE UnreadIntact' /\ InOrder'
  OBVIOUS
<1> USE CapacityAssumption, FrameAssumption
<1>a. TypeOK /\ RingInv /\ UnreadIntact /\ InOrder
  BY DEF HandOverInv
<1>b. head \in Nat /\ tail \in Nat /\ head <= tail
  BY <1>a DEF RingInv, WithinCapacity
<1>1. CASE UNCHANGED <<slots, head, tail, accepted, delivered>>
  BY <1>a, <1>1 DEF UnreadIntact, InOrder, Sample
<1>2. CASE CommitFrame
  <2>1. /\ btpc = "copy" /\ slots' = CopySlices(tail, decoded)
        /\ tail' = tail + FrameSamples /\ head' = head
        /\ accepted' = Append(accepted, decoded) /\ delivered' = delivered
    BY <1>2 DEF CommitFrame, cbVars
  <2>2. decoded \in 0 .. MaxFrames /\ accepted \in Seq(0 .. MaxFrames)
    BY <1>a DEF TypeOK
  <2>3. Len(accepted') = Len(accepted) + 1 /\ Len(accepted) \in Nat
    BY <2>1, <2>2
  <2>4. \A p \in 0 .. tail - 1 : Sample(p)' = Sample(p)
    BY <1>a, <2>1, <2>2, SampleStable
  <2>5. tail' = FrameSamples * Len(accepted')
    <3>1. tail = FrameSamples * Len(accepted)
      BY <1>a DEF UnreadIntact
    <3>2. QED
      BY <2>1, <2>3, <3>1
  <2>6. ASSUME NEW p \in head .. tail - 1
        PROVE slots'[p % Capacity] = Sample(p)'
    <3>1. slots'[p % Capacity] = slots[p % Capacity]
      BY <1>a, <2>1, CopyKeepsUnread
    <3>2. slots[p % Capacity] = Sample(p)
      BY <1>a DEF UnreadIntact
    <3>3. p \in 0 .. tail - 1
      BY <1>b
    <3>4. QED
      BY <2>4, <3>1, <3>2, <3>3
  <2>7. ASSUME NEW p \in tail .. tail + FrameSamples - 1
        PROVE slots'[p % Capacity] = Sample(p)'
    <3> DEFINE i == p - tail
    <3>1. i \in 0 .. FrameSamples - 1 /\ p = tail + i
      BY <1>b
    <3>2. slots'[p % Capacity] = Pcm(decoded, i)
      BY <1>a, <2>1, <3>1, CopyWritesFrame
    <3>3. p = FrameSamples * Len(accepted) + i /\ Len(accepted) \in Int
      BY <1>a, <2>3, <3>1 DEF UnreadIntact
    <3>4. /\ (FrameSamples * Len(accepted) + i) % FrameSamples = i
          /\ (FrameSamples * Len(accepted) + i) \div FrameSamples = Len(accepted)
      BY <3>1, <3>3, DivisionUnique, Zenon
    <3>5. p % FrameSamples = i /\ p \div FrameSamples = Len(accepted)
      BY <3>3, <3>4
    <3>6. accepted'[Len(accepted) + 1] = decoded
      BY <2>1, <2>2
    <3>7. QED
      BY <3>2, <3>5, <3>6 DEF Sample
  <2>8. UnreadIntact'
    <3>1. \A p \in head .. tail + FrameSamples - 1 :
            slots'[p % Capacity] = Sample(p)'
      <4>1. TAKE p \in head .. tail + FrameSamples - 1
      <4>2. p \in head .. tail - 1 \/ p \in tail .. tail + FrameSamples - 1
        BY <1>b
      <4>3. QED
        BY <2>6, <2>7, <4>2
    <3>2. \A p \in head' .. tail' - 1 : slots'[p % Capacity] = Sample(p)'
      <4>1. head' .. tail' - 1 = head .. tail + FrameSamples - 1
        BY <1>b, <2>1
      <4>2. QED
        BY <3>1, <4>1, Zenon
    <3>3. QED
      BY <2>5, <3>2, Zenon DEF UnreadIntact
  <2>9. InOrder'
    <3>1. \A i \in 1 .. head : i - 1 \in 0 .. tail - 1
      BY <1>b
    <3>2. QED
      BY <1>a, <2>1, <2>4, <3>1 DEF InOrder
  <2>10. QED
    BY <2>8, <2>9
<1>3. CASE CallbackFill
  <2> DEFINE n == ToRead
  <2>1. n \in Nat /\ n <= tail - head
    BY <1>a, <1>3 DEF CallbackFill, RingInv, SlotsStillThere, ToRead
  <2>2. /\ delivered' = delivered \o ReadSlices(n) /\ head' = head + n
        /\ UNCHANGED <<slots, tail, accepted>>
    BY <1>3 DEF CallbackFill, btVars
  <2> HIDE DEF n
  <2>3. ReadSlices(n) \in Seq(Samples) /\ Len(ReadSlices(n)) = n
    BY <1>a, <2>1, ReadSlicesType
  <2>4. ASSUME NEW i \in 1 .. n PROVE ReadSlices(n)[i] = Sample(head + i - 1)
    <3>1. head + i - 1 \in head .. tail - 1
      BY <1>b, <2>1
    <3>2. ReadSlices(n)[i] = slots[(head + i - 1) % Capacity]
      BY <1>a, <2>1, ReadSlicesCounts
    <3>3. QED
      BY <1>a, <3>1, <3>2 DEF UnreadIntact
  <2>5. delivered \in Seq(Samples) /\ Len(delivered) = head
    BY <1>a DEF TypeOK, InOrder
  <2>6. /\ Len(delivered') = head + n
        /\ \A i \in 1 .. head : delivered'[i] = delivered[i]
        /\ \A i \in 1 .. n : delivered'[head + i] = ReadSlices(n)[i]
    <3> DEFINE R == ReadSlices(n)
    <3>1. R \in Seq(Samples) /\ Len(R) = n /\ delivered' = delivered \o R
      BY <2>2, <2>3
    <3> HIDE DEF R
    <3>2. /\ Len(delivered \o R) = Len(delivered) + Len(R)
          /\ \A i \in 1 .. Len(delivered) : (delivered \o R)[i] = delivered[i]
          /\ \A i \in 1 .. Len(R) : (delivered \o R)[Len(delivered) + i] = R[i]
      <4>1. delivered \in Seq(Samples)
        BY <2>5
      <4>2. R \in Seq(Samples)
        BY <3>1
      <4>3. Len(delivered \o R) = Len(delivered) + Len(R)
        BY <4>1, <4>2, ConcatElements, Zenon
      <4>4. \A i \in 1 .. Len(delivered) : (delivered \o R)[i] = delivered[i]
        <5>1. TAKE i \in 1 .. Len(delivered)
        <5>2. QED
          BY <4>1, <4>2, ConcatElements, SMT
      <4>5. \A i \in 1 .. Len(R) : (delivered \o R)[Len(delivered) + i] = R[i]
        <5>1. TAKE i \in 1 .. Len(R)
        <5>2. QED
          BY <4>1, <4>2, ConcatElements, SMT
      <4>6. QED
        BY <4>3, <4>4, <4>5
    <3>3. QED
      BY <2>5, <3>1, <3>2 DEF R
  <2>7. ASSUME NEW i \in 1 .. head + n PROVE delivered'[i] = Sample(i - 1)
    <3>1. CASE i <= head
      <4>1. delivered'[i] = delivered[i]
        BY <1>b, <2>6, <3>1
      <4>2. QED
        BY <1>a, <1>b, <3>1, <4>1 DEF InOrder
    <3>2. CASE i > head
      <4>2. /\ i - head \in 1 .. n /\ head + (i - head) - 1 = i - 1
            /\ head + (i - head) = i
        BY <1>b, <2>1, <3>2
      <4>1. delivered'[i] = ReadSlices(n)[i - head]
        BY <2>6, <4>2
      <4>3. ReadSlices(n)[i - head] = Sample(head + (i - head) - 1)
        BY <2>4, <4>2
      <4>4. QED
        BY <4>1, <4>2, <4>3
    <3>3. QED
      BY <1>b, <2>1, <3>1, <3>2
  <2>8. \A p : Sample(p)' = Sample(p)
    BY <2>2 DEF Sample
  <2>9. InOrder'
    BY <2>2, <2>6, <2>7, <2>8 DEF InOrder
  <2>10. UnreadIntact'
    <3>1. \A p \in head + n .. tail - 1 : p \in head .. tail - 1
      BY <1>b, <2>1
    <3>2. QED
      BY <1>a, <2>2, <2>8, <3>1 DEF UnreadIntact
  <2>11. QED
    BY <2>9, <2>10
<1>4. CASE GrantChunk \/ Overrun
  BY <1>1, <1>4 DEF GrantChunk, Overrun, ringVars, cbVars
<1>5. CASE \E n \in Requests : CallbackEnter(n)
  BY <1>1, <1>5 DEF CallbackEnter, ringVars, btVars
<1>6. CASE UNCHANGED vars
  BY <1>1, <1>6 DEF vars
<1>7. QED
  BY <1>2, <1>3, <1>4, <1>5, <1>6 DEF Next, BtNext, CallbackNext

\* Counters, memory and history of the hand-over agree in every reachable
\* state.
THEOREM HandOverInvHolds == Spec => []HandOverInv
<1>1. HandOverInv /\ [Next]_vars => HandOverInv'
  BY StepType, StepRingInv, StepAligned, StepContents DEF HandOverInv
<1>2. QED
  BY InitHandOver, <1>1, PTL DEF Spec

\* The device gets the accepted frames whole, in order and unmixed.
THEOREM InOrderHolds == Spec => []InOrder
<1>1. HandOverInv => InOrder
  BY DEF HandOverInv
<1>2. QED
  BY <1>1, HandOverInvHolds, PTL

\* A buffer handed to the device is a chunk taken at a whole PCM frame, then
\* silence; each of its samples has the channel of its place.
LEMMA StepChannels == HandOverInv /\ CallbackFill => ChannelsAligned'
<1> SUFFICES ASSUME HandOverInv, CallbackFill,
                    NEW i \in 1 .. Len(data'), data'[i] # Silence
             PROVE data'[i][2] % Channels = (i - 1) % Channels
  BY DEF ChannelsAligned
<1> USE ChannelAssumption, FrameAssumption, CapacityAssumption
<1>a. /\ TypeOK /\ RingInv /\ UnreadIntact /\ head % Channels = 0
      /\ head \in Nat /\ tail \in Nat /\ needed \in Nat
  BY DEF HandOverInv, CountersAligned, RingInv
<1>1. ToRead \in Nat /\ ToRead <= tail - head
  BY <1>a DEF CallbackFill, RingInv, SlotsStillThere, ToRead
<1>2. data' = FillBuffer(ToRead)
  BY DEF CallbackFill
<1>3. i \in 1 .. needed
  BY <1>a, <1>2 DEF FillBuffer
<1>4. data'[i] = IF i <= ToRead THEN ReadSlices(ToRead)[i] ELSE Silence
  BY <1>2, <1>3 DEF FillBuffer
<1>5. i \in 1 .. ToRead /\ data'[i] = ReadSlices(ToRead)[i]
  BY <1>1, <1>3, <1>4
<1>6. head + i - 1 \in head .. tail - 1 /\ head + i - 1 \in Nat
  BY <1>a, <1>1, <1>5
<1>7. data'[i] = Sample(head + i - 1)
  <2>1. data'[i] = slots[(head + i - 1) % Capacity]
    BY <1>a, <1>1, <1>5, ReadSlicesCounts
  <2>2. QED
    BY <1>a, <1>6, <2>1 DEF UnreadIntact
<1>8. data'[i][2] = (head + i - 1) % FrameSamples
  BY <1>7 DEF Sample, Pcm
<1>9. ((head + i - 1) % FrameSamples) % Channels = (head + i - 1) % Channels
  BY <1>6, ChannelOfRemainder, Zenon
<1>10. (head + i - 1) % Channels = (i - 1) % Channels
  <2> DEFINE h == head \div Channels
             m == i - 1
             q == m \div Channels
             r == m % Channels
  <2>1. head = Channels * h /\ h \in Int
    BY <1>a
  <2>2. m = Channels * q + r /\ q \in Int /\ r \in 0 .. Channels - 1
    BY <1>3
  <2>3. r = (i - 1) % Channels /\ head + i - 1 = head + m
    BY <1>a, <1>3
  <2> HIDE DEF h, m, q, r
  <2>4. head + m = Channels * (h + q) + r /\ h + q \in Int
    BY <2>1, <2>2
  <2>5. (Channels * (h + q) + r) % Channels = r
    BY <2>2, <2>4, DivisionUnique, Zenon
  <2>6. QED
    BY <2>3, <2>4, <2>5
<1>11. QED
  BY <1>8, <1>9, <1>10

\* Left and right are never exchanged, whatever is dropped or left silent.
THEOREM ChannelsAlignedHolds == Spec => []ChannelsAligned
<1>1. Init => ChannelsAligned
  BY DEF Init, ChannelsAligned
<1>2. HandOverInv /\ ChannelsAligned /\ [Next]_vars => ChannelsAligned'
  <2> SUFFICES ASSUME HandOverInv, ChannelsAligned, [Next]_vars
               PROVE ChannelsAligned'
    OBVIOUS
  <2>1. CASE CallbackFill
    BY <2>1, StepChannels
  <2>2. CASE UNCHANGED data
    BY <2>2 DEF ChannelsAligned
  <2>3. QED
    BY <2>1, <2>2 DEF Next, BtNext, CallbackNext, GrantChunk, Overrun,
                      CommitFrame, CallbackEnter, cbVars, vars
<1>3. QED
  BY <1>1, <1>2, HandOverInvHolds, PTL DEF Spec

=============================================================================
