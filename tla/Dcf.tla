-------------------------------- MODULE Dcf --------------------------------
(***************************************************************************)
(* DCF framing (dcf.rs): DcfTransport cuts codec frames into packets and   *)
(* numbers them; the packets travel over a transport that may lose, cut,   *)
(* duplicate and reorder them, and are read back with deserialize.         *)
(*                                                                         *)
(* The code has no reassembly.  What its header must allow is stated on the *)
(* packets a receiver has accepted of the last Window frames.  A payload is *)
(* the range of bytes it holds of its frame; the frame and the ordinal of a *)
(* packet are not on the wire.                                             *)
(***************************************************************************)
EXTENDS Integers, FiniteSets

CONSTANTS
    HeaderSize,     \* DCF_HEADER_SIZE, 17 in the code
    FragmentHeader, \* FRAGMENT_HEADER_SIZE, 7 in the code
    MaxPayload,     \* of a packet
    Byte,           \* the width of u8, 2^8 in the code
    Short,          \* the width of u16, 2^16 in the code
    Word,           \* the width of u32, 2^32 in the code
    Lengths,        \* lengths of codec frames
    ControlLengths, \* lengths of the payloads of control messages
    Window,         \* how many frames back a packet may still arrive
    MaxFrames,      \* bound on the codec frames sent
    MaxControls     \* bound on the control messages sent

Usable == MaxPayload - FragmentHeader

\* The lengths that fragment_audio's fields can express.
ASSUME FieldAssumption ==
    /\ Usable \in Nat \ {0} /\ MaxPayload \in Nat
    /\ HeaderSize \in Nat /\ FragmentHeader \in Nat
    /\ Byte \in Nat \ {0, 1} /\ Short \in Nat \ {0} /\ Word \in Nat \ {0}
    /\ Lengths \subseteq Nat
    /\ \A len \in Lengths : len < Short /\ len <= Usable * (Byte - 1)
    /\ ControlLengths \subseteq Nat
ASSUME WindowAssumption == Window \in 1 .. Short

VARIABLES
    frameId,    \* DcfTransport.frame_id
    sequence,   \* DcfTransport.sequence
    frames,     \* codec frames sent so far
    controls,   \* control messages sent so far
    ordinal,    \* packets sent so far
    wire,       \* packets that may still arrive
    accepted    \* those of them a receiver has read

dcfVars == <<frameId, sequence, frames, controls, ordinal, wire, accepted>>

DInit ==
    /\ frameId = 0 /\ sequence = 0
    /\ frames = 0 /\ controls = 0 /\ ordinal = 0
    /\ wire = {} /\ accepted = {}

-----------------------------------------------------------------------------
(* Sender                                                                  *)

\* How many chunks of the usable size a frame has; at least one packet.
Chunks(len) == IF len <= Usable THEN 1 ELSE ((len + Usable) - 1) \div Usable

Flags(i, count) ==
    (IF i = 0 THEN {"FIRST"} ELSE {})
    \cup (IF i = count - 1 THEN {"LAST"} ELSE {})

\* Mutant: chunks are cut at the payload size, not at the usable size.
FragmentUnclipped(len, i) ==
    LET count == Chunks(len)
        to == IF len <= (i + 1) * MaxPayload THEN len ELSE (i + 1) * MaxPayload
    IN [type |-> IF count = 1 THEN "AudioFrame" ELSE "AudioFragment",
        seq |-> (sequence + i) % Word, ordinal |-> ordinal + i,
        frame |-> frames + 1, length |-> len, id |-> frameId,
        index |-> i % Byte, count |-> count % Byte,
        offset |-> (i * Usable) % Short, flags |-> Flags(i, count),
        from |-> i * Usable + 1, to |-> to]

\* Packet i of a codec frame of this length.
Fragment(len, i) ==
    LET count == Chunks(len)
        to == IF len <= (i + 1) * Usable THEN len ELSE (i + 1) * Usable
    IN [type |-> IF count = 1 THEN "AudioFrame" ELSE "AudioFragment",
        seq |-> (sequence + i) % Word, ordinal |-> ordinal + i,
        frame |-> frames + 1, length |-> len, id |-> frameId,
        index |-> i % Byte, count |-> count % Byte,
        offset |-> (i * Usable) % Short, flags |-> Flags(i, count),
        from |-> i * Usable + 1, to |-> to]

Recent(packets) == {p \in packets : p.frame > (frames + 1) - Window}

\* Mutant: packetize does not count its frames.
PacketizeSameId(len) ==
    /\ frames < MaxFrames
    /\ wire' = Recent(wire) \cup {Fragment(len, i) : i \in 0 .. Chunks(len) - 1}
    /\ accepted' = Recent(accepted)
    /\ frames' = frames + 1
    /\ sequence' = (sequence + Chunks(len)) % Word
    /\ ordinal' = ordinal + Chunks(len)
    /\ UNCHANGED <<frameId, controls>>

\* packetize, with fragment_audio.
Packetize(len) ==
    /\ frames < MaxFrames
    /\ wire' = Recent(wire) \cup {Fragment(len, i) : i \in 0 .. Chunks(len) - 1}
    /\ accepted' = Recent(accepted)
    /\ frames' = frames + 1
    /\ frameId' = (frameId + 1) % Short
    /\ sequence' = (sequence + Chunks(len)) % Word
    /\ ordinal' = ordinal + Chunks(len)
    /\ UNCHANGED controls

Control(len) ==
    [type |-> "Control", seq |-> sequence, ordinal |-> ordinal,
     frame |-> frames, length |-> len, id |-> 0, index |-> 0, count |-> 0,
     offset |-> 0, flags |-> {}, from |-> 1, to |-> len]

\* Mutant: a control message shares its number with the next packet.
ControlMessageUncounted(len) ==
    /\ controls < MaxControls
    /\ wire' = wire \cup {Control(len)}
    /\ controls' = controls + 1
    /\ ordinal' = ordinal + 1
    /\ UNCHANGED <<frameId, sequence, frames, accepted>>

\* control_message sends any payload, whatever the payload size of audio.
ControlMessage(len) ==
    /\ controls < MaxControls
    /\ wire' = wire \cup {Control(len)}
    /\ controls' = controls + 1
    /\ sequence' = (sequence + 1) % Word
    /\ ordinal' = ordinal + 1
    /\ UNCHANGED <<frameId, frames, accepted>>

-----------------------------------------------------------------------------
(* Receiver                                                                *)

\* The length of a packet's payload, as its header announces it: a control
\* message has no fragment header.
Payload(p) ==
    (IF p.type = "Control" THEN 0 ELSE FragmentHeader) + (p.to + 1 - p.from)

\* DcfFrame::deserialize of the first n bytes of a packet: TooShort (no
\* frame) unless the header and the payload it announces are there.
Deserialize(p, n) ==
    IF n < HeaderSize \/ n < HeaderSize + Payload(p) THEN {} ELSE {p}

\* A packet arrives, whole or cut to n bytes; it may arrive again later.
Receive(p, n) ==
    /\ accepted' = accepted \cup Deserialize(p, n)
    /\ UNCHANGED <<frameId, sequence, frames, controls, ordinal, wire>>

DNext ==
    \/ \E len \in Lengths : Packetize(len)
    \/ \E len \in ControlLengths : ControlMessage(len)
    \/ \E p \in wire : \E cut \in 0 .. 1 :
          Receive(p, HeaderSize + Payload(p) - cut)

DSpec == DInit /\ [][DNext]_dcfVars

-----------------------------------------------------------------------------
(* Properties                                                              *)

Audio(packets) == {p \in packets : p.type # "Control"}

\* Every audio packet fits the payload size, which control messages are not
\* held to, and what is accepted was sent.
PacketsFit ==
    /\ frameId \in 0 .. Short - 1 /\ sequence \in 0 .. Word - 1
    /\ accepted \subseteq wire
    /\ \A p \in Audio(wire) : Payload(p) <= MaxPayload

\* The header's numbers count frames and packets, modulo their widths, and
\* only packets of the last Window frames are under way.
Numbered ==
    /\ frames \in Nat /\ frameId = frames % Short
    /\ ordinal \in Nat /\ sequence = ordinal % Word
    /\ \A p \in wire :
          /\ p.ordinal \in Nat /\ p.seq = p.ordinal % Word
          /\ p.frame \in (frames + 1) - Window .. frames

\* An audio packet is the piece of its frame that its header says it is: no
\* field has wrapped around.
Piece(p) ==
    /\ p.frame >= 1 /\ p.id = (p.frame - 1) % Short
    /\ p.length \in Lengths
    /\ p.count = Chunks(p.length)
    /\ p.index \in 0 .. p.count - 1
    /\ p.offset = p.index * Usable
    /\ p.from = p.offset + 1
    /\ p.to = IF p.length <= (p.index + 1) * Usable
              THEN p.length ELSE (p.index + 1) * Usable

\* The pieces of a frame are all under way, one packet for each index.
Fragmented ==
    /\ \A p \in Audio(wire) :
          /\ Piece(p)
          /\ \A i \in 0 .. p.count - 1 :
                \E q \in Audio(wire) : q.frame = p.frame /\ q.index = i
    /\ \A p, q \in Audio(wire) :
          p.frame = q.frame =>
              /\ p.length = q.length
              /\ p.index = q.index => p = q

\* The inductive invariant of DCF framing: it says what is on the wire, and
\* with it that every audio packet fits.
WireInv == PacketsFit /\ Numbered /\ Fragmented

\* The packets accepted under a frame identifier, and whether they are all
\* the header says there are.
Group(id) == {p \in accepted : p.type # "Control" /\ p.id = id}
Complete(group) ==
    /\ group # {}
    /\ \A p \in group : {q.index : q \in group} = 0 .. p.count - 1

\* The header is enough to put frames together again over a transport that
\* loses, repeats and reorders packets: a group that looks complete is one
\* whole frame, each byte once and at its offset, also when frame identifiers
\* have wrapped around; and a frame of which everything arrived looks
\* complete.
Reassembles ==
    \A id \in 0 .. Short - 1 :
        LET group == Group(id) IN
        /\ Complete(group) =>
              /\ \A p, q \in group : p.frame = q.frame
              /\ \A p \in group :
                    /\ p.offset + 1 = p.from
                    /\ \A b \in 1 .. p.length :
                          Cardinality({q \in group : b \in q.from .. q.to}) = 1
        /\ \A p \in group :
              {q \in wire : q.type # "Control" /\ q.frame = p.frame}
                  \subseteq accepted
              => Complete(group)

\* Audio and control packets share one numbering, in which the distance of
\* two packets is the number of packets sent between them, modulo its width:
\* a receiver can tell losses from their absence across the wrap.
SequenceTells ==
    \A p, q \in wire :
        p.ordinal <= q.ordinal =>
            (q.seq - p.seq) % Word = (q.ordinal - p.ordinal) % Word

=============================================================================
