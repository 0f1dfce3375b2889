----------------------------- MODULE FrameSync ------------------------------
(***************************************************************************)
(* How the BT reader thread turns the byte stream of the transport into    *)
(* PCM frames: the reassembly and resynchronisation of bt_reader_loop      *)
(* (engine.rs) and the codec state behind it, decode_frame and plc of      *)
(* SbcCodecLive (codec.rs).                                                *)
(*                                                                         *)
(* A byte is <<f, i>>, byte i of encoded frame f, or Noise: a byte that is *)
(* damaged or belongs to no frame.  libsbc is external, and all that is    *)
(* asked of it is that it decodes a whole frame.  Anywhere else it may     *)
(* refuse, or accept any number of the bytes there: its CRC covers only    *)
(* the header and the scale factors, so a cut or a damaged frame decodes,  *)
(* and can take the start of the next frame with it.                       *)
(*                                                                         *)
(* A PCM frame is known by the bytes it was decoded from, by the right     *)
(* shift its samples have been attenuated with and, which the code does    *)
(* not keep, by the place in the stream at which the reader made it.       *)
(***************************************************************************)
EXTENDS Integers, Sequences

CONSTANTS
    FrameLen,   \* codec.frame_length()
    PlcMax,     \* plc_max
    MaxRead,    \* bound on the bytes one read() returns (buf_size)
    Streams     \* the byte streams that may arrive

ASSUME FrameLenAssumption == FrameLen \in Nat \ {0}
ASSUME PlcAssumption == PlcMax \in Nat
ASSUME ReadAssumption == MaxRead \in Nat \ {0}
ASSUME StreamAssumption == Streams \subseteq Seq(Nat \X Nat)

VARIABLES
    stream,     \* the bytes the peer sends
    pos,        \* how many of them read() has returned
    pc,         \* "read" or "decode"
    source,     \* decode_source
    offset,     \* bytes of source consumed
    leftover,   \* bytes kept for the next read
    lastPcm,    \* SbcCodecLive.last_pcm: its bytes and attenuation; no bytes: none
    lost,       \* SbcCodecLive.plc_consecutive
    pushed      \* the PCM frames given to push_pcm, in order

vars == <<stream, pos, pc, source, offset, leftover, lastPcm, lost, pushed>>

Noise == <<0, 0>>
Received == SubSeq(stream, 1, pos)

\* How many bytes of the stream lie before the next byte to decode.
Here == (pos - Len(source)) + offset

Decoded(b) == [kind |-> "decoded", bytes |-> b, shift |-> 0, at |-> Here]
Concealed(b, s) == [kind |-> "concealed", bytes |-> b, shift |-> s, at |-> Here]
Silence == [kind |-> "silence", bytes |-> <<>>, shift |-> 0, at |-> Here]

Init ==
    /\ stream \in Streams
    /\ pos = 0
    /\ pc = "read"
    /\ source = <<>> /\ offset = 0
    /\ leftover = <<>>
    /\ lastPcm = [bytes |-> <<>>, shift |-> 0] /\ lost = 0
    /\ pushed = <<>>

-----------------------------------------------------------------------------
\* A whole frame starts after the first o bytes of s.
FrameAt(s, o) ==
    /\ o + FrameLen <= Len(s)
    /\ s[o + 1] # Noise
    /\ \A i \in 0 .. FrameLen - 1 : s[o + 1 + i] = <<s[o + 1][1], i>>

\* What sbc_decode may report of the bytes of s behind the first o: how many
\* it consumed, 0 when it refuses them.
Consumes(s, o) == IF FrameAt(s, o) THEN {FrameLen} ELSE 0 .. Len(s) - o

\* read() returned n bytes, which are put behind the bytes left over.
ReadBytes(n) ==
    /\ pc = "read" /\ pos + n <= Len(stream)
    /\ source' = leftover \o SubSeq(stream, pos + 1, pos + n)
    /\ pos' = pos + n
    /\ offset' = 0
    /\ pc' = "decode"
    /\ UNCHANGED <<stream, leftover, lastPcm, lost, pushed>>

\* Mutant: a frame that ends the bytes read is left over.
MoreToDecodeStrict == pc = "decode" /\ offset + FrameLen < Len(source)

\* The decode loop goes on while a frame's length of bytes is left.
MoreToDecode == pc = "decode" /\ offset + FrameLen <= Len(source)

\* decode_frame succeeds and consumes n bytes: its output is remembered for
\* concealment.
DecodeFrame(n) ==
    /\ MoreToDecode /\ n \in Consumes(source, offset) \ {0}
    /\ LET b == SubSeq(source, offset + 1, offset + n)
       IN  /\ lastPcm' = [bytes |-> b, shift |-> 0]
           /\ pushed' = Append(pushed, Decoded(b))
    /\ lost' = 0
    /\ offset' = offset + n
    /\ UNCHANGED <<stream, pos, pc, source, leftover>>

\* Mutant: the attenuation is restarted from the original frame.
PlcFromOriginal ==
    IF lastPcm.bytes = <<>>
    THEN pushed' = Append(pushed, Silence) /\ UNCHANGED <<lastPcm, lost>>
    ELSE /\ lost' = lost + 1
         /\ IF lost' > PlcMax
            THEN pushed' = Append(pushed, Silence) /\ UNCHANGED lastPcm
            ELSE /\ pushed' = Append(pushed, Concealed(lastPcm.bytes, 1))
                 /\ UNCHANGED lastPcm

\* SbcCodecLive::plc: silence without a frame to repeat or after PlcMax
\* losses; otherwise the last output, shifted by the number of losses, which
\* also becomes the new last output.
Plc ==
    IF lastPcm.bytes = <<>>
    THEN pushed' = Append(pushed, Silence) /\ UNCHANGED <<lastPcm, lost>>
    ELSE /\ lost' = lost + 1
         /\ IF lost' > PlcMax
            THEN pushed' = Append(pushed, Silence) /\ UNCHANGED lastPcm
            ELSE LET shift == lastPcm.shift + IF lost' < 15 THEN lost' ELSE 15
                 IN  /\ pushed' = Append(pushed, Concealed(lastPcm.bytes, shift))
                     /\ lastPcm' = [lastPcm EXCEPT !.shift = shift]

\* Mutant: a refused frame is skipped as a whole.
ConcealSkippingFrame ==
    /\ MoreToDecode /\ 0 \in Consumes(source, offset)
    /\ Plc
    /\ offset' = offset + FrameLen
    /\ UNCHANGED <<stream, pos, pc, source, leftover>>

\* decode_frame fails: a concealment frame is pushed and one byte skipped.
ConcealAndResync ==
    /\ MoreToDecode /\ 0 \in Consumes(source, offset)
    /\ Plc
    /\ offset' = offset + 1
    /\ UNCHANGED <<stream, pos, pc, source, leftover>>

\* Mutant: leftover bytes are kept only if there were none before.
SaveLeftoverOnce ==
    /\ pc = "decode" /\ ~MoreToDecode
    /\ leftover' = IF leftover = <<>>
                   THEN SubSeq(source, offset + 1, Len(source)) ELSE <<>>
    /\ source' = <<>> /\ offset' = 0
    /\ pc' = "read"
    /\ UNCHANGED <<stream, pos, lastPcm, lost, pushed>>

\* The bytes that are less than a frame wait for the next read.
SaveLeftover ==
    /\ pc = "decode" /\ ~MoreToDecode
    /\ leftover' = SubSeq(source, offset + 1, Len(source))
    /\ source' = <<>> /\ offset' = 0
    /\ pc' = "read"
    /\ UNCHANGED <<stream, pos, lastPcm, lost, pushed>>

\* The whole stream has arrived; read() waits or reports the end.
StreamDone ==
    /\ pc = "read" /\ pos = Len(stream)
    /\ UNCHANGED vars

Next ==
    \/ \E n \in 1 .. MaxRead : ReadBytes(n)
    \/ \E n \in 1 .. Len(source) - offset : DecodeFrame(n)
    \/ ConcealAndResync \/ SaveLeftover \/ StreamDone

Spec == Init /\ [][Next]_vars

-----------------------------------------------------------------------------
(* Properties                                                              *)

PcmFrames ==
    [kind : {"decoded", "concealed", "silence"}, bytes : Seq(Nat \X Nat),
     shift : Nat, at : Nat]

TypeOK ==
    /\ stream \in Seq(Nat \X Nat)
    /\ source \in Seq(Nat \X Nat) /\ leftover \in Seq(Nat \X Nat)
    /\ pos \in 0 .. Len(stream)
    /\ pc \in {"read", "decode"}
    /\ offset \in 0 .. Len(source)
    /\ Len(leftover) < FrameLen
    /\ lastPcm \in [bytes : Seq(Nat \X Nat), shift : Nat]
    /\ lost \in Nat
    /\ pushed \in Seq(PcmFrames)

\* How many bytes of the stream a PCM frame stands for, and which.
Width(p) == IF p.kind = "decoded" THEN Len(p.bytes) ELSE 1
Bytes(p) == p.at + 1 .. p.at + Width(p)

\* The bytes consumed so far.
Consumed == IF pc = "read" THEN pos - Len(leftover) ELSE Here

\* These bytes are the last ones that read() returned.
EndOfReceived(bytes) ==
    /\ Len(bytes) <= pos
    /\ \A i \in 1 .. Len(bytes) : bytes[i] = stream[(pos - Len(bytes)) + i]

\* The reader's buffers are windows of the stream.
Buffered ==
    IF pc = "read" THEN EndOfReceived(leftover) ELSE EndOfReceived(source)

\* The frames pushed follow each other in the stream without overlap and
\* without a gap, up to the bytes consumed.
Tiled ==
    /\ \A k \in 1 .. Len(pushed) : pushed[k].at + Width(pushed[k]) <= Consumed
    /\ \A j, k \in 1 .. Len(pushed) :
          j < k => pushed[j].at + Width(pushed[j]) <= pushed[k].at
    /\ \A b \in 1 .. Consumed : \E k \in 1 .. Len(pushed) : b \in Bytes(pushed[k])

\* Whether a PCM frame was decoded from the bytes the stream holds at its
\* place.
DecodedFrom(p) ==
    /\ p.bytes # <<>>
    /\ \A i \in 1 .. Len(p.bytes) : p.bytes[i] = stream[p.at + i]

\* What was decoded is what the stream held at that place, and where a whole
\* frame starts that frame was decoded.
Genuine ==
    \A k \in 1 .. Len(pushed) :
        /\ pushed[k].kind = "decoded" => DecodedFrom(pushed[k])
        /\ FrameAt(stream, pushed[k].at) =>
              pushed[k].kind = "decoded" /\ Len(pushed[k].bytes) = FrameLen

\* The concealment state is the last frame pushed, unless that was silence,
\* which only a good frame ends.
Concealment ==
    lastPcm.bytes # <<>> /\ lost <= PlcMax =>
        /\ pushed # <<>>
        /\ pushed[Len(pushed)].kind # "silence"
        /\ pushed[Len(pushed)].bytes = lastPcm.bytes
        /\ pushed[Len(pushed)].shift = lastPcm.shift

\* A concealment frame is quieter than the frame before it, and silence is
\* not left before the next good frame.
FadeOnlyDown ==
    \A k \in 1 .. Len(pushed) :
        pushed[k].kind = "concealed" =>
            /\ k > 1
            /\ pushed[k - 1].kind # "silence"
            /\ pushed[k].bytes = pushed[k - 1].bytes
            /\ pushed[k].shift > pushed[k - 1].shift

\* The inductive invariant of the reader: its buffers are windows of the
\* stream, the frames it pushed tile what it consumed, and those it decoded
\* are what the stream held.
SyncInv ==
    TypeOK /\ Buffered /\ Tiled /\ Genuine /\ Concealment /\ FadeOnlyDown

\* Between two reads every byte received belongs to exactly one frame pushed,
\* decoded from it or concealing it, or is left over, wherever the reads cut
\* the stream.
BytesConsumedOnce ==
    pc = "read" =>
        /\ leftover = SubSeq(stream, (pos - Len(leftover)) + 1, pos)
        /\ \A b \in 1 .. pos :
              IF b > pos - Len(leftover)
              THEN \A k \in 1 .. Len(pushed) : b \notin Bytes(pushed[k])
              ELSE \E k \in 1 .. Len(pushed) :
                      \A j \in 1 .. Len(pushed) : b \in Bytes(pushed[j]) <=> j = k

\* The places where a whole frame has arrived.
IntactStarts == {o \in 0 .. pos : FrameAt(Received, o)}
DecodedFrames == {k \in 1 .. Len(pushed) : pushed[k].kind = "decoded"}

\* Between two reads every frame that arrived whole has been decoded at its
\* place, unless the decoder accepted, at an earlier place where no whole
\* frame starts, bytes that reach into it; what is decoded is in the order of
\* the stream.  So neither the resynchronisation after damage nor a read that
\* cuts a frame loses a frame: only what libsbc accepts wrongly does.
IntactFramesDecoded ==
    pc = "read" =>
        /\ \A o \in IntactStarts :
              \/ \E k \in DecodedFrames :
                    /\ pushed[k].at = o
                    /\ pushed[k].bytes = SubSeq(Received, o + 1, o + FrameLen)
              \/ \E k \in DecodedFrames :
                    /\ pushed[k].at \notin IntactStarts
                    /\ pushed[k].at < o /\ o < pushed[k].at + Width(pushed[k])
        /\ \A j, k \in DecodedFrames : j < k => pushed[j].at < pushed[k].at

=============================================================================
