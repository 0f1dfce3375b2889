---------------------------- MODULE MCFrameSync -----------------------------
(* Byte streams for TLC: up to MaxSegments segments, each a whole frame, a *)
(* frame that lost its last byte, a frame with a damaged byte, or a byte   *)
(* that belongs to no frame.                                               *)
EXTENDS FrameSync, SequencesExt

CONSTANT MaxSegments

SegmentKinds == {"whole", "cut", "damaged", "stray"}

Frame(f) == [i \in 1 .. FrameLen |-> <<f, i - 1>>]
Segment(kind, f) ==
    CASE kind = "whole" -> Frame(f)
      [] kind = "cut" -> SubSeq(Frame(f), 1, FrameLen - 1)
      [] kind = "damaged" -> [Frame(f) EXCEPT ![(FrameLen + 1) \div 2] = Noise]
      [] kind = "stray" -> <<Noise>>

StreamOf(kinds) ==
    FlattenSeq([f \in 1 .. Len(kinds) |-> Segment(kinds[f], f)])
MCStreams == {StreamOf(kinds) : kinds \in BoundedSeq(SegmentKinds, MaxSegments)}

=============================================================================
