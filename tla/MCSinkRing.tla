----------------------------- MODULE MCSinkRing -----------------------------
(* An instance of SinkRing for TLC: stereo, a capacity that is no multiple *)
(* of the frame, so that frames wrap, and callbacks shorter and longer     *)
(* than a frame.                                                           *)
EXTENDS SinkRing

=============================================================================
