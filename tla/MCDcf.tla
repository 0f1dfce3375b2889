------------------------------- MODULE MCDcf -------------------------------
(* Instance of DCF framing for TLC.                                        *)
EXTENDS Dcf

\* Empty, one full packet, two full packets, and two with a remainder.
MCLengths == {0, Usable, 2 * Usable, 2 * Usable + 1}

\* A payload that no audio packet could carry.
MCControlLengths == {MaxPayload + 1}

=============================================================================
