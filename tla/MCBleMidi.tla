----------------------------- MODULE MCBleMidi -----------------------------
(* Instance of the BLE-MIDI peripheral for TLC.                            *)
EXTENDS BleMidi
=============================================================================
