----------------------------- MODULE Negotiation -----------------------------
(***************************************************************************)
(* Codec negotiation: which SBC configuration select_configuration         *)
(* (bluez.rs) picks from the capabilities of a peer, under the bitpool cap *)
(* that the detected BlueZ version allows (compat.rs).                     *)
(*                                                                         *)
(* A flag byte of the capabilities is the set of the values it offers, and *)
(* a pattern of tests on it is a sequence, the preferred value first.      *)
(***************************************************************************)
EXTENDS Naturals, Sequences

CONSTANTS
    SafeBitpool,    \* what every BlueZ version handles, 53 in the code
    XqBitpool,      \* SBC_XQ_MAX_BITPOOL, 76 in the code
    XqMinor,        \* the first 5.x with SBC-XQ, 64 in the code
    NoVersion       \* nothing that parse_version understands

ASSUME BitpoolAssumption ==
    SafeBitpool \in Nat /\ XqBitpool \in Nat /\ SafeBitpool <= XqBitpool
ASSUME VersionAssumption ==
    XqMinor \in Nat /\ NoVersion \notin [major : Nat, minor : Nat]

-----------------------------------------------------------------------------
(* compat.rs                                                               *)

\* The first of the bluetoothd binaries that reports a version decides.
DetectedVersion(probes) ==
    LET known == {i \in 1 .. Len(probes) : probes[i] # NoVersion} IN
    IF known = {} THEN NoVersion
    ELSE probes[CHOOSE i \in known : \A j \in known : i <= j]

HasXq(version) ==
    version # NoVersion /\ version.major = 5 /\ version.minor >= XqMinor

\* CompatInfo.max_safe_bitpool after apply_version_workarounds.
MaxSafeBitpool(version) == IF HasXq(version) THEN XqBitpool ELSE SafeBitpool

-----------------------------------------------------------------------------
(* select_configuration                                                    *)

Frequencies == <<44100, 48000, 32000, 16000>>
ChannelModes == <<"JointStereo", "Stereo", "DualChannel", "Mono">>
BlockLengths == <<16, 12, 8, 4>>
Subbands == <<8, 4>>
Allocations == <<"Loudness", "SNR">>

\* What SBC capabilities of four bytes or more can say; shorter ones are
\* refused as InvalidArgs.
Capabilities ==
    [freq : SUBSET {16000, 32000, 44100, 48000},
     mode : SUBSET {"Mono", "DualChannel", "Stereo", "JointStereo"},
     blocks : SUBSET {4, 8, 12, 16},
     subbands : SUBSET {4, 8},
     alloc : SUBSET {"SNR", "Loudness"},
     min : Nat, max : Nat]

\* The chain of tests: the first value that is offered, the last by default.
Prefer(order, offered) ==
    LET hits == {i \in 1 .. Len(order) : order[i] \in offered} IN
    order[IF hits = {} THEN Len(order)
          ELSE CHOOSE i \in hits : \A j \in hits : i <= j]

Min2(a, b) == IF a <= b THEN a ELSE b

\* Mutant: the peer's minimum is not looked at.
BitpoolIgnoringMin(caps, maxBitpool) ==
    Min2(caps.max, Min2(maxBitpool, XqBitpool))

\* As high as the peer's maximum and ours allow, but not below its minimum.
Bitpool(caps, maxBitpool) ==
    LET bitpool == Min2(caps.max, Min2(maxBitpool, XqBitpool)) IN
    IF bitpool < caps.min THEN caps.min ELSE bitpool

SelectConfiguration(caps, maxBitpool) ==
    [freq |-> Prefer(Frequencies, caps.freq),
     mode |-> Prefer(ChannelModes, caps.mode),
     blocks |-> Prefer(BlockLengths, caps.blocks),
     subbands |-> Prefer(Subbands, caps.subbands),
     alloc |-> Prefer(Allocations, caps.alloc),
     bitpool |-> Bitpool(caps, maxBitpool)]

-----------------------------------------------------------------------------
(* What a configuration has to be                                          *)

\* Every field has a value and the bitpool range is one.
WellFormed(caps) ==
    /\ {} \notin {caps.freq, caps.mode, caps.blocks, caps.subbands, caps.alloc}
    /\ caps.min <= caps.max

\* The peer can do it.
Within(config, caps) ==
    /\ config.freq \in caps.freq
    /\ config.mode \in caps.mode
    /\ config.blocks \in caps.blocks
    /\ config.subbands \in caps.subbands
    /\ config.alloc \in caps.alloc
    /\ config.bitpool \in caps.min .. caps.max

=============================================================================
