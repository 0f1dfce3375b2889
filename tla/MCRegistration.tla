--------------------------- MODULE MCRegistration ---------------------------
(* Bounds and the peers of the registration run.                           *)
EXTENDS Registration

\* No override, both SCMS-T settings, an override; versions on both sides of
\* SBC-XQ, unknown to the first binary or to both, and of another major.
Bz(major, minor) == [major |-> major, minor |-> minor]
Env(a, s, first, second) ==
    [adapter |-> a, scms |-> s, probes |-> <<first, second>>]
MCEnvironments ==
    {Env(NoAdapter, FALSE, NoVersion, Bz(5, XqMinor)),
     Env(NoAdapter, TRUE, Bz(5, XqMinor - 1), Bz(5, XqMinor)),
     Env(Hci0, FALSE, Bz(6, XqMinor), NoVersion),
     Env(Hci0, FALSE, NoVersion, NoVersion)}

\* Peers with narrow and wide fields, and bitpool ranges around both caps.
Peer(f, b, min, max) ==
    [freq |-> f, mode |-> {"Mono", "Stereo"}, blocks |-> b, subbands |-> {4},
     alloc |-> {"SNR", "Loudness"}, min |-> min, max |-> max]
MCPeers ==
    {Peer({16000}, {4}, 2, SafeBitpool), Peer({32000}, {12, 4}, 2, XqBitpool),
     Peer({48000, 16000}, {8}, 2, SafeBitpool - 1),
     Peer({44100, 48000}, {16}, 2, XqBitpool + 1),
     Peer({44100}, {4, 8}, SafeBitpool + 1, XqBitpool),
     Peer({16000, 32000}, {12}, XqBitpool + 1, XqBitpool + 2)}

=============================================================================
