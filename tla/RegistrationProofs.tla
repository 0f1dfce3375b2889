------------------------- MODULE RegistrationProofs -------------------------
(***************************************************************************)
(* The safety properties of registration for any number of adapters,       *)
(* connections and tracks, and of negotiation for every peer.              *)
(*                                                                         *)
(* One lemma per action: a step per conjunct of RInv the action can        *)
(* disturb, and one for those whose variables it leaves alone.             *)
(***************************************************************************)
EXTENDS Registration, TLAPS

LEMMA RInitInv == RInit => RInv
<1> SUFFICES ASSUME RInit PROVE RInv
  OBVIOUS
<1> USE AdapterAssumption, RegBoundAssumption, BitpoolAssumption DEF RInit
<1>1. up \in BOOLEAN /\ scms \in BOOLEAN /\ scmsT \in BOOLEAN
  BY Zenon
<1>2. NoEndpoint \in [adapter : Adapters \cup {NoAdapter}, scms : BOOLEAN]
  BY Zenon DEF NoEndpoint
<1>3. RTypeOK
  BY <1>1, <1>2 DEF RTypeOK, NoView, Conns
<1>4. CallShape /\ HolderShape
  BY DEF CallShape, HolderShape, Conns
<1>5. InfoShape /\ BitpoolShape
  BY DEF InfoShape, BitpoolShape, NoView
<1>6. NoHalfRegistration /\ ScmsTAsRegistered /\ SecondReadNotOlder
  BY DEF NoHalfRegistration, ScmsTAsRegistered, SecondReadNotOlder, Open, NoView
<1>7. QED
  BY <1>3, <1>4, <1>5, <1>6 DEF RInv

\* demod_bt_init, which drops a runtime in place.
LEMMA InitRuntimeKeeps ==
  ASSUME RInv, InitRuntime
  PROVE  RInv'
<1> USE AdapterAssumption, RegBoundAssumption, BitpoolAssumption     DEF RInv,
        InitRuntime, callVars, infoVars, Conns
<1>1. RTypeOK'
  <2>1. holders' \in [Conns -> SUBSET {"register", "runtime", "watcher", "cancelled"}]
    BY DEF RTypeOK
  <2>2. scmsT' \in BOOLEAN /\ up' \in BOOLEAN
    BY EnvironmentAssumption, Zenon DEF RTypeOK
  <2>3. dbusConn' \in 0 .. last
    BY DEF RTypeOK
  <2>4. QED
    BY <2>1, <2>2, <2>3 DEF RTypeOK
<1>2. CallShape'
  BY DEF RTypeOK, CallShape, NoEndpoint
<1>3. HolderShape'
  BY DEF RTypeOK, HolderShape, CallShape, InProgress
<1>4. NoHalfRegistration'
  BY DEF RTypeOK, NoHalfRegistration, CallShape, HolderShape, InProgress,
         Open, NoEndpoint
<1>5. ScmsTAsRegistered'
  BY DEF RTypeOK, ScmsTAsRegistered, CallShape, HolderShape, NoEndpoint
<1>6. InfoShape' /\ BitpoolShape' /\ SecondReadNotOlder'
  BY DEF InfoShape, BitpoolShape, SecondReadNotOlder
<1>7. QED
  BY <1>1, <1>2, <1>3, <1>4, <1>5, <1>6

\* demod_bt_shutdown.
LEMMA ShutdownRuntimeKeeps ==
  ASSUME RInv, ShutdownRuntime
  PROVE  RInv'
<1> USE AdapterAssumption, RegBoundAssumption, BitpoolAssumption     DEF RInv,
        ShutdownRuntime, callVars, infoVars, Conns
<1>1. RTypeOK'
  <2>1. holders' \in [Conns -> SUBSET {"register", "runtime", "watcher", "cancelled"}]
    BY DEF RTypeOK
  <2>2. up' \in BOOLEAN
    BY Zenon
  <2>3. dbusConn' \in 0 .. last
    BY DEF RTypeOK
  <2>4. QED
    BY <2>1, <2>2, <2>3 DEF RTypeOK
<1>2. CallShape'
  BY DEF RTypeOK, CallShape, NoEndpoint
<1>3. HolderShape'
  BY DEF RTypeOK, HolderShape, CallShape, InProgress
<1>4. NoHalfRegistration'
  BY DEF RTypeOK, NoHalfRegistration, CallShape, HolderShape, InProgress,
         Open, NoEndpoint
<1>5. ScmsTAsRegistered'
  BY DEF RTypeOK, ScmsTAsRegistered, CallShape, HolderShape, NoEndpoint
<1>6. InfoShape' /\ BitpoolShape' /\ SecondReadNotOlder'
  BY DEF InfoShape, BitpoolShape, SecondReadNotOlder
<1>7. QED
  BY <1>1, <1>2, <1>3, <1>4, <1>5, <1>6

\* register() opens a connection.
LEMMA ConnectKeeps ==
  ASSUME RInv, Connect
  PROVE  RInv'
<1> USE AdapterAssumption, RegBoundAssumption, BitpoolAssumption     DEF RInv,
        Connect, rtVars, infoVars, Conns
<1>1. RTypeOK'
  BY DEF RTypeOK
<1>2. CallShape'
  <2>1. /\ last' = last + 1 /\ last + 1 \in Conns /\ up' = up /\ up
        /\ rpc' = "enumerate" /\ UNCHANGED <<served, player, endpoint>>
    BY DEF RTypeOK
  <2>2. /\ holders'[last + 1] = {"register"}
        /\ \A c \in Conns : c > last + 1 => holders'[c] = holders[c]
    BY <2>1 DEF RTypeOK
  <2>3. \A c \in Conns : c > last =>
           holders[c] = {} /\ ~served[c] /\ endpoint[c] = NoEndpoint
    BY DEF CallShape
  <2>4. \A c \in Conns : c > last + 1 => c > last
    BY DEF RTypeOK
  <2>5. last + 1 > last
    BY DEF RTypeOK
  <2>6. QED
    BY <2>1, <2>2, <2>3, <2>4, <2>5 DEF CallShape
<1>3. HolderShape'
  BY DEF RTypeOK, HolderShape, CallShape, InProgress
<1>4. NoHalfRegistration'
  BY DEF RTypeOK, NoHalfRegistration, CallShape, HolderShape, InProgress,
         Open, NoEndpoint
<1>5. InfoShape' /\ BitpoolShape' /\ ScmsTAsRegistered' /\ SecondReadNotOlder'
  BY DEF InfoShape, BitpoolShape, ScmsTAsRegistered, SecondReadNotOlder
<1>6. QED
  BY <1>1, <1>2, <1>3, <1>4, <1>5

LEMMA EnumerateAdapterKeeps ==
  ASSUME RInv, EnumerateAdapter
  PROVE  RInv'
<1> USE AdapterAssumption, RegBoundAssumption, BitpoolAssumption     DEF RInv,
        EnumerateAdapter, rtVars, busVars, infoVars, Conns
<1>1. RTypeOK'
  <2>1. env.adapter \in Adapters \cup {NoAdapter}
    BY EnvironmentAssumption DEF RTypeOK
  <2>2. adapter' \in Adapters \cup {NoAdapter}
    BY <2>1, Zenon DEF RTypeOK
  <2>3. QED
    BY <2>2 DEF RTypeOK
<1>2. CallShape'
  BY DEF RTypeOK, CallShape, NoEndpoint
<1>3. HolderShape'
  BY DEF RTypeOK, HolderShape, CallShape, InProgress
<1>4. NoHalfRegistration'
  BY DEF RTypeOK, NoHalfRegistration, CallShape, HolderShape, InProgress,
         Open, NoEndpoint
<1>5. InfoShape' /\ BitpoolShape' /\ ScmsTAsRegistered' /\ SecondReadNotOlder'
  BY DEF InfoShape, BitpoolShape, ScmsTAsRegistered, SecondReadNotOlder
<1>6. QED
  BY <1>1, <1>2, <1>3, <1>4, <1>5

LEMMA ServeEndpointKeeps ==
  ASSUME RInv, ServeEndpoint
  PROVE  RInv'
<1> USE AdapterAssumption, RegBoundAssumption, BitpoolAssumption     DEF RInv,
        ServeEndpoint, rtVars, infoVars, Conns
<1>1. RTypeOK'
  BY DEF RTypeOK, CallShape, MaxSafeBitpool
<1>2. CallShape'
  BY DEF RTypeOK, CallShape, NoEndpoint
<1>3. HolderShape'
  BY DEF RTypeOK, HolderShape, CallShape, InProgress
<1>4. BitpoolShape'
  BY DEF RTypeOK, BitpoolShape
<1>5. NoHalfRegistration'
  BY DEF RTypeOK, NoHalfRegistration, CallShape, HolderShape, InProgress,
         Open, NoEndpoint
<1>6. InfoShape' /\ ScmsTAsRegistered' /\ SecondReadNotOlder'
  BY DEF InfoShape, ScmsTAsRegistered, SecondReadNotOlder
<1>7. QED
  BY <1>1, <1>2, <1>3, <1>4, <1>5, <1>6

LEMMA RegisterEndpointKeeps ==
  ASSUME RInv, RegisterEndpoint
  PROVE  RInv'
<1> USE AdapterAssumption, RegBoundAssumption, BitpoolAssumption     DEF RInv,
        RegisterEndpoint, rtVars, busVars, infoVars, Conns
<1>1. RTypeOK'
  BY DEF RTypeOK, CallShape
<1>2. CallShape'
  BY DEF RTypeOK, CallShape, NoEndpoint
<1>3. HolderShape'
  BY DEF RTypeOK, HolderShape, CallShape, InProgress
<1>4. NoHalfRegistration'
  BY DEF RTypeOK, NoHalfRegistration, CallShape, HolderShape, InProgress,
         Open, NoEndpoint
<1>5. ScmsTAsRegistered'
  BY DEF RTypeOK, ScmsTAsRegistered, CallShape, HolderShape, NoEndpoint
<1>6. InfoShape' /\ BitpoolShape' /\ SecondReadNotOlder'
  BY DEF InfoShape, BitpoolShape, SecondReadNotOlder
<1>7. QED
  BY <1>1, <1>2, <1>3, <1>4, <1>5, <1>6

LEMMA RetryWithScmsTKeeps ==
  ASSUME RInv, RetryWithScmsT
  PROVE  RInv'
<1> USE AdapterAssumption, RegBoundAssumption, BitpoolAssumption     DEF RInv,
        RetryWithScmsT, rtVars, busVars, infoVars, Conns
<1>1. RTypeOK'
  BY DEF RTypeOK
<1>2. CallShape'
  BY DEF RTypeOK, CallShape, NoEndpoint
<1>3. HolderShape'
  BY DEF RTypeOK, HolderShape, CallShape, InProgress
<1>4. NoHalfRegistration'
  BY DEF RTypeOK, NoHalfRegistration, CallShape, HolderShape, InProgress,
         Open, NoEndpoint
<1>5. InfoShape' /\ BitpoolShape' /\ ScmsTAsRegistered' /\ SecondReadNotOlder'
  BY DEF InfoShape, BitpoolShape, ScmsTAsRegistered, SecondReadNotOlder
<1>6. QED
  BY <1>1, <1>2, <1>3, <1>4, <1>5

\* The connection of a register() that fails closes.
LEMMA RegisterFailedKeeps ==
  ASSUME RInv, RegisterFailed
  PROVE  RInv'
<1> USE AdapterAssumption, RegBoundAssumption, BitpoolAssumption     DEF RInv,
        RegisterFailed, ReturnFromRegister, rtVars, infoVars, Conns
<1>1. RTypeOK'
  BY DEF RTypeOK
<1>2. CallShape'
  BY DEF RTypeOK, CallShape, NoEndpoint
<1>3. HolderShape'
  BY DEF RTypeOK, HolderShape, CallShape, InProgress
<1>4. NoHalfRegistration'
  BY DEF RTypeOK, NoHalfRegistration, CallShape, HolderShape, InProgress,
         Open, NoEndpoint
<1>5. InfoShape' /\ BitpoolShape' /\ ScmsTAsRegistered' /\ SecondReadNotOlder'
  BY DEF InfoShape, BitpoolShape, ScmsTAsRegistered, SecondReadNotOlder
<1>6. QED
  BY <1>1, <1>2, <1>3, <1>4, <1>5

LEMMA ServePlayerKeeps ==
  ASSUME RInv, ServePlayer
  PROVE  RInv'
<1> USE AdapterAssumption, RegBoundAssumption, BitpoolAssumption     DEF RInv,
        ServePlayer, rtVars, infoVars, Conns
<1>1. RTypeOK'
  BY DEF RTypeOK, CallShape
<1>2. CallShape'
  BY DEF RTypeOK, CallShape, NoEndpoint
<1>3. HolderShape'
  BY DEF RTypeOK, HolderShape, CallShape, InProgress
<1>4. NoHalfRegistration'
  BY DEF RTypeOK, NoHalfRegistration, CallShape, HolderShape, InProgress,
         Open, NoEndpoint
<1>5. InfoShape' /\ BitpoolShape' /\ ScmsTAsRegistered' /\ SecondReadNotOlder'
  BY DEF InfoShape, BitpoolShape, ScmsTAsRegistered, SecondReadNotOlder
<1>6. QED
  BY <1>1, <1>2, <1>3, <1>4, <1>5

\* register() hands its connection over.
LEMMA RegisteredKeeps ==
  ASSUME RInv, Registered
  PROVE  RInv'
<1> USE AdapterAssumption, RegBoundAssumption, BitpoolAssumption     DEF RInv,
        Registered, ReturnFromRegister, infoVars, Conns
<1>1. RTypeOK'
  <2>1. last \in Conns /\ dbusConn' = last
    BY DEF CallShape
  <2>2. holders' \in [Conns -> SUBSET {"register", "runtime", "watcher", "cancelled"}]
    BY DEF RTypeOK
  <2>3. scmsT' \in BOOLEAN /\ scms' \in BOOLEAN
    BY Zenon DEF RTypeOK
  <2>4. /\ env' = env /\ up' = up /\ last' = last /\ rpc' = "idle"
        /\ adapter' = NoAdapter
        /\ UNCHANGED <<served, player, maxBitpool, present, endpoint>>
        /\ UNCHANGED <<track, position, view>>
    BY Zenon
  <2>5. last' \in 0 .. MaxConns /\ dbusConn' \in 0 .. last'
    BY <2>1, <2>4 DEF RTypeOK
  <2>6. /\ env' \in Environments /\ up' \in BOOLEAN
        /\ served' \in [Conns -> BOOLEAN] /\ player' \in [Conns -> BOOLEAN]
        /\ maxBitpool' \in [Conns -> {SafeBitpool, XqBitpool}]
        /\ present' \in SUBSET Adapters
        /\ endpoint' \in [Conns -> [adapter : Adapters \cup {NoAdapter},
                                    scms : BOOLEAN]]
        /\ track' \in [Conns -> 0 .. MaxTrack]
        /\ position' \in [Conns -> 0 .. MaxTrack]
        /\ view' \in [conn : 0 .. MaxConns, track : 0 .. MaxTrack,
                     position : 0 .. MaxTrack,
                     newest : {"none", "track", "position"}]
    BY <2>4, Zenon DEF RTypeOK
  <2>7. /\ adapter' \in Adapters \cup {NoAdapter}
        /\ rpc' \in {"idle", "enumerate", "serve", "register", "retry", "player",
                    "watch"}
    BY <2>4, Zenon
  <2>8. QED
    BY <2>2, <2>3, <2>5, <2>6, <2>7, Zenon DEF RTypeOK
<1>2. CallShape'
  BY DEF RTypeOK, CallShape, HolderShape, NoEndpoint
<1>3. HolderShape'
  BY DEF RTypeOK, HolderShape, CallShape, InProgress
<1>4. NoHalfRegistration'
  BY DEF RTypeOK, NoHalfRegistration, CallShape, HolderShape, InProgress,
         Open, NoEndpoint
<1>5. ScmsTAsRegistered'
  BY DEF RTypeOK, ScmsTAsRegistered, CallShape, HolderShape, NoEndpoint
<1>6. InfoShape' /\ BitpoolShape' /\ SecondReadNotOlder'
  BY DEF InfoShape, BitpoolShape, SecondReadNotOlder
<1>7. QED
  BY <1>1, <1>2, <1>3, <1>4, <1>5, <1>6

\* Playback state.
LEMMA UpdateMetadataKeeps ==
  ASSUME RInv, UpdateMetadata
  PROVE  RInv'
<1> USE AdapterAssumption, RegBoundAssumption, BitpoolAssumption     DEF RInv,
        UpdateMetadata, HasPlaybackInfo, callVars, rtVars, busVars, Conns
<1>1. RTypeOK'
  BY DEF RTypeOK
<1>2. InfoShape'
  BY DEF RTypeOK, InfoShape
<1>3. CallShape' /\ HolderShape' /\ BitpoolShape' /\ NoHalfRegistration' /\
      ScmsTAsRegistered' /\ SecondReadNotOlder'
  BY DEF CallShape, HolderShape, BitpoolShape, NoHalfRegistration,
         ScmsTAsRegistered, SecondReadNotOlder, InProgress, Open
<1>4. QED
  BY <1>1, <1>2, <1>3

LEMMA UpdatePositionKeeps ==
  ASSUME RInv, UpdatePosition
  PROVE  RInv'
<1> USE AdapterAssumption, RegBoundAssumption, BitpoolAssumption     DEF RInv,
        UpdatePosition, HasPlaybackInfo, callVars, rtVars, busVars, Conns
<1>1. RTypeOK'
  BY DEF RTypeOK
<1>2. InfoShape'
  BY DEF RTypeOK, InfoShape
<1>3. CallShape' /\ HolderShape' /\ BitpoolShape' /\ NoHalfRegistration' /\
      ScmsTAsRegistered' /\ SecondReadNotOlder'
  BY DEF CallShape, HolderShape, BitpoolShape, NoHalfRegistration,
         ScmsTAsRegistered, SecondReadNotOlder, InProgress, Open
<1>4. QED
  BY <1>1, <1>2, <1>3

Views == [conn : 0 .. MaxConns, track : 0 .. MaxTrack, position : 0 .. MaxTrack,
          newest : {"none", "track", "position"}]

\* What a device has read of a player is not newer than what the player shows.
LEMMA SeenOlder ==
  ASSUME RInv, NEW c \in Conns
  PROVE /\ Seen(c) \in Views /\ Seen(c).conn = c
        /\ Seen(c).track <= track[c] /\ Seen(c).position <= track[c]
<1> USE RegBoundAssumption DEF Conns
<1>1. view \in Views /\ track[c] \in 0 .. MaxTrack
  BY DEF RInv, RTypeOK, Views
<1>2. CASE view.conn = c
  <2>1. Seen(c) = view /\ c # 0
    BY <1>2 DEF Seen
  <2>2. QED
    BY <1>1, <1>2, <2>1 DEF RInv, InfoShape
<1>3. CASE view.conn # c
  <2>1. Seen(c) = [conn |-> c, track |-> 0, position |-> 0, newest |-> "none"]
    BY <1>3 DEF Seen, NoView
  <2>2. QED
    BY <1>1, <2>1 DEF Views
<1>4. QED
  BY <1>2, <1>3

LEMMA ReadTrackKeeps ==
  ASSUME RInv, NEW c \in Conns, ReadTrack(c)
  PROVE  RInv'
<1> USE AdapterAssumption, RegBoundAssumption, BitpoolAssumption     DEF RInv,
        ReadTrack, callVars, rtVars, busVars, Conns
<1>1. /\ view' = [Seen(c) EXCEPT !.track = track[c], !.newest = "track"]
      /\ Seen(c) \in Views /\ Seen(c).conn = c
      /\ Seen(c).track <= track[c] /\ Seen(c).position <= track[c]
      /\ track[c] \in 0 .. MaxTrack /\ position[c] \in {0, track[c]}
  BY SeenOlder DEF RTypeOK, InfoShape
<1> HIDE DEF ReadTrack
<1>2. /\ view' \in Views /\ view'.conn = c /\ view'.newest = "track"
      /\ view'.track = track[c]
      /\ view'.track <= track[c] /\ view'.position <= track[c]
      /\ view'.position = Seen(c).position
  <2>1. track[c] \in 0 .. MaxTrack /\ track[c] <= track[c]
    BY <1>1
  <2>2. /\ view' \in Views /\ view'.conn = c /\ view'.newest = "track"
        /\ view'.track = track[c] /\ view'.position = Seen(c).position
    <3>1. ASSUME NEW d \in Views, NEW x \in 0 .. MaxTrack,
                 view' = [d EXCEPT !.track = x, !.newest = "track"]
          PROVE /\ view' \in Views /\ view'.conn = d.conn /\ view'.newest = "track"
                /\ view'.track = x /\ view'.position = d.position
      BY <3>1 DEF Views
    <3>2. QED
      BY <1>1, <2>1, <3>1, Zenon
  <2>3. QED
    BY <1>1, <2>1, <2>2, Zenon
<1>3. RTypeOK'
  BY <1>2 DEF RTypeOK, Views, ReadTrack
<1>4. InfoShape'
  BY <1>1, <1>2 DEF RTypeOK, InfoShape, ReadTrack
<1>5. SecondReadNotOlder'
  BY <1>1, <1>2 DEF SecondReadNotOlder, Views
<1>6. CallShape' /\ HolderShape' /\ BitpoolShape' /\ NoHalfRegistration' /\
      ScmsTAsRegistered'
  BY DEF CallShape, HolderShape, BitpoolShape, NoHalfRegistration,
         ScmsTAsRegistered, InProgress, Open, ReadTrack
<1>7. QED
  BY <1>3, <1>4, <1>5, <1>6

LEMMA ReadPositionKeeps ==
  ASSUME RInv, NEW c \in Conns, ReadPosition(c)
  PROVE  RInv'
<1> USE AdapterAssumption, RegBoundAssumption, BitpoolAssumption     DEF RInv,
        ReadPosition, callVars, rtVars, busVars, Conns
<1>1. /\ view' = [Seen(c) EXCEPT !.position = position[c], !.newest = "position"]
      /\ Seen(c) \in Views /\ Seen(c).conn = c
      /\ Seen(c).track <= track[c] /\ Seen(c).position <= track[c]
      /\ track[c] \in 0 .. MaxTrack /\ position[c] \in {0, track[c]}
  BY SeenOlder DEF RTypeOK, InfoShape
<1> HIDE DEF ReadPosition
<1>2. /\ view' \in Views /\ view'.conn = c /\ view'.newest = "position"
      /\ view'.position = position[c]
      /\ view'.track <= track[c] /\ view'.position <= track[c]
      /\ view'.track = Seen(c).track
  <2>1. position[c] \in 0 .. MaxTrack /\ position[c] <= track[c]
    BY <1>1
  <2>2. /\ view' \in Views /\ view'.conn = c /\ view'.newest = "position"
        /\ view'.position = position[c] /\ view'.track = Seen(c).track
    <3>1. ASSUME NEW d \in Views, NEW x \in 0 .. MaxTrack,
                 view' = [d EXCEPT !.position = x, !.newest = "position"]
          PROVE /\ view' \in Views /\ view'.conn = d.conn /\ view'.newest = "position"
                /\ view'.position = x /\ view'.track = d.track
      BY <3>1 DEF Views
    <3>2. QED
      BY <1>1, <2>1, <3>1, Zenon
  <2>3. QED
    BY <1>1, <2>1, <2>2, Zenon
<1>3. RTypeOK'
  BY <1>2 DEF RTypeOK, Views, ReadPosition
<1>4. InfoShape'
  BY <1>1, <1>2 DEF RTypeOK, InfoShape, ReadPosition
<1>5. SecondReadNotOlder'
  BY <1>1, <1>2 DEF SecondReadNotOlder, Views
<1>6. CallShape' /\ HolderShape' /\ BitpoolShape' /\ NoHalfRegistration' /\
      ScmsTAsRegistered'
  BY DEF CallShape, HolderShape, BitpoolShape, NoHalfRegistration,
         ScmsTAsRegistered, InProgress, Open, ReadPosition
<1>7. QED
  BY <1>3, <1>4, <1>5, <1>6

\* The watcher lets go of its connection.
LEMMA WatcherCancelledKeeps ==
  ASSUME RInv, NEW c \in Conns, WatcherCancelled(c)
  PROVE  RInv'
<1> USE AdapterAssumption, RegBoundAssumption, BitpoolAssumption     DEF RInv,
        WatcherCancelled, callVars, rtVars, infoVars, Conns
<1>1. RTypeOK'
  BY DEF RTypeOK
<1>2. CallShape'
  BY DEF RTypeOK, CallShape, NoEndpoint
<1>3. HolderShape'
  BY DEF RTypeOK, HolderShape, CallShape, InProgress
<1>4. NoHalfRegistration'
  BY DEF RTypeOK, NoHalfRegistration, CallShape, HolderShape, InProgress,
         Open, NoEndpoint
<1>5. InfoShape' /\ BitpoolShape' /\ ScmsTAsRegistered' /\ SecondReadNotOlder'
  BY DEF InfoShape, BitpoolShape, ScmsTAsRegistered, SecondReadNotOlder
<1>6. QED
  BY <1>1, <1>2, <1>3, <1>4, <1>5

LEMMA WatcherFailedKeeps ==
  ASSUME RInv, NEW c \in Conns, WatcherFailed(c)
  PROVE  RInv'
<1> USE AdapterAssumption, RegBoundAssumption, BitpoolAssumption     DEF RInv,
        WatcherFailed, callVars, rtVars, infoVars, Conns
<1>1. RTypeOK'
  BY DEF RTypeOK
<1>2. CallShape'
  BY DEF RTypeOK, CallShape, NoEndpoint
<1>3. HolderShape'
  BY DEF RTypeOK, HolderShape, CallShape, InProgress
<1>4. NoHalfRegistration'
  BY DEF RTypeOK, NoHalfRegistration, CallShape, HolderShape, InProgress,
         Open, NoEndpoint
<1>5. InfoShape' /\ BitpoolShape' /\ ScmsTAsRegistered' /\ SecondReadNotOlder'
  BY DEF InfoShape, BitpoolShape, ScmsTAsRegistered, SecondReadNotOlder
<1>6. QED
  BY <1>1, <1>2, <1>3, <1>4, <1>5

\* BlueZ forgets endpoints.
LEMMA ClientGoneKeeps ==
  ASSUME RInv, NEW c \in Conns, ClientGone(c)
  PROVE  RInv'
<1> USE AdapterAssumption, RegBoundAssumption, BitpoolAssumption     DEF RInv,
        ClientGone, callVars, rtVars, busVars, infoVars, Conns
<1>1. RTypeOK'
  BY DEF RTypeOK, NoEndpoint
<1>2. CallShape'
  BY DEF RTypeOK, CallShape, NoEndpoint
<1>3. NoHalfRegistration'
  BY DEF RTypeOK, NoHalfRegistration, CallShape, HolderShape, InProgress,
         Open, NoEndpoint
<1>4. ScmsTAsRegistered'
  <2>1. dbusConn # 0 => endpoint'[dbusConn] \in {endpoint[dbusConn], NoEndpoint}
    BY DEF RTypeOK
  <2>2. UNCHANGED <<dbusConn, scmsT>>
    OBVIOUS
  <2>3. QED
    BY <2>1, <2>2 DEF ScmsTAsRegistered
<1>5. HolderShape' /\ InfoShape' /\ BitpoolShape' /\ SecondReadNotOlder'
  BY DEF HolderShape, InfoShape, BitpoolShape, SecondReadNotOlder, InProgress
<1>6. QED
  BY <1>1, <1>2, <1>3, <1>4, <1>5

LEMMA AdapterAddedKeeps ==
  ASSUME RInv, NEW a \in Adapters, AdapterAdded(a)
  PROVE  RInv'
<1> USE AdapterAssumption, RegBoundAssumption, BitpoolAssumption     DEF RInv,
        AdapterAdded, callVars, rtVars, busVars, infoVars, Conns
<1>1. RTypeOK'
  BY DEF RTypeOK
<1>2. CallShape' /\ HolderShape' /\ InfoShape' /\ BitpoolShape' /\
      NoHalfRegistration' /\ ScmsTAsRegistered' /\ SecondReadNotOlder'
  BY DEF CallShape, HolderShape, InfoShape, BitpoolShape, NoHalfRegistration,
         ScmsTAsRegistered, SecondReadNotOlder, InProgress, Open
<1>3. QED
  BY <1>1, <1>2

LEMMA AdapterRemovedKeeps ==
  ASSUME RInv, NEW a \in Adapters, AdapterRemoved(a)
  PROVE  RInv'
<1> USE AdapterAssumption, RegBoundAssumption, BitpoolAssumption     DEF RInv,
        AdapterRemoved, callVars, rtVars, busVars, infoVars, Conns
<1>1. RTypeOK'
  BY DEF RTypeOK, NoEndpoint
<1>2. CallShape'
  BY DEF RTypeOK, CallShape, NoEndpoint
<1>3. NoHalfRegistration'
  BY DEF RTypeOK, NoHalfRegistration, CallShape, HolderShape, InProgress,
         Open, NoEndpoint
<1>4. ScmsTAsRegistered'
  <2>1. dbusConn # 0 => endpoint'[dbusConn] \in {endpoint[dbusConn], NoEndpoint}
    BY DEF RTypeOK
  <2>2. UNCHANGED <<dbusConn, scmsT>>
    OBVIOUS
  <2>3. QED
    BY <2>1, <2>2 DEF ScmsTAsRegistered
<1>5. HolderShape' /\ InfoShape' /\ BitpoolShape' /\ SecondReadNotOlder'
  BY DEF HolderShape, InfoShape, BitpoolShape, SecondReadNotOlder, InProgress
<1>6. QED
  BY <1>1, <1>2, <1>3, <1>4, <1>5

LEMMA StepKeepsRInv == RInv /\ [RNext]_regVars => RInv'
<1> SUFFICES ASSUME RInv, [RNext]_regVars PROVE RInv'
  OBVIOUS
<1>1. CASE UNCHANGED regVars
  <2> USE <1>1 DEF RInv, regVars, callVars, rtVars, busVars, infoVars
  <2>1. RTypeOK' /\ CallShape' /\ HolderShape'
    BY DEF RTypeOK, CallShape, HolderShape, InProgress
  <2>2. InfoShape' /\ BitpoolShape' /\ ScmsTAsRegistered' /\ SecondReadNotOlder'
    BY DEF InfoShape, BitpoolShape, ScmsTAsRegistered, SecondReadNotOlder
  <2>3. NoHalfRegistration'
    BY DEF NoHalfRegistration, InProgress, Open
  <2>4. QED
    BY <2>1, <2>2, <2>3
<1>2. CASE Register
  BY <1>2, ConnectKeeps, EnumerateAdapterKeeps, ServeEndpointKeeps,
     RegisterEndpointKeeps, RetryWithScmsTKeeps, RegisterFailedKeeps,
     ServePlayerKeeps, RegisteredKeeps DEF Register
<1>3. CASE InitRuntime \/ ShutdownRuntime \/ UpdateMetadata \/ UpdatePosition
  BY <1>3, InitRuntimeKeeps, ShutdownRuntimeKeeps, UpdateMetadataKeeps,
     UpdatePositionKeeps
<1>4. CASE AvrcpNotReady
  BY <1>1, <1>4 DEF AvrcpNotReady
<1>5. CASE \E c \in Conns : WatcherCancelled(c) \/ WatcherFailed(c)
                            \/ ReadTrack(c) \/ ReadPosition(c)
                            \/ ClientGone(c)
  BY <1>5, WatcherCancelledKeeps, WatcherFailedKeeps, ReadTrackKeeps,
     ReadPositionKeeps, ClientGoneKeeps
<1>6. CASE \E a \in Adapters : AdapterAdded(a) \/ AdapterRemoved(a)
  BY <1>6, AdapterAddedKeeps, AdapterRemovedKeeps
<1>7. QED
  BY <1>1, <1>2, <1>3, <1>4, <1>5, <1>6 DEF RNext

\* The inductive invariant holds whenever register(), init, shutdown, the
\* watcher and BlueZ interleave.
THEOREM RegistrationInvariant == RSpec => []RInv
BY RInitInv, StepKeepsRInv, PTL DEF RSpec

\* A register() that fails anywhere leaves nothing on an open connection, and
\* BlueZ never holds an endpoint that its connection does not serve.
THEOREM NothingHalfRegistered == RSpec => []NoHalfRegistration
<1>1. RInv => NoHalfRegistration
  BY DEF RInv
<1>2. QED
  BY <1>1, RegistrationInvariant, PTL

\* The runtime's SCMS-T flag is that of its registered endpoint, after any
\* number of retries and registrations.
THEOREM ScmsTRecorded == RSpec => []ScmsTAsRegistered
<1>1. RInv => ScmsTAsRegistered
  BY DEF RInv
<1>2. QED
  BY <1>1, RegistrationInvariant, PTL

\* Of the separate reads of a remote device, in either order and repeated at
\* will, the second is never of an earlier track than the first.
THEOREM SecondReadNotOlderHolds == RSpec => []SecondReadNotOlder
<1>1. RInv => SecondReadNotOlder
  BY DEF RInv
<1>2. QED
  BY <1>1, RegistrationInvariant, PTL

-----------------------------------------------------------------------------
(* Negotiation                                                             *)

\* A chain of up to four tests finds a value that is offered, if one is.
LEMMA PreferOffered ==
  ASSUME NEW order, NEW offered, Len(order) \in 1 .. 4,
         \E i \in 1 .. Len(order) : order[i] \in offered
  PROVE  Prefer(order, offered) \in offered
<1> DEFINE hits == {i \in 1 .. Len(order) : order[i] \in offered}
<1>1. hits \in SUBSET {1, 2, 3, 4} /\ hits # {}
  OBVIOUS
<1> HIDE DEF hits
<1>2. \E i \in hits : \A j \in hits : i <= j
  <2>1. CASE 1 \in hits
    <3>1. \A j \in hits : 1 <= j
      BY <1>1
    <3>2. QED
      BY <2>1, <3>1
  <2>2. CASE 1 \notin hits /\ 2 \in hits
    <3>1. \A j \in hits : 2 <= j
      BY <1>1, <2>2
    <3>2. QED
      BY <2>2, <3>1
  <2>3. CASE 1 \notin hits /\ 2 \notin hits /\ 3 \in hits
    <3>1. \A j \in hits : 3 <= j
      BY <1>1, <2>3
    <3>2. QED
      BY <2>3, <3>1
  <2>4. CASE 1 \notin hits /\ 2 \notin hits /\ 3 \notin hits
    <3>1. hits = {4}
      BY <1>1, <2>4
    <3>2. QED
      BY <3>1
  <2>5. QED
    BY <2>1, <2>2, <2>3, <2>4
<1>3. (CHOOSE i \in hits : \A j \in hits : i <= j) \in hits
  BY <1>2, Zenon
<1>4. QED
  BY <1>1, <1>3 DEF Prefer, hits

LEMMA SelectsWithin ==
  ASSUME NEW caps \in Capabilities, WellFormed(caps),
         NEW maxPool \in {SafeBitpool, XqBitpool}
  PROVE  LET config == SelectConfiguration(caps, maxPool) IN
         /\ Within(config, caps)
         /\ config.bitpool <= maxPool \/ config.bitpool = caps.min
<1> DEFINE config == SelectConfiguration(caps, maxPool)
<1>1. Prefer(Frequencies, caps.freq) \in caps.freq
  <2>1. \E i \in 1 .. Len(Frequencies) : Frequencies[i] \in caps.freq
    BY DEF Frequencies, Capabilities, WellFormed
  <2>2. Len(Frequencies) = 4
    BY DEF Frequencies
  <2>3. QED
    BY <2>1, <2>2, PreferOffered
<1>2. Prefer(ChannelModes, caps.mode) \in caps.mode
  <2>1. \E i \in 1 .. Len(ChannelModes) : ChannelModes[i] \in caps.mode
    BY DEF ChannelModes, Capabilities, WellFormed
  <2>2. Len(ChannelModes) = 4
    BY DEF ChannelModes
  <2>3. QED
    BY <2>1, <2>2, PreferOffered
<1>3. Prefer(BlockLengths, caps.blocks) \in caps.blocks
  <2>1. \E i \in 1 .. Len(BlockLengths) : BlockLengths[i] \in caps.blocks
    BY DEF BlockLengths, Capabilities, WellFormed
  <2>2. Len(BlockLengths) = 4
    BY DEF BlockLengths
  <2>3. QED
    BY <2>1, <2>2, PreferOffered
<1>4. Prefer(Subbands, caps.subbands) \in caps.subbands
  <2>1. \E i \in 1 .. Len(Subbands) : Subbands[i] \in caps.subbands
    BY DEF Subbands, Capabilities, WellFormed
  <2>2. Len(Subbands) = 2
    BY DEF Subbands
  <2>3. QED
    BY <2>1, <2>2, PreferOffered
<1>5. Prefer(Allocations, caps.alloc) \in caps.alloc
  <2>1. \E i \in 1 .. Len(Allocations) : Allocations[i] \in caps.alloc
    BY DEF Allocations, Capabilities, WellFormed
  <2>2. Len(Allocations) = 2
    BY DEF Allocations
  <2>3. QED
    BY <2>1, <2>2, PreferOffered
<1>6. /\ Bitpool(caps, maxPool) \in caps.min .. caps.max
      /\ Bitpool(caps, maxPool) <= maxPool \/ Bitpool(caps, maxPool) = caps.min
  BY BitpoolAssumption DEF Bitpool, Min2, Capabilities, WellFormed
<1>7. QED
  BY <1>1, <1>2, <1>3, <1>4, <1>5, <1>6 DEF SelectConfiguration, Within

\* Every endpoint answers every peer with a configuration the peer can do,
\* at a bitpool the detected BlueZ can do unless the peer accepts no less.
THEOREM EveryPeerAnswered == RSpec => []NegotiationSound
<1>1. RInv => NegotiationSound
  <2> SUFFICES ASSUME RInv, NEW c \in Conns, NEW caps \in Peers,
                      served[c], WellFormed(caps)
               PROVE  LET config == SelectConfiguration(caps, maxBitpool[c]) IN
                      /\ Within(config, caps)
                      /\ \/ config.bitpool <= SafeBitpool
                         \/ /\ HasXq(DetectedVersion(env.probes))
                            /\ config.bitpool <= XqBitpool
                         \/ config.bitpool = caps.min
    BY DEF NegotiationSound
  <2>1. maxBitpool[c] \in {SafeBitpool, XqBitpool}
    BY DEF RInv, RTypeOK
  <2>2. maxBitpool[c] = MaxSafeBitpool(DetectedVersion(env.probes))
    BY DEF RInv, BitpoolShape
  <2>3. caps \in Capabilities
    BY PeerAssumption
  <2>4. QED
    BY <2>1, <2>2, <2>3, SelectsWithin DEF MaxSafeBitpool
<1>2. QED
  BY <1>1, RegistrationInvariant, PTL

=============================================================================
