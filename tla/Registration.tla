---------------------------- MODULE Registration ----------------------------
(***************************************************************************)
(* Life of the BlueZ registration: demod_bt_init, demod_bt_register and    *)
(* demod_bt_shutdown (ffi.rs, runtime.rs), the endpoint and the player they *)
(* put on the bus (bluez.rs, avrcp.rs), and the playback state the player  *)
(* shows to remote devices.                                                *)
(*                                                                         *)
(* A D-Bus connection is shared by clones and closes with the last one: the *)
(* holders of a connection are the register() call that opened it, the     *)
(* Runtime, and the watcher task.  BlueZ forgets the endpoints of a        *)
(* connection some time after it has closed, and those of an adapter that  *)
(* goes away at once.                                                      *)
(***************************************************************************)
EXTENDS Negotiation

CONSTANTS
    Adapters,       \* adapter object paths
    Hci0,           \* the path used when enumeration finds nothing
    NoAdapter,
    Environments,   \* environment variables and what bluetoothd --version
                    \* yields, binary by binary
    Peers,          \* the capabilities that remote devices may offer
    MaxConns,       \* bound on the connections opened
    MaxTrack        \* bound on the track changes

ASSUME AdapterAssumption == NoAdapter \notin Adapters /\ Hci0 \in Adapters
ASSUME EnvironmentAssumption ==
    Environments \subseteq
        [adapter : Adapters \cup {NoAdapter}, scms : BOOLEAN,
         probes : Seq([major : Nat, minor : Nat] \cup {NoVersion})]
ASSUME PeerAssumption == Peers \subseteq Capabilities
ASSUME RegBoundAssumption == MaxConns \in Nat \ {0} /\ MaxTrack \in Nat

Conns == 1 .. MaxConns
NoEndpoint == [adapter |-> NoAdapter, scms |-> FALSE]

VARIABLES
    env,        \* the environment of the process
    up,         \* is there a RUNTIME?
    rpc,        \* where register() is
    last,       \* the newest connection; register() works on this one
    adapter,    \* adapter_path in register()
    scms,       \* scms_t.enabled in register()
    dbusConn,   \* Runtime.dbus_conn and the playback_info that goes with it
    scmsT,      \* Runtime.scms_t.enabled
    holders,    \* who holds each connection
    served,     \* is MediaEndpoint1 served on it?
    player,     \* is MediaPlayer1 served on it?
    maxBitpool, \* MediaEndpoint.max_bitpool
    present,    \* the adapters BlueZ has
    endpoint,   \* what BlueZ has registered for each connection
    track,      \* PlaybackInfo of each player: which track it names ...
    position,   \* ... and for which track position_us was given, 0 if none
    view        \* what a remote device has read from a player

callVars == <<rpc, last, adapter, scms>>
rtVars == <<up, dbusConn, scmsT>>
busVars == <<holders, served, player, maxBitpool>>
infoVars == <<track, position, view>>
regVars == <<env, callVars, rtVars, busVars, present, endpoint, infoVars>>

NoView == [conn |-> 0, track |-> 0, position |-> 0, newest |-> "none"]
Open(c) == holders[c] # {}

RInit ==
    /\ env \in Environments
    /\ up = FALSE
    /\ rpc = "idle" /\ last = 0 /\ adapter = NoAdapter /\ scms = FALSE
    /\ dbusConn = 0
    /\ scmsT = FALSE
    /\ holders = [c \in Conns |-> {}]
    /\ served = [c \in Conns |-> FALSE]
    /\ player = [c \in Conns |-> FALSE]
    /\ maxBitpool = [c \in Conns |-> SafeBitpool]
    /\ present \in SUBSET Adapters
    /\ endpoint = [c \in Conns |-> NoEndpoint]
    /\ track = [c \in Conns |-> 0]
    /\ position = [c \in Conns |-> 0]
    /\ view = NoView

-----------------------------------------------------------------------------
(* init and shutdown                                                       *)

\* Mutant: the runtime that is replaced is leaked.
InitRuntimeLeaking ==
    /\ rpc = "idle"
    /\ up' = TRUE
    /\ dbusConn' = 0
    /\ scmsT' = env.scms
    /\ UNCHANGED <<env, callVars, busVars, present, endpoint, infoVars>>

\* demod_bt_init.  A runtime that is replaced is dropped: its tokio runtime
\* ends its tasks before the connection goes.
InitRuntime ==
    /\ rpc = "idle"
    /\ up' = TRUE
    /\ dbusConn' = 0
    /\ scmsT' = env.scms
    /\ holders' = [c \in Conns |-> holders[c] \ {"runtime", "watcher"}]
    /\ UNCHANGED <<env, callVars, served, player, maxBitpool, present,
                   endpoint, infoVars>>

\* Mutant: shutdown leaves the tasks running.
ShutdownRuntimeKeepsTasks ==
    /\ rpc = "idle" /\ up
    /\ up' = FALSE
    /\ dbusConn' = 0
    /\ holders' = [c \in Conns |-> holders[c] \ {"runtime"}]
    /\ UNCHANGED <<env, callVars, scmsT, served, player, maxBitpool, present,
                   endpoint, infoVars>>

\* demod_bt_shutdown drops the connection and gives up the tokio runtime
\* without waiting: its watchers are cancelled at their next await.
ShutdownRuntime ==
    /\ rpc = "idle" /\ up
    /\ up' = FALSE
    /\ dbusConn' = 0
    /\ holders' = [c \in Conns |->
                      (holders[c] \ {"runtime", "watcher"})
                      \cup (IF "watcher" \in holders[c] THEN {"cancelled"}
                            ELSE {})]
    /\ UNCHANGED <<env, callVars, scmsT, served, player, maxBitpool, present,
                   endpoint, infoVars>>

WatcherCancelled(c) ==
    /\ "cancelled" \in holders[c]
    /\ holders' = [holders EXCEPT ![c] = @ \ {"cancelled"}]
    /\ UNCHANGED <<env, callVars, rtVars, served, player, maxBitpool, present,
                   endpoint, infoVars>>

-----------------------------------------------------------------------------
(* register()                                                              *)

\* The locals of register() end with it.
ReturnFromRegister ==
    /\ rpc' = "idle" /\ adapter' = NoAdapter /\ scms' = FALSE
    /\ UNCHANGED last

\* Connection::system succeeded; if it fails nothing has happened.
Connect ==
    /\ rpc = "idle" /\ up /\ last < MaxConns
    /\ last' = last + 1
    /\ holders' = [holders EXCEPT ![last + 1] = {"register"}]
    /\ scms' = scmsT
    /\ rpc' = "enumerate"
    /\ UNCHANGED <<env, adapter, rtVars, served, player, maxBitpool, present,
                   endpoint, infoVars>>

\* enumerate_adapter: the override, else any object with Adapter1, powered
\* or not; hci0 when there is none or BlueZ does not answer.
EnumerateAdapter ==
    /\ rpc = "enumerate"
    /\ adapter' \in IF env.adapter # NoAdapter THEN {env.adapter}
                    ELSE present \cup {Hci0}
    /\ rpc' = "serve"
    /\ UNCHANGED <<env, last, scms, rtVars, busVars, present, endpoint,
                   infoVars>>

\* register_endpoint puts the endpoint on the bus before BlueZ hears of it.
ServeEndpoint ==
    /\ rpc = "serve"
    /\ served' = [served EXCEPT ![last] = TRUE]
    /\ maxBitpool' = [maxBitpool EXCEPT
                         ![last] = MaxSafeBitpool(DetectedVersion(env.probes))]
    /\ rpc' = "register"
    /\ UNCHANGED <<env, last, adapter, scms, rtVars, holders, player, present,
                   endpoint, infoVars>>

\* BlueZ takes the endpoint.
RegisterEndpoint ==
    /\ rpc \in {"register", "retry"} /\ adapter \in present
    /\ endpoint' = [endpoint EXCEPT
                       ![last] = [adapter |-> adapter, scms |-> scms]]
    /\ rpc' = "player"
    /\ UNCHANGED <<env, last, adapter, scms, rtVars, busVars, present,
                   infoVars>>

\* An error that names content protection, and none was offered: one retry
\* with SCMS-T.
RetryWithScmsT ==
    /\ rpc = "register" /\ ~scms
    /\ scms' = TRUE
    /\ rpc' = "retry"
    /\ UNCHANGED <<env, last, adapter, rtVars, busVars, present, endpoint,
                   infoVars>>

\* Mutant: the watcher was started before the player, and its clone stays.
RegisterFailedWatched ==
    /\ rpc \in {"serve", "register", "retry", "player"}
    /\ holders' = [holders EXCEPT ![last] = IF rpc = "player" THEN {"watcher"}
                                            ELSE {}]
    /\ ReturnFromRegister
    /\ UNCHANGED <<env, rtVars, served, player, maxBitpool, present, endpoint,
                   infoVars>>

\* Any other error, at any step: register() drops its connection.
RegisterFailed ==
    /\ rpc \in {"serve", "register", "retry", "player"}
    /\ holders' = [holders EXCEPT ![last] = @ \ {"register"}]
    /\ ReturnFromRegister
    /\ UNCHANGED <<env, rtVars, served, player, maxBitpool, present, endpoint,
                   infoVars>>

\* register_media_player, with a fresh PlaybackInfo.
ServePlayer ==
    /\ rpc = "player"
    /\ player' = [player EXCEPT ![last] = TRUE]
    /\ rpc' = "watch"
    /\ UNCHANGED <<env, last, adapter, scms, rtVars, holders, served,
                   maxBitpool, present, endpoint, infoVars>>

\* Mutant: what the retry settled on is not kept.
RegisteredScmsTLost ==
    /\ rpc = "watch"
    /\ holders' = [c \in Conns |-> IF c = last THEN {"runtime", "watcher"}
                                   ELSE holders[c] \ {"runtime"}]
    /\ dbusConn' = last
    /\ ReturnFromRegister
    /\ UNCHANGED <<env, up, scmsT, served, player, maxBitpool, present,
                   endpoint, infoVars>>

\* The watcher task takes a clone of the connection and register() hands its
\* own to the Runtime, in the place of an earlier one.
Registered ==
    /\ rpc = "watch"
    /\ holders' = [c \in Conns |-> IF c = last THEN {"runtime", "watcher"}
                                   ELSE holders[c] \ {"runtime"}]
    /\ dbusConn' = last
    /\ scmsT' = scms
    /\ ReturnFromRegister
    /\ UNCHANGED <<env, up, served, player, maxBitpool, present, endpoint,
                   infoVars>>

\* The watcher cannot subscribe and returns, which is only logged.
WatcherFailed(c) ==
    /\ "watcher" \in holders[c]
    /\ holders' = [holders EXCEPT ![c] = @ \ {"watcher"}]
    /\ UNCHANGED <<env, callVars, rtVars, served, player, maxBitpool, present,
                   endpoint, infoVars>>

-----------------------------------------------------------------------------
(* AVRCP playback state                                                    *)

HasPlaybackInfo == rpc = "idle" /\ up /\ dbusConn # 0

\* Mutant: a new track keeps the old position.
UpdateMetadataKeepingPosition ==
    /\ HasPlaybackInfo /\ track[dbusConn] < MaxTrack
    /\ track' = [track EXCEPT ![dbusConn] = @ + 1]
    /\ UNCHANGED <<env, callVars, rtVars, busVars, present, endpoint,
                   position, view>>

\* update_metadata, under one write lock.
UpdateMetadata ==
    /\ HasPlaybackInfo /\ track[dbusConn] < MaxTrack
    /\ track' = [track EXCEPT ![dbusConn] = @ + 1]
    /\ position' = [position EXCEPT ![dbusConn] = 0]
    /\ UNCHANGED <<env, callVars, rtVars, busVars, present, endpoint, view>>

\* update_position, for the track of the moment.
UpdatePosition ==
    /\ HasPlaybackInfo
    /\ position' = [position EXCEPT ![dbusConn] = track[dbusConn]]
    /\ UNCHANGED <<env, callVars, rtVars, busVars, present, endpoint, track,
                   view>>

\* Without a player they return AvrcpNotReady.
AvrcpNotReady ==
    /\ rpc = "idle" /\ up /\ dbusConn = 0
    /\ UNCHANGED regVars

\* What the remote device knows of player c; 0 stands for what it has not read.
Seen(c) == IF view.conn = c THEN view ELSE [NoView EXCEPT !.conn = c]

\* A remote device reads Track and Position in any order, by themselves or
\* with GetAll: each read takes the lock for itself.
ReadTrack(c) ==
    /\ Open(c) /\ player[c]
    /\ view' = [Seen(c) EXCEPT !.track = track[c], !.newest = "track"]
    /\ UNCHANGED <<env, callVars, rtVars, busVars, present, endpoint, track,
                   position>>

ReadPosition(c) ==
    /\ Open(c) /\ player[c]
    /\ view' = [Seen(c) EXCEPT !.position = position[c], !.newest = "position"]
    /\ UNCHANGED <<env, callVars, rtVars, busVars, present, endpoint, track,
                   position>>

-----------------------------------------------------------------------------
(* BlueZ                                                                   *)

\* BlueZ notices that a client has left the bus.
ClientGone(c) ==
    /\ endpoint[c] # NoEndpoint /\ ~Open(c)
    /\ endpoint' = [endpoint EXCEPT ![c] = NoEndpoint]
    /\ UNCHANGED <<env, callVars, rtVars, busVars, present, infoVars>>

AdapterAdded(a) ==
    /\ a \notin present
    /\ present' = present \cup {a}
    /\ UNCHANGED <<env, callVars, rtVars, busVars, endpoint, infoVars>>

AdapterRemoved(a) ==
    /\ a \in present
    /\ present' = present \ {a}
    /\ endpoint' = [c \in Conns |-> IF endpoint[c].adapter = a THEN NoEndpoint
                                    ELSE endpoint[c]]
    /\ UNCHANGED <<env, callVars, rtVars, busVars, infoVars>>

-----------------------------------------------------------------------------

Register ==
    \/ Connect \/ EnumerateAdapter \/ ServeEndpoint \/ RegisterEndpoint
    \/ RetryWithScmsT \/ RegisterFailed \/ ServePlayer \/ Registered

RNext ==
    \/ InitRuntime \/ ShutdownRuntime \/ Register
    \/ UpdateMetadata \/ UpdatePosition \/ AvrcpNotReady
    \/ \E c \in Conns : WatcherCancelled(c) \/ WatcherFailed(c)
                        \/ ReadTrack(c) \/ ReadPosition(c) \/ ClientGone(c)
    \/ \E a \in Adapters : AdapterAdded(a) \/ AdapterRemoved(a)

\* tokio drops a cancelled task, and the bus tells BlueZ of a client that has
\* left.
RFairness ==
    \A c \in Conns : WF_regVars(WatcherCancelled(c)) /\ WF_regVars(ClientGone(c))

RSpec == RInit /\ [][RNext]_regVars /\ RFairness

-----------------------------------------------------------------------------
(* Properties                                                              *)

RTypeOK ==
    /\ env \in Environments
    /\ up \in BOOLEAN
    /\ rpc \in {"idle", "enumerate", "serve", "register", "retry", "player",
                "watch"}
    /\ last \in 0 .. MaxConns
    /\ adapter \in Adapters \cup {NoAdapter}
    /\ scms \in BOOLEAN
    /\ dbusConn \in 0 .. last
    /\ scmsT \in BOOLEAN
    /\ holders \in
          [Conns -> SUBSET {"register", "runtime", "watcher", "cancelled"}]
    /\ served \in [Conns -> BOOLEAN]
    /\ player \in [Conns -> BOOLEAN]
    /\ maxBitpool \in [Conns -> {SafeBitpool, XqBitpool}]
    /\ present \in SUBSET Adapters
    /\ endpoint \in [Conns -> [adapter : Adapters \cup {NoAdapter},
                               scms : BOOLEAN]]
    /\ track \in [Conns -> 0 .. MaxTrack]
    /\ position \in [Conns -> 0 .. MaxTrack]
    /\ view \in [conn : 0 .. MaxConns, track : 0 .. MaxTrack,
                 position : 0 .. MaxTrack,
                 newest : {"none", "track", "position"}]

\* Is register() still working on connection c?
InProgress(c) == rpc # "idle" /\ c = last

\* A register() that fails, wherever it fails, takes back what it did: a
\* connection that is still open and not being set up has both objects, and
\* BlueZ never calls an endpoint that is not there.
NoHalfRegistration ==
    \A c \in Conns :
        /\ Open(c) /\ ~InProgress(c) => served[c] /\ player[c]
        /\ Open(c) /\ endpoint[c] # NoEndpoint => served[c]

\* The runtime's record of SCMS-T is what its endpoint was registered with,
\* over a retry, a failed second registration and a lost adapter.
ScmsTAsRegistered ==
    dbusConn # 0 /\ endpoint[dbusConn] # NoEndpoint =>
        endpoint[dbusConn].scms = scmsT

\* Of a title and a position read one by one, the one read last is not of an
\* earlier track: an older position beside a newer title was read before the
\* title, and a newer position beside an older title after it.  A position
\* read after a title is the start of a track, or of that track or a later one.
SecondReadNotOlder ==
    /\ view.newest = "track" => view.position <= view.track
    /\ view.newest = "position" => view.position = 0 \/ view.position >= view.track

\* Where register() is says how far its connection has come, and nothing is
\* known of the connections still to be opened.
CallShape ==
    /\ rpc = "idle" \/ (up /\ last \in Conns /\ holders[last] = {"register"})
    /\ rpc \in {"register", "retry", "player", "watch"} => served[last]
    /\ rpc = "watch" => player[last]
    /\ rpc \in {"enumerate", "serve", "register", "retry"} =>
          endpoint[last] = NoEndpoint
    /\ rpc \in {"player", "watch"} /\ endpoint[last] # NoEndpoint =>
          endpoint[last].scms = scms
    /\ \A c \in Conns : c > last =>
          holders[c] = {} /\ ~served[c] /\ endpoint[c] = NoEndpoint

\* Only register() and the Runtime hold a connection by those names, and a
\* player's position is that of the track it names.
HolderShape ==
    /\ \A c \in Conns :
          /\ "register" \in holders[c] => InProgress(c)
          /\ "runtime" \in holders[c] <=> c = dbusConn
    /\ dbusConn # 0 => up /\ (rpc = "idle" \/ dbusConn # last)
InfoShape ==
    /\ \A c \in Conns : position[c] \in {0, track[c]}
    /\ view.conn # 0 =>
          view.track <= track[view.conn] /\ view.position <= track[view.conn]
    /\ view.conn = 0 => view.newest = "none"
BitpoolShape ==
    \A c \in Conns : served[c] =>
        maxBitpool[c] = MaxSafeBitpool(DetectedVersion(env.probes))

\* The inductive invariant behind the safety properties.
RInv ==
    /\ RTypeOK
    /\ CallShape
    /\ HolderShape
    /\ InfoShape
    /\ BitpoolShape
    /\ NoHalfRegistration
    /\ ScmsTAsRegistered
    /\ SecondReadNotOlder

\* Whatever a peer offers, the configuration every endpoint picks is one the
\* peer can do, and its bitpool is one the detected BlueZ can do, unless the
\* peer accepts no less.
NegotiationSound ==
    \A c \in Conns, caps \in Peers :
        LET config == SelectConfiguration(caps, maxBitpool[c]) IN
        served[c] /\ WellFormed(caps) =>
            /\ Within(config, caps)
            /\ \/ config.bitpool <= SafeBitpool
               \/ /\ HasXq(DetectedVersion(env.probes))
                  /\ config.bitpool <= XqBitpool
               \/ config.bitpool = caps.min

\* After demod_bt_shutdown, BlueZ keeps nothing of ours.
ShutdownForgets ==
    (rpc = "idle" /\ ~up) ~> (up \/ \A c \in Conns : endpoint[c] = NoEndpoint)

=============================================================================
