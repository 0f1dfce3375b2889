------------------------------ MODULE BleMidi ------------------------------
(***************************************************************************)
(* The BLE-MIDI peripheral (ble_midi.rs) and its FFI calls (ffi.rs): one   *)
(* task per start() that advertises and serves the GATT application until  *)
(* it is told to stop, and one notify task per subscription of a host, fed *)
(* by a broadcast channel of bounded capacity.                             *)
(*                                                                         *)
(* Messages are numbered in the order they are sent.  A host that          *)
(* subscribes again is another subscription.  Inbound writes are dropped   *)
(* by the code and the packet framing touches no state: both are left out. *)
(***************************************************************************)
EXTENDS Naturals, Sequences

CONSTANTS
    Subs,           \* subscriptions of hosts, one notify task each
    Capacity,       \* of the broadcast channel, 256 in the code
    MaxMessages     \* bound on the messages sent

ASSUME MidiAssumption == Capacity \in Nat \ {0} /\ MaxMessages \in Nat

VARIABLES
    handle,     \* is there a MIDI handle?
    mpc,        \* the caller: "idle", "probing" in start(), "joining" in stop()
    task,       \* where run() is
    shutdown,   \* has the oneshot been sent to the current task?
    sent,       \* messages sent so far
    sub,        \* where each notify task is
    since,      \* the first message sent after the subscription
    cursor,     \* the next message of its receiver
    limit,      \* the last message of its channel, once its senders are gone
    got         \* what the host has received

taskVars == <<handle, mpc, task, shutdown>>
subVars == <<sub, since, cursor, limit, got>>
midiVars == <<taskVars, sent, subVars>>

Active(s) == sub[s] \in {"recv", "notify"}

MInit ==
    /\ handle = FALSE /\ mpc = "idle" /\ task = "none" /\ shutdown = FALSE
    /\ sent = 0
    /\ sub = [s \in Subs |-> "new"]
    /\ since = [s \in Subs |-> 1]
    /\ cursor = [s \in Subs |-> 1]
    /\ limit = [s \in Subs |-> MaxMessages + 1]
    /\ got = [s \in Subs |-> <<>>]

-----------------------------------------------------------------------------
(* FFI calls                                                               *)

\* demod_bt_midi_start, which first probes the adapter.
MidiStart ==
    /\ mpc = "idle" /\ ~handle
    /\ mpc' = "probing"
    /\ UNCHANGED <<handle, task, shutdown, sent, subVars>>

\* With a handle, whatever has become of its task, it reports success.
MidiStartAgain ==
    /\ mpc = "idle" /\ handle
    /\ UNCHANGED midiVars

Probed ==
    /\ mpc = "probing"
    /\ handle' = TRUE /\ mpc' = "idle"
    /\ task' = "advertise" /\ shutdown' = FALSE
    /\ UNCHANGED <<sent, subVars>>

ProbeFailed ==
    /\ mpc = "probing"
    /\ mpc' = "idle"
    /\ UNCHANGED <<handle, task, shutdown, sent, subVars>>

\* demod_bt_midi_send of a message that is not empty: the channel drops its
\* oldest message when it is full, and a message nobody waits for is lost.
MidiSend ==
    /\ mpc = "idle" /\ handle /\ sent < MaxMessages
    /\ sent' = sent + 1
    /\ UNCHANGED <<taskVars, subVars>>

\* Mutant: stop() waits for the task without telling it.
MidiStopUntold ==
    /\ mpc = "idle" /\ handle
    /\ handle' = FALSE /\ mpc' = "joining"
    /\ UNCHANGED <<task, shutdown, sent, subVars>>

\* demod_bt_midi_stop up to block_on(task).
MidiStop ==
    /\ mpc = "idle" /\ handle
    /\ handle' = FALSE /\ mpc' = "joining"
    /\ shutdown' = TRUE
    /\ UNCHANGED <<task, sent, subVars>>

\* The task is over: the last sender goes with the handle and the runtime
\* gives up its notify tasks.
MidiStopped ==
    /\ mpc = "joining" /\ task = "done"
    /\ mpc' = "idle"
    /\ limit' = [s \in Subs |-> IF Active(s) /\ sent < limit[s] THEN sent
                                ELSE limit[s]]
    /\ UNCHANGED <<handle, task, shutdown, sent, sub, since, cursor, got>>

-----------------------------------------------------------------------------
(* run()                                                                   *)

Advertised ==
    /\ task = "advertise"
    /\ task' = "serve"
    /\ UNCHANGED <<handle, mpc, shutdown, sent, subVars>>

Served ==
    /\ task = "serve"
    /\ task' = "waiting"
    /\ UNCHANGED <<handle, mpc, shutdown, sent, subVars>>

\* BlueZ refuses: the task ends with an error that is only logged.
RunFailed ==
    /\ task \in {"advertise", "serve"}
    /\ task' = "done"
    /\ UNCHANGED <<handle, mpc, shutdown, sent, subVars>>

\* The application and the advertisement go with their handles.
ShutdownSeen ==
    /\ task = "waiting" /\ shutdown
    /\ task' = "done"
    /\ UNCHANGED <<handle, mpc, shutdown, sent, subVars>>

-----------------------------------------------------------------------------
(* The notify task of subscription s                                       *)

\* Mutant: the receiver starts with the message before.
SubscribeReplay(s) ==
    /\ task = "waiting" /\ sub[s] = "new"
    /\ sub' = [sub EXCEPT ![s] = "recv"]
    /\ since' = [since EXCEPT ![s] = sent + 1]
    /\ cursor' = [cursor EXCEPT ![s] = IF sent = 0 THEN 1 ELSE sent]
    /\ UNCHANGED <<taskVars, sent, limit, got>>

\* A host subscribes: the receiver starts behind the last message.
Subscribe(s) ==
    /\ task = "waiting" /\ sub[s] = "new"
    /\ sub' = [sub EXCEPT ![s] = "recv"]
    /\ since' = [since EXCEPT ![s] = sent + 1]
    /\ cursor' = [cursor EXCEPT ![s] = sent + 1]
    /\ UNCHANGED <<taskVars, sent, limit, got>>

\* The last message of the channel of s, and how many wait for s.
Newest(s) == IF sent <= limit[s] THEN sent ELSE limit[s]
Waiting(s) == (Newest(s) + 1) - cursor[s]

\* Mutant: the newest message is never taken.
RecvBehind(s) ==
    /\ sub[s] = "recv" /\ Waiting(s) \in 2 .. Capacity
    /\ cursor' = [cursor EXCEPT ![s] = @ + 1]
    /\ sub' = [sub EXCEPT ![s] = "notify"]
    /\ UNCHANGED <<taskVars, sent, since, limit, got>>

\* recv() yields the oldest message the receiver has not seen.
Recv(s) ==
    /\ sub[s] = "recv" /\ Waiting(s) \in 1 .. Capacity
    /\ cursor' = [cursor EXCEPT ![s] = @ + 1]
    /\ sub' = [sub EXCEPT ![s] = "notify"]
    /\ UNCHANGED <<taskVars, sent, since, limit, got>>

\* Mutant: after Lagged the loop goes on with the oldest message there is.
LaggedOn(s) ==
    /\ sub[s] = "recv" /\ Waiting(s) > Capacity
    /\ cursor' = [cursor EXCEPT ![s] = (Newest(s) + 2) - Capacity]
    /\ sub' = [sub EXCEPT ![s] = "notify"]
    /\ UNCHANGED <<taskVars, sent, since, limit, got>>

\* The receiver has missed messages: recv() fails and the loop ends.
Lagged(s) ==
    /\ sub[s] = "recv" /\ Waiting(s) > Capacity
    /\ sub' = [sub EXCEPT ![s] = "ended"]
    /\ UNCHANGED <<taskVars, sent, since, cursor, limit, got>>

\* The host takes the notification.
Notified(s) ==
    /\ sub[s] = "notify"
    /\ got' = [got EXCEPT ![s] = Append(@, cursor[s] - 1)]
    /\ sub' = [sub EXCEPT ![s] = "recv"]
    /\ UNCHANGED <<taskVars, sent, since, cursor, limit>>

\* The host has unsubscribed or left.
NotifyFailed(s) ==
    /\ sub[s] = "notify"
    /\ sub' = [sub EXCEPT ![s] = "ended"]
    /\ UNCHANGED <<taskVars, sent, since, cursor, limit, got>>

\* Once its peripheral has stopped, the runtime drops the task at an await,
\* or the receiver finds the channel closed.
Dropped(s) ==
    /\ Active(s) /\ limit[s] <= MaxMessages
    /\ sub' = [sub EXCEPT ![s] = "ended"]
    /\ UNCHANGED <<taskVars, sent, since, cursor, limit, got>>

-----------------------------------------------------------------------------

Call == MidiStart \/ MidiStartAgain \/ MidiSend \/ MidiStop
Run == Advertised \/ Served \/ RunFailed \/ ShutdownSeen
Notify(s) == Recv(s) \/ Lagged(s) \/ Notified(s) \/ NotifyFailed(s)

MNext ==
    \/ Call \/ Probed \/ ProbeFailed \/ MidiStopped \/ Run
    \/ \E s \in Subs : Subscribe(s) \/ Notify(s) \/ Dropped(s)

\* tokio runs every task that can run, and BlueZ answers.  The caller may
\* call or not.
MFairness ==
    /\ WF_midiVars(Probed \/ ProbeFailed) /\ WF_midiVars(MidiStopped)
    /\ WF_midiVars(Run)
    /\ \A s \in Subs : WF_midiVars(Notify(s))

MSpec == MInit /\ [][MNext]_midiVars /\ MFairness

-----------------------------------------------------------------------------
(* Properties                                                              *)

MTypeOK ==
    /\ handle \in BOOLEAN /\ shutdown \in BOOLEAN
    /\ mpc \in {"idle", "probing", "joining"}
    /\ task \in {"none", "advertise", "serve", "waiting", "done"}
    /\ sent \in 0 .. MaxMessages
    /\ sub \in [Subs -> {"new", "recv", "notify", "ended"}]
    /\ since \in [Subs -> 1 .. MaxMessages + 1]
    /\ cursor \in [Subs -> 1 .. MaxMessages + 1]
    /\ limit \in [Subs -> 0 .. MaxMessages + 1]
    /\ got \in [Subs -> Seq(1 .. MaxMessages)]

\* What a host receives is an unbroken run of the messages sent since it
\* subscribed: a notify task that falls behind the channel ends, it never
\* goes on after a gap, so no note-off is lost in the middle of a stream.
GapFree ==
    \A s \in Subs : \A i \in 1 .. Len(got[s]) : got[s][i] = (since[s] + i) - 1

\* How far a subscription has come.
ShapeOf(s) ==
    /\ sub[s] = "new" => got[s] = <<>> /\ limit[s] = MaxMessages + 1
    /\ sub[s] = "recv" => cursor[s] = since[s] + Len(got[s])
    /\ sub[s] = "notify" => cursor[s] = since[s] + Len(got[s]) + 1
    /\ Active(s) => cursor[s] <= Newest(s) + 1
SubShape == \A s \in Subs : ShapeOf(s)

\* The inductive invariant behind GapFree.
MInv == MTypeOK /\ SubShape /\ GapFree

\* Every message sent while a host is subscribed reaches it, unless its
\* subscription ends.
Delivered ==
    \A s \in Subs, m \in 1 .. MaxMessages :
        (Active(s) /\ m \in since[s] .. Newest(s)) ~>
            (sub[s] = "ended" \/ Len(got[s]) > m - since[s])

\* demod_bt_midi_stop returns, also when it comes before the peripheral is
\* up or after its task has died.
MidiStopReturns == (mpc = "joining") ~> (mpc = "idle")

=============================================================================
