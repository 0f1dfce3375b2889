--------------------------- MODULE BleMidiProofs ---------------------------
(***************************************************************************)
(* GapFree for any number of subscriptions, messages and any capacity.     *)
(***************************************************************************)
EXTENDS BleMidi, TLAPS

LEMMA MInitInv == MInit => MInv
<1> SUFFICES ASSUME MInit PROVE MInv
  OBVIOUS
<1> USE MidiAssumption DEF MInit
<1>1. 1 \in 1 .. MaxMessages + 1 /\ MaxMessages + 1 \in 0 .. MaxMessages + 1
      /\ 0 \in 0 .. MaxMessages
  OBVIOUS
<1>2. handle \in BOOLEAN /\ shutdown \in BOOLEAN
  BY Zenon
<1>3. got \in [Subs -> Seq(1 .. MaxMessages)]
  OBVIOUS
<1>4. MTypeOK
  BY <1>1, <1>2, <1>3 DEF MTypeOK
<1>5. SubShape /\ GapFree
  BY DEF SubShape, ShapeOf, GapFree, Active
<1>6. QED
  BY <1>4, <1>5 DEF MInv

\* The task and the caller do not touch subscriptions, except that a stopped
\* peripheral closes its channel behind the last message.
LEMMA CallKeeps ==
  ASSUME MInv, Call \/ Probed \/ ProbeFailed \/ MidiStopped \/ Run
  PROVE  MInv'
<1> USE MidiAssumption DEF MInv
<1>1. UNCHANGED <<sub, since, cursor, got>>
  BY DEF Call, MidiStart, MidiStartAgain, MidiSend, MidiStop, Probed,
         ProbeFailed, MidiStopped, Run, Advertised, Served, RunFailed,
         ShutdownSeen, subVars, midiVars
<1>2. sent' \in 0 .. MaxMessages /\ sent' >= sent
  BY DEF Call, MidiStart, MidiStartAgain, MidiSend, MidiStop, Probed,
         ProbeFailed, MidiStopped, Run, Advertised, Served, RunFailed,
         ShutdownSeen, subVars, midiVars, MTypeOK
<1>3. /\ limit' \in [Subs -> 0 .. MaxMessages + 1]
      /\ \A s \in Subs : \/ limit'[s] = limit[s]
                         \/ /\ sub[s] # "new" /\ sent < limit[s]
                            /\ sent' = sent /\ limit'[s] = sent
  <2>1. CASE MidiStopped
    <3>1. limit' = [s \in Subs |-> IF Active(s) /\ sent < limit[s] THEN sent
                                   ELSE limit[s]] /\ sent' = sent
      BY <2>1 DEF MidiStopped
    <3>2. sent \in 0 .. MaxMessages + 1 /\ limit \in [Subs -> 0 .. MaxMessages + 1]
      BY DEF MTypeOK
    <3>3. QED
      BY <3>1, <3>2 DEF Active
  <2>2. CASE ~MidiStopped
    <3>1. UNCHANGED limit
      BY <2>2
      DEF Call, MidiStart, MidiStartAgain, MidiSend, MidiStop, Probed,
          ProbeFailed, Run, Advertised, Served, RunFailed, ShutdownSeen,
          subVars, midiVars
    <3>2. QED
      BY <3>1 DEF MTypeOK
  <2>3. QED
    BY <2>1, <2>2
<1>4. handle' \in BOOLEAN /\ shutdown' \in BOOLEAN
  BY Zenon
  DEF Call, MidiStart, MidiStartAgain, MidiSend, MidiStop, Probed,
      ProbeFailed, MidiStopped, Run, Advertised, Served, RunFailed,
      ShutdownSeen, taskVars, midiVars, MTypeOK
<1>5. /\ mpc' \in {"idle", "probing", "joining"}
      /\ task' \in {"none", "advertise", "serve", "waiting", "done"}
  BY DEF Call, MidiStart, MidiStartAgain, MidiSend, MidiStop, Probed,
         ProbeFailed, MidiStopped, Run, Advertised, Served, RunFailed,
         ShutdownSeen, taskVars, midiVars, MTypeOK
<1>6. MTypeOK' /\ GapFree'
  BY <1>1, <1>2, <1>3, <1>4, <1>5 DEF MTypeOK, GapFree
<1>7. \A s \in Subs : Newest(s)' >= Newest(s)
  BY <1>2, <1>3 DEF Newest, MTypeOK
<1>8. SubShape'
  <2> SUFFICES ASSUME NEW s \in Subs PROVE ShapeOf(s)'
    BY DEF SubShape
  <2>1. /\ Newest(s)' >= Newest(s) /\ Newest(s) \in Nat /\ Newest(s)' \in Nat
        /\ cursor[s] \in Nat
    BY <1>2, <1>3, <1>7 DEF Newest, MTypeOK
  <2>2. ShapeOf(s)
    BY DEF SubShape
  <2>3. QED
    BY <1>1, <1>3, <2>1, <2>2 DEF ShapeOf, Active
<1>9. QED
  BY <1>6, <1>8

\* Only its own notify task moves a subscription.
LEMMA SubKeeps ==
  ASSUME MInv, NEW s \in Subs, Subscribe(s) \/ Notify(s) \/ Dropped(s)
  PROVE  MInv'
<1> USE MidiAssumption DEF MInv
<1>1. UNCHANGED <<taskVars, sent, limit>>
  BY DEF Subscribe, Notify, Recv, Lagged, Notified, NotifyFailed, Dropped
<1>2. \A u \in Subs : Newest(u)' = Newest(u) /\ Newest(u) \in 0 .. MaxMessages
  BY <1>1 DEF Newest, MTypeOK
<1>3. /\ got[s] \in Seq(1 .. MaxMessages) /\ Len(got[s]) \in Nat
      /\ since[s] \in 1 .. MaxMessages + 1 /\ cursor[s] \in 1 .. MaxMessages + 1
      /\ sub[s] \in {"new", "recv", "notify", "ended"}
      /\ sent \in 0 .. MaxMessages /\ limit[s] \in 0 .. MaxMessages + 1
  BY DEF MTypeOK
<1>4. CASE Subscribe(s)
  <2>1. /\ sub[s] = "new" /\ sub' = [sub EXCEPT ![s] = "recv"]
        /\ since' = [since EXCEPT ![s] = sent + 1]
        /\ cursor' = [cursor EXCEPT ![s] = sent + 1] /\ got' = got
    BY <1>4 DEF Subscribe
  <2>2. got[s] = <<>> /\ sent + 1 \in 1 .. MaxMessages + 1
        /\ limit[s] = MaxMessages + 1
    BY <1>3, <2>1 DEF SubShape, ShapeOf
  <2>3. MTypeOK'
    BY <1>1, <2>1, <2>2 DEF MTypeOK, taskVars
  <2>4. SubShape'
    <3> SUFFICES ASSUME NEW u \in Subs PROVE ShapeOf(u)'
      BY DEF SubShape
    <3>1. CASE u = s
      BY <1>1, <1>2, <1>3, <2>1, <2>2, <3>1
      DEF ShapeOf, Active, MTypeOK, Newest
    <3>2. CASE u # s
      BY <1>1, <1>2, <2>1, <3>2 DEF SubShape, ShapeOf, Active, MTypeOK
    <3>3. QED
      BY <3>1, <3>2
  <2>5. GapFree'
    <3> SUFFICES ASSUME NEW u \in Subs, NEW i \in 1 .. Len(got[u])
                 PROVE got[u][i] = (since'[u] + i) - 1
      BY <2>1 DEF GapFree
    <3>1. u # s
      BY <2>2
    <3>2. since'[u] = since[u]
      BY <2>1, <3>1 DEF MTypeOK
    <3>3. QED
      BY <3>2 DEF GapFree
  <2>6. QED
    BY <2>3, <2>4, <2>5
<1>5. CASE Recv(s)
  <2>1. /\ sub[s] = "recv" /\ cursor[s] + 1 <= Newest(s) + 1
        /\ cursor' = [cursor EXCEPT ![s] = @ + 1]
        /\ sub' = [sub EXCEPT ![s] = "notify"]
        /\ UNCHANGED <<since, got>>
    BY <1>2, <1>3, <1>5 DEF Recv, Waiting
  <2>2. MTypeOK'
    BY <1>1, <1>2, <1>3, <2>1 DEF MTypeOK, taskVars
  <2>3. SubShape'
    BY <1>1, <1>2, <1>3, <2>1 DEF MTypeOK, SubShape, ShapeOf, Active
  <2>4. GapFree'
    BY <2>1 DEF GapFree
  <2>5. QED
    BY <2>2, <2>3, <2>4
<1>6. CASE Notified(s)
  <2> DEFINE m == cursor[s] - 1
  <2>1. /\ sub[s] = "notify" /\ got' = [got EXCEPT ![s] = Append(@, m)]
        /\ sub' = [sub EXCEPT ![s] = "recv"] /\ UNCHANGED <<since, cursor>>
    BY <1>6 DEF Notified
  <2>2. m = since[s] + Len(got[s]) /\ m \in 1 .. MaxMessages
    <3> DEFINE c == cursor[s]
               o == since[s]
               l == Len(got[s])
               n == Newest(s)
    <3>1. ShapeOf(s) /\ Active(s)
      BY <2>1 DEF SubShape, Active
    <3>2. c = o + l + 1 /\ c <= n + 1
      BY <2>1, <3>1, Zenon DEF ShapeOf
    <3>3. /\ c \in Nat /\ o \in 1 .. MaxMessages + 1 /\ l \in Nat
          /\ n \in 0 .. MaxMessages
      BY <1>2, <1>3
    <3> HIDE DEF c, o, l, n
    <3>4. c - 1 = o + l /\ c - 1 \in 1 .. MaxMessages
      BY <3>2, <3>3
    <3>5. QED
      BY <3>4 DEF c, o, l
  <2> HIDE DEF m
  <2>3. /\ got'[s] \in Seq(1 .. MaxMessages)
        /\ Len(got'[s]) = Len(got[s]) + 1
        /\ got'[s] = Append(got[s], m) /\ got'[s][Len(got[s]) + 1] = m
        /\ \A i \in 1 .. Len(got[s]) : got'[s][i] = got[s][i]
        /\ \A u \in Subs : u # s => got'[u] = got[u]
    BY <1>3, <2>1, <2>2 DEF MTypeOK
  <2>4. got' \in [Subs -> Seq(1 .. MaxMessages)]
    BY <2>1, <2>3 DEF MTypeOK
  <2>5. \A u \in Subs : \A i \in 1 .. Len(got'[u]) :
           got'[u][i] = (since[u] + i) - 1
    <3> TAKE u \in Subs
    <3> TAKE i \in 1 .. Len(got'[u])
    <3>1. CASE u # s
      <4>1. got'[u] = got[u]
        BY <2>3, <3>1, Zenon
      <4>2. i \in 1 .. Len(got[u])
        BY <4>1, Zenon
      <4>3. got[u][i] = (since[u] + i) - 1
        BY <4>2, Zenon DEF GapFree
      <4>4. QED
        BY <4>1, <4>3, Zenon
    <3>2. CASE u = s /\ i \in 1 .. Len(got[s])
      <4>1. got[s][i] = (since[s] + i) - 1
        BY <3>2 DEF GapFree
      <4>2. QED
        BY <2>3, <3>2, <4>1
    <3>3. CASE u = s /\ i = Len(got[s]) + 1
      <4>1. got'[u][i] = m
        BY <2>3, <3>3
      <4>2. m = (since[u] + i) - 1
        <5> DEFINE l == Len(got[s])
                   o == since[s]
        <5>1. l \in Nat /\ o \in Nat
          BY <1>3
        <5>2. m = o + l /\ i = l + 1 /\ since[u] = o
          BY <2>2, <3>3
        <5> HIDE DEF l, o
        <5>3. QED
          BY <5>1, <5>2
      <4>3. QED
        BY <4>1, <4>2
    <3>4. u = s => i \in 1 .. Len(got[s]) \/ i = Len(got[s]) + 1
      <4>1. Len(got[s]) \in Nat /\ Len(got'[s]) = Len(got[s]) + 1
        BY <1>3, <2>3
      <4>2. QED
        BY <4>1
    <3>5. QED
      BY <3>1, <3>2, <3>3, <3>4, Zenon
  <2>6. SubShape'
    <3> SUFFICES ASSUME NEW u \in Subs PROVE ShapeOf(u)'
      BY DEF SubShape
    <3>1. ShapeOf(u) /\ ShapeOf(s)
      BY DEF SubShape
    <3>2. CASE u = s
      BY <1>2, <1>3, <2>1, <2>3, <3>1, <3>2 DEF ShapeOf, Active, MTypeOK
    <3>3. CASE u # s
      BY <1>1, <1>2, <2>1, <2>3, <3>1, <3>3 DEF ShapeOf, Active, MTypeOK
    <3>4. QED
      BY <3>2, <3>3
  <2>7. QED
    BY <1>1, <2>1, <2>4, <2>5, <2>6 DEF MTypeOK, GapFree, taskVars
<1>7. CASE Lagged(s) \/ NotifyFailed(s) \/ Dropped(s)
  <2>1. sub' = [sub EXCEPT ![s] = "ended"] /\ UNCHANGED <<since, cursor, got>>
    BY <1>7 DEF Lagged, NotifyFailed, Dropped
  <2>2. QED
    BY <1>1, <1>2, <2>1 DEF MTypeOK, SubShape, ShapeOf, GapFree, Active, taskVars
<1>8. QED
  BY <1>4, <1>5, <1>6, <1>7 DEF Notify

\* The inductive invariant holds throughout.
THEOREM MidiInvariant == MSpec => []MInv
<1>1. MInv /\ UNCHANGED midiVars => MInv'
  BY DEF MInv, midiVars, taskVars, subVars, MTypeOK, SubShape, ShapeOf, GapFree,
         Active, Newest
<1>2. MInv /\ [MNext]_midiVars => MInv'
  BY <1>1, CallKeeps, SubKeeps DEF MNext
<1>3. QED
  BY <1>2, MInitInv, PTL DEF MSpec

\* A host receives an unbroken run of the messages sent since it subscribed
\* (ble_midi.rs notify loop), for every capacity and any number of hosts.
THEOREM NoGaps == MSpec => []GapFree
<1>1. MInv => GapFree
  BY DEF MInv
<1>2. QED
  BY <1>1, MidiInvariant, PTL

=============================================================================
