------------------------------- MODULE AVDTP --------------------------------
(***************************************************************************)
(* The AVDTP session of the Haskell control plane (AVDTP.hs): the typed    *)
(* transitions and driveEvent, which picks one of them from the session's  *)
(* state and the event, or ignores the event.                              *)
(*                                                                         *)
(* A session keeps its state and, from Open on, the transport.  Codec,     *)
(* endpoint name and configuration bytes are carried along unread and left *)
(* out.  Closing exists only inside one driveEvent call.                   *)
(***************************************************************************)
CONSTANT NoTransport

AVDTPState == {"Idle", "Configured", "Open", "Streaming", "Closing"}

IdleSession == [state |-> "Idle", transport |-> NoTransport]

\* The transitions, each defined on the state its type names.
Configure(s) == [s EXCEPT !.state = "Configured"]
OpenTransport(s, path) == [state |-> "Open", transport |-> path]
Start(s) == [s EXCEPT !.state = "Streaming"]
Suspend(s) == [s EXCEPT !.state = "Open"]
Close(s) == [s EXCEPT !.state = "Closing"]
Abort(s) == IdleSession

\* AVDTPEvent; only TransportOpened carries data that matters.
Event(kind) == [kind |-> kind, path |-> NoTransport]
CodecConfigured == Event("CodecConfigured")
TransportOpened(path) == [kind |-> "TransportOpened", path |-> path]
StreamStarted == Event("StreamStarted")
StreamSuspended == Event("StreamSuspended")
TransportClosed == Event("TransportClosed")
AbortEvent == Event("Abort")

\* Mutant: a closed transport only suspends the stream.
DriveEventSuspends(s, e) ==
    CASE s.state = "Idle" /\ e.kind = "CodecConfigured" -> Configure(s)
      [] s.state = "Configured" /\ e.kind = "TransportOpened" ->
            OpenTransport(s, e.path)
      [] s.state = "Open" /\ e.kind = "StreamStarted" -> Start(s)
      [] s.state = "Streaming"
            /\ e.kind \in {"StreamSuspended", "TransportClosed"} -> Suspend(s)
      [] s.state = "Open" /\ e.kind = "TransportClosed" -> Abort(Close(s))
      [] e.kind = "Abort" -> Abort(s)
      [] OTHER -> s

\* driveEvent: one typed transition, or the event is ignored.
DriveEvent(s, e) ==
    CASE s.state = "Idle" /\ e.kind = "CodecConfigured" -> Configure(s)
      [] s.state = "Configured" /\ e.kind = "TransportOpened" ->
            OpenTransport(s, e.path)
      [] s.state = "Open" /\ e.kind = "StreamStarted" -> Start(s)
      [] s.state = "Streaming" /\ e.kind = "StreamSuspended" -> Suspend(s)
      [] s.state = "Open" /\ e.kind = "TransportClosed" -> Abort(Close(s))
      [] s.state = "Streaming" /\ e.kind = "TransportClosed" -> Abort(s)
      [] e.kind = "Abort" -> Abort(s)
      [] OTHER -> s

=============================================================================
