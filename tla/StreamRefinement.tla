-------------------------- MODULE StreamRefinement --------------------------
(* StreamEngine implements StreamService: the refinement mapping.          *)
EXTENDS StreamEngine

\* A descriptor waits for its stream from the reply to Acquire, or the call
\* of start_stream, until the BT thread is spawned or the start has failed.
Granted ==
    IF cpc \in {"acquired", "restarting", "starting", "playing"}
    THEN target ELSE NoTransport

\* A stream is alive while its BT thread is.
LiveStreams == {<<g, fd[g]>> : g \in {h \in Gens : Live(h)}}

\* The generations whose BT thread was ever spawned.
Started == {g \in Gens : bt[g] # "none"}

Service == INSTANCE StreamService WITH
    Numbers <- Gens,
    Grants <- Transports \cup {RawFd},
    NoGrant <- NoTransport,
    granted <- Granted,
    live <- LiveStreams,
    used <- Started

\* Whatever calls arrive, while threads and callbacks run: a descriptor BlueZ
\* or the caller hands over is used by at most one BT thread, the one that
\* start_stream spawns for it, and only after the previous thread has ended.
ImplementsService == Service!SSpec

=============================================================================
