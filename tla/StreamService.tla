---------------------------- MODULE StreamService ---------------------------
(***************************************************************************)
(* What stream management promises its caller, without threads, calls in   *)
(* progress or metrics: a descriptor is granted, and it becomes the source *)
(* of at most one stream, which starts only when no other stream is alive. *)
(* StreamRefinement shows that StreamEngine implements this.               *)
(***************************************************************************)
EXTENDS Naturals

CONSTANTS
    Numbers,    \* stream numbers, in the order they are given out
    Grants,     \* what a descriptor can come from: a transport or the caller
    NoGrant

VARIABLES
    granted,    \* the descriptor that waits for its stream, or NoGrant
    live,       \* the streams alive: pairs of a number and a descriptor
    used        \* the numbers of all streams there ever were

svars == <<granted, live, used>>

SInit == granted = NoGrant /\ live = {} /\ used = {}

\* A descriptor arrives; nothing else waits for a stream.
Grant(d) ==
    /\ granted = NoGrant
    /\ granted' = d
    /\ UNCHANGED <<live, used>>

\* Its stream starts, alone and under a number above all used before.
Begin ==
    /\ granted # NoGrant
    /\ live = {}
    /\ \E n \in Numbers :
          /\ \A m \in used : m < n
          /\ used' = used \cup {n}
          /\ live' = {<<n, granted>>}
    /\ granted' = NoGrant

\* The start failed: the descriptor is never used.
Discard ==
    /\ granted # NoGrant
    /\ granted' = NoGrant
    /\ UNCHANGED <<live, used>>

\* The stream ends.
End ==
    /\ live # {}
    /\ live' = {}
    /\ UNCHANGED <<granted, used>>

SNext == (\E d \in Grants : Grant(d)) \/ Begin \/ Discard \/ End

SSpec == SInit /\ [][SNext]_svars

=============================================================================
