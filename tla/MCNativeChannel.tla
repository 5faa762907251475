-------------------------- MODULE MCNativeChannel --------------------------
(***************************************************************************)
(* Small instances of NativeChannel for TLC: transports that carry two     *)
(* data bytes per frame.                                                   *)
(***************************************************************************)
EXTENDS NativeChannel

CONSTANTS c1, c2

Chained(data, first, single, limit) ==
    [kind |-> "chained", data |-> data, first |-> first, single |-> single,
     limit |-> limit]

Adaptive(data) ==
    [kind |-> "adaptive", data |-> data, first |-> NoBoundary, single |-> FALSE,
     limit |-> 1]

\* Empty, two frames, a forced first-frame boundary with one continuation, a
\* boundary the transport cannot carry, and adaptive frames that fit or not.
AllRequests ==
    {Chained(0, NoBoundary, FALSE, 2), Chained(3, NoBoundary, FALSE, 1),
     Chained(3, 1, TRUE, 1), Chained(3, 3, FALSE, 1), Chained(2, 1, FALSE, 0),
     Adaptive(1), Adaptive(3)}

\* A chain of at least two frames, and frames sent one at a time.
TwoRequests == {Chained(3, 1, TRUE, 1), Adaptive(1)}

=============================================================================
