---------------------------- MODULE MCIsoChannel ----------------------------
(***************************************************************************)
(* Small instances of IsoChannel for TLC.                                  *)
(***************************************************************************)
EXTENDS IsoChannel

Call(data, le, encoding, limit, frames, correct) ==
    [data |-> data, le |-> le, encoding |-> encoding, limit |-> limit,
     frames |-> frames, correct |-> correct]

Reply(sw1, sw2, size) == [short |-> FALSE, sw1 |-> sw1, sw2 |-> sw2, size |-> size]
ShortReply == [short |-> TRUE, sw1 |-> "other", sw2 |-> 0, size |-> 0]

\* Reads with and without correction, writes at the short and the extended
\* boundary, a call that cannot be encoded and one without a limit.
EdgeCalls ==
    {Call(0, 2, "automatic", 2, 4, TRUE), Call(0, 256, "short_apdu", 256, 3, TRUE),
     Call(0, 257, "automatic", 300, 2, FALSE), Call(0, NoLe, "extended", 3, 3, TRUE),
     Call(255, NoLe, "automatic", 2, 3, TRUE), Call(256, NoLe, "automatic", 2, 2, TRUE),
     Call(3, 4, "extended", 4, 2, FALSE), Call(256, NoLe, "short_apdu", 1, 1, FALSE),
     Call(1, 1, "automatic", 0, 1, FALSE)}

Replies ==
    {Reply("other", 0, 0), Reply("other", 0, 2), Reply("61", 1, 0), Reply("61", 2, 1),
     Reply("6C", 1, 0), Reply("6C", 0, 0), Reply("6C", 1, 1), Reply("other", 0, 9),
     ShortReply}

=============================================================================
