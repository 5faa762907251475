------------------------- MODULE MCSecureMessaging -------------------------
(***************************************************************************)
(* Small instances of the layers of secure messaging.                      *)
(***************************************************************************)
EXTENDS SecureMessaging

-----------------------------------------------------------------------------
(* The edges of every field of the checked commands.                       *)

MCFiles == {3, 31}
MCPositions == {0, 300, 16777215}
MCSizes == {0, 300, 16777215, 16777216, 16777217}
MCIntegers32 == {-2147483647 - 1, -1, 66051}
MCRights == {<<1, 2, 3, 4>>, <<15, 14, 0, 16>>}
MCIds == {0, 1, 65536}
MCKeyNumbers == {0, 1, 16}
MCKeySets == {0, 1, 16}
MCBlocks == {1, 2}

Base == [id |-> 1, settings |-> 15, keys |-> 3, third |-> <<>>, sets |-> <<>>,
         iso |-> <<>>, name |-> 0, files |-> FALSE]

MCAppConfigs ==
    {[Base EXCEPT !.third = t, !.sets = s, !.iso = i, !.name = n, !.files = (n = 0)] :
        t \in {<<>>, <<0>>, <<1>>, <<8>>, <<16>>},
        s \in {<<>>, <<1, 2, 16, 0>>, <<1, 1, 16, 0>>},
        i \in {<<>>, <<258>>}, n \in {0, 2, 16}}
    \cup {[Base EXCEPT !.id = 0], [Base EXCEPT !.keys = 15], [Base EXCEPT !.keys = 14]}

Truth(type, options, details, additional, limit) ==
    [type |-> type, options |-> options, access |-> <<1, 2, 3, 4>>, details |-> details,
     additional |-> additional, limit |-> limit]

MCFileTruths ==
    {Truth(t, 3, <<300>>, <<>>, <<>>) : t \in {0, 1}}
    \cup {Truth(0, 129, <<0>>, a, <<>>) : a \in {<<>>, <<<<5, 6, 7, 8>>, <<0, 14, 15, 1>>>>}}
    \cup {Truth(2, 0, <<-1, 66051, 0, 1, 0>>, <<>>, <<>>)}
    \cup {Truth(t, 1, <<300, 2, 1>>, <<>>, <<>>) : t \in {3, 4}}
    \cup {Truth(5, 0, <<2, 7>>, <<>>, <<>>), Truth(5, 32, <<2, 7>>, <<>>, <<-1>>)}
    \cup {Truth(0, 64, <<300>>, <<>>, <<>>)}

-----------------------------------------------------------------------------
(* The requests and APDUs of the layers.                                   *)

\* Three commands over two sessions with every pair of modes.
MCStandardRequests ==
    LET Mode      == {"plain", "mac", "full"}
        AnyLength == -1
    IN  {r \in [request : Mode, response : Mode, data : BOOLEAN, drops : {FALSE},
                size : {AnyLength}] : r.request = "plain" => r.data}
        \cup {[request |-> "full", response |-> m, data |-> TRUE, drops |-> TRUE,
               size |-> AnyLength] : m \in {"plain", "mac"}}
        \cup {[request |-> "mac", response |-> "full", data |-> FALSE, drops |-> FALSE,
               size |-> 12]}

\* The pairs of modes that the checked commands use.
MCEv2Requests ==
    {[request |-> "plain", response |-> "plain", drops |-> FALSE],
     [request |-> "mac", response |-> "mac", drops |-> FALSE],
     [request |-> "full", response |-> "mac", drops |-> FALSE],
     [request |-> "mac", response |-> "full", drops |-> FALSE],
     [request |-> "full", response |-> "plain", drops |-> TRUE]}

\* The checked factories at the edges of their arguments.
MCIdentifiers == {5, 31, 32}
MCOffsets == {0, 255, 256, 32767, 32768}
MCRecords == {0, 255, 256}
MCFileIds == {258, 65536}
MCIsoSizes == {0, 1, 65536, 65537}

\* APDUs of each kind the raw ABI knows, as it takes them and not.
Apdu(ins, p1, p2, data, size, le) ==
    [ins |-> ins, p1 |-> p1, p2 |-> p2, data |-> data, size |-> size, le |-> le]

NoLength == -1

MCRawApdus ==
    { Apdu(176, 1, 2, <<>>, 0, 1),        \* READ BINARY of the current file
      Apdu(214, 127, 255, <<>>, 1, NoLength), \* UPDATE BINARY of the current file
      Apdu(176, 1, 2, <<>>, 0, NoLength),     \* no Le
      Apdu(176, 133, 0, <<>>, 0, 1),      \* READ BINARY of short file 5
      Apdu(214, 133, 0, <<>>, 1, NoLength),   \* UPDATE BINARY of short file 5
      Apdu(176, 146, 0, <<>>, 0, 1),      \* READ BINARY of short file 18
      Apdu(178, 1, 44, <<>>, 0, 1),       \* READ RECORD of file 5
      Apdu(226, 0, 40, <<>>, 1, NoLength),    \* APPEND RECORD
      Apdu(226, 0, 41, <<>>, 1, NoLength),    \* with a reference control
      Apdu(220, 1, 44, <<>>, 1, NoLength),    \* UPDATE RECORD
      Apdu(164, 2, 12, <<1, 2>>, 2, NoLength),\* SELECT of an elementary file
      Apdu(164, 2, 0, <<1, 2>>, 2, NoLength), \* with an answer, but no Le
      Apdu(164, 0, 0, <<1, 2>>, 2, 256),  \* SELECT by identifier
      Apdu(164, 4, 0, <<>>, 5, 256),      \* SELECT by name
      Apdu(132, 0, 0, <<>>, 0, 16) }      \* GET CHALLENGE

=============================================================================
