-------------------------- MODULE CheckedCommands --------------------------
(***************************************************************************)
(* The checked native commands (core/src/native/checked) as the managed    *)
(* Card runs them: an operation builds a Command or refuses its arguments, *)
(* Card::execute_locked() admits it under the session it holds,            *)
(* SecureNativeChannel protects it or sends it in the clear, the card      *)
(* reads the bytes and answers, and the answer is measured and parsed      *)
(* before it is believed.                                                  *)
(*                                                                         *)
(* ManagedCard abstracts a command to the flags execute_locked() tests.    *)
(* Here a command is the bytes its builder puts together, so that what the *)
(* card reads can be compared with what the caller asked for.  Bytes are   *)
(* numbers 0..255; a 32-bit field is the int32 with the same bits, so an   *)
(* amount above INT32_MAX appears as a negative number.  A payload whose   *)
(* content does not matter is known by its size; a key is one number, with *)
(* a bitwise exclusive or.  The card, its layouts included, is external:   *)
(* it is written from how src/ uses it, independently of the builders.     *)
(***************************************************************************)
EXTENDS Integers, Sequences, SequencesExt

CONSTANTS
    Files,        \* model::FileNumber values
    Positions,    \* model::Offset and model::ByteCount values
    Sizes,        \* sizes of borrowed payloads
    Integers32,   \* 32-bit fields, as int32
    Rights,       \* access rights, <<read_write, change, read, write>>
    Ids,          \* application identifiers; 0 is the PICC
    AppConfigs,   \* model::ApplicationConfiguration records, see create_application
    FileTruths,   \* file settings a card may hold, see parse_file_settings
    KeyNumbers,   \* native key selectors
    KeySets,      \* key-set numbers
    Blocks        \* AES keys: numbers below 4

Families == {"standard", "ev2"}
plain == 0
mac == 1
full == 3
Modes == {plain, mac, 2, full}                \* 2 is not a mode
maximum_three_byte == 16777215
maximum_logical_response == 16777216
response_protection_overhead == 32

ByteValue == 0..255
WordValue == 0..65535

\* model::ApplicationConfiguration; an absent optional is <<>>.
Optionals(S) == {<<>>} \cup {<<x>> : x \in S}

ApplicationConfiguration ==
    [id : Nat, settings : ByteValue, keys : Nat, third : Optionals(ByteValue),
     sets : {<<>>} \cup (ByteValue \X ByteValue \X ByteValue \X ByteValue),
     iso : Optionals(WordValue), name : Nat, files : BOOLEAN]

ASSUME ConstantsAssumption ==
    /\ Files \subseteq 0..31
    /\ Positions \subseteq 0..maximum_three_byte
    /\ Sizes \subseteq Nat
    /\ Integers32 \subseteq Int
    /\ Rights \subseteq Nat \X Nat \X Nat \X Nat
    /\ Ids \subseteq 0..maximum_three_byte /\ 0 \in Ids
    /\ AppConfigs \subseteq ApplicationConfiguration
    /\ KeyNumbers \subseteq 0..63
    /\ KeySets \subseteq 0..255
    /\ Blocks \subseteq 0..3

VARIABLES
    host,    \* the Card: usable, session family, authenticated key, selected application
    card,    \* the card: session family, key, application, last key slot written
    call,    \* the operation: its phase, what was asked, and its command
    reply,   \* what the transport brought back
    heard,   \* what the card read of the last command it received
    result   \* what the last operation returned

vars == <<host, card, call, reply, heard, result>>

NoSession == "none"
NoKey == -1
Nowhere == -1                                 \* selected_application is std::nullopt
NoSlot == <<>>

(***************************************************************************)
(* Bytes.                                                                  *)
(***************************************************************************)
ByteWeight == <<1, 256, 65536, 16777216>>
BitWeight == <<1, 2, 4, 8, 16, 32, 64, 128>>

\* Mutation: the shifted value is not narrowed to a byte.
put_le_wide(value, count) == [i \in 1..count |-> value \div ByteWeight[i]]

\* put_le(): the low-order bytes first; of an int32 its two's complement.
put_le(value, count) == [i \in 1..count |-> (value \div ByteWeight[i]) % 256]

\* get_le() of up to three bytes, and of four bytes bit_cast to an int32.
get_le(bytes) ==
    LET Byte(i) == IF i > Len(bytes) THEN 0 ELSE bytes[i]
        top     == IF Byte(4) > 127 THEN Byte(4) - 256 ELSE Byte(4)
    IN  Byte(1) + 256 * Byte(2) + 65536 * Byte(3) + 16777216 * top

Bit(byte, position) == (byte \div BitWeight[position + 1]) % 2

Flag(condition, value) == IF condition THEN value ELSE 0

\* Of two-bit numbers: the exclusive or of a key with the key it replaces.
Xor(a, b) == 2 * ((Bit(a, 1) + Bit(b, 1)) % 2) + ((a + b) % 2)

\* crc32() of a key, by all that matters here: it tells the keys apart.
crc32(block) == 1000 + block

Zeros(count) == [i \in 1..count |-> 0]

(***************************************************************************)
(* Assembling commands.  A builder returns the set of the command it       *)
(* builds, or the empty set when it refuses its arguments.                 *)
(***************************************************************************)
NoData == [size |-> 0, bytes |-> <<>>]

BytesOf(bytes) == [size |-> Len(bytes), bytes |-> bytes]

Opaque(size) == [size |-> size, bytes |-> <<>>]

\* management(): MAC both ways if there is a session, and no requirement.
management(opcode, header, minimum, maximum) ==
    [op |-> opcode, header |-> header, data |-> NoData, req |-> mac, res |-> mac,
     min |-> minimum, max |-> maximum, auth |-> FALSE, ev2 |-> FALSE, picc |-> FALSE,
     single |-> FALSE, ends |-> FALSE, key |-> NoKey, keys |-> {}, first |-> -1]

NoCommand == management(0, <<>>, 0, 0)

valid_mode(mode) == mode \in {plain, mac, full}

valid_access(access) == \A i \in 1..4 : access[i] <= 15

read_access(bytes) ==
    <<bytes[1] \div 16, bytes[1] % 16, bytes[2] \div 16, bytes[2] % 16>>

\* Mutation: the two bytes of the access rights in the order of the 16-bit number.
append_access_swapped(access) ==
    <<16 * access[3] + access[4], 16 * access[1] + access[2]>>

\* append_access(): RW and CAR, then R and W.
append_access(access) == <<16 * access[1] + access[2], 16 * access[3] + access[4]>>

\* file_command(): the file's mode, where Full enciphers only the direction
\* that carries the file's data.
file_command(opcode, header, data, mode, reading, minimum, maximum) ==
    IF ~valid_mode(mode) THEN {}
    ELSE {[management(opcode, header, minimum, maximum) EXCEPT
             !.data = data, !.auth = mode # plain,
             !.req = IF mode = full /\ reading THEN mac ELSE mode,
             !.res = IF mode = full /\ ~reading THEN mac ELSE mode]}

\* Mutation: SetConfiguration as an ordinary management command.
configuration_clear(selector, data) ==
    {[management(92, <<selector>>, 0, 0) EXCEPT !.data = data]}

\* configuration(): SetConfiguration, always enciphered and authenticated.
configuration(selector, data) ==
    {[management(92, <<selector>>, 0, 0) EXCEPT !.req = full, !.auth = TRUE, !.data = data]}

file_creation_prefix(file, iso) ==
    <<file>> \o (IF iso = <<>> THEN <<>> ELSE put_le(iso[1], 2))

range_header(file, offset, length) ==
    <<file>> \o put_le(offset, 3) \o put_le(length, 3)

\* valid_range(): subtraction on the right, so that nothing overflows.
valid_range(offset, length) ==
    /\ length <= maximum_three_byte
    /\ length <= maximum_three_byte - offset

(***************************************************************************)
(* files.cpp                                                               *)
(***************************************************************************)
get_file_ids == {management(111, <<>>, 0, 32)}

create_data_file(file, iso, mode, more, access, size, backup) ==
    IF ~valid_mode(mode) \/ ~valid_access(access) \/ size = 0 THEN {}
    ELSE {management(IF backup THEN 203 ELSE 205,
                     file_creation_prefix(file, iso) \o <<mode + Flag(more, 128)>>
                         \o append_access(access) \o put_le(size, 3), 0, 0)}

create_value_file(file, mode, more, access, lower, upper, initial, limited, free) ==
    IF \/ ~valid_mode(mode) \/ ~valid_access(access)
       \/ lower > upper \/ initial < lower \/ initial > upper
    THEN {}
    ELSE {management(204, <<file, mode + Flag(more, 128)>> \o append_access(access)
                         \o put_le(lower, 4) \o put_le(upper, 4) \o put_le(initial, 4)
                         \o <<Flag(limited, 1) + Flag(free, 2)>>, 0, 0)}

create_record_file(file, iso, mode, more, access, size, records, cyclic) ==
    IF ~valid_mode(mode) \/ ~valid_access(access) \/ size = 0 \/ records = 0 THEN {}
    ELSE {management(IF cyclic THEN 192 ELSE 193,
                     file_creation_prefix(file, iso) \o <<mode + Flag(more, 128)>>
                         \o append_access(access) \o put_le(size, 3) \o put_le(records, 3),
                     0, 0)}

create_transaction_mac_file(file, access, size, key, version) ==
    IF ~valid_access(access) \/ size # 16 THEN {}
    ELSE {[management(206, <<file, 0>> \o append_access(access) \o <<2>>, 0, 0) EXCEPT
             !.data = [size |-> 17, bytes |-> <<key, version>>],
             !.req = full, !.auth = TRUE]}

delete_file(file) == {management(223, <<file>>, 0, 0)}

get_file_settings(file) == {management(245, <<file>>, 6, 128)}

get_file_counters(file, mode) ==
    IF mode = mac THEN {} ELSE file_command(246, <<file>>, NoData, mode, TRUE, 5, 5)

\* change_file_settings(): the additional rights with their count, and the
\* transaction-counter limit, only if their option bit announces them.
change_file_settings(file, mode, access, additional, limit, command) ==
    IF \/ ~valid_mode(mode) \/ ~valid_access(access) \/ Len(additional) > 7
       \/ \E i \in DOMAIN additional : ~valid_access(additional[i])
    THEN {}
    ELSE LET options == mode + Flag(additional # <<>>, 128) + Flag(limit # <<>>, 32)
             counted == IF additional = <<>> THEN <<>>
                        ELSE <<Len(additional)>>
                             \o FlattenSeq([i \in DOMAIN additional |->
                                               append_access(additional[i])])
             limited == IF limit = <<>> THEN <<>> ELSE put_le(limit[1], 4)
         IN  file_command(95, <<file>>,
                          BytesOf(<<options>> \o append_access(access) \o counted \o limited),
                          command, FALSE, 0, 0)

\* Mutation: the number of bytes wanted is not demanded of the answer.
read_data_short(file, offset, length, mode) ==
    IF ~valid_range(offset, length) THEN {}
    ELSE file_command(189, range_header(file, offset, length), NoData, mode, TRUE, 0,
                      IF length = 0 THEN maximum_three_byte - offset ELSE length)

\* read_data(): length zero reads to the end of the file.
read_data(file, offset, length, mode) ==
    IF ~valid_range(offset, length) THEN {}
    ELSE file_command(189, range_header(file, offset, length), NoData, mode, TRUE, length,
                      IF length = 0 THEN maximum_three_byte - offset ELSE length)

write_data(file, offset, size, mode) ==
    IF size = 0 \/ ~valid_range(offset, size) THEN {}
    ELSE file_command(61, range_header(file, offset, size), Opaque(size), mode, FALSE, 0, 0)

\* Mutation: the caller's bound on the answer is not checked.
read_records_unbounded(file, first, count, mode, maximum) ==
    IF ~valid_range(first, count) THEN {}
    ELSE file_command(187, range_header(file, first, count), NoData, mode, TRUE, 0, maximum)

read_records(file, first, count, mode, maximum) ==
    IF ~valid_range(first, count) \/ maximum = 0 \/ maximum > maximum_logical_response THEN {}
    ELSE file_command(187, range_header(file, first, count), NoData, mode, TRUE, 0, maximum)

write_record(file, offset, size, mode) ==
    IF size = 0 \/ ~valid_range(offset, size) THEN {}
    ELSE file_command(59, range_header(file, offset, size), Opaque(size), mode, FALSE, 0, 0)

update_record(file, record, offset, size, mode) ==
    IF size = 0 \/ ~valid_range(offset, size) THEN {}
    ELSE file_command(219, <<file>> \o put_le(record, 3) \o put_le(offset, 3) \o put_le(size, 3),
                      Opaque(size), mode, FALSE, 0, 0)

clear_record_file(file) == {management(235, <<file>>, 0, 0)}

(***************************************************************************)
(* transactions.cpp                                                        *)
(***************************************************************************)
get_value(file, mode) == file_command(108, <<file>>, NoData, mode, TRUE, 4, 4)

\* value_change(): credit, debit and limited credit; an amount above INT32_MAX,
\* here a negative number, would be read by the card as the opposite change.
value_change(opcode, file, amount, mode) ==
    IF amount < 0 THEN {}
    ELSE file_command(opcode, <<file>>, BytesOf(put_le(amount, 4)), mode, FALSE, 0, 0)

credit(file, amount, mode) == value_change(12, file, amount, mode)

debit(file, amount, mode) == value_change(220, file, amount, mode)

limited_credit(file, amount, mode) == value_change(28, file, amount, mode)

restore_transfer(target, source, mode) ==
    IF mode \notin {plain, mac} THEN {}
    ELSE file_command(177, <<>>, BytesOf(<<target, source>>), mode, FALSE, 0, 0)

commit_transaction(receipt) ==
    {IF receipt THEN management(199, <<1>>, 12, 12) ELSE management(199, <<>>, 0, 0)}

abort_transaction == {management(167, <<>>, 0, 0)}

commit_reader_id(size) ==
    IF size # 16 THEN {}
    ELSE {[management(200, Zeros(16), 16, 16) EXCEPT !.auth = TRUE]}

(***************************************************************************)
(* keys.cpp                                                                *)
(***************************************************************************)
get_key_settings == {management(69, <<>>, 2, 6)}

change_key_settings(settings) ==
    file_command(84, <<>>, BytesOf(<<settings>>), full, FALSE, 0, 0)

get_key_version(key, set) ==
    IF set = <<>> THEN {management(100, <<key>>, 1, 1)}
    ELSE IF set[1] > 15 \/ key > 13 THEN {}
         ELSE {management(100, <<key + 64, set[1]>>, 1, 1)}

get_key_set_versions == {management(100, <<64, 128>>, 2, 16)}

SetOf(set) == IF set = <<>> THEN 0 ELSE set[1]

changes_current_key(key, set, authenticated) == key = authenticated /\ SetOf(set) = 0

\* Mutation: the key set is left out of the header.
KeySelectorNoSet(key, set, master) == <<key + Flag(master, 128)>>

KeySelector(key, set, master) == set \o <<key + Flag(master, 128)>>

\* change_aes_key(): the key in use is sent as it is and its session ends with
\* a plain answer; any other key is sent combined with the old one, and checked.
change_aes_key(key, new, version, authenticated, old, set, master) ==
    LET current == changes_current_key(key, set, authenticated)
    IN  IF \/ (set # <<>> /\ set[1] > 15)
           \/ (master /\ key # 0)
           \/ (current /\ old # <<>>) \/ (~current /\ old = <<>>)
        THEN {}
        ELSE {[management(IF set = <<>> THEN 196 ELSE 198,
                          KeySelector(key, set, master), 0, 0) EXCEPT
                 !.data = IF current THEN [size |-> 17, bytes |-> <<new, version>>]
                          ELSE [size |-> 21,
                                bytes |-> <<Xor(new, old[1]), version, crc32(new)>>],
                 !.req = full, !.res = IF current THEN plain ELSE mac,
                 !.auth = TRUE, !.ends = current, !.key = authenticated]}

initialize_key_set(set) ==
    IF set > 15 THEN {}
    ELSE {[management(86, <<>>, 0, 0) EXCEPT !.data = BytesOf(<<set, 2>>), !.auth = TRUE]}

finalize_key_set(set, version) ==
    IF set > 15 THEN {}
    ELSE {[management(87, <<>>, 0, 0) EXCEPT !.data = BytesOf(<<set, version>>), !.auth = TRUE]}

\* roll_key_set(): the active keys are replaced, so the session ends.
roll_key_set(set) ==
    IF set > 15 THEN {}
    ELSE {[management(85, <<>>, 0, 0) EXCEPT
             !.data = BytesOf(<<set>>), !.auth = TRUE, !.ends = TRUE]}

(***************************************************************************)
(* applications.cpp                                                        *)
(***************************************************************************)
\* An absent optional is <<>>.  `name` is the size of the ISO directory name.
\* application_tail(): the fields after the identifier, {} if they are refused.
application_tail(c) ==
    LET third == IF c.third = <<>> THEN 0 ELSE c.third[1]
        has3  == c.third # <<>> \/ c.sets # <<>>
    IN  IF \/ c.id = 0 \/ c.keys < 1 \/ c.keys > 14 \/ c.name > 16
           \/ (c.name > 0 /\ c.iso = <<>>)
           \/ \E i \in {3, 5, 6, 7} : Bit(third, i) = 1
           \/ (Bit(third, 0) = 1 /\ c.sets = <<>>)
           \/ c.sets # <<>> /\ (c.sets[2] < 2 \/ c.sets[2] > 16 \/ c.sets[3] # 16)
        THEN {}
        ELSE {<<c.settings, 128 + c.keys + Flag(c.files, 32) + Flag(has3, 16)>>
              \o (IF has3 THEN <<third + Flag(c.sets # <<>> /\ Bit(third, 0) = 0, 1)>> ELSE <<>>)
              \o c.sets
              \o (IF c.iso = <<>> THEN <<>> ELSE put_le(c.iso[1], 2))
              \o Zeros(c.name)}

create_application(c) ==
    {management(202, put_le(c.id, 3) \o tail, 0, 0) : tail \in application_tail(c)}

\* create_delegated_application(): the header fills the first frame, and the
\* authorisation must fit the only other one.
create_delegated_application(c, slot, version, quota, key, proof) ==
    IF key # 32 \/ proof # 8 THEN {}
    ELSE {LET header == put_le(c.id, 3) \o put_le(slot, 2) \o <<version>>
                            \o put_le(quota, 2) \o tail
          IN  [management(201, header, 0, 0) EXCEPT
                 !.data = Opaque(40), !.auth = TRUE, !.ev2 = TRUE, !.picc = TRUE,
                 !.single = TRUE, !.key = 16, !.first = Len(header)]
          : tail \in application_tail(c)}

get_application_ids == {management(106, <<>>, 0, maximum_logical_response)}

get_df_names == {management(109, <<>>, 0, maximum_logical_response)}

get_iso_file_ids == {management(97, <<>>, 0, 64)}

get_delegated_application_info(slot) ==
    {[management(105, put_le(slot, 2), 8, 8) EXCEPT !.picc = TRUE]}

delete_application(id) ==
    IF id = 0 THEN {} ELSE {management(218, put_le(id, 3), 0, 0)}

delete_delegated_application(id, proof) ==
    IF id = 0 \/ proof # 8 THEN {}
    ELSE {[management(218, put_le(id, 3) \o Zeros(8), 0, 0) EXCEPT
             !.auth = TRUE, !.picc = TRUE, !.keys = {16, 24}]}

(***************************************************************************)
(* card_management.cpp                                                     *)
(***************************************************************************)
UidRequests == {"omit_option", "without_nuid", "with_nuid"}

get_version == {management(96, <<>>, 28, 28)}

free_memory == {management(110, <<>>, 3, 3)}

get_card_uid(request) ==
    LET more == Flag(request = "with_nuid", 4)
    IN  file_command(81, CASE request = "omit_option" -> <<>>
                           [] request = "without_nuid" -> <<0>>
                           [] request = "with_nuid" -> <<1>>,
                     NoData, full, TRUE, 6 + more, 12 + more)

read_originality_signature ==
    {[management(60, <<0>>, 56, 56) EXCEPT !.res = full]}

format_picc == {[management(252, <<>>, 0, 0) EXCEPT !.auth = TRUE]}

\* set_picc_configuration(): the seven flags, in order, are the bits of one byte.
set_picc_configuration(flags) ==
    configuration(0, BytesOf(<<FoldLeft(LAMBDA acc, f : 2 * acc + Flag(f, 1), 0,
                                        Reverse(flags))>>))

set_capability_configuration == configuration(5, Opaque(9))

set_default_aes_key(size, key, version) ==
    IF size # 16 THEN {}
    ELSE configuration(1, [size |-> 25, bytes |-> <<key, version>>])

set_ats(size, first) ==
    IF size < 2 \/ size > 20 \/ first # size THEN {} ELSE configuration(2, Opaque(size))

set_atqa(atqa) == configuration(12, BytesOf(put_le(atqa, 2)))

(***************************************************************************)
(* Parsing answers.                                                        *)
(***************************************************************************)
Parsed(value) == [kind |-> "value", value |-> value]
Malformed == [kind |-> "malformed", value |-> <<>>]
Unsupported == [kind |-> "unsupported", value |-> <<>>]

Field(bytes, position, count) == get_le(SubSeq(bytes, position, position + count - 1))

\* Complete fields of `width` bytes, each value once; zero is refused if `nonzero`.
parse_identifiers(bytes, width, nonzero) ==
    LET ids == [i \in 1..(Len(bytes) \div width) |-> Field(bytes, width * (i - 1) + 1, width)]
    IN  IF Len(bytes) % width # 0 \/ ~IsInjective(ids) \/ (nonzero /\ 0 \in ToSet(ids))
        THEN Malformed
        ELSE Parsed(ids)

parse_application_ids(bytes) == parse_identifiers(bytes, 3, TRUE)

parse_iso_file_ids(bytes) ==
    IF Len(bytes) > 64 THEN Malformed ELSE parse_identifiers(bytes, 2, FALSE)

parse_key_settings(bytes) ==
    IF Len(bytes) \in {2, 6} THEN Parsed(bytes) ELSE Malformed

parse_file_counters(bytes) ==
    IF Len(bytes) # 5 THEN Malformed
    ELSE Parsed(<<Field(bytes, 1, 3)>> \o SubSeq(bytes, 4, 5))

parse_value(bytes) ==
    IF Len(bytes) # 4 THEN Malformed ELSE Parsed(<<get_le(bytes)>>)

parse_transaction_mac(bytes) ==
    IF Len(bytes) # 12 THEN Malformed
    ELSE Parsed(<<Field(bytes, 1, 4)>> \o SubSeq(bytes, 5, 12))

parse_delegated_application_info(bytes) ==
    IF Len(bytes) # 8 THEN Malformed
    ELSE Parsed(<<bytes[1], Field(bytes, 2, 2), Field(bytes, 4, 2), Field(bytes, 6, 3)>>)

\* parse_card_uid(): seven bytes bare, or two of format and then four or ten;
\* the NUID follows if it was requested.  The value is <<uid, nuid>>.
parse_card_uid(bytes, request) ==
    LET with == request = "with_nuid"
        uid  == IF with THEN SubSeq(bytes, 1, Len(bytes) - 4) ELSE bytes
        nuid == IF with THEN SubSeq(bytes, Len(bytes) - 3, Len(bytes)) ELSE <<>>
    IN  IF with /\ Len(bytes) < 4 THEN Malformed
        ELSE IF Len(uid) = 7 THEN Parsed(<<uid, nuid>>)
        ELSE IF Len(uid) \notin {6, 12} THEN Malformed
        ELSE IF uid[1] # 0 \/ uid[2] # Len(uid) - 2 THEN Malformed
        ELSE Parsed(<<SubSeq(uid, 3, Len(uid)), nuid>>)

\* The type-specific fields of file settings, after four bytes.
DetailsSize(type) ==
    CASE type \in {0, 1} -> 3 [] type = 2 -> 13 [] type \in {3, 4} -> 9 [] type = 5 -> 2

Details(b) ==
    CASE b[1] \in {0, 1} -> <<Field(b, 5, 3)>>
      [] b[1] = 2 -> <<Field(b, 5, 4), Field(b, 9, 4), Field(b, 13, 4),
                       Bit(b[17], 0), Bit(b[17], 1)>>
      [] b[1] \in {3, 4} -> <<Field(b, 5, 3), Field(b, 8, 3), Field(b, 11, 3)>>
      [] b[1] = 5 -> <<b[5], b[6]>>

\* parse_file_settings(): option bits 7, 6 and 5 announce additional access
\* rights, SDM settings (which the SDK does not decode) and a counter limit.
parse_file_settings(b) ==
    LET options == b[2]
        details == 4 + DetailsSize(b[1])
        count   == b[details + 1]
        rights  == details + Flag(Bit(options, 7) = 1, 1 + 2 * count)
        end     == rights + Flag(Bit(options, 5) = 1, 4)
    IN  IF Len(b) < 4 \/ Len(b) > 128 THEN Malformed
        ELSE IF b[1] > 5 \/ ~valid_mode(options % 4) \/ (options \div 4) % 8 # 0 THEN Malformed
        ELSE IF Len(b) < details THEN Malformed
        ELSE IF b[1] = 2 /\ b[17] > 3 THEN Malformed
        ELSE IF Bit(options, 7) = 1 /\ Len(b) = details THEN Malformed
        ELSE IF Bit(options, 7) = 1 /\ (count > 7 \/ Len(b) < rights) THEN Malformed
        ELSE IF Bit(options, 6) = 1 THEN Unsupported
        ELSE IF Bit(options, 5) = 1 /\ (b[1] # 5 \/ Len(b) < end) THEN Malformed
        ELSE IF Len(b) # end THEN Malformed
        ELSE Parsed([type |-> b[1], options |-> options,
                     access |-> read_access(SubSeq(b, 3, 4)), details |-> Details(b),
                     additional |-> [i \in 1..((rights - details) \div 2) |->
                         read_access(SubSeq(b, details + 2 * i, details + 2 * i + 1))],
                     limit |-> IF Bit(options, 5) = 1 THEN <<Field(b, rights + 1, 4)>> ELSE <<>>])

Requested(header) ==
    CASE header = <<>> -> "omit_option" [] header = <<0>> -> "without_nuid"
      [] header = <<1>> -> "with_nuid"

\* The parser execute_locked() applies to an answer, by opcode; an answer of
\* any other command is known by its size.
ParserOf(c, answer) ==
    LET bytes == answer.bytes
    IN  CASE c.op = 106 -> parse_application_ids(bytes)
          [] c.op = 97 -> parse_iso_file_ids(bytes)
          [] c.op = 69 -> parse_key_settings(bytes)
          [] c.op = 245 -> parse_file_settings(bytes)
          [] c.op = 246 -> parse_file_counters(bytes)
          [] c.op = 108 -> parse_value(bytes)
          [] c.op = 81 -> parse_card_uid(bytes, Requested(c.header))
          [] c.op = 105 -> parse_delegated_application_info(bytes)
          [] c.op = 199 /\ bytes # <<>> -> parse_transaction_mac(bytes)
          [] c.op = 96 -> IF answer.size = 28 THEN Parsed(28) ELSE Malformed
          [] c.op = 60 -> IF answer.size = 56 THEN Parsed(56) ELSE Malformed
          [] OTHER -> Parsed(answer.size)

(***************************************************************************)
(* The card (external): how it reads a command and what it answers.        *)
(***************************************************************************)
\* Access rights are a 16-bit number: R, W, RW, CAR from the top.
CardRights(number) ==
    <<(number \div 16) % 16, number % 16, number \div 4096, (number \div 256) % 16>>

RightsNumber(access) == 4096 * access[3] + 256 * access[4] + 16 * access[1] + access[2]

\* A field of a layout: its width in bytes and the values it carries.
Width(kind) ==
    CASE kind \in {"byte", "options"} -> 1 [] kind \in {"two", "rights"} -> 2
      [] kind = "three" -> 3 [] kind = "four" -> 4

Reading(kind, bytes) ==
    CASE kind = "options" -> <<bytes[1] % 4, Bit(bytes[1], 7), Bit(bytes[1], 5)>>
      [] kind = "rights" -> CardRights(get_le(bytes))
      [] OTHER -> <<get_le(bytes)>>

CardReads(layout, bytes) ==
    FoldLeft(LAMBDA acc, kind :
                 [at |-> acc.at + Width(kind),
                  read |-> acc.read \o Reading(kind, SubSeq(bytes, acc.at, acc.at + Width(kind) - 1))],
             [at |-> 1, read |-> <<>>], layout).read

BytesLayout(bytes) == [i \in DOMAIN bytes |-> "byte"]

HeaderLayout(c) ==
    CASE c.op \in {189, 61, 187, 59} -> <<"byte", "three", "three">>
      [] c.op = 219 -> <<"byte", "three", "three", "three">>
      [] c.op \in {205, 203} ->
             <<"byte">> \o (IF Len(c.header) = 9 THEN <<"two">> ELSE <<>>)
             \o <<"options", "rights", "three">>
      [] c.op \in {193, 192} ->
             <<"byte">> \o (IF Len(c.header) = 12 THEN <<"two">> ELSE <<>>)
             \o <<"options", "rights", "three", "three">>
      [] c.op = 204 -> <<"byte", "options", "rights", "four", "four", "four", "byte">>
      [] c.op = 206 -> <<"byte", "options", "rights", "byte">>
      [] c.op = 218 -> <<"three">> \o [i \in 1..(Len(c.header) - 3) |-> "byte"]
      [] c.op = 105 -> <<"two">>
      [] OTHER -> BytesLayout(c.header)

DataLayout(c) ==
    LET b      == c.data.bytes
        rights == IF Bit(b[1], 7) = 1 THEN <<"byte">> \o [i \in 1..b[4] |-> "rights"] ELSE <<>>
    IN  CASE c.op \in {12, 220, 28} -> <<"four">>
          [] c.op = 92 /\ c.header = <<12>> -> <<"two">>
          [] c.op = 95 -> <<"options", "rights">> \o rights
                          \o (IF Bit(b[1], 5) = 1 THEN <<"four">> ELSE <<>>)
          [] OTHER -> BytesLayout(b)

\* The fields of an application after its identifier (and slot): bit 4 of the
\* second byte announces a third, bit 0 of which announces key sets; what is
\* left is an ISO identifier and a name.
ReadApplication(t) ==
    LET has3 == Bit(t[2], 4) = 1
        sets == has3 /\ Bit(t[3], 0) = 1
        at   == 3 + Flag(has3, 1) + Flag(sets, 4)
        rest == Len(t) - at + 1
    IN  <<t[1], t[2] % 16, Bit(t[2], 5)>> \o SubSeq(t, 3, at - 1)
        \o (IF rest < 2 THEN <<rest>> ELSE <<Field(t, at, 2), rest - 2>>)

Understood(c) ==
    CASE c.op = 202 -> <<Field(c.header, 1, 3)>> \o ReadApplication(SubSeq(c.header, 4, Len(c.header)))
      [] c.op = 201 ->
             CardReads(<<"three", "two", "byte", "two">>, SubSeq(c.header, 1, 8))
             \o ReadApplication(SubSeq(c.header, 9, Len(c.header)))
      [] OTHER -> CardReads(HeaderLayout(c), c.header) \o CardReads(DataLayout(c), c.data.bytes)

\* The settings of a file as the card transmits them.
EncodeSettings(t) ==
    <<t.type, t.options>> \o put_le(RightsNumber(t.access), 2)
    \o (CASE t.type \in {0, 1} -> put_le(t.details[1], 3)
          [] t.type = 2 -> put_le(t.details[1], 4) \o put_le(t.details[2], 4)
                           \o put_le(t.details[3], 4) \o <<t.details[4] + 2 * t.details[5]>>
          [] t.type \in {3, 4} -> FlattenSeq([i \in 1..3 |-> put_le(t.details[i], 3)])
          [] t.type = 5 -> t.details)
    \o (IF Bit(t.options, 7) = 0 THEN <<>>
        ELSE <<Len(t.additional)>>
             \o FlattenSeq([i \in DOMAIN t.additional |-> put_le(RightsNumber(t.additional[i]), 2)]))
    \o (IF t.limit = <<>> THEN <<>> ELSE put_le(t.limit[1], 4))

IdLists == {<<>>} \cup {<<a>> : a \in Ids \ {0}}
           \cup {l \in (Ids \ {0}) \X (Ids \ {0}) : l[1] # l[2]}

Uids == {<<4, 1, 2, 3, 4, 5, 6>>, <<8, 1, 2, 3>>, <<4, 1, 2, 3, 4, 5, 6, 7, 8, 9>>}

UidBytes(uid) == IF Len(uid) = 7 THEN uid ELSE <<0, Len(uid)>> \o uid

Answer(bytes, truth) == [size |-> Len(bytes), bytes |-> bytes, truth |-> truth]

\* What the card may answer to a command, and what that answer means.
AnswersOf(c) ==
    CASE c.op = 106 ->
             {Answer(FlattenSeq([i \in DOMAIN l |-> put_le(l[i], 3)]), l) : l \in IdLists}
      [] c.op = 97 -> {Answer(<<>>, <<>>), Answer(<<1, 2, 0, 0>>, <<513, 0>>)}
      [] c.op = 69 -> {Answer(b, b) : b \in {<<9, 130>>, <<9, 130, 1, 2, 16, 0>>}}
      [] c.op = 245 -> {Answer(EncodeSettings(t), t) : t \in FileTruths}
      [] c.op = 246 -> {Answer(put_le(n, 3) \o <<0, 0>>, <<n, 0, 0>>) : n \in Positions}
      [] c.op = 108 -> {Answer(put_le(v, 4), <<v>>) : v \in Integers32}
      [] c.op = 81 ->
             {Answer(UidBytes(u) \o n, <<u, n>>) :
                 u \in Uids, n \in {IF c.header = <<1>> THEN <<9, 9, 9, 9>> ELSE <<>>}}
      [] c.op = 105 -> {Answer(<<1, 2, 0, 3, 0>> \o put_le(a, 3), <<1, 2, 3, a>>) : a \in Ids}
      [] c.op = 199 /\ c.header = <<1>> ->
             {Answer(put_le(v, 4) \o Zeros(8), <<v>> \o Zeros(8)) : v \in Integers32}
      [] OTHER -> {[size |-> n, bytes |-> <<>>, truth |-> n] : n \in {c.min, c.max}}

\* What the field may make of an answer: a byte added or lost, all of it repeated.
Altered(a) ==
    LET Resized(size, bytes) == [size |-> size, bytes |-> bytes, truth |-> a.truth]
    IN  {Resized(a.size + 1, IF a.size = Len(a.bytes) THEN Append(a.bytes, 0) ELSE <<>>)}
        \cup (IF a.size = 0 THEN {}
              ELSE {Resized(a.size - 1, IF a.bytes = <<>> THEN <<>> ELSE Front(a.bytes)),
                    Resized(2 * a.size, a.bytes \o a.bytes)})

\* ChangeKey on the card: the key is <<set, number>>; the key of the session is
\* replaced as it comes, any other must match the stored one and its checksum.
ChangesKey(c) == c.op \in {196, 198}
Slot(c) == <<IF c.op = 198 THEN c.header[1] ELSE 0, c.header[Len(c.header)] % 64>>
OwnKey(c) == Slot(c) = <<0, card.key>>
KeyReceived(c, stored) ==
    IF OwnKey(c) THEN c.data.bytes[1] ELSE Xor(c.data.bytes[1], stored)
KeyAccepted(c, stored) ==
    IF OwnKey(c) THEN c.data.size = 17
    ELSE c.data.size = 21 /\ c.data.bytes[3] = crc32(KeyReceived(c, stored))

\* The commands after which the key of the session is no longer in force.
EndsSession(c) == (ChangesKey(c) /\ OwnKey(c)) \/ c.op = 85

(***************************************************************************)
(* The machine.                                                            *)
(***************************************************************************)
NoCall == [phase |-> "idle", name |-> "none", asked |-> <<>>, command |-> NoCommand, stored |-> 0]
NoReply == [kind |-> "none", size |-> 0, bytes |-> <<>>, truth |-> <<>>, intact |-> TRUE]
NoResult == [ok |-> FALSE, outcome |-> "none", value |-> <<>>]
NotHeard == <<-1>>

Connected == [usable |-> TRUE, session |-> NoSession, key |-> NoKey, app |-> 0]
Invalidated == [usable |-> FALSE, session |-> NoSession, key |-> NoKey, app |-> Nowhere]

Init ==
    /\ host = Connected
    /\ card = [session |-> NoSession, key |-> NoKey, app |-> 0, slot |-> NoSlot]
    /\ call = NoCall
    /\ reply = NoReply
    /\ heard = NotHeard
    /\ result = NoResult

Idle == call.phase = "idle"

\* The caller takes the result of the last operation.
Take ==
    /\ call.phase = "returned"
    /\ call' = NoCall /\ reply' = NoReply /\ heard' = NotHeard /\ result' = NoResult
    /\ card' = [card EXCEPT !.slot = NoSlot]
    /\ UNCHANGED host

\* A successful select_application() or reset(), and a completed handshake:
\* both sides agree on what was reached (ManagedCard has the failures).
Select(app) ==
    /\ Idle
    /\ host' = [Connected EXCEPT !.app = app]
    /\ card' = [session |-> NoSession, key |-> NoKey, app |-> app, slot |-> NoSlot]
    /\ UNCHANGED <<call, reply, heard, result>>

Authenticate(family, key) ==
    /\ Idle /\ host.usable
    /\ host' = [host EXCEPT !.session = family, !.key = key]
    /\ card' = [card EXCEPT !.session = family, !.key = key]
    /\ UNCHANGED <<call, reply, heard, result>>

\* run() and run_void(): an operation whose command could not be built returns
\* the builder's error; otherwise the command is handed to Card::execute().
AskStored(name, asked, built, stored) ==
    /\ IF built = {}
       THEN /\ call' = [NoCall EXCEPT !.name = name, !.phase = "returned"]
            /\ result' = [ok |-> FALSE, outcome |-> "not_sent", value |-> <<>>]
       ELSE /\ \E c \in built :
                  call' = [phase |-> "built", name |-> name, asked |-> asked, command |-> c,
                           stored |-> stored]
            /\ result' = NoResult
    /\ UNCHANGED <<host, card, reply, heard>>

Ask(name, asked, built) == AskStored(name, asked, built, 0)

\* execute_locked() before any I/O.  0x6D must go through df_names().
Admitted(c) ==
    /\ host.usable
    /\ c.op # 109
    /\ c.auth => host.session # NoSession
    /\ c.ev2 => host.session = "ev2"
    /\ c.picc => host.app = 0
    /\ c.key # NoKey => c.key = host.key
    /\ c.keys # {} => host.key \in c.keys

\* validate() of the secure channel.
validate(c) ==
    /\ c.min <= c.max /\ c.max <= maximum_logical_response
    /\ valid_mode(c.req) /\ valid_mode(c.res)

Return(ok, outcome, value) ==
    /\ result' = [ok |-> ok, outcome |-> outcome, value |-> value]
    /\ call' = [call EXCEPT !.phase = "returned"]

\* Any failure under a session, and an unknown outcome without one, is
\* invalidate_locked().
Fail(outcome) ==
    /\ Return(FALSE, outcome, <<>>)
    /\ host' = IF host.session # NoSession \/ outcome = "unknown" THEN Invalidated ELSE host

\* Refused before I/O by the state policy: nothing changes.
Refuse ==
    /\ call.phase = "built"
    /\ ~Admitted(call.command)
    /\ Return(FALSE, "not_sent", <<>>)
    /\ UNCHANGED <<host, card, reply, heard>>

\* The command is handed to the secure channel, which may still fail before the
\* first frame (its own checks, a deadline, a cancellation).
Send ==
    /\ call.phase = "built"
    /\ Admitted(call.command)
    /\ \/ /\ validate(call.command)
          /\ call' = [call EXCEPT !.phase = "sent"]
          /\ UNCHANGED <<host, result>>
       \/ Fail("not_sent")
    /\ UNCHANGED <<card, reply, heard>>

\* The card reads the command.  It refuses what it cannot authenticate, and may
\* refuse anything else; a refusal ends its session.
CardRefuses ==
    /\ call.phase = "sent"
    /\ heard' = Understood(call.command)
    /\ card' = [card EXCEPT !.session = NoSession, !.key = NoKey]
    /\ reply' \in {[NoReply EXCEPT !.kind = "rejected"], [NoReply EXCEPT !.kind = "lost"]}
    /\ call' = [call EXCEPT !.phase = "answered"]
    /\ UNCHANGED <<host, result>>

CardPerforms ==
    LET c == call.command
    IN  /\ call.phase = "sent"
        /\ c.auth => card.session # NoSession
        /\ ChangesKey(c) => KeyAccepted(c, call.stored)
        /\ heard' = Understood(c)
        /\ card' = [session |-> IF EndsSession(c) THEN NoSession ELSE card.session,
                    key |-> IF EndsSession(c) THEN NoKey ELSE card.key,
                    app |-> card.app,
                    slot |-> IF ChangesKey(c)
                             THEN Slot(c) \o <<KeyReceived(c, call.stored), c.data.bytes[2]>>
                             ELSE NoSlot]
        /\ \/ reply' = [NoReply EXCEPT !.kind = "lost"]
           \/ \E a \in AnswersOf(c) :
                 \/ reply' = [kind |-> "answer", size |-> a.size, bytes |-> a.bytes,
                              truth |-> a.truth, intact |-> TRUE]
                 \/ \E b \in Altered(a) :
                       reply' = [kind |-> "answer", size |-> b.size, bytes |-> b.bytes,
                                 truth |-> b.truth, intact |-> FALSE]
        /\ call' = [call EXCEPT !.phase = "answered"]
        /\ UNCHANGED <<host, result>>

\* The command never reaches the card.
LoseCommand ==
    /\ call.phase = "sent"
    /\ reply' = [NoReply EXCEPT !.kind = "lost"]
    /\ call' = [call EXCEPT !.phase = "answered"]
    /\ UNCHANGED <<host, card, heard, result>>

\* Under a session an answer is verified, unless it is plain.
Verified(c) == host.session # NoSession /\ c.res # plain

\* check_response_size(); the raw channel stops a longer answer even sooner.
SizeAccepted(c, size) ==
    /\ size <= c.max + response_protection_overhead
    /\ size >= c.min /\ size <= c.max

\* Mutation: the end of the session is left to the card.
SessionKept(c) == host

\* invalidates_session(): clear_native_session() and the authenticated key.
AfterSuccess(c) ==
    IF c.ends THEN [host EXCEPT !.session = NoSession, !.key = NoKey] ELSE host

\* exchange_protected() or exchange_unprotected() and the end of
\* execute_locked(), for the reply that came.
Finish ==
    LET c      == call.command
        parsed == ParserOf(c, reply)
    IN  /\ call.phase = "answered"
        /\ UNCHANGED <<card, reply, heard>>
        /\ CASE reply.kind = "lost" -> Fail("unknown")
             [] reply.kind = "rejected" -> Fail("rejected")
             [] reply.kind = "answer" /\ Verified(c) /\ ~reply.intact -> Fail("unknown")
             [] reply.kind = "answer" /\ ~(Verified(c) /\ ~reply.intact)
                    /\ ~SizeAccepted(c, reply.size) -> Fail("unknown")
             [] OTHER ->
                    \/ /\ parsed.kind = "value"
                       /\ Return(TRUE, "succeeded", parsed.value)
                       /\ host' = AfterSuccess(c)
                    \/ /\ parsed.kind # "value"
                       /\ Return(FALSE, IF parsed.kind = "malformed" THEN "unknown" ELSE "succeeded",
                                 <<>>)
                       /\ host' = Invalidated

(***************************************************************************)
(* The operations of Card, with what the caller asked in the order in      *)
(* which the card's commands carry it.                                     *)
(***************************************************************************)
Bool(b) == IF b THEN 1 ELSE 0

DataOperations ==
    /\ Idle
    /\ \E f \in Files, o \in Positions, m \in Modes :
          \/ \E n \in Positions : Ask("read_data", <<f, o, n>>, read_data(f, o, n, m))
          \/ \E s \in Sizes : Ask("write_data", <<f, o, s>>, write_data(f, o, s, m))

RecordOperations ==
    /\ Idle
    /\ \E f \in Files, o \in Positions, s \in Sizes, m \in Modes :
          \/ Ask("write_record", <<f, o, s>>, write_record(f, o, s, m))
          \/ \E n \in Positions :
                \/ Ask("read_records", <<f, o, n>>, read_records(f, o, n, m, s))
                \/ Ask("update_record", <<f, n, o, s>>, update_record(f, n, o, s, m))
          \/ Ask("clear_record_file", <<f>>, clear_record_file(f))

ValueOperations ==
    /\ Idle
    /\ \E f \in Files, m \in Modes :
           \/ \E v \in Integers32 :
                 \/ Ask("credit", <<f, v>>, credit(f, v, m))
                 \/ Ask("debit", <<f, v>>, debit(f, v, m))
                 \/ Ask("limited_credit", <<f, v>>, limited_credit(f, v, m))
           \/ \E g \in Files : Ask("restore_transfer", <<f, g>>, restore_transfer(f, g, m))

FileOperations ==
    /\ Idle
    /\ \E f \in Files, a \in Rights, m \in Modes, b \in BOOLEAN, iso \in Optionals({258}) :
           \/ Ask("delete_file", <<f>>, delete_file(f))
           \/ Ask("file_counters", <<f>>, get_file_counters(f, m))
           \/ \E n \in Positions, e \in BOOLEAN :
                 \/ Ask("create_data_file", <<f>> \o iso \o <<m, Bool(e), 0>> \o a \o <<n>>,
                        create_data_file(f, iso, m, e, a, n, b))
                 \/ \E k \in Positions :
                       Ask("create_record_file", <<f>> \o iso \o <<m, Bool(e), 0>> \o a \o <<n, k>>,
                           create_record_file(f, iso, m, e, a, n, k, b))
           \/ \E l \in Integers32, u \in Integers32, i \in Integers32, e \in BOOLEAN :
                 Ask("create_value_file",
                     <<f, m, Bool(e), 0>> \o a \o <<l, u, i, Bool(b) + 2 * Bool(~b)>>,
                     create_value_file(f, m, e, a, l, u, i, b, ~b))
           \/ \E s \in {15, 16}, k \in Blocks :
                 Ask("create_transaction_mac_file", <<f, 0, 0, 0>> \o a \o <<2, k, 7>>,
                     create_transaction_mac_file(f, a, s, k, 7))
           \/ \E more \in {<<>>, <<a>>, <<a, a, a, a, a, a, a, a>>}, l \in Optionals(Integers32) :
                 \E extra \in {<<15, 14, 1, 2>>, <<16, 0, 0, 0>>} :
                     LET all == IF more = <<>> THEN <<>> ELSE Append(Tail(more), extra)
                     IN  Ask("change_file_settings",
                             <<f, m, Bool(all # <<>>), Bool(l # <<>>)>> \o a
                             \o (IF all = <<>> THEN <<>> ELSE <<Len(all)>> \o FlattenSeq(all)) \o l,
                             change_file_settings(f, m, a, all, l, m))

FileQueries ==
    /\ Idle
    /\ \/ Ask("iso_file_ids", <<>>, get_iso_file_ids)
       \/ Ask("execute(get_file_ids)", <<>>, get_file_ids)
       \/ \E f \in Files :
             \/ Ask("file_settings", <<f>>, get_file_settings(f))
             \/ \E m \in Modes : Ask("value", <<f>>, get_value(f, m))

TransactionOperations ==
    /\ Idle
    /\ \/ \E r \in BOOLEAN : Ask("commit_transaction", IF r THEN <<1>> ELSE <<>>, commit_transaction(r))
       \/ Ask("abort_transaction", <<>>, abort_transaction)
       \/ \E s \in {15, 16} : Ask("execute(commit_reader_id)", Zeros(16), commit_reader_id(s))

\* The card may hold another key than the caller believes.
KeyOperations ==
    /\ Idle
    /\ \/ Ask("key_settings", <<>>, get_key_settings)
       \/ Ask("change_key_settings", <<9>>, change_key_settings(9))
       \/ Ask("key_set_versions", <<64, 128>>, get_key_set_versions)
       \/ \E k \in KeyNumbers, set \in Optionals(KeySets) :
             \/ Ask("key_version", IF set = <<>> THEN <<k>> ELSE <<64 + k>> \o set,
                    get_key_version(k, set))
             \/ \E new \in Blocks, old \in Optionals(Blocks), stored \in Blocks,
                   master \in BOOLEAN, auth \in KeyNumbers :
                   AskStored("change_aes_key", <<k, SetOf(set), new>>,
                             change_aes_key(k, new, 7, auth, old, set, master), stored)
       \/ \E set \in KeySets :
             \/ Ask("initialize_key_set", <<set, 2>>, initialize_key_set(set))
             \/ Ask("finalize_key_set", <<set, 5>>, finalize_key_set(set, 5))
             \/ Ask("roll_key_set", <<set>>, roll_key_set(set))

\* What the card should read of an application's configuration.
AskedApplication(c) ==
    <<c.settings, c.keys, Bool(c.files)>>
    \o (IF c.sets # <<>> THEN <<IF c.third = <<>> THEN 1 ELSE 2 * (c.third[1] \div 2) + 1>>
        ELSE c.third)
    \o c.sets \o c.iso \o <<c.name>>

ApplicationOperations ==
    /\ Idle
    /\ \/ Ask("application_ids", <<>>, get_application_ids)
       \/ Ask("execute(get_df_names)", <<>>, get_df_names)
       \/ Ask("delegated_application_info", <<513>>, get_delegated_application_info(513))
       \/ \E c \in AppConfigs :
             \/ Ask("create_application", <<c.id>> \o AskedApplication(c), create_application(c))
             \/ \E k \in {31, 32}, p \in {7, 8} :
                   Ask("create_delegated_application", <<c.id, 513, 3, 300>> \o AskedApplication(c),
                       create_delegated_application(c, 513, 3, 300, k, p))
       \/ \E a \in Ids :
             \/ Ask("delete_application", <<a>>, delete_application(a))
             \/ \E p \in {7, 8} :
                   Ask("delete_delegated_application", <<a>> \o Zeros(8),
                       delete_delegated_application(a, p))

CardOperations ==
    /\ Idle
    /\ \/ Ask("version", <<>>, get_version)
       \/ Ask("free_memory", <<>>, free_memory)
       \/ \E r \in UidRequests :
             Ask("card_uid", CASE r = "omit_option" -> <<>> [] r = "without_nuid" -> <<0>>
                               [] r = "with_nuid" -> <<1>>, get_card_uid(r))
       \/ Ask("originality_signature", <<0>>, read_originality_signature)
       \/ Ask("format_picc", <<>>, format_picc)
       \/ \E on \in SUBSET (1..7) :
             Ask("set_picc_configuration",
                 <<0, FoldLeft(LAMBDA acc, i : acc + Flag(i \in on, BitWeight[i]), 0,
                               <<1, 2, 3, 4, 5, 6, 7>>)>>,
                 set_picc_configuration([i \in 1..7 |-> i \in on]))
       \/ Ask("set_capability_configuration", <<5>>, set_capability_configuration)
       \/ \E s \in {15, 16}, k \in Blocks :
             Ask("set_default_aes_key", <<1, k, 7>>, set_default_aes_key(s, k, 7))
       \/ \E s \in {1, 2, 20, 21}, n \in {2, 20} : Ask("set_ats", <<2>>, set_ats(s, n))
       \/ Ask("set_atqa", <<12, 836>>, set_atqa(836))

Next ==
    \/ \E a \in Ids : Select(a)
    \/ \E family \in Families, k \in KeyNumbers : Authenticate(family, k)
    \/ DataOperations \/ RecordOperations \/ ValueOperations \/ FileOperations
    \/ FileQueries
    \/ TransactionOperations \/ KeyOperations \/ ApplicationOperations \/ CardOperations
    \/ Refuse \/ Send \/ Take
    \/ CardRefuses \/ CardPerforms \/ LoseCommand
    \/ Finish

Spec == Init /\ [][Next]_vars

(***************************************************************************)
(* Properties.                                                             *)
(***************************************************************************)
\* The variables have their types.
TypeOK ==
    /\ host.usable \in BOOLEAN /\ host.session \in Families \cup {NoSession}
    /\ host.key \in KeyNumbers \cup {NoKey} /\ host.app \in Ids \cup {Nowhere}
    /\ card.session \in Families \cup {NoSession} /\ card.key \in KeyNumbers \cup {NoKey}
    /\ call.phase \in {"idle", "built", "sent", "answered", "returned"}
    /\ \A i \in DOMAIN call.command.header : call.command.header[i] \in 0..255
    /\ reply.kind \in {"none", "lost", "rejected", "answer"}
    /\ result.ok \in BOOLEAN
    /\ result.outcome \in {"none", "not_sent", "unknown", "rejected", "succeeded"}

\* The builders of native/checked and the card agree on every field: whatever
\* the arguments, what the card reads out of the bytes is what the caller asked
\* for.  (A key change is compared by its effect, in KeyChangeTakesEffect.)
CardReadsRequest ==
    heard = NotHeard \/ call.name = "change_aes_key" \/ heard = call.asked

\* Key material (ChangeKey, the transaction-MAC key, the default key) is on the
\* wire only enciphered, under a session.
SecretsEnciphered ==
    LET c      == call.command
        secret == c.op \in {196, 198, 206} \/ (c.op = 92 /\ c.header = <<1>>)
    IN  call.phase = "sent" /\ secret => host.session # NoSession /\ c.req = full

\* Between operations a usable Card holds a session only if the card holds the
\* same one: a command that replaces the session's key ends it on both sides,
\* and no other does.
SessionsAgree ==
    Idle /\ host.usable /\ host.session # NoSession =>
        host.session = card.session /\ host.key = card.key /\ host.app = card.app

\* change_aes_key() succeeds only if the slot that was named holds the new key,
\* and a caller who is wrong about the old key is never told so.
KeyChangeTakesEffect ==
    call.name = "change_aes_key" /\ result.ok =>
        card.slot = <<call.asked[2], call.asked[1], call.asked[3], 7>>

\* What an operation returns is what the card holds: an answer with a byte more
\* or less, or repeated, is not believed.  Only an unprotected answer whose
\* length the caller left open, and that no parser looks at, passes unnoticed.
ResultIsTheCards ==
    LET c    == call.command
        open == \/ call.name \in {"read_records", "execute(get_file_ids)", "key_set_versions"}
                \/ call.name = "read_data" /\ call.asked[3] = 0
    IN  result.ok =>
            \/ result.value = reply.truth
            \/ open /\ ~reply.intact /\ (host.session = NoSession \/ c.res = plain)

\* A command that execute_locked() admits is one the channel accepts: validate()
\* does not refuse it, which would end the session for an argument error, and a
\* protected answer is asked for only by a protected request.
AdmittedIsSendable ==
    LET c == call.command
    IN  call.phase = "built" /\ Admitted(c) =>
            /\ validate(c)
            /\ c.req = plain => c.res = plain
            /\ c.res = plain => c.req = plain \/ c.ends

=============================================================================
