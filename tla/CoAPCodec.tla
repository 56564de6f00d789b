----------------------------- MODULE CoAPCodec -----------------------------
(***************************************************************************)
(* CoAPMessage and CoAPOption: a message is put together, encoded into a   *)
(* buffer, perhaps damaged on its way, decoded into a message of the       *)
(* peer's, and answered.                                                   *)
(*                                                                         *)
(* Bytes are the numbers 0 .. 255.  A uint of up to 64 bits stands as the  *)
(* sequence of its bytes without leading zeros, so 0 is <<>> and the       *)
(* length of a value is the length the option is encoded with, whatever    *)
(* its format.  A message that could not be decoded is thrown away.        *)
(***************************************************************************)
EXTENDS Integers, Sequences, FiniteSets, SequencesExt, FiniteSetsExt

CONSTANTS
    Headers,      \* the messages, without options, that may be encoded
    Options,      \* the options that may be added
    Payloads,
    Rooms,        \* the sizes of the buffer
    Damages,      \* the bytes that damage puts in place of others
    MaxOptions,   \* bound: options of a message
    MaxDamage,    \* bound: bytes damaged
    Span          \* bound: no longer packet is damaged

VARIABLES
    message,   \* the message being put together
    packet,    \* its bytes
    harm,      \* how often they were damaged
    received,  \* what decode made of them
    phase      \* "build", "sent", "decoded" or "refused"

codecVars == <<message, packet, harm, received, phase>>

Byte == 0 .. 255

Formats == {"empty", "opaque", "uint", "string"}

(***************************************************************************)
(* The options: how the methods for the known ones add them, and how       *)
(* decode reads them.                                                      *)
(***************************************************************************)
Uints == {7, 12, 14, 17, 60, 6, 23, 27, 28, 258, 50000}

Strings == {3, 8, 11, 15, 20, 35, 39}

Opaques == {1, 4, 50001}

\* The format of addOptionIfMatch, addOptionUriHost ...
AddedAs(number) ==
    CASE number \in Uints -> "uint"
      [] number \in Strings -> "string"
      [] number \in Opaques -> "opaque"
      [] number = 5 -> "empty"

\* Anything decode does not know is opaque.
FormatOf(number) ==
    CASE number = 5 -> "empty"
      [] number \in Uints -> "uint"
      [] number \in Strings -> "string"
      [] OTHER -> "opaque"

\* What getOptionIfNoneMatch and getNextOptionNoResponse ask for differs from what
\* their counterparts add; the other pairs agree.
AskedFor(number) ==
    CASE number = 5 -> <<5, "opaque">>
      [] number = 258 -> <<60, "uint">>
      [] OTHER -> <<number, AddedAs(number)>>

\* getNextOption, from the option with index i; 0 is the list's head.  The loop goes
\* on while both the number and the format differ.
NextOption(options, i, number, format) ==
    LET hits == {j \in i + 1 .. Len(options) :
                    options[j].number = number \/ options[j].format = format}
    IN IF hits = {} THEN 0 ELSE Min(hits)

(***************************************************************************)
(* Encoding.                                                               *)
(***************************************************************************)
Failed == [ok |-> FALSE, bytes |-> <<>>]

\* An option's delta or length: a nibble, and one or two bytes if it does not fit.
Extended(n) ==
    CASE n <= 12 -> [ok |-> TRUE, nibble |-> n, bytes |-> <<>>]
      [] n \in 13 .. 13 + 255 -> [ok |-> TRUE, nibble |-> 13, bytes |-> <<n - 13>>]
      [] n \in 14 + 255 .. 269 + 65535 ->
            [ok |-> TRUE, nibble |-> 14, bytes |-> <<(n - 269) \div 256, (n - 269) % 256>>]
      [] OTHER -> [ok |-> FALSE, nibble |-> 0, bytes |-> <<>>]

\* CoAPOption::encode, after the option number previous.
EncodeOption(previous, option) ==
    LET delta == option.number - previous
        d == Extended(delta)
        l == Extended(Len(option.value))
    IN IF delta < 0 \/ ~ d.ok \/ ~ l.ok THEN Failed
       ELSE [ok |-> TRUE,
             bytes |-> <<d.nibble * 16 + l.nibble>> \o d.bytes \o l.bytes \o option.value]

\* Mutant of Ordered: encode takes the options as they were added.
OrderedAsAdded(options) == options

\* The passes of encode over its list: all options of the least number, all of the
\* next, and so on, those of one number in the order they were added.
Ordered(options) ==
    LET Sooner(i, j) == \/ options[i].number < options[j].number
                        \/ options[i].number = options[j].number /\ i < j
        Place(j) == Cardinality({i \in DOMAIN options : Sooner(i, j)}) + 1
    IN [k \in DOMAIN options |-> options[CHOOSE j \in DOMAIN options : Place(j) = k]]

EncodeOptions(options) ==
    LET sorted == Ordered(options)
        encoded == [i \in DOMAIN sorted |->
            EncodeOption(IF i = 1 THEN 0 ELSE sorted[i - 1].number, sorted[i])]
    IN IF \A i \in DOMAIN encoded : encoded[i].ok
       THEN [ok |-> TRUE, bytes |-> FlattenSeq([i \in DOMAIN encoded |-> encoded[i].bytes])]
       ELSE Failed

\* bin_t_encode_varuint: the low bytes of the number, width of them.
Varuint(number, width) ==
    [i \in 1 .. width |-> LET j == Len(number) - width + i IN IF j < 1 THEN 0 ELSE number[j]]

IsEmpty(m) == m.code_class = 0 /\ m.code_detail = 0

HeaderFits(m) ==
    /\ m.version \in 0 .. 3 /\ m.type \in 0 .. 3 /\ m.token_length \in 0 .. 8
    /\ m.code_class \in 0 .. 7 /\ m.code_detail \in 0 .. 31

\* An empty message holds nothing but its header.
EmptyIsEmpty(m) ==
    IsEmpty(m) => m.token_length = 0 /\ m.options = <<>> /\ m.payload = <<>>

\* CoAPMessage::encode into a buffer with room for that many bytes: each write looks
\* whether it fits.
Encode(m, room) ==
    LET options == EncodeOptions(m.options)
        bytes == <<m.version * 64 + m.type * 16 + m.token_length,
                   m.code_class * 32 + m.code_detail,
                   m.message_id \div 256, m.message_id % 256>>
                 \o Varuint(m.token, m.token_length) \o options.bytes
                 \o (IF m.payload = <<>> THEN <<>> ELSE <<255>> \o m.payload)
    IN IF HeaderFits(m) /\ EmptyIsEmpty(m) /\ options.ok /\ Len(bytes) <= room
       THEN [ok |-> TRUE, bytes |-> bytes]
       ELSE Failed

(***************************************************************************)
(* Decoding.                                                               *)
(***************************************************************************)
\* bin_t_decode_varuint
Number(bytes) ==
    LET digits == {i \in DOMAIN bytes : bytes[i] # 0}
    IN IF digits = {} THEN <<>> ELSE SubSeq(bytes, Min(digits), Len(bytes))

\* Mutant of Extension: the second form continues where the first nibble ends.
ExtensionShort(nibble, bytes, at) ==
    CASE nibble <= 12 -> [ok |-> TRUE, n |-> nibble, at |-> at]
      [] nibble = 13 /\ at <= Len(bytes) -> [ok |-> TRUE, n |-> bytes[at] + 13, at |-> at + 1]
      [] nibble = 14 /\ at < Len(bytes) ->
            [ok |-> TRUE, n |-> bytes[at] * 256 + bytes[at + 1] + 268, at |-> at + 2]
      [] OTHER -> [ok |-> FALSE, n |-> 0, at |-> at]

\* A delta or a length whose nibble was read, the rest of it from at on.
Extension(nibble, bytes, at) ==
    CASE nibble <= 12 -> [ok |-> TRUE, n |-> nibble, at |-> at]
      [] nibble = 13 /\ at <= Len(bytes) -> [ok |-> TRUE, n |-> bytes[at] + 13, at |-> at + 1]
      [] nibble = 14 /\ at < Len(bytes) ->
            [ok |-> TRUE, n |-> bytes[at] * 256 + bytes[at + 1] + 269, at |-> at + 2]
      [] OTHER -> [ok |-> FALSE, n |-> 0, at |-> at]

\* Mutant of ValueOf: uints keep the bytes they came with.
ValueOfPadded(format, bytes) == IF format = "empty" THEN <<>> ELSE bytes

\* The value of an empty option is skipped.
ValueOf(format, bytes) ==
    CASE format = "empty" -> <<>>
      [] format = "uint" -> Number(bytes)
      [] OTHER -> bytes

\* CoAPOption::decode at the position at: the option, and where the next one begins.
DecodeOption(previous, bytes, at) ==
    LET d == Extension(bytes[at] \div 16, bytes, at + 1)
        l == Extension(bytes[at] % 16, bytes, d.at)
        number == previous + d.n
        format == FormatOf(number)
    IN IF /\ d.ok /\ l.ok
          /\ l.at + l.n <= Len(bytes) + 1
          /\ format = "uint" => l.n <= 8
       THEN [ok |-> TRUE, at |-> l.at + l.n,
             option |-> [number |-> number, format |-> format,
                         value |-> ValueOf(format, SubSeq(bytes, l.at, l.at + l.n - 1))]]
       ELSE [ok |-> FALSE]

\* Options until the payload's marker or the end.
RECURSIVE DecodeOptions(_, _, _, _)
DecodeOptions(options, previous, bytes, at) ==
    IF at > Len(bytes) \/ bytes[at] = 255
    THEN [ok |-> TRUE, options |-> options, at |-> at]
    ELSE LET next == DecodeOption(previous, bytes, at)
         IN IF next.ok
            THEN DecodeOptions(Append(options, next.option), next.option.number, bytes, next.at)
            ELSE [ok |-> FALSE, options |-> options, at |-> at]

TokenLength(bytes) == bytes[1] % 16

\* Mutant of Acceptable: an empty message may have a token.
AcceptableLoose(bytes) ==
    /\ Len(bytes) >= 4
    /\ bytes[1] \div 64 = 1
    /\ TokenLength(bytes) <= 8
    /\ Len(bytes) >= 4 + TokenLength(bytes)

\* What decode demands of the header and the token, before it turns to the options.
Acceptable(bytes) ==
    /\ Len(bytes) >= 4
    /\ bytes[1] \div 64 = 1
    /\ TokenLength(bytes) <= 8
    /\ bytes[2] = 0 => TokenLength(bytes) = 0 /\ Len(bytes) = 4
    /\ Len(bytes) >= 4 + TokenLength(bytes)

\* CoAPMessage::decode
Decode(bytes) ==
    IF ~ Acceptable(bytes) THEN [ok |-> FALSE]
    ELSE LET width == TokenLength(bytes)
             all == DecodeOptions(<<>>, 0, bytes, 5 + width)
         IN IF ~ all.ok \/ all.at = Len(bytes) THEN [ok |-> FALSE]
            ELSE [ok |-> TRUE,
                  message |-> [version |-> bytes[1] \div 64,
                               type |-> (bytes[1] \div 16) % 4,
                               code_class |-> bytes[2] \div 32,
                               code_detail |-> bytes[2] % 32,
                               message_id |-> bytes[3] * 256 + bytes[4],
                               token_length |-> width,
                               token |-> Number(SubSeq(bytes, 5, 4 + width)),
                               options |-> all.options,
                               payload |-> SubSeq(bytes, all.at + 1, Len(bytes))]]

\* testCodec: what is decoded encodes to the bytes it came from.
TestCodec(bytes) ==
    LET m == Decode(bytes)
    IN m.ok /\ Encode(m.message, 256) = [ok |-> TRUE, bytes |-> bytes]

(***************************************************************************)
(* Messages made of messages.                                              *)
(***************************************************************************)
\* Mutant of AckOrReset: the token is copied, as in a response.
AckOrResetWithToken(m, type) ==
    [m EXCEPT !.type = type, !.code_class = 0, !.code_detail = 0,
              !.options = <<>>, !.payload = <<>>]

AckOrReset(m, type) ==
    [m EXCEPT !.type = type, !.code_class = 0, !.code_detail = 0,
              !.token_length = 0, !.token = <<>>, !.options = <<>>, !.payload = <<>>]

ResponseTo(m, type, class, detail) ==
    [m EXCEPT !.type = type, !.code_class = class, !.code_detail = detail,
              !.options = <<>>, !.payload = <<>>]

-----------------------------------------------------------------------------

\* addOptionEmpty, addOptionOpaque, addOptionUint, addOptionString: at the end.
AddOption(option) ==
    /\ phase = "build"
    /\ Len(message.options) < MaxOptions
    /\ message' = [message EXCEPT !.options = Append(@, option)]
    /\ UNCHANGED <<packet, harm, received, phase>>

SetPayload(payload) ==
    /\ phase = "build"
    /\ message.payload = <<>>
    /\ message' = [message EXCEPT !.payload = payload]
    /\ UNCHANGED <<packet, harm, received, phase>>

EncodeMessage(room) ==
    /\ phase = "build"
    /\ LET encoded == Encode(message, room)
       IN /\ packet' = encoded.bytes
          /\ phase' = IF encoded.ok THEN "sent" ELSE "refused"
    /\ UNCHANGED <<message, harm, received>>

\* A byte is replaced, or the end is missing.
Damage(i, byte) ==
    /\ phase = "sent"
    /\ harm < MaxDamage
    /\ Len(packet) <= Span
    /\ i \in DOMAIN packet
    /\ \/ packet' = [packet EXCEPT ![i] = byte]
       \/ packet' = SubSeq(packet, 1, i - 1)
    /\ harm' = harm + 1
    /\ UNCHANGED <<message, received, phase>>

DecodeMessage ==
    /\ phase = "sent"
    /\ received' = Decode(packet)
    /\ phase' = "decoded"
    /\ UNCHANGED <<message, packet, harm>>

\* The handler answers with a response, which is encoded in its turn.
Respond(type, class, detail) ==
    /\ phase = "decoded" /\ received.ok
    /\ harm = 0
    /\ message.type \in {0, 1} /\ ~ IsEmpty(message)
    /\ message' = ResponseTo(received.message, type, class, detail)
    /\ packet' = <<>> /\ received' = [ok |-> FALSE] /\ phase' = "build"
    /\ UNCHANGED harm

CodecInit ==
    /\ message \in Headers
    /\ packet = <<>>
    /\ harm = 0
    /\ received = [ok |-> FALSE]
    /\ phase = "build"

CodecNext ==
    \/ \E option \in Options : AddOption(option)
    \/ \E payload \in Payloads : SetPayload(payload)
    \/ \E room \in Rooms : EncodeMessage(room)
    \/ \E i \in 1 .. Span, byte \in Damages : Damage(i, byte)
    \/ DecodeMessage
    \/ Respond(2, 2, 5)

CodecSpec == CodecInit /\ [][CodecNext]_codecVars

-----------------------------------------------------------------------------

IsMessage(m) ==
    /\ m.version \in 0 .. 3 /\ m.type \in 0 .. 3
    /\ m.code_class \in 0 .. 7 /\ m.code_detail \in 0 .. 31
    /\ m.message_id \in 0 .. 65535
    /\ m.token_length \in 0 .. 8
    /\ m.token \in Seq(Byte) /\ Len(m.token) <= m.token_length
    /\ m.payload \in Seq(Byte)
    /\ \A i \in DOMAIN m.options :
          /\ m.options[i].number \in Nat
          /\ m.options[i].format \in Formats
          /\ m.options[i].value \in Seq(Byte)
          /\ m.options[i].format = "empty" => m.options[i].value = <<>>
          /\ m.options[i].format = "uint" =>
                /\ Len(m.options[i].value) <= 8
                /\ m.options[i].value # <<>> => m.options[i].value[1] # 0

\* Bytes are bytes, and a decoded number has no leading zeros and fits 64 bits.
CodecTypeOK ==
    /\ IsMessage(message)
    /\ packet \in Seq(Byte)
    /\ harm \in 0 .. MaxDamage
    /\ phase \in {"build", "sent", "decoded", "refused"}
    /\ received.ok => IsMessage(received.message)

\* decode undoes encode: the peer gets every option with its value, those of one
\* number in the order they were added, however they were mixed with others, at
\* every boundary of the length and delta encodings; and it would encode the
\* message to the same bytes (CoAPMessage.cpp, encode, decode and testCodec).
RoundTrip ==
    phase = "decoded" /\ harm = 0 =>
        /\ received.ok
        /\ received.message = [message EXCEPT !.options = Ordered(@)]
        /\ Len(packet) <= 256 => TestCodec(packet)

\* The order in which options are added never matters to whether a message can be
\* sent: encode refuses only what is too long for the buffer, and an empty message
\* that is not empty (CoAPMessage.cpp, encode; CoAPOption.cpp, encode, which refuses
\* an option that comes before a smaller one).
AnyOrder ==
    phase = "refused" /\ EmptyIsEmpty(message) => Encode(message, 65535).ok

\* Whatever decode accepts, from a damaged packet too, encode accepts: in no more
\* bytes than it came in, and to the same message (CoAPMessage.cpp, decode).
Reencoded ==
    received.ok =>
        LET again == Encode(received.message, Len(packet))
        IN again.ok /\ Decode(again.bytes) = received

\* Every message that decode accepts can be acknowledged or reset in the four bytes
\* of a header; the check for an empty message with a token never gets in the way
\* (the constructors of CoAPMessage, and encode).
CanBeAcknowledged ==
    received.ok => \A type \in {2, 3} : Encode(AckOrReset(received.message, type), 4).ok

-----------------------------------------------------------------------------
\* Not so: a getter that finds something has found an option of its number
\* (CoAPMessage.cpp, getNextOption).
OptionHasNumber ==
    \A number \in Uints \cup Strings \cup Opaques :
        LET i == NextOption(message.options, 0, AskedFor(number)[1], AskedFor(number)[2])
        IN i # 0 => message.options[i].number = number

\* A message survives its encoding whatever the order of its options, a packet its
\* decoding, and an ACK or RST made from either can be sent.
CodecFaithful == RoundTrip /\ AnyOrder /\ Reencoded /\ CanBeAcknowledged

=============================================================================
