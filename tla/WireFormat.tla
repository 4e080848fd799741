----------------------------- MODULE WireFormat -----------------------------
(***************************************************************************)
(* The bytes of the protocol: the header byte of a frame, the inner        *)
(* messages batched in an encrypted frame, and the status struct.  A byte  *)
(* is a number below 256, a payload a sequence of them; integers are       *)
(* little-endian, negative ones in two's complement.                       *)
(***************************************************************************)
EXTENDS Integers, SequencesExt

CONSTANT MaxInnerPayload        \* MAX_INNER_PAYLOAD, 153 in the code

InnerHeaderLen == 6
InnerMsgMinLen == InnerHeaderLen
CounterMax == 65535

ASSUME WireAssumption == MaxInnerPayload \in InnerHeaderLen..255

Refused == [ok |-> FALSE]

Byte == 0..255
UShort == 0..65535

\* The sums of the first n of these numbers, for each n.
Sums(numbers) ==
    LET sum[n \in 0..Len(numbers)] == IF n = 0 THEN 0 ELSE sum[n - 1] + numbers[n]
    IN sum

\* What the i-th byte of an integer counts.
Place(i) == 256^(i - 1)

Digit(value, i) == (value \div Place(i)) % 256

\* The bytes of an integer that is `width` bytes wide.
Bytes(value, width) == [i \in 1..width |-> Digit(value, i)]

Unsigned(bytes) == Sums([i \in DOMAIN bytes |-> bytes[i] * Place(i)])[Len(bytes)]

\* Mutant: a value below zero is not expected.
SignedNever(bytes) == Unsigned(bytes)

Signed(bytes) ==
    LET modulus == 256 * Place(Len(bytes))
        value == Unsigned(bytes)
    IN IF 2 * value >= modulus THEN value - modulus ELSE value

-----------------------------------------------------------------------------
(* Headers.                                                                *)

OuterHeader(type, channel) == channel * 16 + type

SplitOuterHeader(header) == <<header \div 16, header % 16>>

BuildOuter(type, payload, channel) == <<OuterHeader(type, channel)>> \o payload

\* Channel, type and payload; an empty notification is an error.
ParseOuter(data) ==
    IF data = <<>> THEN Refused
    ELSE [ok |-> TRUE, header |-> SplitOuterHeader(data[1]), payload |-> Tail(data)]

OpStatus(error, operation) == (error % 16) * 16 + (operation % 16)

SplitOpStatus(byte) == [error |-> byte \div 16, operation |-> byte % 16]

-----------------------------------------------------------------------------
(* Inner messages.                                                         *)

\* A nibble, a nibble, any number, an unsigned short, and bytes.
InnerMessage ==
    [error : 0..15, operation : 0..15, counter : Nat, pid : UShort, data : Seq(Byte)]

\* build_inner_message raises unless these hold.
Buildable(msg) ==
    /\ msg.counter \in 0..CounterMax
    /\ InnerHeaderLen + Len(msg.data) <= MaxInnerPayload

BuildInnerMessage(msg) ==
    <<InnerHeaderLen + Len(msg.data), OpStatus(msg.error, msg.operation)>>
        \o Bytes(msg.counter, 2) \o Bytes(msg.pid, 2) \o msg.data

\* There is a whole message at this offset; parse_inner_messages raises if not.
Whole(payload, offset) ==
    /\ Len(payload) - offset >= InnerHeaderLen
    /\ payload[offset + 1] >= InnerMsgMinLen
    /\ offset + payload[offset + 1] <= Len(payload)

\* Python's slice: what there is of the bytes from..to.
Slice(payload, from, to) ==
    SubSeq(payload, from, IF to > Len(payload) THEN Len(payload) ELSE to)

MessageAt(payload, offset) ==
    LET byte == SplitOpStatus(payload[offset + 2])
    IN [error |-> byte.error, operation |-> byte.operation,
        counter |-> Unsigned(SubSeq(payload, offset + 3, offset + 4)),
        pid |-> Unsigned(SubSeq(payload, offset + 5, offset + 6)),
        data |-> Slice(payload, offset + InnerHeaderLen + 1, offset + payload[offset + 1])]

\* Mutant: what came before an error is kept.
ParseInnerMessagesSoFar(payload) ==
    LET from[offset \in Nat] ==
            IF offset >= Len(payload) \/ ~Whole(payload, offset) THEN <<>>
            ELSE <<MessageAt(payload, offset)>> \o from[offset + payload[offset + 1]]
    IN [ok |-> TRUE, messages |-> from[0]]

\* Every message of a decrypted frame, or an error and none of them.
ParseInnerMessages(payload) ==
    LET from[offset \in Nat] ==
            IF offset >= Len(payload) THEN [ok |-> TRUE, messages |-> <<>>]
            ELSE IF ~Whole(payload, offset) THEN Refused
            ELSE LET rest == from[offset + payload[offset + 1]]
                 IN IF rest.ok
                    THEN [ok |-> TRUE,
                          messages |-> <<MessageAt(payload, offset)>> \o rest.messages]
                    ELSE Refused
    IN from[0]

-----------------------------------------------------------------------------
(* The status struct.                                                      *)

Field(name, width, signed) == [name |-> name, width |-> width, signed |-> signed]

Reserved(width) == Field("reserved", width, FALSE)

\* In tenths of a degree.
Temperature(name) == Field(name, 2, TRUE)

\* _STATUS_FORMAT, "<HhhHHBBBBBBBBhhhBBBBIIH".
StatusFormat == <<
    Field("error_flags", 2, FALSE), Temperature("current_set_temperature"),
    Temperature("limiting_temperature"), Reserved(2), Field("time_to_target", 2, FALSE),
    Reserved(1), Reserved(1), Field("relay_on", 1, FALSE), Field("in_error_state", 1, FALSE),
    Field("limited_by_limiting_sensor", 1, FALSE), Reserved(1), Field("power_off", 1, FALSE),
    Reserved(1), Temperature("room_temperature"), Temperature("floor_temperature"),
    Temperature("relay_temperature"), Field("room_sensor_error", 1, FALSE),
    Field("floor_sensor_error", 1, FALSE), Reserved(1), Field("current_program", 1, FALSE),
    Field("energy_meter", 4, FALSE), Reserved(4), Reserved(2)>>

\* The bytes of the first i fields.
StatusOffset == Sums([i \in DOMAIN StatusFormat |-> StatusFormat[i].width])

ThermostatStatusLen == StatusOffset[Len(StatusFormat)]

NamedFields == {i \in DOMAIN StatusFormat : StatusFormat[i].name # "reserved"}

StatusNames == {StatusFormat[i].name : i \in NamedFields}

Flags == {"relay_on", "in_error_state", "limited_by_limiting_sensor", "power_off"}

\* A flag, or what the field has bytes for.
Fits(value, field) ==
    IF field.name \in Flags THEN value \in {0, 1}
    ELSE value \div Place(field.width) \in IF field.signed THEN -128..127 ELSE Byte

ThermostatStatusFields ==
    {status \in [StatusNames -> Int] :
        \A i \in NamedFields : Fits(status[StatusFormat[i].name], StatusFormat[i])}

\* unpack_thermostat_status: what comes after the struct is ignored, and a flag
\* is any byte but zero.
UnpackThermostatStatus(data) ==
    LET bytes(i) == SubSeq(data, StatusOffset[i - 1] + 1, StatusOffset[i])
        raw(i) == IF StatusFormat[i].signed THEN Signed(bytes(i)) ELSE Unsigned(bytes(i))
        at(name) == CHOOSE i \in NamedFields : StatusFormat[i].name = name
    IN IF Len(data) < ThermostatStatusLen THEN Refused
       ELSE [ok |-> TRUE,
             status |-> [name \in StatusNames |->
                 IF name \in Flags THEN (IF raw(at(name)) = 0 THEN 0 ELSE 1)
                 ELSE raw(at(name))]]

\* pack_thermostat_status.
PackThermostatStatus(status) ==
    FlattenSeq([i \in DOMAIN StatusFormat |->
        Bytes(IF i \in NamedFields THEN status[StatusFormat[i].name] ELSE 0,
              StatusFormat[i].width)])
=============================================================================
