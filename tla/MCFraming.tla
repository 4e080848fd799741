------------------------------ MODULE MCFraming ------------------------------
(* Instances of Framing for TLC: the values at the edges of what a field has *)
(* room for.                                                                 *)
EXTENDS Framing

Message(error, operation, counter, pid, data) ==
    [error |-> error, operation |-> operation, counter |-> counter, pid |-> pid,
     data |-> data]

\* GETs, SETs and answers, without and with data, some of which looks like a
\* header; one answer reports an error, one message is too long to be built.
MCSamples ==
    {Message(0, 0, 1, 4228, <<>>), Message(0, 1, 255, 4304, <<214, 0>>),
     Message(11, 3, 65535, 4274, <<>>), Message(0, 2, 256, 4256, <<6>>),
     Message(0, 2, 2, 4228, <<6, 0, 1, 0, 16, 132>>),
     Message(0, 1, 3, 4288, [i \in 1..250 |-> 0])}

Temperatures == {"current_set_temperature", "limiting_temperature", "room_temperature",
                 "floor_temperature", "relay_temperature"}

\* Every field at the same edge, and a status whose fields are all different.
Edge(flag, byte, short, long, signed) ==
    [name \in StatusNames |->
        CASE name \in Flags -> flag
          [] name \in Temperatures -> signed
          [] name \in {"error_flags", "time_to_target"} -> short
          [] name = "energy_meter" -> long
          [] OTHER -> byte]

Different ==
    [name \in StatusNames |->
        LET i == CHOOSE i \in NamedFields : StatusFormat[i].name = name
        IN IF name \in Flags THEN i % 2 ELSE i]

\* Zero, the sign bit alone, all bits, and both ends of what is signed.  TLC's
\* integers end at the largest four-byte number that is signed.
MCStatuses ==
    {Different, [Different EXCEPT !["room_sensor_error"] = 0],
     [Different EXCEPT !["floor_sensor_error"] = 0], Edge(0, 0, 0, 0, 0), Edge(1, 128, 32768, 65536, -32768),
     Edge(1, 255, 65535, 2147483647, -1), Edge(0, 127, 32767, 16777216, 32767)}

MCTails == {<<>>, <<7, 255>>}
MCWrongBytes == {0, 5, 6, 7, 12, 255}
=============================================================================
