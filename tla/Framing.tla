------------------------------ MODULE Framing ------------------------------
(***************************************************************************)
(* One encrypted frame, from the sender's batch to the receiver's list of  *)
(* messages.  The sender batches requests, answers or status pushes; then  *)
(* the payload may be damaged, as by a peer whose encoder differs from     *)
(* ours: AES-GCM tells who sent a frame, not that it is well formed.       *)
(***************************************************************************)
EXTENDS Readings

CONSTANTS Samples,         \* Bound: the messages that are sent
          Statuses,        \* Bound: the statuses that are pushed
          Tails,           \* Bound: what newer firmware adds to the struct
          Damages,         \* Bound: how a frame may be damaged, "cut" or "altered"
          WrongBytes,      \* Bound: what a byte may be altered to
          MaxBatch         \* Bound: messages in a frame

ASSUME FrameBoundsAssumption ==
    Tails \subseteq Seq(Byte) /\ WrongBytes \subseteq Byte /\ MaxBatch \in Nat

\* Callers pass a program's numbers; struct.pack raises for what a field has no
\* room for, as it does for a status.
ASSUME SamplesAssumption == Samples \subseteq InnerMessage

ASSUME StatusesAssumption == Statuses \subseteq ThermostatStatusFields

VARIABLES payload,         \* the inner payload
          batch,           \* the messages put in it
          pushed,          \* the statuses in those messages, by position
          damage           \* "none", "cut" or "altered"

frameVars == <<payload, batch, pushed, damage>>

ThermostatStatusPid == 4100     \* 0x1004
DataOperation == 4

FrameInit == payload = <<>> /\ batch = <<>> /\ pushed = <<>> /\ damage = "none"

\* The frame is only sent if it fits (request_batch).
Add(msg, status) ==
    /\ damage = "none" /\ Len(batch) < MaxBatch
    /\ Buildable(msg)
    /\ Len(payload \o BuildInnerMessage(msg)) <= MaxInnerPayload
    /\ payload' = payload \o BuildInnerMessage(msg)
    /\ batch' = Append(batch, msg)
    /\ pushed' = Append(pushed, status)
    /\ UNCHANGED damage

Batch == \E msg \in Samples : Add(msg, <<>>)

Push ==
    \E status \in Statuses, tail \in Tails :
        Add([error |-> 0, operation |-> DataOperation, counter |-> 0,
             pid |-> ThermostatStatusPid, data |-> PackThermostatStatus(status) \o tail],
            status)

Cut ==
    /\ "cut" \in Damages /\ damage \in {"none", "cut"}
    /\ payload # <<>>
    /\ payload' = SubSeq(payload, 1, Len(payload) - 1)
    /\ damage' = "cut"
    /\ UNCHANGED <<batch, pushed>>

Alter ==
    /\ "altered" \in Damages /\ damage = "none"
    /\ \E i \in DOMAIN payload : \E byte \in WrongBytes \ {payload[i]} :
          payload' = [payload EXCEPT ![i] = byte]
    /\ damage' = "altered"
    /\ UNCHANGED <<batch, pushed>>

FrameNext == Batch \/ Push \/ Cut \/ Alter

FrameSpec == FrameInit /\ [][FrameNext]_frameVars

-----------------------------------------------------------------------------
(* Properties.                                                             *)

Received == ParseInnerMessages(payload)

Encoded(messages) == FlattenSeq([i \in DOMAIN messages |-> BuildInnerMessage(messages[i])])

\* What parse_inner_messages accepts is what build_inner_message would have
\* written for the messages it returns, whatever the bytes: no byte is skipped,
\* read twice or made up.
AcceptedIsEncoded == Received.ok => Encoded(Received.messages) = payload

\* What is sent arrives: every message of a frame comes out in order and
\* unchanged, under the outer header it was sent with, and a status is read as
\* the device sent it, every field in its place, with its sign and its width,
\* whatever a newer firmware appends (unpack_thermostat_status).
FrameArrives ==
    damage = "none" =>
        /\ Received.ok /\ Received.messages = batch
        /\ LET outer == ParseOuter(BuildOuter(4, payload, 4))
           IN outer.ok /\ outer.header = <<4, 4>> /\ outer.payload = payload
        /\ \A i \in DOMAIN pushed : pushed[i] # <<>> =>
               UnpackThermostatStatus(Received.messages[i].data)
                   = [ok |-> TRUE, status |-> pushed[i]]

\* The entities show a status as the device sent it, though each reads it by itself:
\* the temperature of a probe, on its sensor and on a card that follows it, is the one
\* that was sent, or unknown on both, with the probe's fault set, if the device cannot
\* read it.  The card's setpoint is the sensor's and the device's, or an edit that waits
\* to be written; its mode and action are those of the power and heating flags, and the
\* element draws its wattage exactly while it heats.
EntitiesAgree ==
    damage = "none" =>
        \A i \in DOMAIN pushed : pushed[i] # <<>> =>
            LET sent == pushed[i]
                status == UnpackThermostatStatus(Received.messages[i].data).status
                sensors == Sensors(status)
                flags == BinarySensors(status)
                floor == IF sent.floor_sensor_error = 0 THEN <<sent.floor_temperature>> ELSE <<>>
                room == IF sent.room_sensor_error = 0 THEN <<sent.room_temperature>> ELSE <<>>
                edit == <<sent.current_set_temperature + 5>>
            IN /\ sensors.floor_temperature = floor /\ sensors.room_temperature = room
               /\ flags.floor_sensor_fault <=> floor = <<>>
               /\ flags.room_sensor_fault <=> room = <<>>
               /\ sensors.target_temperature = <<sent.current_set_temperature>>
               /\ \A followsRoom \in BOOLEAN, waiting \in {<<>>, edit} :
                     LET card == Climate(status, followsRoom, waiting)
                     IN /\ card.current_temperature = IF followsRoom THEN room ELSE floor
                        /\ card.target_temperature =
                              IF waiting = edit THEN edit ELSE sensors.target_temperature
                        /\ card.hvac_action = "heating" <=> flags.heating /\ flags.power
                        /\ card.hvac_mode = "off" <=> ~flags.power
               /\ DerivedSensors(status, 1).power = <<1>> <=> flags.heating
=============================================================================
