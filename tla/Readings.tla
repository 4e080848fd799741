------------------------------ MODULE Readings ------------------------------
(***************************************************************************)
(* What Home Assistant's entities show of a status: sensor.py,             *)
(* binary_sensor.py and the read side of climate.py.  A reading is a       *)
(* sequence of one value, or empty for unknown.  Temperatures are in       *)
(* tenths of a degree, the energy in watt-minutes.                         *)
(***************************************************************************)
EXTENDS WireFormat

\* The sensors: the temperature of a probe the device cannot read is a placeholder.
FloorTemperature(status) ==
    IF status.floor_sensor_error # 0 THEN <<>> ELSE <<status.floor_temperature>>

RoomTemperature(status) ==
    IF status.room_sensor_error # 0 THEN <<>> ELSE <<status.room_temperature>>

\* EB300Data.program: a number of a newer firmware has no name.
ProgramNames == <<"manual", "home">>

Program(status) ==
    IF status.current_program + 1 \in DOMAIN ProgramNames
    THEN <<ProgramNames[status.current_program + 1]>> ELSE <<>>

Sensors(status) ==
    [floor_temperature |-> FloorTemperature(status),
     room_temperature |-> RoomTemperature(status),
     relay_temperature |-> <<status.relay_temperature>>,
     target_temperature |-> <<status.current_set_temperature>>,
     program |-> Program(status),
     heating_time |-> <<status.energy_meter>>,
     time_to_target |-> <<status.time_to_target>>]

\* The two entities that exist only if the element's wattage is given.
DerivedSensors(status, watts) ==
    [energy |-> <<status.energy_meter * watts>>,
     power |-> <<IF status.relay_on # 0 THEN watts ELSE 0>>]

\* The bits of ERROR_FLAG_NAMES.
NamedErrorFlags == {1, 2, 4, 5, 6, 7, 8, 9, 10, 12, 13, 14}

ActiveErrorFlags(status) == {bit \in NamedErrorFlags : (status.error_flags \div 2^bit) % 2 = 1}

BinarySensors(status) ==
    [heating |-> status.relay_on # 0,
     power |-> status.power_off = 0,
     problem |-> status.in_error_state # 0 \/ ActiveErrorFlags(status) # {},
     limited_by_limiting_sensor |-> status.limited_by_limiting_sensor # 0,
     room_sensor_fault |-> status.room_sensor_error # 0,
     floor_sensor_fault |-> status.floor_sensor_error # 0]

\* Mutant: the card trusts the temperature field, as the device sends one anyhow.
CurrentTemperatureAlways(status, useRoomSensor) ==
    <<IF useRoomSensor THEN status.room_temperature ELSE status.floor_temperature>>

\* The card follows the probe of the option, and looks at its error by itself.
CurrentTemperature(status, useRoomSensor) ==
    LET unreadable == IF useRoomSensor THEN status.room_sensor_error
                      ELSE status.floor_sensor_error
        measured == IF useRoomSensor THEN status.room_temperature ELSE status.floor_temperature
    IN IF unreadable # 0 THEN <<>> ELSE <<measured>>

\* The edit that waits to be written (_pending_temperature_c), while there is one.
TargetTemperature(status, waiting) ==
    IF waiting # <<>> THEN waiting ELSE <<status.current_set_temperature>>

Climate(status, useRoomSensor, waiting) ==
    [current_temperature |-> CurrentTemperature(status, useRoomSensor),
     target_temperature |-> TargetTemperature(status, waiting),
     hvac_mode |-> IF status.power_off # 0 THEN "off" ELSE "heat",
     hvac_action |-> IF status.power_off # 0 THEN "off"
                     ELSE IF status.relay_on # 0 THEN "heating" ELSE "idle",
     preset_mode |-> Program(status)]
=============================================================================
