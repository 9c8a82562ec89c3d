------------------------------- MODULE Si7021 -------------------------------
(***************************************************************************)
(* The lamp's temperature and humidity sensor                              *)
(* (components/CM-SI7021/si_7006.c).  An answer of the sensor is           *)
(*     [err |-> which of the two I2C transactions failed,                  *)
(*      raw |-> the two bytes read, or whatever the stack held]            *)
(* A reading is the set of its value, empty for NAN, in units that keep it *)
(* an integer.  The CRC byte is left out: its result is only printed.      *)
(***************************************************************************)
EXTENDS Integers

Raw == 0 .. 65535
Answers == [err : {"none", "write", "read"}, raw : Raw]

si7021_read_unchecked(a) == IF a.err = "write" THEN 0 ELSE a.raw - (a.raw % 4)
si7021_read(a) == IF a.err # "none" THEN 0 ELSE a.raw - (a.raw % 4)

(* Degrees, times 100 * 65536.                                             *)
si7021_read_temperature(a) ==
    LET raw_temp == si7021_read(a)
    IN  IF raw_temp = 0 THEN {} ELSE {raw_temp * 17572 - 4685 * 65536}

(* Percent, times 65536.                                                   *)
si7021_read_humidity(a) ==
    LET raw_humidity == si7021_read(a)
    IN  IF raw_humidity = 0 THEN {} ELSE {125 * raw_humidity - 6 * 65536}

(* A reading turned into an unsigned number, units per unit.  What C makes *)
(* of NAN or of a negative value is not defined: two of the results.       *)
Undefined == {0, 65535}
AsUnsigned(reading, unit) ==
    IF reading = {} \/ \E t \in reading : t < 0 THEN Undefined
    ELSE {t \div unit : t \in reading}
=============================================================================
