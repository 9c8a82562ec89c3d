------------------------------ MODULE LppCodec ------------------------------
(***************************************************************************)
(* The payload format: the encoder of components/CM-LPP-KAMMANIT/CMLPP.c,  *)
(* the hex text that carries a payload (main/main.c, CM-TOOLS/str2hex.c),  *)
(* the decoder ParseCMLPP() of CM-LPPDEC/CMLPPDec.cpp, and what the two    *)
(* users of the decoder look for in its result.                            *)
(*                                                                         *)
(* A payload is encoded one record at a time, sent as text, turned back    *)
(* into a C string of bytes, and decoded one record at a time.             *)
(***************************************************************************)
EXTENDS Si7021, Sequences, SequencesExt

CONSTANTS NodeIds,        \* six-byte MAC addresses, of a command
          ReportIds,      \* ... and of a report
          Colors, Brights, TypeControls,   \* values of a command
          Lamps           \* what a report is made of

Byte == 0 .. 255
Word == 0 .. 65535
Mac == [1 .. 6 -> Byte]
ADC == 0 .. 4095          \* mean of the samples of read_voltage(), 12 bits
MAXSIZE == 255            \* CayenneLPP.maxsize
ALLOCATED == 51           \* CayenneLPP__create(51)

LampState ==
    [adc : ADC, temp : Answers, temp_again : Answers, humidity : Answers,
     parent : Mac, GEN : Byte, rssi : Byte, MODEL : Int, ledworking : Int,
     lat : Int, lon : Int, meshid : Int, meshch : Int]

ASSUME LppAssumption ==
    /\ NodeIds \subseteq Mac /\ ReportIds \subseteq Mac
    /\ Brights \subseteq Byte /\ TypeControls \subseteq Byte
    /\ Colors \subseteq Word
    /\ Lamps \subseteq LampState

VARIABLES phase,          \* "idle", "encode", "decode", "done"
          calls,          \* CayenneLPP__add calls still to be made
          sent,           \* ghost: fields of the command or report
          buffer,         \* the bytes written, cursor = Len(buffer)
          rest,           \* what pBuffer and Len still cover
          root            \* the JSON object: field name -> value

vars == <<phase, calls, sent, buffer, rest, root>>

(* The two or three low bytes of v, most significant first, and the number *)
(* that one or two bytes stand for.                                        *)
BigEndian2(v) == <<(v \div 256) % 256, v % 256>>
BigEndian3(v) == <<(v \div 65536) % 256>> \o BigEndian2(v)
Value(bytes) == IF Len(bytes) = 1 THEN bytes[1] ELSE bytes[1] * 256 + bytes[2]

(* The text of a payload: two hex digits per byte ("%02X").                *)
HexText(bytes) ==
    [i \in 1 .. 2 * Len(bytes) |->
        LET b == bytes[(i + 1) \div 2] IN IF i % 2 = 1 THEN b \div 16 ELSE b % 16]

(* One CayenneLPP__add call: the record's type, the size it is checked     *)
(* with, and the value bytes it writes.                                    *)
Call(type, size, bytes) == [type |-> type, size |-> size, bytes |-> bytes]

NodeIDAsText(val) == Call(150, 7, HexText(val))
addNodeID(val) == Call(150, 7, val)
addParentID(val) == Call(151, 7, val)
addColor(val) == Call(135, 3, BigEndian2(val))
addLightControl(value) == Call(111, 2, <<value>>)
addTemperature(tenths) == Call(103, 4, BigEndian2(tenths))
addRelativeHumidity(rh) == Call(104, 3, <<(rh * 2) % 256>>)
addVoltage(hundredths) == Call(116, 3, BigEndian2(hundredths))
addPower(val) == Call(128, 3, BigEndian2(val))
addError_code(value) == Call(146, 2, <<value>>)
addGen(value) == Call(147, 2, <<value>>)
addModel(value) == Call(148, 2, <<value>>)
addPowerINDEX(value) == Call(149, 2, <<value>>)
addActuation(val) ==
    Call(106, 6, BigEndian3(val \div 16777216) \o BigEndian3(val))
addGPS(lat, lon, alt) ==
    Call(136, 11, BigEndian3(lat) \o BigEndian3(lon) \o BigEndian3(alt))
addMESHID(val) == Call(153, 4, BigEndian3(val))
addMESHCH(val) == Call(154, 2, <<val % 256>>)
(* Records only the LoRaWAN server writes.                                 *)
addTypeControl(value) == Call(155, 2, <<value>>)
addReadGPS(value) == Call(152, 2, <<value>>)

-----------------------------------------------------------------------------
Init ==
    /\ phase = "idle"
    /\ calls = <<>> /\ sent = <<>> /\ buffer = <<>>
    /\ rest = <<>> /\ root = <<>>

(* CayenneLPP__create() *)
Create(fields, todo) ==
    /\ phase \in {"idle", "done"}
    /\ phase' = "encode"
    /\ calls' = todo /\ sent' = fields
    /\ buffer' = <<>> /\ rest' = <<>> /\ root' = <<>>

(* The forms of a downlink the handler knows (comments of                  *)
(* cm_lorawan_event_handler): node id, colour, brightness, type control.   *)
TypedCommand ==
    \E n \in NodeIds, c \in Colors, b \in Brights, t \in TypeControls :
        Create([nodeid |-> n, color |-> c, brightness |-> b, type_control |-> t],
               <<addNodeID(n), addColor(c), addLightControl(b), addTypeControl(t)>>)

AutoCommand ==
    \E n \in NodeIds, c \in Colors, b \in Brights :
        Create([nodeid |-> n, color |-> c, brightness |-> b],
               <<addNodeID(n), addColor(c), addLightControl(b)>>)

OwnCommand ==
    \E c \in Colors, b \in Brights :
        Create([color |-> c, brightness |-> b], <<addColor(c), addLightControl(b)>>)

GpsCommand ==
    \E n \in NodeIds :
        Create([nodeid |-> n, read_gps |-> 165], <<addNodeID(n), addReadGPS(165)>>)

(* The error code and the model number of add_queue_lpp_root().            *)
(* voltage_sl was measured at boot, in hundredths; the sensor is read      *)
(* again for the error code, and NAN is not larger than 80.  A MODEL that  *)
(* is not in the table adds no record.                                     *)
ErrorCode(s) ==
    CASE s.adc - 300 > 4100 -> 1
      [] s.adc - 300 < 2800 -> 2
      [] s.adc - 300 \in 2800 .. 4100 ->
           IF \E t \in si7021_read_temperature(s.temp_again) : t > 8000 * 65536 THEN 3 ELSE 0

ModelNumber ==
    [m \in {45, 70, 130, 120, 90} |->
        CASE m = 45 -> 1 [] m = 70 -> 2 [] m = 130 -> 3 [] m = 120 -> 4 [] m = 90 -> 5]

ModelCalls(model) ==
    IF model \in DOMAIN ModelNumber THEN <<addModel(ModelNumber[model])>> ELSE <<>>

(* The records of a lamp's report, and the readings that go into it.       *)
LampRecords(n, c, b, t, h, s) ==
    <<addNodeID(n), addParentID(s.parent), addColor(c), addLightControl(b),
      addTemperature(t), addRelativeHumidity(h),
      addVoltage(s.adc), addPower((b * s.MODEL) \div 100),
      addError_code(ErrorCode(s)), addGen(s.GEN)>>
    \o ModelCalls(s.MODEL)
    \o <<addPowerINDEX(s.rssi), addActuation(s.ledworking)>>

Temperature(s) == AsUnsigned(si7021_read_temperature(s.temp), 10 * 65536)
Humidity(s) == AsUnsigned(si7021_read_humidity(s.humidity), 65536)

add_queue_lpp_root ==
    \E n \in ReportIds, c \in Colors, b \in Brights, s \in Lamps :
    \E t \in Temperature(s), h \in Humidity(s) :
        Create([report |-> n, lamp |-> s], LampRecords(n, c, b, t, h, s))

add_queue_infomation ==
    \E n \in ReportIds, s \in Lamps :
        Create([report |-> n],
               <<addNodeID(n), addGPS(s.lat, s.lon, 0), addMESHID(s.meshid),
                 addMESHCH(s.meshch)>>)

(* Every CayenneLPP__add: a record that does not fit is left out.          *)
Add ==
    /\ phase = "encode" /\ calls # <<>>
    /\ LET c == Head(calls)
       IN  buffer' = IF Len(buffer) + c.size > MAXSIZE THEN buffer
                     ELSE buffer \o <<c.type>> \o c.bytes
    /\ calls' = Tail(calls)
    /\ UNCHANGED <<phase, sent, rest, root>>

-----------------------------------------------------------------------------
(* test() turns two digits into a byte.                                    *)
test(src) == [i \in 1 .. Len(src) \div 2 |-> 16 * src[2 * i - 1] + src[2 * i]]

(* strlen(tmp): the result of test() is used as a C string.                *)
ZerosSkipped(tmp) == SelectSeq(tmp, LAMBDA b : b # 0)
CString(tmp) ==
    LET zero == SelectInSeq(tmp, LAMBDA b : b = 0)
    IN  IF zero = 0 THEN tmp ELSE SubSeq(tmp, 1, zero - 1)

(* The text arrives at cm_lorawan_event_handler or add_queue_lpp_node,     *)
(* which call test() and ParseCMLPP().  A node's reports have the records  *)
(* of the root's (main.c:179, :302); the nodes' firmware is elsewhere.     *)
Receive ==
    /\ phase = "encode" /\ calls = <<>>
    /\ phase' = "decode"
    /\ rest' = CString(test(HexText(buffer)))
    /\ root' = <<>>
    /\ UNCHANGED <<calls, sent, buffer>>

(* cJSON finds the first of two items of the same name.                    *)
AddItem(object, name, item) ==
    [x \in DOMAIN object \cup {name} |-> IF x \in DOMAIN object THEN object[x] ELSE item]

(* One branch of ParseCMLPP(): a record of a known type, size bytes long.  *)
Parsing(type) == phase = "decode" /\ Len(rest) >= 2 /\ rest[1] = type

Return ==
    /\ phase' = "done"
    /\ UNCHANGED <<calls, sent, buffer, rest, root>>

Record(type, size, name, Decode(_)) ==
    /\ Parsing(type) /\ Len(rest) >= size
    /\ root' = AddItem(root, name, Decode(SubSeq(rest, 2, size)))
    /\ rest' = SubSeq(rest, size + 1, Len(rest))
    /\ UNCHANGED <<phase, calls, sent, buffer>>

TooShort(type, size) == Parsing(type) /\ Len(rest) < size /\ Return

ParseColorSwapped ==
    \/ Record(135, 3, "color", LAMBDA b : Value(Reverse(b)))
    \/ TooShort(135, 3)
ParseColor == Record(135, 3, "color", Value) \/ TooShort(135, 3)
ParseLightControl == Record(111, 2, "brightness", Value)
ParseNodeId == Record(150, 7, "nodeid", LAMBDA b : b) \/ TooShort(150, 7)
ParseReadGps == Record(152, 2, "read_gps", Value)
ParseTypeControl == Record(155, 2, "type_control", Value)

(* The position is skipped, its values are not used.                       *)
ParseGps ==
    /\ Parsing(136)
    /\ phase' = IF Len(rest) < 11 THEN "done" ELSE "decode"
    /\ rest' = IF Len(rest) < 11 THEN rest ELSE SubSeq(rest, 12, Len(rest))
    /\ UNCHANGED <<calls, sent, buffer, root>>

(* An unknown type ends the loop, and so does the end of the payload.      *)
Known == {111, 135, 136, 150, 152, 155}
UnknownTypeDiscards ==
    /\ phase = "decode" /\ Len(rest) >= 2 /\ rest[1] \notin Known
    /\ phase' = "done" /\ root' = <<>>
    /\ UNCHANGED <<calls, sent, buffer, rest>>
UnknownType == phase = "decode" /\ Len(rest) >= 2 /\ rest[1] \notin Known /\ Return
EndOfPayload == phase = "decode" /\ Len(rest) < 2 /\ Return

ParseCMLPP ==
    \/ ParseColor \/ ParseLightControl \/ ParseNodeId \/ ParseReadGps
    \/ ParseTypeControl \/ ParseGps \/ UnknownType \/ EndOfPayload

Commands == TypedCommand \/ AutoCommand \/ OwnCommand \/ GpsCommand
Reports == add_queue_lpp_root \/ add_queue_infomation

Next == Commands \/ Reports \/ Add \/ Receive \/ ParseCMLPP
Spec == Init /\ [][Next]_vars

(* What cm_lorawan_event_handler does with the fields it finds.            *)
Command(r) ==
    LET has(fields) == fields \subseteq DOMAIN r
        light == {"color", "brightness"}
    IN  CASE has(light \cup {"nodeid", "type_control"}) ->
               IF r.type_control \in {1, 2} THEN r ELSE <<>>
          [] has(light \cup {"nodeid"}) /\ ~has({"type_control"}) ->
               [nodeid |-> r.nodeid, color |-> r.color, brightness |-> r.brightness]
          [] has(light) /\ ~has({"nodeid"}) ->
               [color |-> r.color, brightness |-> r.brightness]
          [] ~has(light) /\ has({"read_gps"}) -> r
          [] OTHER -> <<>>
-----------------------------------------------------------------------------
IsCommand == "report" \notin DOMAIN sent
ZeroFree == \A i \in DOMAIN buffer : buffer[i] # 0

(* A command whose bytes are all non-zero is decoded to the fields that    *)
(* were encoded, and the whole payload is used.                            *)
RoundTrip ==
    phase = "done" /\ IsCommand /\ ZeroFree => root = sent /\ rest = <<>>

(* A payload that is cut at a zero byte never turns into a command other   *)
(* than the one that was sent: the handler obeys it or does nothing, and   *)
(* a GPS query never reaches it without its node id.                       *)
NeverAnotherCommand ==
    phase = "done" /\ IsCommand => Command(root) \in {Command(sent), <<>>}

(* A report fits the 51 bytes allocated for it (the add functions check    *)
(* against 255) and leaves test() a byte for its terminator.               *)
ReportFits == Len(buffer) < ALLOCATED

(* The root finds the node id in every report it is sent, although         *)
(* ParseCMLPP() gives up at the first record it does not know; without a   *)
(* node id add_queue_lpp_node() drops the report.                          *)
ReportHasNodeId ==
    phase = "done" /\ ~IsCommand =>
        "nodeid" \in DOMAIN root /\ root.nodeid = sent.report

(* The code of an overheated lamp comes from a measurement: it is in the   *)
(* report exactly if the supply is in its range and the sensor, read for   *)
(* the second time, answered with more than 80 degrees (raw value 47312),  *)
(* never because a transaction failed or from the temperature beside it.   *)
AlarmIsMeasured ==
    phase = "decode" /\ "lamp" \in DOMAIN sent =>
        LET s == sent.lamp
        IN  /\ buffer[31] = 146
            /\ buffer[32] = 3 <=> /\ s.adc \in 3100 .. 4095
                                  /\ s.temp_again.err = "none" /\ s.temp_again.raw >= 47312
=============================================================================
