----------------------------- MODULE MCLppCodec -----------------------------
(* Instances of LppCodec. *)
EXTENDS LppCodec

(* MAC addresses: without a zero byte, and with one in the middle or last. *)
MacA == <<196, 79, 51, 35, 46, 233>>
MacB == <<180, 230, 45, 222, 38, 49>>
MacMidZero == <<196, 79, 0, 35, 46, 233>>
MacLastZero == <<135, 111, 51, 35, 46, 0>>

PlainMacs == {MacA, MacB}
AllMacs == {MacA, MacMidZero, MacLastZero}
OneMac == {MacA}
ZeroMac == {MacMidZero}

(* A normal lamp; one whose sensor finds it hot the second time, of a      *)
(* model that is not in the table, at the edges of the two ranges; one     *)
(* just below them, freezing; and two whose sensor does not answer, at     *)
(* first or later, with anything in the two bytes.                         *)
Answer(raw) == [err |-> "none", raw |-> raw]
Normal ==
    [parent |-> MacB, temp |-> Answer(29408), temp_again |-> Answer(29410),
     humidity |-> Answer(55051), adc |-> 3600, MODEL |-> 45, GEN |-> 1, rssi |-> 64,
     ledworking |-> 13956, lat |-> 136210, lon |-> 1003084, meshid |-> 123456, meshch |-> 13]
Lamp(temp, again, adc) ==
    [Normal EXCEPT !.temp = temp, !.temp_again = again, !.adc = adc]
FiveLamps ==
    {Normal,
     [Lamp(Answer(47311), Answer(47312), 3100) EXCEPT
        !.parent = MacA, !.MODEL = 50, !.GEN = 2, !.ledworking = 0,
        !.lat = 0, !.lon = 0, !.meshid = 999999, !.meshch = 1],
     Lamp(Answer(16000), Answer(47311), 4095),
     Lamp([err |-> "write", raw |-> 65535], [err |-> "read", raw |-> 65535], 3600),
     Lamp(Answer(60000), Answer(60000), 3099)}
=============================================================================
