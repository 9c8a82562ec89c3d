------------------------------- MODULE MCNmea -------------------------------
(* Instances of Nmea. *)
EXTENDS Nmea

(* A receiver that reports a fix in two statements, satellites in a group  *)
(* of two sentences, and a text nobody parses.                             *)
One(st) == [st |-> st, num |-> 0, count |-> 0]
MixedCycle ==
    <<One("GGA"), [st |-> "GSV", num |-> 1, count |-> 2], [st |-> "GSV", num |-> 2, count |-> 2],
      One("TXT"), One("GLL")>>

(* Characters become a separator, the start of a sentence, or some text.   *)
SomeNoise == {Comma, Dollar, CR, <<"text", "x">>}
=============================================================================
