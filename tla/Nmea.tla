-------------------------------- MODULE Nmea --------------------------------
(***************************************************************************)
(* The GPS receiver's sentences (components/CM-GPS/nmea_parser.c):         *)
(* gps_decode() takes them apart character by character, parse_item()      *)
(* stores every item in esp_gps->parent as soon as it ends, and parent is  *)
(* published in gps_info when every statement has passed its checksum.     *)
(* The UART may lose a run of characters (an overflow, uart_flush(), a     *)
(* full pattern queue) or change one.                                      *)
(*                                                                         *)
(* What travels is a character, or several that always come in this order: *)
(* a tuple whose first element is its kind, with its spelling in ASCII.  A *)
(* number, a position or a time is kept as the text it was converted from. *)
(***************************************************************************)
EXTENDS Integers, Sequences, SequencesExt

CONSTANTS Enabled,     \* CONFIG_NMEA_STATEMENT_...
          Cycle,       \* the sentences the receiver sends for every fix
          Fixes,       \* number of fixes, after which they repeat
          Noise,       \* what a changed character may become
          MaxDamage    \* bound: places where the UART loses or changes input

Statements == <<"GGA", "GSA", "RMC", "GSV", "GLL", "VTG">>
UNKNOWN == "UNKNOWN"

ASSUME NmeaAssumption ==
    /\ Enabled \subseteq Range(Statements)
    /\ Cycle \in Seq([st : STRING, num : Nat, count : Nat]) /\ Cycle # <<>>
    /\ Fixes \in Nat \ {0} /\ MaxDamage \in Nat

UINT8 == 256
MAX_IN_VIEW == 16       \* GPS_MAX_SATELLITES_IN_VIEW

Dollar == <<"$">>
Comma == <<",">>
Star == <<"*">>
CR == <<"CR">>
LF == <<"LF">>
Num(n) == <<"num", n>>          \* one decimal digit

-----------------------------------------------------------------------------
(* What the receiver sends *)

(* Fixes alternate between the hemispheres.                                *)
South(f) == f % 2 = 0
NS(f) == <<"hemi", IF South(f) THEN "S" ELSE "N">>
EW(f) == <<"hemi", IF South(f) THEN "W" ELSE "E">>

(* The latitude 1046.2f55 and the longitude 10641.f55 of fix f.            *)
Lat(f) == << <<"lat", f>>, Num(5), Num(5) >>
Lon(f) == << <<"lon", f>>, Num(5), Num(5) >>

(* The items of a sentence of fix f; an empty item is <<>>.                *)
Items(s, f) ==
    LET utc == << <<"utc", f>> >>
        some == << Num(3) >>
    IN CASE s.st = "GGA" -> <<utc, Lat(f), <<NS(f)>>, Lon(f), <<EW(f)>>, some, some, some,
                              some, <<>>, some, <<>>, <<>>, <<>> >>
         [] s.st = "RMC" -> <<utc, << <<"text", "A">> >>, Lat(f), <<NS(f)>>, Lon(f), <<EW(f)>>,
                              some, some, some, <<>>, <<>> >>
         [] s.st = "GLL" -> <<Lat(f), <<NS(f)>>, Lon(f), <<EW(f)>>, utc, << <<"text", "A">> >> >>
         [] s.st = "GSV" -> << <<Num(s.count)>>, <<Num(s.num)>>, some, some, some, some, some >>
         [] OTHER        -> <<some, some>>

Body(s, f) ==
    << <<"id", s.st>> >> \o FlattenSeq([i \in DOMAIN Items(s, f) |-> <<Comma>> \o Items(s, f)[i]])

(* The ASCII codes of what travels as one.                                 *)
HexDigit(d) == IF d < 10 THEN 48 + d ELSE 55 + d
Spelling(c) ==
    CASE c = Dollar -> <<36>> [] c = Comma -> <<44>> [] c = Star -> <<42>>
      [] c = CR -> <<13>>     [] c = LF -> <<10>>
      [] c[1] = "num" -> <<48 + c[2]>>
      [] c[1] = "lat" -> <<49, 48, 52, 54, 46, 50, 48 + c[2]>>          \* 1046.2f
      [] c[1] = "lon" -> <<49, 48, 54, 52, 49, 46, 48 + c[2]>>          \* 10641.f
      [] c[1] = "utc" -> <<49, 50, 48, 48, 48, 48 + c[2], 46, 48, 48>>  \* 12000f.00
      [] c[1] = "sum" -> <<HexDigit(c[2] \div 16), HexDigit(c[2] % 16)>>
      [] c[1] \in {"hemi", "text"} ->
             << [A |-> 65, E |-> 69, N |-> 78, S |-> 83, W |-> 87, x |-> 120][c[2]] >>
      [] c[1] = "id" ->
             <<71, 80>> \o [GGA |-> <<71, 71, 65>>, GSA |-> <<71, 83, 65>>, RMC |-> <<82, 77, 67>>,
                            GSV |-> <<71, 83, 86>>, GLL |-> <<71, 76, 76>>, VTG |-> <<86, 84, 71>>,
                            TXT |-> <<84, 88, 84>>][c[2]]

Length(c) == Len(Spelling(c))

(* A byte as the set of its bits that are set, and the XOR of bytes.       *)
Bits(n) == {b \in 0 .. 7 : (n \div 2 ^ b) % 2 = 1}
Xor(x, y) == (x \ y) \cup (y \ x)
XorAll(ns) == {b \in 0 .. 7 : Cardinality({i \in DOMAIN ns : b \in Bits(ns[i])}) % 2 = 1}

Spelled(cs) == FlattenSeq([i \in DOMAIN cs |-> Spelling(cs[i])])
Sum(cs) == CHOOSE n \in 0 .. UINT8 - 1 : Bits(n) = XorAll(Spelled(cs))

Sentence(s, f) ==
    <<Dollar>> \o Body(s, f) \o <<Star, <<"sum", Sum(Body(s, f))>>, CR, LF>>

(* All there is to send, over and over.                                    *)
Wire ==
    LET Sent(f) == FlattenSeq([i \in DOMAIN Cycle |-> Sentence(Cycle[i], f)])
    IN  FlattenSeq([f \in 1 .. Fixes |-> Sent(f - 1)])

-----------------------------------------------------------------------------
(* The tables of parse_gga() ... parse_vtg(): the field an item is stored  *)
(* in, by item number; "" for the items that are skipped.                  *)

parse_gga == <<"tim", "latitude", "NS", "longitude", "EW", "fix", "sats_in_use",
               "dop_h", "altitude", "", "altitude+">>
parse_gsa == <<"", "fix_mode">> \o [i \in 1 .. 12 |-> "sats_id_in_use"]
               \o <<"dop_p", "dop_h", "dop_v">>
parse_gsv == <<"sat_count", "sat_num", "sats_in_view">>
               \o [i \in 1 .. 16 |-> "sats_desc_in_view"]
parse_rmc == <<"tim", "valid", "latitude", "NS", "longitude", "EW", "speed", "cog",
               "date", "variation">>
parse_gll == <<"latitude", "NS", "longitude", "EW", "tim", "valid">>
parse_vtg == <<"cog", "", "variation", "", "speed", "", "speed">>

Table(st) ==
    CASE st = "GGA" -> parse_gga [] st = "GSA" -> parse_gsa [] st = "GSV" -> parse_gsv
      [] st = "RMC" -> parse_rmc [] st = "GLL" -> parse_gll [] st = "VTG" -> parse_vtg
      [] OTHER -> <<>>

(* gps_t follows item_str in esp_gps_t: where its fields begin, counted    *)
(* from item_str[0], which has 16 bytes.                                   *)
Offset ==
    [latitude |-> 16, longitude |-> 20, altitude |-> 24, fix |-> 28, sats_in_use |-> 32,
     tim |-> 34, fix_mode |-> 40, sats_id_in_use |-> 44, dop_h |-> 56, dop_p |-> 60,
     dop_v |-> 64, sats_in_view |-> 68, sats_desc_in_view |-> 70, date |-> 166,
     valid |-> 170, speed |-> 172, cog |-> 176, variation |-> 180]
Fields == DOMAIN Offset

Value(text) == [text |-> text, neg |-> FALSE]
Zero == [x \in Fields |-> Value(<<>>)]
Garbage == Value(<< <<"text", "garbage">> >>)

VARIABLES at,                \* place on the wire
          item_str, item_pos, item_num, asterisk, crc, cur_statement,
          sat_num, sat_count,
          parsed_statement,  \* set of statements
          parent, gps_info,
          losing, damage,    \* the UART is losing input; damaged places so far
          wound,             \* ghost: the damage since the last '$' was delivered
          trusted,           \* ghost: a position passed its checksum since then
          infoTrusted,       \* ghost: trusted when gps_info was published
          calm               \* ghost: sentences sent since then, up to two cycles

item == <<item_str, item_pos, item_num, cur_statement>>
sats == <<sat_num, sat_count>>
vars == <<at, item, asterisk, crc, sats, parsed_statement, parent, gps_info,
          losing, damage, wound, trusted, infoTrusted, calm>>

(* nmea_parser_init(): calloc(), and gps_info = {0}.                       *)
Init ==
    /\ at = 1
    /\ item_str = <<>> /\ item_pos = 0 /\ item_num = 0 /\ cur_statement = UNKNOWN
    /\ asterisk = FALSE /\ crc = {}
    /\ sat_num = 0 /\ sat_count = 0
    /\ parsed_statement = {}
    /\ parent = Zero /\ gps_info = Zero
    /\ losing = FALSE /\ damage = 0 /\ wound = "none"
    /\ trusted = FALSE /\ infoTrusted = FALSE /\ calm = 0

-----------------------------------------------------------------------------
(* parse_item() *)

(* strtol(item_str, NULL, base) as a byte: the number the item begins      *)
(* with after white space, 0 if it begins with none.  It is far too short  *)
(* for a long to overflow.                                                 *)
strtol(base) ==
    LET text == Spelled(item_str)
        Digit(x) == IF x < 58 THEN x - 48 ELSE x - 55
        from == IF text # <<>> /\ text[1] = 10 THEN 2 ELSE 1
        number == {i \in from .. Len(text) :
                      \A j \in from .. i : text[j] \in {HexDigit(d) : d \in 0 .. base - 1}}
        last == from - 1 + Cardinality(number)
    IN  MapThenSumSet(LAMBDA i : Digit(text[i]) * base ^ (last - i), number) % UINT8

(* Item 0 begins with '$': the first statement whose name it contains.     *)
NamedStatement ==
    LET i == SelectInSeq(Statements, LAMBDA st : st \in Enabled /\ <<"id", st>> \in Range(item_str))
    IN  IF i = 0 THEN UNKNOWN ELSE Statements[i]

(* index of sats_desc_in_view, a uint8_t.                                  *)
SatIndex == (4 * (sat_num - 1) + (item_num - 4) \div 4) % UINT8

Negated(p, field, letter) ==
    IF item_str # <<>> /\ item_str[1] = <<"hemi", letter>>
    THEN [p EXCEPT ![field].neg = ~@] ELSE p

Stored(field) ==
    CASE field = "NS" -> Negated(parent, "latitude", "S")
      [] field = "EW" -> Negated(parent, "longitude", "W")
      [] field = "altitude+" -> [parent EXCEPT !["altitude"].text = @ \o item_str]
      [] field = "sats_desc_in_view" ->
             IF SatIndex < MAX_IN_VIEW THEN [parent EXCEPT ![field] = Value(item_str)] ELSE parent
      [] field \in Fields \ {"sats_desc_in_view"} -> [parent EXCEPT ![field] = Value(item_str)]
      [] OTHER -> parent

parse_item ==
    LET start == item_num = 0 /\ item_str # <<>> /\ item_str[1] = Dollar
        table == Table(cur_statement)
        field == IF ~start /\ item_num \in DOMAIN table THEN table[item_num] ELSE ""
    IN  /\ cur_statement' = IF start THEN NamedStatement ELSE cur_statement
        /\ parent' = Stored(field)
        /\ sat_count' = IF field = "sat_count" THEN strtol(10) ELSE sat_count
        /\ sat_num' = IF field = "sat_num" THEN strtol(10) ELSE sat_num

-----------------------------------------------------------------------------
(* gps_decode(), one character *)

NextItem ==
    /\ item_str' = <<>> /\ item_pos' = 0
    /\ item_num' = (item_num + 1) % UINT8

StartKeepsAsterisk ==
    /\ item_num' = 0 /\ cur_statement' = UNKNOWN /\ crc' = {}
    /\ sat_count' = 0 /\ sat_num' = 0
    /\ item_str' = <<Dollar>> /\ item_pos' = 1
    /\ UNCHANGED <<asterisk, parsed_statement, parent, gps_info>>

StartOfStatement ==
    /\ asterisk' = FALSE /\ item_num' = 0 /\ cur_statement' = UNKNOWN /\ crc' = {}
    /\ sat_count' = 0 /\ sat_num' = 0
    /\ item_str' = <<Dollar>> /\ item_pos' = 1
    /\ UNCHANGED <<parsed_statement, parent, gps_info>>

Separator ==
    /\ parse_item /\ NextItem
    /\ crc' = Xor(crc, XorAll(Spelling(Comma)))
    /\ UNCHANGED <<asterisk, parsed_statement, gps_info>>

EndOfCrc ==
    /\ parse_item /\ NextItem
    /\ asterisk' = TRUE
    /\ UNCHANGED <<crc, parsed_statement, gps_info>>

AnySum == TRUE
CrcPassed == crc = Bits(strtol(16))

ParsedPastGroup ==
    IF cur_statement \in Enabled /\ (cur_statement = "GSV" => sat_num > sat_count)
    THEN parsed_statement \cup {cur_statement} ELSE parsed_statement
Parsed ==
    IF cur_statement \in Enabled /\ (cur_statement = "GSV" => sat_num = sat_count)
    THEN parsed_statement \cup {cur_statement} ELSE parsed_statement
Complete == CrcPassed /\ Enabled \subseteq Parsed

EndOfStatement ==
    /\ parsed_statement' = IF Complete THEN {} ELSE IF CrcPassed THEN Parsed ELSE parsed_statement
    /\ gps_info' = IF Complete THEN parent ELSE gps_info
    /\ UNCHANGED <<item, asterisk, crc, sats, parent>>

(* The text is appended without a look at the length of item_str: what     *)
(* goes beyond it lands in parent.                                         *)
Other(c) ==
    /\ crc' = IF asterisk THEN crc ELSE Xor(crc, XorAll(Spelling(c)))
    /\ item_str' = Append(item_str, c)
    /\ item_pos' = (item_pos + Length(c)) % UINT8
    /\ parent' = [x \in Fields |-> IF Offset[x] <= item_pos' THEN Garbage ELSE parent[x]]
    /\ UNCHANGED <<item_num, cur_statement, asterisk, sats, parsed_statement, gps_info>>

gps_decode(c) ==
    \/ c = Dollar /\ StartOfStatement
    \/ c = Comma /\ Separator
    \/ c = Star /\ EndOfCrc
    \/ c = CR /\ EndOfStatement
    \/ c \notin {Dollar, Comma, Star, CR} /\ Other(c)

-----------------------------------------------------------------------------
(* The wire *)

Advance == at' = (at % Len(Wire)) + 1

(* One character that the checksum covers.                                 *)
Plain(c) == Length(c) = 1 /\ c \notin {Dollar, Star, CR, LF}
Wounded(single) == IF wound = "none" /\ single THEN "one" ELSE "more"

HasPosition(st) == st \in {"GGA", "RMC", "GLL"}
CalmLimit == 2 * Len(Cycle)

Arrives == Advance /\ losing' = FALSE /\ UNCHANGED damage

Deliver ==
    LET c == Wire[at] IN
    /\ Arrives /\ gps_decode(c)
    /\ wound' = IF c = Dollar THEN "none" ELSE wound
    /\ trusted' = (\/ trusted
                   \/ c = CR /\ CrcPassed /\ HasPosition(cur_statement) /\ wound # "more")
    /\ infoTrusted' = IF c = CR /\ Complete THEN trusted' ELSE infoTrusted
    /\ calm' = IF c = LF /\ calm < CalmLimit THEN calm + 1 ELSE calm

(* UART_FIFO_OVF, UART_BUFFER_FULL, no pattern position: input is dropped, *)
(* from one place to another.                                              *)
Lose ==
    /\ losing \/ damage < MaxDamage
    /\ damage' = IF losing THEN damage ELSE damage + 1
    /\ losing' = TRUE
    /\ Advance
    /\ wound' = Wounded(Plain(Wire[at]))
    /\ trusted' = FALSE /\ calm' = 0
    /\ UNCHANGED <<item, asterisk, crc, sats, parsed_statement, parent, gps_info, infoTrusted>>

Change(c) ==
    /\ damage < MaxDamage /\ c # Wire[at]
    /\ damage' = damage + 1
    /\ wound' = Wounded(Plain(Wire[at]) /\ Plain(c))
    /\ gps_decode(c) /\ Advance
    /\ losing' = FALSE
    /\ trusted' = FALSE /\ calm' = 0
    /\ infoTrusted' = IF c = CR /\ Complete THEN FALSE ELSE infoTrusted

Next == Deliver \/ Lose \/ \E c \in Noise : Change(c)

(* The receiver keeps sending, and the nmea_parser task handles its input. *)
(* A step in which input arrives is one of Deliver, which never refuses.   *)
Spec == Init /\ [][Next]_vars
FairSpec == Spec /\ WF_at(Arrives)
-----------------------------------------------------------------------------
IsFix(g, f) ==
    /\ g.latitude = [text |-> Lat(f), neg |-> South(f)]
    /\ g.longitude = [text |-> Lon(f), neg |-> South(f)]
Reported(g) == \E f \in 0 .. Fixes - 1 : IsFix(g, f)

(* A damaged sentence leaves its items in parent, wrong, unsigned or from  *)
(* two fixes.  When one character of it was lost or changed the checksum   *)
(* finds out, and as soon as a sentence with a position passes, what is    *)
(* published is a position the receiver reported, latitude, longitude and  *)
(* both signs.  Of a longer damage the XOR may know nothing: it does not   *)
(* see two equal digits that were lost.  Then the next whole sentence with *)
(* a position is needed.                                                   *)
PublishedIsAFix == infoTrusted => Reported(gps_info)

(* Two undamaged cycles are enough for the parser to find its place again, *)
(* complete its set of statements and publish a reported position.         *)
HealsInTwoCycles == calm = CalmLimit => Reported(gps_info)

(* Once the damage is over every fix of the receiver reaches gps_info.     *)
EveryFixShown == \A f \in 0 .. Fixes - 1 : []<>IsFix(gps_info, f)
=============================================================================
