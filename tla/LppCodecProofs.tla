--------------------------- MODULE LppCodecProofs ---------------------------
(***************************************************************************)
(* Proofs about the payload format, for all addresses, settings and lamps. *)
(* Everything rests on the layout of the buffer: the records of a plan,    *)
(* the list of CayenneLPP__add calls made for a command or a report, lie   *)
(* one behind the other.                                                   *)
(***************************************************************************)
EXTENDS LppCodec, SequenceTheorems, WellFoundedInduction, NaturalsInduction, TLAPS

Calls == [type : Byte, size : 0 .. 11, bytes : Seq(Byte)]
Plan == {P \in Seq(Calls) : Len(P) <= 13}

(* The bytes of the i-th record, and of the first k.                       *)
W(P, i) == IF i \in 1 .. Len(P) THEN 1 + Len(P[i].bytes) ELSE 0
Upto(P, i, k) == IF i <= k THEN W(P, i) ELSE 0
Off(P, k) ==
    Upto(P, 1, k) + Upto(P, 2, k) + Upto(P, 3, k) + Upto(P, 4, k) + Upto(P, 5, k)
    + Upto(P, 6, k) + Upto(P, 7, k) + Upto(P, 8, k) + Upto(P, 9, k) + Upto(P, 10, k)
    + Upto(P, 11, k) + Upto(P, 12, k) + Upto(P, 13, k)

(* The i-th record is in the buffer, at its place.                         *)
RecordAt(P, i) ==
    /\ buffer[Off(P, i - 1) + 1] = P[i].type
    /\ \A j \in 1 .. Len(P[i].bytes) : buffer[Off(P, i - 1) + 1 + j] = P[i].bytes[j]

(* The first k calls of the plan have been made.                           *)
Made(P, k) ==
    /\ calls = SubSeq(P, k + 1, Len(P))
    /\ Len(buffer) = Off(P, k)
    /\ \A i \in 1 .. k : RecordAt(P, i)

-----------------------------------------------------------------------------
(* Plans *)

LEMMA InRange ==
    ASSUME NEW n \in Nat, NEW m \in Nat, n <= m
    PROVE  n \in 0 .. m
OBVIOUS

LEMMA PlanType ==
    ASSUME NEW P \in Plan
    PROVE  /\ P \in Seq(Calls) /\ Len(P) \in 0 .. 13
           /\ \A k \in 0 .. Len(P) : k \in 0 .. 13
<1>1. P \in Seq(Calls) /\ Len(P) <= 13
  BY DEF Plan
<1>2. Len(P) \in Nat
  BY <1>1, LenProperties
<1> DEFINE n == Len(P)
<1>3. n \in 0 .. 13
  BY <1>1, <1>2, InRange
<1> HIDE DEF n
<1>4. \A k \in 0 .. n : k \in 0 .. 13
  BY <1>3
<1> QED BY <1>1, <1>3, <1>4 DEF n

LEMMA WidthType ==
    ASSUME NEW P \in Plan, NEW i \in Nat
    PROVE  W(P, i) \in Nat /\ (i \in 1 .. Len(P) => W(P, i) = 1 + Len(P[i].bytes))
<1>1. CASE i \in 1 .. Len(P)
  <2>1. P[i] \in Calls
    BY <1>1 DEF Plan
  <2>2. P[i].bytes \in Seq(Byte)
    BY <2>1 DEF Calls
  <2> QED BY <1>1, <2>2 DEF W
<1>2. CASE i \notin 1 .. Len(P)
  BY <1>2 DEF W
<1> QED BY <1>1, <1>2

LEMMA OffType ==
    ASSUME NEW P \in Plan, NEW k \in Nat
    PROVE  Off(P, k) \in Nat /\ Off(P, 0) = 0
<1>1. \A i \in Nat : W(P, i) \in Nat
  BY WidthType
<1>2. \A i \in Nat : Upto(P, i, k) \in Nat
  BY <1>1 DEF Upto
<1>3. Off(P, k) \in Nat
  BY <1>2 DEF Off
<1>4. Off(P, 0) = 0
  BY DEF Off, Upto
<1> QED BY <1>3, <1>4

(* A record lies behind the ones before it.                                *)
LEMMA OffStep ==
    ASSUME NEW P \in Plan, NEW k \in 0 .. 12
    PROVE  Off(P, k + 1) = Off(P, k) + W(P, k + 1)
<1>1. \A i \in 1 .. 13 : W(P, i) \in Nat
  BY WidthType
<1>2. \A i \in 1 .. 13 : Upto(P, i, k + 1) = IF i = k + 1 THEN W(P, i) ELSE Upto(P, i, k)
  BY DEF Upto
<1>3. Upto(P, k + 1, k) = 0
  BY DEF Upto
<1>4. \A i \in 1 .. 13 : Upto(P, i, k) \in Nat
  BY <1>1 DEF Upto
<1> HIDE DEF Upto
<1>5. k = 0 \/ k = 1 \/ k = 2 \/ k = 3 \/ k = 4 \/ k = 5 \/ k = 6 \/ k = 7 \/ k = 8 \/ k = 9
      \/ k = 10 \/ k = 11 \/ k = 12
  OBVIOUS
<1> QED BY <1>1, <1>2, <1>3, <1>4, <1>5 DEF Off

LEMMA OffMonotone ==
    ASSUME NEW P \in Plan, NEW k \in 0 .. 13, NEW i \in 0 .. k
    PROVE  Off(P, i) <= Off(P, k)
<1>1. \A j \in 1 .. 13 : W(P, j) \in Nat
  BY WidthType
<1>2. \A j \in 1 .. 13 : /\ Upto(P, j, i) \in Nat /\ Upto(P, j, k) \in Nat
                         /\ Upto(P, j, i) <= Upto(P, j, k)
  BY <1>1 DEF Upto
<1> QED BY <1>2 DEF Off

LEMMA RecordEnds ==
    ASSUME NEW P \in Plan, NEW i \in 1 .. Len(P)
    PROVE  /\ P[i] \in Calls /\ P[i].bytes \in Seq(Byte) /\ P[i].type \in Byte
           /\ Len(P[i].bytes) \in Nat
           /\ Off(P, i - 1) \in Nat
           /\ Off(P, i) = Off(P, i - 1) + 1 + Len(P[i].bytes)
<1>1. P[i] \in Calls
  BY DEF Plan
<1>2. P[i].bytes \in Seq(Byte) /\ P[i].type \in Byte
  BY <1>1 DEF Calls
<1>3. i - 1 \in 0 .. 12 /\ i = (i - 1) + 1
  BY DEF Plan
<1>4. Off(P, i) = Off(P, i - 1) + W(P, i)
  BY <1>3, OffStep
<1>5. W(P, i) = 1 + Len(P[i].bytes)
  BY WidthType
<1>6. Off(P, i - 1) \in Nat
  BY <1>3, OffType
<1> QED BY <1>1, <1>2, <1>4, <1>5, <1>6

(* One CayenneLPP__add: the next record of the plan goes behind the last.  *)
LEMMA MadeAdd ==
    ASSUME NEW P \in Plan, NEW k \in 0 .. Len(P), Made(P, k),
           buffer \in Seq(Byte), Off(P, Len(P)) <= 45, Add
    PROVE  /\ k + 1 \in 0 .. Len(P) /\ Made(P, k + 1)'
           /\ buffer' \in Seq(Byte)
<1> DEFINE c == P[k + 1]
<1>1. calls = SubSeq(P, k + 1, Len(P)) /\ Len(buffer) = Off(P, k) /\ calls # <<>>
  BY DEF Made, Add
<1>2. P \in Seq(Calls) /\ Len(P) \in 0 .. 13
  BY PlanType
<1>3. k + 1 \in 1 .. Len(P)
  <2>1. Len(P) < k + 1 => calls = <<>>
    BY <1>1, <1>2, SubSeqEmpty
  <2> QED BY <1>1, <1>2, <2>1
<1>4. Head(calls) = c /\ Tail(calls) = SubSeq(P, k + 2, Len(P))
  <2>1. Len(P) \in k + 1 .. Len(P)
    BY <1>2, <1>3
  <2>2. /\ Head(SubSeq(P, k + 1, Len(P))) = P[k + 1]
        /\ Tail(SubSeq(P, k + 1, Len(P))) = SubSeq(P, (k + 1) + 1, Len(P))
    BY <1>2, <1>3, <2>1, HeadTailOfSubSeq
  <2>3. (k + 1) + 1 = k + 2
    OBVIOUS
  <2> QED BY <1>1, <2>2, <2>3
<1>5. /\ c \in Calls /\ c.bytes \in Seq(Byte) /\ c.type \in Byte
      /\ Len(c.bytes) \in Nat /\ Off(P, k) \in Nat
      /\ Off(P, k + 1) = Off(P, k) + 1 + Len(c.bytes)
  <2>1. (k + 1) - 1 = k
    OBVIOUS
  <2> QED BY <1>3, <2>1, RecordEnds
<1> DEFINE q == Off(P, k)
<1>6. buffer' = buffer \o <<c.type>> \o c.bytes
  <2>1. Off(P, k) <= Off(P, Len(P))
    BY <1>2, OffMonotone
  <2>2. c.size \in 0 .. 11
    BY <1>5 DEF Calls
  <2>3. Off(P, Len(P)) \in Nat
    BY <1>2, OffType
  <2> DEFINE z == c.size  m == Off(P, Len(P))
  <2>4. z \in 0 .. 11 /\ q \in Nat /\ m \in Nat /\ q <= m /\ m <= 45
    BY <1>5, <2>1, <2>2, <2>3
  <2> HIDE DEF z, q, m
  <2>5. ~(q + z > 255)
    BY <2>4
  <2>6. ~(Len(buffer) + c.size > MAXSIZE)
    BY <1>1, <2>5 DEF MAXSIZE, q, z
  <2> QED BY <1>4, <2>6 DEF Add
<1> HIDE DEF c
<1> DEFINE b == buffer \o <<c.type>>
<1>7. <<c.type>> \in Seq(Byte) /\ Len(<<c.type>>) = 1 /\ <<c.type>>[1] = c.type
  BY <1>5
<1>8. /\ b \in Seq(Byte) /\ Len(b) = Len(buffer) + 1
      /\ \A i \in 1 .. Len(buffer) + 1 :
            b[i] = IF i <= Len(buffer) THEN buffer[i] ELSE c.type
  <2>1. /\ b \in Seq(Byte) /\ Len(b) = Len(buffer) + Len(<<c.type>>)
        /\ \A i \in 1 .. Len(buffer) + Len(<<c.type>>) :
              b[i] = IF i <= Len(buffer) THEN buffer[i] ELSE <<c.type>>[i - Len(buffer)]
    BY <1>7, ConcatProperties
  <2>2. \A i \in 1 .. Len(buffer) + 1 : i <= Len(buffer) \/ i - Len(buffer) = 1
    BY <1>1, <1>5
  <2> QED BY <1>7, <2>1, <2>2
<1> HIDE DEF b
<1>9. /\ buffer' \in Seq(Byte) /\ Len(buffer') = Len(b) + Len(c.bytes)
      /\ \A i \in 1 .. Len(b) + Len(c.bytes) :
            buffer'[i] = IF i <= Len(b) THEN b[i] ELSE c.bytes[i - Len(b)]
  <2>1. buffer' = b \o c.bytes
    BY <1>6 DEF b
  <2> QED BY <1>5, <1>8, <2>1, ConcatProperties
<1>10. /\ Len(buffer') = Off(P, k + 1)
       /\ \A i \in 1 .. Off(P, k) : buffer'[i] = buffer[i]
       /\ buffer'[Off(P, k) + 1] = c.type
       /\ \A j \in 1 .. Len(c.bytes) : buffer'[Off(P, k) + 1 + j] = c.bytes[j]
  <2>1. Len(b) = Off(P, k) + 1
    BY <1>1, <1>8
  <2>2. \A j \in 1 .. Len(c.bytes) :
          /\ Off(P, k) + 1 + j \in 1 .. Len(b) + Len(c.bytes)
          /\ ~(Off(P, k) + 1 + j <= Len(b)) /\ (Off(P, k) + 1 + j) - Len(b) = j
    BY <1>5, <2>1
  <2>3. \A i \in 1 .. Off(P, k) + 1 : i \in 1 .. Len(b) + Len(c.bytes) /\ i <= Len(b)
    BY <1>5, <2>1
  <2>4. Off(P, k) + 1 \in 1 .. Off(P, k) + 1 /\ ~(Off(P, k) + 1 <= Off(P, k))
    BY <1>5
  <2>5. \A i \in 1 .. Off(P, k) : i \in 1 .. Off(P, k) + 1
    BY <1>5
  <2> QED BY <1>1, <1>5, <1>8, <1>9, <2>1, <2>2, <2>3, <2>4, <2>5
<1>11. \A i \in 1 .. k + 1 : RecordAt(P, i)'
  <2> SUFFICES ASSUME NEW i \in 1 .. k + 1
               PROVE  RecordAt(P, i)'
    OBVIOUS
  <2>1. CASE i = k + 1
    <3>1. (k + 1) - 1 = k
      OBVIOUS
    <3> QED BY <1>10, <2>1, <3>1 DEF RecordAt, c
  <2>2. CASE i \in 1 .. k
    <3>1. RecordAt(P, i)
      BY <2>2 DEF Made
    <3>2. i \in 1 .. Len(P)
      BY <1>2, <1>3, <2>2
    <3>3. /\ Off(P, i - 1) \in Nat /\ Len(P[i].bytes) \in Nat
          /\ Off(P, i - 1) + 1 + Len(P[i].bytes) = Off(P, i)
      BY <3>2, RecordEnds
    <3>4. Off(P, i) <= Off(P, k)
      <4>1. k \in 0 .. 13 /\ i \in 0 .. k
        BY <2>2, PlanType
      <4> QED BY <4>1, OffMonotone
    <3>5. /\ Off(P, i - 1) + 1 \in 1 .. Off(P, k)
          /\ \A j \in 1 .. Len(P[i].bytes) : Off(P, i - 1) + 1 + j \in 1 .. Off(P, k)
      <4> DEFINE o == Off(P, i - 1)  n == Len(P[i].bytes)  e == Off(P, i)
      <4>1. o \in Nat /\ n \in Nat /\ o + 1 + n = e
        BY <3>3
      <4>2. q \in Nat /\ e <= q
        BY <1>5, <3>4
      <4> HIDE DEF o, q, n, e
      <4>3. o + 1 \in 1 .. q /\ \A j \in 1 .. n : o + 1 + j \in 1 .. q
        BY <4>1, <4>2
      <4> QED BY <4>3 DEF o, q, n
    <3> QED BY <1>10, <3>1, <3>5 DEF RecordAt
  <2> QED BY <2>1, <2>2
<1>12. calls' = SubSeq(P, (k + 1) + 1, Len(P))
  <2>1. (k + 1) + 1 = k + 2
    OBVIOUS
  <2> QED BY <1>4, <2>1 DEF Add
<1>13. Made(P, k + 1)'
  BY <1>10, <1>11, <1>12 DEF Made
<1> QED BY <1>3, <1>9, <1>13

-----------------------------------------------------------------------------
(* Records *)

LEMMA ByteOf ==
    ASSUME NEW v \in Int
    PROVE  v % 256 \in Byte /\ v \div 256 \in Int /\ v \div 65536 \in Int
BY DEF Byte

LEMMA BytesType ==
    ASSUME NEW v \in Int
    PROVE  /\ BigEndian2(v) \in Seq(Byte) /\ Len(BigEndian2(v)) = 2
           /\ BigEndian3(v) \in Seq(Byte) /\ Len(BigEndian3(v)) = 3
<1> DEFINE x == (v \div 65536) % 256  y == (v \div 256) % 256  z == v % 256
<1>1. x \in Byte /\ y \in Byte /\ z \in Byte
  BY ByteOf
<1> HIDE DEF x, y, z
<1>2. <<y, z>> \in Seq(Byte) /\ Len(<<y, z>>) = 2
  BY <1>1
<1>3. <<x>> \in Seq(Byte) /\ Len(<<x>>) = 1
  BY <1>1
<1>4. <<x>> \o <<y, z>> \in Seq(Byte) /\ Len(<<x>> \o <<y, z>>) = 3
  BY <1>2, <1>3, ConcatProperties
<1>5. BigEndian2(v) = <<y, z>> /\ BigEndian3(v) = <<x>> \o <<y, z>>
  BY DEF BigEndian2, BigEndian3, x, y, z
<1> QED BY <1>2, <1>4, <1>5

LEMMA CallType ==
    ASSUME NEW t \in Byte, NEW z \in 0 .. 11, NEW b \in Seq(Byte)
    PROVE  /\ Call(t, z, b) \in Calls
           /\ Call(t, z, b).bytes = b /\ Call(t, z, b).type = t
BY DEF Call, Calls

LEMMA MacType ==
    ASSUME NEW n \in Mac
    PROVE  n \in Seq(Byte) /\ Len(n) = 6
<1> USE DEF Mac
<1>1. n = <<n[1], n[2], n[3], n[4], n[5], n[6]>>
  OBVIOUS
<1>2. <<n[1], n[2], n[3], n[4], n[5], n[6]>> \in Seq(Byte)
  OBVIOUS
<1>3. Len(n) = 6
  OBVIOUS
<1> QED BY <1>1, <1>2, <1>3

LEMMA LampType ==
    ASSUME NEW s \in Lamps
    PROVE  /\ s.adc \in ADC /\ s.temp \in Answers /\ s.temp_again \in Answers
           /\ s.humidity \in Answers /\ s.parent \in Mac
           /\ s.GEN \in Byte /\ s.rssi \in Byte
           /\ s.MODEL \in Int /\ s.ledworking \in Int /\ s.lat \in Int /\ s.lon \in Int
           /\ s.meshid \in Int /\ s.meshch \in Int
<1>1. s \in LampState
  BY LppAssumption
<1> QED BY <1>1 DEF LampState

(* An overheated lamp and a healthy one have a supply in its range.        *)
LEMMA ErrorCodeIs ==
    ASSUME NEW s \in Lamps
    PROVE  /\ ErrorCode(s) \in {0, 1, 2, 3}
           /\ ErrorCode(s) = 3 <=>
                 /\ s.adc \in 3100 .. 4095
                 /\ \E t \in si7021_read_temperature(s.temp_again) : t > 8000 * 65536
<1> DEFINE a == s.adc
           v == s.adc - 300
           hot == \E t \in si7021_read_temperature(s.temp_again) : t > 8000 * 65536
           e == ErrorCode(s)
<1>1. a \in 0 .. 4095 /\ v = a - 300
  BY LampType, SMT DEF ADC
<1>2. e = CASE v > 4100 -> 1 [] v < 2800 -> 2 [] v \in 2800 .. 4100 -> IF hot THEN 3 ELSE 0
  BY DEF ErrorCode
<1> HIDE DEF a, v, hot, e
<1>3. v \in Int /\ ~(v > 4100)
  BY <1>1
<1>4. CASE v < 2800
  <2>1. ~(v \in 2800 .. 4100) /\ a \notin 3100 .. 4095
    BY <1>1, <1>4, SMT
  <2>2. e = 2
    BY <1>2, <1>3, <1>4, <2>1
  <2> QED BY <2>1, <2>2 DEF a, e, hot
<1>5. CASE ~(v < 2800)
  <2>1. v \in 2800 .. 4100
    BY <1>3, <1>5, SMT
  <2>2. a \in 3100 .. 4095
    <3>1. v >= 2800
      BY <1>3, <1>5, SMT
    <3> QED BY <1>1, <3>1, SMT
  <2>3. e = IF hot THEN 3 ELSE 0
    <3> DEFINE A == v > 4100  B == v < 2800  C == v \in 2800 .. 4100
               h == IF hot THEN 3 ELSE 0
    <3>1. e = (CASE A -> 1 [] B -> 2 [] C -> h) /\ ~A /\ ~B /\ C
      BY <1>2, <1>3, <1>5, <2>1
    <3> HIDE DEF A, B, C, h
    <3>2. e = h
      BY <3>1
    <3> QED BY <3>2 DEF h
  <2>4. e \in {0, 1, 2, 3} /\ (e = 3 <=> hot)
    BY <2>3
  <2> QED BY <2>2, <2>4 DEF a, e, hot
<1> QED BY <1>4, <1>5

LEMMA ErrorCodeByte ==
    ASSUME NEW s \in Lamps
    PROVE  ErrorCode(s) \in Byte
<1> DEFINE e == ErrorCode(s)
<1>1. e \in {0, 1, 2, 3}
  BY ErrorCodeIs, SMT
<1> HIDE DEF e
<1>2. e \in Byte
  BY <1>1, SMT DEF Byte
<1> QED BY <1>2 DEF e

-----------------------------------------------------------------------------
(* What is planned *)

TypedFields ==
    [nodeid : NodeIds, color : Colors, brightness : Brights, type_control : TypeControls]
AutoFields == [nodeid : NodeIds, color : Colors, brightness : Brights]
OwnFields == [color : Colors, brightness : Brights]
GpsFields == [nodeid : NodeIds, read_gps : {165}]

(* The calls that encode the fields f of a command.                        *)
CommandPlan(f, P) ==
    \/ /\ f \in TypedFields
       /\ P = <<addNodeID(f.nodeid), addColor(f.color), addLightControl(f.brightness),
                addTypeControl(f.type_control)>>
    \/ /\ f \in AutoFields
       /\ P = <<addNodeID(f.nodeid), addColor(f.color), addLightControl(f.brightness)>>
    \/ /\ f \in OwnFields
       /\ P = <<addColor(f.color), addLightControl(f.brightness)>>
    \/ /\ f \in GpsFields
       /\ P = <<addNodeID(f.nodeid), addReadGPS(f.read_gps)>>

(* A report of a lamp, or of its position: the node id is the first record *)
(* and the error code of a lamp the ninth, 30 bytes into the buffer.       *)
ReportPlan(f, P) ==
    /\ P # <<>> /\ Off(P, Len(P)) <= 45
    /\ "report" \in DOMAIN f /\ f.report \in ReportIds /\ P[1] = addNodeID(f.report)
    /\ "lamp" \in DOMAIN f =>
          /\ f.lamp \in Lamps /\ Len(P) >= 9
          /\ Off(P, 8) = 30 /\ P[9] = addError_code(ErrorCode(f.lamp))

Planned(f, P) == CommandPlan(f, P) \/ ReportPlan(f, P)

(* The record c carries the field of f that its type stands for.           *)
Carries(f, c) ==
    \/ "nodeid" \in DOMAIN f /\ f.nodeid \in Mac /\ c = addNodeID(f.nodeid)
    \/ "color" \in DOMAIN f /\ f.color \in Word /\ c = addColor(f.color)
    \/ "brightness" \in DOMAIN f /\ f.brightness \in Byte /\ c = addLightControl(f.brightness)
    \/ "type_control" \in DOMAIN f /\ f.type_control \in Byte /\ c = addTypeControl(f.type_control)
    \/ "read_gps" \in DOMAIN f /\ f.read_gps \in Byte /\ c = addReadGPS(f.read_gps)

LEMMA FieldTypes ==
    /\ \A n \in NodeIds : n \in Mac
    /\ \A c \in Colors : c \in Word /\ c \in Int
    /\ \A b \in Brights : b \in Byte
    /\ \A t \in TypeControls : t \in Byte
    /\ 165 \in Byte
<1>1. NodeIds \subseteq Mac /\ Colors \subseteq Word /\ Brights \subseteq Byte
      /\ TypeControls \subseteq Byte
  BY LppAssumption
<1>2. \A c \in Word : c \in Int
  BY SMT DEF Word
<1>3. 165 \in Byte
  BY SMT DEF Byte
<1> QED BY <1>1, <1>2, <1>3

LEMMA CallOf ==
    ASSUME NEW c, NEW t \in Byte, NEW z \in 0 .. 11, NEW b \in Seq(Byte), c = Call(t, z, b)
    PROVE  /\ c \in Calls /\ c.type = t /\ c.bytes = b /\ Len(c.bytes) = Len(b)
BY CallType

LEMMA Literals ==
    /\ 150 \in Byte /\ 135 \in Byte /\ 111 \in Byte /\ 155 \in Byte /\ 152 \in Byte
    /\ 7 \in 0 .. 11 /\ 3 \in 0 .. 11 /\ 2 \in 0 .. 11
BY SMT DEF Byte

(* What each of the records of a command holds.                            *)
LEMMA CarriedNodeId ==
    ASSUME NEW n \in Mac, NEW c, c = addNodeID(n)
    PROVE  c \in Calls /\ c.type = 150 /\ c.bytes = n /\ Len(c.bytes) = 6
<1>1. n \in Seq(Byte) /\ Len(n) = 6
  BY MacType
<1>2. c = Call(150, 7, n)
  BY DEF addNodeID
<1> QED BY <1>1, <1>2, Literals, CallOf

LEMMA CarriedColor ==
    ASSUME NEW v \in Word, NEW c, c = addColor(v)
    PROVE  c \in Calls /\ c.type = 135 /\ c.bytes = BigEndian2(v) /\ Len(c.bytes) = 2
<1>1. v \in Int
  BY SMT DEF Word
<1>2. BigEndian2(v) \in Seq(Byte) /\ Len(BigEndian2(v)) = 2
  BY <1>1, BytesType
<1>3. c = Call(135, 3, BigEndian2(v))
  BY DEF addColor
<1> QED BY <1>2, <1>3, Literals, CallOf

LEMMA CarriedByte ==
    ASSUME NEW v \in Byte, NEW t \in Byte, NEW c, c = Call(t, 2, <<v>>)
    PROVE  c \in Calls /\ c.type = t /\ c.bytes = <<v>> /\ Len(c.bytes) = 1
<1> DEFINE b == <<v>>
<1>1. b \in Seq(Byte) /\ Len(b) = 1 /\ c = Call(t, 2, b)
  OBVIOUS
<1> HIDE DEF b
<1>2. c \in Calls /\ c.type = t /\ c.bytes = b /\ Len(c.bytes) = 1
  BY <1>1, Literals, CallOf
<1> QED BY <1>2 DEF b

LEMMA CarriedCall ==
    ASSUME NEW f, NEW c, Carries(f, c)
    PROVE  /\ c \in Calls /\ Len(c.bytes) \in Nat /\ 1 <= Len(c.bytes) /\ Len(c.bytes) <= 6
           /\ c.type \in Known /\ c.type # 136
<1> DEFINE n == Len(c.bytes)
<1> SUFFICES /\ c \in Calls /\ (n = 6 \/ n = 2 \/ n = 1)
             /\ c.type \in {150, 135, 111, 155, 152}
  <2> HIDE DEF n
  <2>1. (n = 6 \/ n = 2 \/ n = 1) => n \in Nat /\ 1 <= n /\ n <= 6
    OBVIOUS
  <2>2. c.type \in {150, 135, 111, 155, 152} => c.type \in Known /\ c.type # 136
    BY SMT DEF Known
  <2> QED BY <2>1, <2>2 DEF n
<1>1. CASE f.nodeid \in Mac /\ c = addNodeID(f.nodeid)
  BY <1>1, CarriedNodeId
<1>2. CASE f.color \in Word /\ c = addColor(f.color)
  BY <1>2, CarriedColor
<1>3. CASE f.brightness \in Byte /\ c = addLightControl(f.brightness)
  BY <1>3, Literals, CarriedByte DEF addLightControl
<1>4. CASE f.type_control \in Byte /\ c = addTypeControl(f.type_control)
  BY <1>4, Literals, CarriedByte DEF addTypeControl
<1>5. CASE f.read_gps \in Byte /\ c = addReadGPS(f.read_gps)
  BY <1>5, Literals, CarriedByte DEF addReadGPS
<1> QED BY <1>1, <1>2, <1>3, <1>4, <1>5 DEF Carries

(* A command is made of at most four records, one for each of its fields.  *)
Name(type) ==
    CASE type = 150 -> "nodeid" [] type = 135 -> "color" [] type = 111 -> "brightness"
      [] type = 155 -> "type_control" [] OTHER -> "read_gps"

LEMMA CommandCarries ==
    ASSUME NEW f, NEW P, CommandPlan(f, P)
    PROVE  /\ Len(P) \in 2 .. 4 /\ P = [i \in 1 .. Len(P) |-> P[i]]
           /\ \A i \in 1 .. Len(P) : Carries(f, P[i])
           /\ "report" \notin DOMAIN f
           /\ f = [x \in DOMAIN f |-> f[x]]
<1>1. CASE f \in TypedFields /\ P = <<addNodeID(f.nodeid), addColor(f.color),
                                      addLightControl(f.brightness), addTypeControl(f.type_control)>>
  <2>1. DOMAIN f = {"nodeid", "color", "brightness", "type_control"} /\ f = [x \in DOMAIN f |-> f[x]]
    BY <1>1 DEF TypedFields
  <2>2. f.nodeid \in Mac /\ f.color \in Word /\ f.brightness \in Byte /\ f.type_control \in Byte
    BY <1>1, FieldTypes DEF TypedFields
  <2>3. /\ Carries(f, addNodeID(f.nodeid)) /\ Carries(f, addColor(f.color))
        /\ Carries(f, addLightControl(f.brightness)) /\ Carries(f, addTypeControl(f.type_control))
    BY <2>1, <2>2 DEF Carries
  <2> QED BY <1>1, <2>1, <2>3
<1>2. CASE f \in AutoFields /\ P = <<addNodeID(f.nodeid), addColor(f.color),
                                     addLightControl(f.brightness)>>
  <2>1. DOMAIN f = {"nodeid", "color", "brightness"} /\ f = [x \in DOMAIN f |-> f[x]]
    BY <1>2 DEF AutoFields
  <2>2. f.nodeid \in Mac /\ f.color \in Word /\ f.brightness \in Byte
    BY <1>2, FieldTypes DEF AutoFields
  <2>3. /\ Carries(f, addNodeID(f.nodeid)) /\ Carries(f, addColor(f.color))
        /\ Carries(f, addLightControl(f.brightness))
    BY <2>1, <2>2 DEF Carries
  <2> QED BY <1>2, <2>1, <2>3
<1>3. CASE f \in OwnFields /\ P = <<addColor(f.color), addLightControl(f.brightness)>>
  <2>1. DOMAIN f = {"color", "brightness"} /\ f = [x \in DOMAIN f |-> f[x]]
    BY <1>3 DEF OwnFields
  <2>2. f.color \in Word /\ f.brightness \in Byte
    BY <1>3, FieldTypes DEF OwnFields
  <2>3. Carries(f, addColor(f.color)) /\ Carries(f, addLightControl(f.brightness))
    BY <2>1, <2>2 DEF Carries
  <2> QED BY <1>3, <2>1, <2>3
<1>4. CASE f \in GpsFields /\ P = <<addNodeID(f.nodeid), addReadGPS(f.read_gps)>>
  <2>1. DOMAIN f = {"nodeid", "read_gps"} /\ f = [x \in DOMAIN f |-> f[x]]
    BY <1>4 DEF GpsFields
  <2>2. f.nodeid \in Mac /\ f.read_gps \in Byte
    BY <1>4, FieldTypes DEF GpsFields
  <2>3. Carries(f, addNodeID(f.nodeid)) /\ Carries(f, addReadGPS(f.read_gps))
    BY <2>1, <2>2 DEF Carries
  <2> QED BY <1>4, <2>1, <2>3
<1> QED BY <1>1, <1>2, <1>3, <1>4 DEF CommandPlan

LEMMA CommandFits ==
    ASSUME NEW f, NEW P, CommandPlan(f, P)
    PROVE  P \in Plan /\ Off(P, Len(P)) <= 45
<1> DEFINE n == Len(P)
<1>1. n \in 2 .. 4 /\ \A i \in 1 .. n : Carries(f, P[i])
  BY CommandCarries
<1>2. \A i \in 1 .. n : P[i] \in Calls /\ Len(P[i].bytes) \in Nat /\ Len(P[i].bytes) <= 6
  BY <1>1, CarriedCall
<1>3. P \in Seq(Calls)
  <2>1. ASSUME NEW a \in Calls, NEW b \in Calls, NEW c \in Calls, NEW d \in Calls
        PROVE  <<a, b>> \in Seq(Calls) /\ <<a, b, c>> \in Seq(Calls) /\ <<a, b, c, d>> \in Seq(Calls)
    OBVIOUS
  <2>2. CASE P = <<addNodeID(f.nodeid), addColor(f.color), addLightControl(f.brightness),
                   addTypeControl(f.type_control)>>
    <3>1. n = 4 /\ P = <<P[1], P[2], P[3], P[4]>>
      BY <2>2
    <3>2. P[1] \in Calls /\ P[2] \in Calls /\ P[3] \in Calls /\ P[4] \in Calls
      BY <1>2, <3>1
    <3> QED BY <2>1, <3>1, <3>2
  <2>3. CASE P = <<addNodeID(f.nodeid), addColor(f.color), addLightControl(f.brightness)>>
    <3>1. n = 3 /\ P = <<P[1], P[2], P[3]>>
      BY <2>3
    <3>2. P[1] \in Calls /\ P[2] \in Calls /\ P[3] \in Calls
      BY <1>2, <3>1
    <3> QED BY <2>1, <3>1, <3>2
  <2>4. CASE P = <<addColor(f.color), addLightControl(f.brightness)>>
    <3>1. n = 2 /\ P = <<P[1], P[2]>>
      BY <2>4
    <3>2. P[1] \in Calls /\ P[2] \in Calls
      BY <1>2, <3>1
    <3> QED BY <2>1, <3>1, <3>2
  <2>5. CASE P = <<addNodeID(f.nodeid), addReadGPS(f.read_gps)>>
    <3>1. n = 2 /\ P = <<P[1], P[2]>>
      BY <2>5
    <3>2. P[1] \in Calls /\ P[2] \in Calls
      BY <1>2, <3>1
    <3> QED BY <2>1, <3>1, <3>2
  <2> QED BY <2>2, <2>3, <2>4, <2>5 DEF CommandPlan
<1>4. P \in Plan
  <2> HIDE DEF n
  <2>1. n <= 13
    BY <1>1
  <2> QED BY <1>3, <2>1 DEF Plan, n
<1>5. \A i \in 1 .. 4 : W(P, i) \in Nat /\ W(P, i) <= 7
  <2> SUFFICES ASSUME NEW i \in 1 .. 4
               PROVE  W(P, i) \in Nat /\ W(P, i) <= 7
    OBVIOUS
  <2>1. CASE i \in 1 .. n
    <3> DEFINE l == Len(P[i].bytes)
    <3>1. W(P, i) = 1 + l
      BY <1>4, <2>1, WidthType
    <3>2. l \in Nat /\ l <= 6
      BY <1>2, <2>1
    <3> HIDE DEF l
    <3> QED BY <3>1, <3>2
  <2>2. CASE i \notin 1 .. n
    BY <2>2 DEF W
  <2> QED BY <2>1, <2>2
<1>6. \A i \in 1 .. 13 : Upto(P, i, n) \in Nat /\ Upto(P, i, n) <= 7 /\ (i > 4 => Upto(P, i, n) = 0)
  <2> HIDE DEF n
  <2> QED BY <1>1, <1>5 DEF Upto
<1> QED
  <2> HIDE DEF n
  <2>1. Off(P, n) <= 45
    BY <1>6 DEF Off
  <2> QED BY <1>4, <2>1 DEF n

-----------------------------------------------------------------------------
(* The reports *)

(* A report of a lamp: ten calls, the model's if it is in the table, and   *)
(* two more.                                                               *)
LEMMA JoinedPlan ==
    ASSUME NEW a \in Seq(Calls), Len(a) = 10, NEW m \in Seq(Calls), (Len(m) = 0 \/ Len(m) = 1),
           NEW b \in Seq(Calls), Len(b) = 2
    PROVE  /\ a \o m \o b \in Plan
           /\ Len(a \o m \o b) = 12 + Len(m)
           /\ \A i \in 1 .. 10 : (a \o m \o b)[i] = a[i]
           /\ Len(m) = 1 => (a \o m \o b)[11] = m[1]
           /\ (a \o m \o b)[11 + Len(m)] = b[1] /\ (a \o m \o b)[12 + Len(m)] = b[2]
<1> DEFINE c == a \o m  n == Len(m)
<1>1. n = 0 \/ n = 1
  OBVIOUS
<1>2. /\ c \in Seq(Calls) /\ Len(c) = 10 + n
      /\ \A i \in 1 .. 10 + n : c[i] = IF i <= 10 THEN a[i] ELSE m[i - 10]
  <2>1. /\ c \in Seq(Calls) /\ Len(c) = Len(a) + n
        /\ \A i \in 1 .. Len(a) + n : c[i] = IF i <= Len(a) THEN a[i] ELSE m[i - Len(a)]
    BY ConcatProperties
  <2> HIDE DEF c, n
  <2> QED BY <2>1
<1> HIDE DEF c
<1>3. /\ c \o b \in Seq(Calls) /\ Len(c \o b) = 12 + n
      /\ \A i \in 1 .. 12 + n : (c \o b)[i] = IF i <= 10 + n THEN c[i] ELSE b[i - (10 + n)]
  <2> DEFINE l == Len(c)  k == Len(b)  d == c \o b
  <2>1. /\ d \in Seq(Calls) /\ Len(d) = l + k
        /\ \A i \in 1 .. l + k : d[i] = IF i <= l THEN c[i] ELSE b[i - l]
    BY <1>2, ConcatProperties
  <2>2. l = 10 + n /\ k = 2
    BY <1>2
  <2> HIDE DEF l, k, n, d
  <2>3. l + k = 12 + n
    BY <1>1, <2>2
  <2>4. /\ d \in Seq(Calls) /\ Len(d) = 12 + n
        /\ \A i \in 1 .. 12 + n : d[i] = IF i <= 10 + n THEN c[i] ELSE b[i - (10 + n)]
    BY <2>1, <2>2, <2>3
  <2> QED BY <2>4 DEF d
<1> DEFINE d == c \o b
<1> HIDE DEF n, d
<1>4. \A i \in 1 .. 10 : d[i] = a[i]
  <2>1. \A i \in 1 .. 10 : i \in 1 .. 12 + n /\ i <= 10 + n /\ i \in 1 .. 10 + n
    BY <1>1
  <2> QED BY <1>2, <1>3, <2>1 DEF d
<1>5. n = 1 => d[11] = m[1]
  <2>1. n = 1 => 11 \in 1 .. 12 + n /\ 11 <= 10 + n /\ 11 \in 1 .. 10 + n /\ 11 - 10 = 1 /\ ~(11 <= 10)
    OBVIOUS
  <2> QED BY <1>2, <1>3, <2>1 DEF d
<1>6. d[11 + n] = b[1] /\ d[12 + n] = b[2]
  <2>1. /\ 11 + n \in 1 .. 12 + n /\ ~(11 + n <= 10 + n) /\ (11 + n) - (10 + n) = 1
        /\ 12 + n \in 1 .. 12 + n /\ ~(12 + n <= 10 + n) /\ (12 + n) - (10 + n) = 2
    BY <1>1
  <2> QED BY <1>3, <2>1 DEF d
<1>7. d \in Plan /\ Len(d) = 12 + n
  <2>1. 12 + n <= 13
    BY <1>1
  <2> QED BY <1>3, <2>1 DEF Plan, d
<1> QED BY <1>4, <1>5, <1>6, <1>7 DEF c, d, n

(* The size of a plan from the sizes of its records.                       *)
LEMMA OffSum ==
    ASSUME NEW P \in Plan
    PROVE  /\ Off(P, 8) = W(P, 1) + W(P, 2) + W(P, 3) + W(P, 4) + W(P, 5) + W(P, 6)
                          + W(P, 7) + W(P, 8)
           /\ Off(P, Len(P)) = W(P, 1) + W(P, 2) + W(P, 3) + W(P, 4) + W(P, 5) + W(P, 6)
                               + W(P, 7) + W(P, 8) + W(P, 9) + W(P, 10) + W(P, 11)
                               + W(P, 12) + W(P, 13)
<1> DEFINE n == Len(P)
<1>1. n \in 0 .. 13
  BY PlanType
<1>2. \A i \in 1 .. 13 : W(P, i) \in Nat
  BY WidthType
<1>3. \A i \in 1 .. 13 : Upto(P, i, n) = W(P, i)
  <2> SUFFICES ASSUME NEW i \in 1 .. 13
               PROVE  Upto(P, i, n) = W(P, i)
    OBVIOUS
  <2>1. CASE i <= n
    BY <2>1 DEF Upto
  <2>2. CASE ~(i <= n)
    <3>1. i \notin 1 .. n
      BY <1>1, <2>2
    <3> QED BY <2>2, <3>1 DEF Upto, W
  <2> QED BY <2>1, <2>2
<1>4. /\ \A i \in 1 .. 8 : Upto(P, i, 8) = W(P, i)
      /\ \A i \in 9 .. 13 : Upto(P, i, 8) = 0
  BY DEF Upto
<1> HIDE DEF n
<1>5. Off(P, n) = W(P, 1) + W(P, 2) + W(P, 3) + W(P, 4) + W(P, 5) + W(P, 6)
                  + W(P, 7) + W(P, 8) + W(P, 9) + W(P, 10) + W(P, 11) + W(P, 12) + W(P, 13)
  BY <1>3 DEF Off
<1>6. Off(P, 8) = W(P, 1) + W(P, 2) + W(P, 3) + W(P, 4) + W(P, 5) + W(P, 6) + W(P, 7) + W(P, 8)
  BY <1>2, <1>4 DEF Off
<1> QED BY <1>5, <1>6 DEF n

LEMMA ReadType ==
    ASSUME NEW a \in Answers
    PROVE  si7021_read(a) \in Int
<1>1. a.raw \in Raw
  BY DEF Answers
<1>2. \A r \in Raw : r - (r % 4) \in Int
  BY SMT DEF Raw
<1> QED BY <1>1, <1>2 DEF si7021_read

LEMMA ReadingType ==
    ASSUME NEW a \in Answers
    PROVE  /\ \A t \in si7021_read_temperature(a) : t \in Int
           /\ \A h \in si7021_read_humidity(a) : h \in Int
<1> DEFINE r == si7021_read(a)
<1>1. r \in Int
  BY ReadType
<1> HIDE DEF r
<1>2. r * 17572 - 4685 * 65536 \in Int /\ 125 * r - 6 * 65536 \in Int
  BY <1>1, SMT
<1>3. \A t \in si7021_read_temperature(a) : t = r * 17572 - 4685 * 65536
  BY SMT DEF si7021_read_temperature, r
<1>4. \A h \in si7021_read_humidity(a) : h = 125 * r - 6 * 65536
  BY SMT DEF si7021_read_humidity, r
<1> QED BY <1>2, <1>3, <1>4, SMT

LEMMA UnsignedType ==
    ASSUME NEW R, \A t \in R : t \in Int, NEW u \in Nat, u > 0, NEW x \in AsUnsigned(R, u)
    PROVE  x \in Int
<1>1. CASE x \in Undefined
  BY <1>1, SMT DEF Undefined
<1>2. CASE x \in {t \div u : t \in R}
  <2>1. PICK t \in R : x = t \div u
    BY <1>2
  <2>2. t \in Int
    OBVIOUS
  <2> QED BY <2>1, <2>2, SMT
<1> QED BY <1>1, <1>2 DEF AsUnsigned

LEMMA MeasuredType ==
    ASSUME NEW s \in Lamps
    PROVE  /\ \A t \in Temperature(s) : t \in Int
           /\ \A h \in Humidity(s) : h \in Int
<1>1. s.temp \in Answers /\ s.humidity \in Answers
  BY LampType
<1> DEFINE u == 10 * 65536  w == 65536
<1>2. u \in Nat /\ u > 0 /\ w \in Nat /\ w > 0
  BY SMT
<1> HIDE DEF u, w
<1>3. /\ \A t \in si7021_read_temperature(s.temp) : t \in Int
      /\ \A h \in si7021_read_humidity(s.humidity) : h \in Int
  BY <1>1, ReadingType
<1>4. /\ \A t \in AsUnsigned(si7021_read_temperature(s.temp), u) : t \in Int
      /\ \A h \in AsUnsigned(si7021_read_humidity(s.humidity), w) : h \in Int
  BY <1>2, <1>3, UnsignedType
<1> QED BY <1>4 DEF u, w, Temperature, Humidity

LEMMA Types ==
    /\ 151 \in Byte /\ 103 \in Byte /\ 104 \in Byte /\ 116 \in Byte /\ 128 \in Byte
    /\ 146 \in Byte /\ 147 \in Byte /\ 148 \in Byte /\ 149 \in Byte /\ 106 \in Byte
    /\ 136 \in Byte /\ 153 \in Byte /\ 154 \in Byte
    /\ 4 \in 0 .. 11 /\ 6 \in 0 .. 11 /\ 11 \in 0 .. 11
BY SMT DEF Byte

LEMMA Carried2 ==
    ASSUME NEW v \in Int, NEW t \in Byte, NEW z \in 0 .. 11, NEW c, c = Call(t, z, BigEndian2(v))
    PROVE  c \in Calls /\ c.type = t /\ Len(c.bytes) = 2
<1>1. BigEndian2(v) \in Seq(Byte) /\ Len(BigEndian2(v)) = 2
  BY BytesType
<1> QED BY <1>1, CallOf

LEMMA CarriedSmall ==
    ASSUME NEW v \in Byte, NEW t \in Byte, NEW z \in 0 .. 11, NEW c, c = Call(t, z, <<v>>)
    PROVE  c \in Calls /\ c.type = t /\ Len(c.bytes) = 1
<1> DEFINE b == <<v>>
<1>1. b \in Seq(Byte) /\ Len(b) = 1 /\ c = Call(t, z, b)
  OBVIOUS
<1> HIDE DEF b
<1> QED BY <1>1, CallOf

LEMMA Carried3 ==
    ASSUME NEW v \in Int, NEW t \in Byte, NEW z \in 0 .. 11, NEW c, c = Call(t, z, BigEndian3(v))
    PROVE  c \in Calls /\ c.type = t /\ Len(c.bytes) = 3
<1>1. BigEndian3(v) \in Seq(Byte) /\ Len(BigEndian3(v)) = 3
  BY BytesType
<1> QED BY <1>1, CallOf

LEMMA CarriedPosition ==
    ASSUME NEW v \in Int, NEW w \in Int, NEW x \in Int
    PROVE  /\ addActuation(v) \in Calls /\ Len(addActuation(v).bytes) = 6
           /\ addGPS(v, w, x) \in Calls /\ Len(addGPS(v, w, x).bytes) = 9
<1> DEFINE p == BigEndian3(v \div 16777216)  q == BigEndian3(v)  r == BigEndian3(w)
           s == BigEndian3(x)
<1>0. v \div 16777216 \in Int
  BY SMT
<1>1. /\ p \in Seq(Byte) /\ Len(p) = 3 /\ q \in Seq(Byte) /\ Len(q) = 3
      /\ r \in Seq(Byte) /\ Len(r) = 3 /\ s \in Seq(Byte) /\ Len(s) = 3
  BY <1>0, BytesType
<1>2. addActuation(v) = Call(106, 6, p \o q) /\ addGPS(v, w, x) = Call(136, 11, q \o r \o s)
  BY DEF addActuation, addGPS
<1> HIDE DEF p, q, r, s
<1>3. p \o q \in Seq(Byte) /\ Len(p \o q) = 6
  <2>1. p \o q \in Seq(Byte) /\ Len(p \o q) = Len(p) + Len(q)
    BY <1>1, ConcatProperties
  <2> QED BY <1>1, <2>1
<1> DEFINE d == q \o r
<1>4. d \in Seq(Byte) /\ Len(d) = 6
  <2>1. d \in Seq(Byte) /\ Len(d) = Len(q) + Len(r)
    BY <1>1, ConcatProperties
  <2> QED BY <1>1, <2>1
<1>5. q \o r \o s = d \o s
  OBVIOUS
<1> HIDE DEF d
<1>6. d \o s \in Seq(Byte) /\ Len(d \o s) = 9
  <2>1. d \o s \in Seq(Byte) /\ Len(d \o s) = Len(d) + Len(s)
    BY <1>1, <1>4, ConcatProperties
  <2> QED BY <1>1, <1>4, <2>1
<1>7. addActuation(v) \in Calls /\ Len(addActuation(v).bytes) = 6
  <2> DEFINE b == p \o q
  <2>1. b \in Seq(Byte) /\ Len(b) = 6 /\ addActuation(v) = Call(106, 6, b)
    BY <1>2, <1>3
  <2> HIDE DEF b
  <2> QED BY <2>1, Types, CallOf
<1>8. addGPS(v, w, x) \in Calls /\ Len(addGPS(v, w, x).bytes) = 9
  <2> DEFINE b == d \o s
  <2>1. b \in Seq(Byte) /\ Len(b) = 9 /\ addGPS(v, w, x) = Call(136, 11, b)
    BY <1>2, <1>5, <1>6
  <2> HIDE DEF b
  <2> QED BY <2>1, Types, CallOf
<1> QED BY <1>7, <1>8

LEMMA SmallCalls ==
    ASSUME NEW v \in Byte
    PROVE  /\ addLightControl(v) \in Calls /\ Len(addLightControl(v).bytes) = 1
           /\ addError_code(v) \in Calls /\ Len(addError_code(v).bytes) = 1
           /\ addGen(v) \in Calls /\ Len(addGen(v).bytes) = 1
           /\ addModel(v) \in Calls /\ Len(addModel(v).bytes) = 1
           /\ addPowerINDEX(v) \in Calls /\ Len(addPowerINDEX(v).bytes) = 1
<1>1. \A t \in Byte : Call(t, 2, <<v>>) \in Calls /\ Len(Call(t, 2, <<v>>).bytes) = 1
  BY Literals, CarriedSmall, SMT
<1>2. addLightControl(v) \in Calls /\ Len(addLightControl(v).bytes) = 1
  BY <1>1, Literals, SMT DEF addLightControl
<1>3. addError_code(v) \in Calls /\ Len(addError_code(v).bytes) = 1
  BY <1>1, Types, SMT DEF addError_code
<1>4. addGen(v) \in Calls /\ Len(addGen(v).bytes) = 1
  BY <1>1, Types, SMT DEF addGen
<1>5. addModel(v) \in Calls /\ Len(addModel(v).bytes) = 1
  BY <1>1, Types, SMT DEF addModel
<1>6. addPowerINDEX(v) \in Calls /\ Len(addPowerINDEX(v).bytes) = 1
  BY <1>1, Types, SMT DEF addPowerINDEX
<1> QED BY <1>2, <1>3, <1>4, <1>5, <1>6

LEMMA WordCalls ==
    ASSUME NEW v \in Int
    PROVE  /\ addColor(v) \in Calls /\ Len(addColor(v).bytes) = 2
           /\ addTemperature(v) \in Calls /\ Len(addTemperature(v).bytes) = 2
           /\ addVoltage(v) \in Calls /\ Len(addVoltage(v).bytes) = 2
           /\ addPower(v) \in Calls /\ Len(addPower(v).bytes) = 2
           /\ addRelativeHumidity(v) \in Calls /\ Len(addRelativeHumidity(v).bytes) = 1
           /\ addMESHCH(v) \in Calls /\ Len(addMESHCH(v).bytes) = 1
           /\ addMESHID(v) \in Calls /\ Len(addMESHID(v).bytes) = 3
<1> DEFINE w == BigEndian2(v)  x == BigEndian3(v)
<1>1. \A t \in Byte, z \in 0 .. 11 : Call(t, z, w) \in Calls /\ Len(Call(t, z, w).bytes) = 2
  BY Carried2, SMT
<1>2. \A t \in Byte, z \in 0 .. 11 : Call(t, z, x) \in Calls /\ Len(Call(t, z, x).bytes) = 3
  BY Carried3, SMT
<1>3. ASSUME NEW y \in Byte, NEW t \in Byte, NEW z \in 0 .. 11
      PROVE  Call(t, z, <<y>>) \in Calls /\ Len(Call(t, z, <<y>>).bytes) = 1
  BY CarriedSmall
<1> HIDE DEF w, x
<1>4. addColor(v) \in Calls /\ Len(addColor(v).bytes) = 2
  BY <1>1, Literals, SMT DEF addColor, w
<1>5. addTemperature(v) \in Calls /\ Len(addTemperature(v).bytes) = 2
  BY <1>1, Types, SMT DEF addTemperature, w
<1>6. addVoltage(v) \in Calls /\ Len(addVoltage(v).bytes) = 2
  BY <1>1, Types, Literals, SMT DEF addVoltage, w
<1>7. addPower(v) \in Calls /\ Len(addPower(v).bytes) = 2
  BY <1>1, Types, Literals, SMT DEF addPower, w
<1>8. addRelativeHumidity(v) \in Calls /\ Len(addRelativeHumidity(v).bytes) = 1
  <2>1. (v * 2) % 256 \in Byte
    BY ByteOf, SMT
  <2> QED BY <1>3, <2>1, Types, Literals, SMT DEF addRelativeHumidity
<1>9. addMESHCH(v) \in Calls /\ Len(addMESHCH(v).bytes) = 1
  <2>1. v % 256 \in Byte
    BY ByteOf, SMT
  <2> QED BY <1>3, <2>1, Types, Literals, SMT DEF addMESHCH
<1>10. addMESHID(v) \in Calls /\ Len(addMESHID(v).bytes) = 3
  BY <1>2, Types, SMT DEF addMESHID, x
<1> QED BY <1>4, <1>5, <1>6, <1>7, <1>8, <1>9, <1>10

LEMMA MacCalls ==
    ASSUME NEW v \in Mac
    PROVE  /\ addNodeID(v) \in Calls /\ Len(addNodeID(v).bytes) = 6
           /\ addParentID(v) \in Calls /\ Len(addParentID(v).bytes) = 6
<1>1. v \in Seq(Byte) /\ Len(v) = 6
  BY MacType
<1>2. \A t \in Byte : Call(t, 7, v) \in Calls /\ Len(Call(t, 7, v).bytes) = 6
  BY <1>1, Literals, CallOf, SMT
<1>3. addNodeID(v) \in Calls /\ Len(addNodeID(v).bytes) = 6
  BY <1>2, Literals, SMT DEF addNodeID
<1>4. addParentID(v) \in Calls /\ Len(addParentID(v).bytes) = 6
  BY <1>2, Types, SMT DEF addParentID
<1> QED BY <1>3, <1>4

LEMMA ModelType ==
    ASSUME NEW m \in Int
    PROVE  /\ ModelCalls(m) \in Seq(Calls) /\ (Len(ModelCalls(m)) = 0 \/ Len(ModelCalls(m)) = 1)
           /\ Len(ModelCalls(m)) = 1 => Len(ModelCalls(m)[1].bytes) = 1
<1>1. CASE m \in DOMAIN ModelNumber
  <2> DEFINE v == ModelNumber[m]
  <2>1. v \in Byte
    <3>1. m = 45 \/ m = 70 \/ m = 130 \/ m = 120 \/ m = 90
      BY <1>1, SMT DEF ModelNumber
    <3>2. v \in {1, 2, 3, 4, 5}
      BY <3>1, SMT DEF ModelNumber
    <3> QED BY <3>2, SMT DEF Byte
  <2> HIDE DEF v
  <2> DEFINE c == addModel(v)
  <2>2. c \in Calls /\ Len(c.bytes) = 1
    BY <2>1, SmallCalls
  <2>3. ModelCalls(m) = <<c>>
    BY <1>1 DEF ModelCalls, v
  <2> HIDE DEF c
  <2> QED BY <2>2, <2>3
<1>2. CASE m \notin DOMAIN ModelNumber
  <2>1. ModelCalls(m) = <<>>
    BY <1>2 DEF ModelCalls
  <2> QED BY <2>1
<1> QED BY <1>1, <1>2

LEMMA RecordWidth ==
    ASSUME NEW P \in Plan, NEW i \in 1 .. Len(P)
    PROVE  W(P, i) = 1 + Len(P[i].bytes)
<1>1. i \in Nat
  OBVIOUS
<1> QED BY <1>1, WidthType

(* Where the records of a lamp's report lie.                               *)
LEMMA RootLayout ==
    ASSUME NEW P \in Plan, NEW l \in {0, 1},
           W(P, 1) = 7, W(P, 2) = 7, W(P, 3) = 3, W(P, 4) = 2, W(P, 5) = 3,
           W(P, 6) = 2, W(P, 7) = 3, W(P, 8) = 3, W(P, 9) = 2, W(P, 10) = 2,
           l = 1 => W(P, 11) = 2, W(P, 11 + l) = 2, W(P, 12 + l) = 7,
           l = 0 => W(P, 13) = 0
    PROVE  Off(P, 8) = 30 /\ Off(P, Len(P)) <= 45
<1> DEFINE x == W(P, 11)  y == W(P, 12)  z == W(P, 13)
<1>1. (x = 2 /\ y = 7 /\ z = 0) \/ (x = 2 /\ y = 2 /\ z = 7)
  <2>1. CASE l = 0
    <3>1. 11 + l = 11 /\ 12 + l = 12
      BY <2>1
    <3> QED BY <2>1, <3>1, Zenon
  <2>2. CASE l = 1
    <3>1. 11 + l = 12 /\ 12 + l = 13
      BY <2>2
    <3> QED BY <2>2, <3>1, Zenon
  <2> QED BY <2>1, <2>2
<1>2. Off(P, 8) = 7 + 7 + 3 + 2 + 3 + 2 + 3 + 3
  BY OffSum, Zenon
<1>3. Off(P, Len(P)) = 7 + 7 + 3 + 2 + 3 + 2 + 3 + 3 + 2 + 2 + x + y + z
  BY OffSum, Zenon
<1> HIDE DEF x, y, z
<1>4. Off(P, Len(P)) <= 45
  <2> DEFINE o == Off(P, Len(P))
  <2>1. o = 34 + x + y + z /\ x \in Nat /\ y \in Nat /\ z \in Nat
    BY <1>1, <1>3
  <2> HIDE DEF o
  <2>2. x + y + z <= 11
    BY <1>1
  <2>3. o <= 45
    BY <2>1, <2>2
  <2> QED BY <2>3 DEF o
<1> QED BY <1>2, <1>4

(* add_queue_lpp_root(): 45 bytes, or 43 of a lamp that is not in the      *)
(* table of models.                                                        *)
LEMMA RootReport ==
    ASSUME NEW n \in ReportIds, NEW c \in Colors, NEW b \in Brights, NEW s \in Lamps,
           NEW t \in Int, NEW h \in Int, NEW P,
           P = LampRecords(n, c, b, t, h, s)
    PROVE  P \in Plan /\ ReportPlan([report |-> n, lamp |-> s], P)
<1> DEFINE v8 == (b * s.MODEL) \div 100  e == ErrorCode(s)
<1> DEFINE c1 == addNodeID(n)  c2 == addParentID(s.parent)  c3 == addColor(c)
           c4 == addLightControl(b)  c5 == addTemperature(t)  c6 == addRelativeHumidity(h)
           c7 == addVoltage(s.adc)  c8 == addPower(v8)  c9 == addError_code(e)
           c10 == addGen(s.GEN)
           d1 == addPowerINDEX(s.rssi)  d2 == addActuation(s.ledworking)
           m == ModelCalls(s.MODEL)
<1> DEFINE A == <<c1, c2, c3, c4, c5, c6, c7, c8, c9, c10>>  B == <<d1, d2>>
<1>0. P = A \o m \o B
  BY DEF LampRecords
<1>1. /\ s.parent \in Mac /\ s.GEN \in Byte /\ s.rssi \in Byte /\ s.MODEL \in Int
      /\ s.ledworking \in Int
  BY LampType
<1>2. n \in Mac /\ b \in Byte /\ c \in Int
  BY FieldTypes, LppAssumption
<1>3. s.adc \in Int
  <2>1. \A v \in ADC : v \in Int
    BY SMT DEF ADC
  <2> QED BY <2>1, LampType
<1>4. v8 \in Int
  <2>1. \A v \in Byte, w \in Int : (v * w) \div 100 \in Int
    BY SMT DEF Byte
  <2> QED BY <1>1, <1>2, <2>1
<1>5. e \in Byte
  BY ErrorCodeByte
<1> HIDE DEF v8, e
<1>6. /\ c1 \in Calls /\ Len(c1.bytes) = 6 /\ c2 \in Calls /\ Len(c2.bytes) = 6
  BY <1>1, <1>2, MacCalls
<1>7. /\ c3 \in Calls /\ Len(c3.bytes) = 2 /\ c5 \in Calls /\ Len(c5.bytes) = 2
      /\ c6 \in Calls /\ Len(c6.bytes) = 1 /\ c7 \in Calls /\ Len(c7.bytes) = 2
      /\ c8 \in Calls /\ Len(c8.bytes) = 2
  BY <1>2, <1>3, <1>4, WordCalls
<1>8. /\ c4 \in Calls /\ Len(c4.bytes) = 1 /\ c9 \in Calls /\ Len(c9.bytes) = 1
      /\ c10 \in Calls /\ Len(c10.bytes) = 1 /\ d1 \in Calls /\ Len(d1.bytes) = 1
  BY <1>1, <1>2, <1>5, SmallCalls
<1>9. d2 \in Calls /\ Len(d2.bytes) = 6
  BY <1>1, CarriedPosition
<1>13. /\ m \in Seq(Calls) /\ (Len(m) = 0 \/ Len(m) = 1)
       /\ Len(m) = 1 => Len(m[1].bytes) = 1
  BY <1>1, ModelType
<1> HIDE DEF c1, c2, c3, c4, c5, c6, c7, c8, c9, c10, d1, d2, m
<1>15. /\ A \in Seq(Calls) /\ Len(A) = 10 /\ B \in Seq(Calls) /\ Len(B) = 2
       /\ A[1] = c1 /\ A[2] = c2 /\ A[3] = c3 /\ A[4] = c4 /\ A[5] = c5 /\ A[6] = c6
       /\ A[7] = c7 /\ A[8] = c8 /\ A[9] = c9 /\ A[10] = c10 /\ B[1] = d1 /\ B[2] = d2
  BY <1>6, <1>7, <1>8, <1>9
<1> HIDE DEF A, B
<1> DEFINE l == Len(m)
<1>16. /\ P \in Plan /\ Len(P) = 12 + l /\ \A i \in 1 .. 10 : P[i] = A[i]
       /\ l = 1 => P[11] = m[1]
       /\ P[11 + l] = d1 /\ P[12 + l] = d2
  <2> DEFINE Q == A \o m \o B
  <2>1. /\ Q \in Plan /\ Len(Q) = 12 + Len(m) /\ \A i \in 1 .. 10 : Q[i] = A[i]
        /\ Len(m) = 1 => Q[11] = m[1]
        /\ Q[11 + Len(m)] = B[1] /\ Q[12 + Len(m)] = B[2]
    <3>1. /\ A \in Seq(Calls) /\ Len(A) = 10 /\ B \in Seq(Calls) /\ Len(B) = 2
          /\ m \in Seq(Calls) /\ (Len(m) = 0 \/ Len(m) = 1)
      BY <1>13, <1>15
    <3> QED BY <3>1, JoinedPlan
  <2>2. P = Q /\ B[1] = d1 /\ B[2] = d2
    BY <1>0, <1>15
  <2> HIDE DEF Q
  <2> QED BY <2>1, <2>2, Zenon
<1>17. l \in {0, 1} /\ (l = 1 => Len(P[11].bytes) = 1)
  BY <1>13, <1>16
<1> HIDE DEF l
<1>18. /\ P[1] = c1 /\ P[2] = c2 /\ P[3] = c3 /\ P[4] = c4 /\ P[5] = c5 /\ P[6] = c6
       /\ P[7] = c7 /\ P[8] = c8 /\ P[9] = c9 /\ P[10] = c10
  BY <1>15, <1>16
<1>19. /\ Len(P[1].bytes) = 6 /\ Len(P[2].bytes) = 6 /\ Len(P[3].bytes) = 2
       /\ Len(P[4].bytes) = 1 /\ Len(P[5].bytes) = 2 /\ Len(P[6].bytes) = 1
       /\ Len(P[7].bytes) = 2 /\ Len(P[8].bytes) = 2 /\ Len(P[9].bytes) = 1
       /\ Len(P[10].bytes) = 1
  BY <1>6, <1>7, <1>8, <1>18
<1>20. Len(P[11 + l].bytes) = 1 /\ Len(P[12 + l].bytes) = 6
  BY <1>8, <1>9, <1>16
<1>21. Off(P, 8) = 30 /\ Off(P, Len(P)) <= 45 /\ Len(P) >= 9
  <2>1. /\ \A i \in 1 .. 10 : i \in 1 .. Len(P)
        /\ 11 \in 1 .. Len(P) /\ 11 + l \in 1 .. Len(P) /\ 12 + l \in 1 .. Len(P)
        /\ (l = 0 => 13 \notin 1 .. Len(P)) /\ Len(P) >= 9
    <3> DEFINE k == Len(P)
    <3>1. k = 12 + l /\ (l = 0 \/ l = 1)
      BY <1>16, <1>17
    <3> HIDE DEF k
    <3>2. k = 12 \/ k = 13
      BY <3>1
    <3>3. \A i \in 1 .. 11 : i \in 1 .. k
      BY <3>2
    <3>4. 11 + l \in 1 .. k /\ 12 + l \in 1 .. k /\ (l = 0 => 13 \notin 1 .. k) /\ k >= 9
      BY <3>1
    <3> QED BY <3>3, <3>4 DEF k
  <2>2. /\ W(P, 1) = 1 + 6 /\ W(P, 2) = 1 + 6 /\ W(P, 3) = 1 + 2 /\ W(P, 4) = 1 + 1
        /\ W(P, 5) = 1 + 2 /\ W(P, 6) = 1 + 1 /\ W(P, 7) = 1 + 2 /\ W(P, 8) = 1 + 2
        /\ W(P, 9) = 1 + 1 /\ W(P, 10) = 1 + 1
    <3>1. \A i \in 1 .. 10 : W(P, i) = 1 + Len(P[i].bytes)
      BY <1>16, <2>1, RecordWidth
    <3>2. /\ W(P, 1) = 1 + Len(P[1].bytes) /\ W(P, 2) = 1 + Len(P[2].bytes)
          /\ W(P, 3) = 1 + Len(P[3].bytes) /\ W(P, 4) = 1 + Len(P[4].bytes)
          /\ W(P, 5) = 1 + Len(P[5].bytes)
      BY <3>1
    <3>3. /\ W(P, 6) = 1 + Len(P[6].bytes) /\ W(P, 7) = 1 + Len(P[7].bytes)
          /\ W(P, 8) = 1 + Len(P[8].bytes) /\ W(P, 9) = 1 + Len(P[9].bytes)
          /\ W(P, 10) = 1 + Len(P[10].bytes)
      BY <3>1
    <3>4. /\ W(P, 1) = 1 + 6 /\ W(P, 2) = 1 + 6 /\ W(P, 3) = 1 + 2 /\ W(P, 4) = 1 + 1
          /\ W(P, 5) = 1 + 2
      BY <1>19, <3>2, Zenon
    <3>5. /\ W(P, 6) = 1 + 1 /\ W(P, 7) = 1 + 2 /\ W(P, 8) = 1 + 2
          /\ W(P, 9) = 1 + 1 /\ W(P, 10) = 1 + 1
      BY <1>19, <3>3, Zenon
    <3> QED BY <3>4, <3>5
  <2>3. (l = 1 => W(P, 11) = 1 + 1) /\ W(P, 11 + l) = 1 + 1 /\ W(P, 12 + l) = 1 + 6
    <3>1. W(P, 11) = 1 + Len(P[11].bytes) /\ W(P, 11 + l) = 1 + Len(P[11 + l].bytes)
          /\ W(P, 12 + l) = 1 + Len(P[12 + l].bytes)
      BY <1>16, <2>1, RecordWidth
    <3> QED BY <1>17, <1>20, <3>1
  <2>4. l = 0 => W(P, 13) = 0
    BY <2>1 DEF W
  <2>5. /\ W(P, 1) = 7 /\ W(P, 2) = 7 /\ W(P, 3) = 3 /\ W(P, 4) = 2 /\ W(P, 5) = 3
        /\ W(P, 6) = 2 /\ W(P, 7) = 3 /\ W(P, 8) = 3 /\ W(P, 9) = 2 /\ W(P, 10) = 2
    BY <2>2
  <2>6. (l = 1 => W(P, 11) = 2) /\ W(P, 11 + l) = 2 /\ W(P, 12 + l) = 7
    BY <2>3
  <2>7. Off(P, 8) = 30 /\ Off(P, Len(P)) <= 45
    BY <1>16, <1>17, <2>4, <2>5, <2>6, RootLayout, Zenon
  <2> QED BY <2>1, <2>7
<1>22. P[1] = addNodeID(n) /\ P[9] = addError_code(ErrorCode(s)) /\ P # <<>>
  <2>1. P[1] = addNodeID(n) /\ P[9] = addError_code(ErrorCode(s))
    BY <1>18 DEF c1, c9, e
  <2>2. P # <<>>
    BY <1>21
  <2> QED BY <2>1, <2>2
<1> QED BY <1>16, <1>21, <1>22 DEF ReportPlan

(* add_queue_infomation(): 23 bytes.                                       *)
LEMMA PositionReport ==
    ASSUME NEW n \in ReportIds, NEW s \in Lamps, NEW P,
           P = <<addNodeID(n), addGPS(s.lat, s.lon, 0), addMESHID(s.meshid),
                 addMESHCH(s.meshch)>>
    PROVE  P \in Plan /\ ReportPlan([report |-> n], P)
<1> DEFINE c1 == addNodeID(n)  c2 == addGPS(s.lat, s.lon, 0)  c3 == addMESHID(s.meshid)
           c4 == addMESHCH(s.meshch)
<1>1. n \in Mac /\ s.lat \in Int /\ s.lon \in Int /\ s.meshid \in Int /\ s.meshch \in Int
  BY LampType, LppAssumption
<1>2. c1 \in Calls /\ Len(c1.bytes) = 6
  BY <1>1, MacCalls
<1>3. c2 \in Calls /\ Len(c2.bytes) = 9
  <2>1. 0 \in Int
    OBVIOUS
  <2> QED BY <1>1, <2>1, CarriedPosition, Zenon
<1>4. c3 \in Calls /\ Len(c3.bytes) = 3 /\ c4 \in Calls /\ Len(c4.bytes) = 1
  BY <1>1, WordCalls
<1>5. P = <<c1, c2, c3, c4>>
  OBVIOUS
<1> HIDE DEF c1, c2, c3, c4
<1>6. P \in Seq(Calls) /\ Len(P) = 4 /\ P[1] = c1 /\ P[2] = c2 /\ P[3] = c3 /\ P[4] = c4
  BY <1>2, <1>3, <1>4, <1>5
<1>7. P \in Plan
  BY <1>6 DEF Plan
<1>8. /\ W(P, 1) = 1 + Len(P[1].bytes) /\ W(P, 2) = 1 + Len(P[2].bytes)
      /\ W(P, 3) = 1 + Len(P[3].bytes) /\ W(P, 4) = 1 + Len(P[4].bytes)
  <2>1. 1 \in 1 .. Len(P) /\ 2 \in 1 .. Len(P) /\ 3 \in 1 .. Len(P) /\ 4 \in 1 .. Len(P)
    BY <1>6
  <2> QED BY <1>7, <2>1, RecordWidth
<1>9. W(P, 1) = 1 + 6 /\ W(P, 2) = 1 + 9 /\ W(P, 3) = 1 + 3 /\ W(P, 4) = 1 + 1
  BY <1>2, <1>3, <1>4, <1>6, <1>8, Zenon
<1>10. \A i \in 5 .. 13 : W(P, i) = 0
  BY <1>6 DEF W
<1>11. Off(P, Len(P)) <= 45
  <2> DEFINE o == Off(P, Len(P))
  <2>1. o = W(P, 1) + W(P, 2) + W(P, 3) + W(P, 4) + W(P, 5) + W(P, 6)
            + W(P, 7) + W(P, 8) + W(P, 9) + W(P, 10) + W(P, 11) + W(P, 12) + W(P, 13)
    BY <1>7, OffSum
  <2> HIDE DEF o
  <2>2. o = 23
    BY <1>9, <1>10, <2>1
  <2>3. o <= 45
    BY <2>2
  <2> QED BY <2>3 DEF o
<1>12. P[1] = addNodeID(n) /\ P # <<>>
  BY <1>5, <1>6 DEF c1
<1>13. "lamp" \notin DOMAIN [report |-> n]
  OBVIOUS
<1> QED BY <1>7, <1>11, <1>12, <1>13 DEF ReportPlan

-----------------------------------------------------------------------------
(* The layout of the buffer *)

(* Between CayenneLPP__create() and the next one, the buffer holds the     *)
(* records of the calls made so far, of a plan for what is sent.           *)
LayoutInv ==
    /\ phase \in {"idle", "encode", "decode", "done"}
    /\ buffer \in Seq(Byte)
    /\ phase = "idle" => buffer = <<>>
    /\ phase # "idle" =>
          \E P \in Plan :
              /\ Planned(sent, P) /\ Off(P, Len(P)) <= 45
              /\ \E k \in 0 .. Len(P) : Made(P, k)
    /\ phase \in {"decode", "done"} => calls = <<>>

(* CayenneLPP__create() *)
LEMMA LayoutCreated ==
    ASSUME NEW f, NEW P \in Plan, Planned(f, P), Off(P, Len(P)) <= 45, Create(f, P)
    PROVE  LayoutInv'
<1>1. /\ phase' = "encode" /\ calls' = P /\ sent' = f /\ buffer' = <<>>
  BY DEF Create
<1>2. P \in Seq(Calls) /\ Len(P) \in Nat
  BY PlanType
<1>3. P = SubSeq(P, 0 + 1, Len(P))
  <2>1. P = SubSeq(P, 1, Len(P)) /\ 0 + 1 = 1
    BY <1>2, SubSeqFull
  <2> QED BY <2>1
<1>4. Off(P, 0) = 0
  BY OffType
<1>5. Made(P, 0)'
  <2>1. \A i \in 1 .. 0 : RecordAt(P, i)'
    OBVIOUS
  <2>2. Len(buffer') = 0
    BY <1>1
  <2> QED BY <1>1, <1>3, <1>4, <2>1, <2>2 DEF Made
<1>6. 0 \in 0 .. Len(P)
  BY <1>2
<1>7. buffer' \in Seq(Byte)
  BY <1>1
<1>8. \E k \in 0 .. Len(P) : Made(P, k)'
  BY <1>5, <1>6
<1> QED BY <1>1, <1>7, <1>8 DEF LayoutInv, Planned, CommandPlan, ReportPlan

(* The commands *)
LEMMA CommandCreated ==
    ASSUME Commands
    PROVE  \E f, P : CommandPlan(f, P) /\ Create(f, P)
<1>1. CASE TypedCommand
  <2>1. PICK n \in NodeIds, c \in Colors, b \in Brights, t \in TypeControls :
          Create([nodeid |-> n, color |-> c, brightness |-> b, type_control |-> t],
                 <<addNodeID(n), addColor(c), addLightControl(b), addTypeControl(t)>>)
    BY <1>1 DEF TypedCommand
  <2> DEFINE f == [nodeid |-> n, color |-> c, brightness |-> b, type_control |-> t]
             P == <<addNodeID(n), addColor(c), addLightControl(b), addTypeControl(t)>>
  <2>2. f \in TypedFields
    BY DEF TypedFields
  <2>3. CommandPlan(f, P)
    BY <2>2 DEF CommandPlan
  <2> QED BY <2>1, <2>3
<1>2. CASE AutoCommand
  <2>1. PICK n \in NodeIds, c \in Colors, b \in Brights :
          Create([nodeid |-> n, color |-> c, brightness |-> b],
                 <<addNodeID(n), addColor(c), addLightControl(b)>>)
    BY <1>2 DEF AutoCommand
  <2> DEFINE f == [nodeid |-> n, color |-> c, brightness |-> b]
             P == <<addNodeID(n), addColor(c), addLightControl(b)>>
  <2>2. f \in AutoFields
    BY DEF AutoFields
  <2>3. CommandPlan(f, P)
    BY <2>2 DEF CommandPlan
  <2> QED BY <2>1, <2>3
<1>3. CASE OwnCommand
  <2>1. PICK c \in Colors, b \in Brights :
          Create([color |-> c, brightness |-> b], <<addColor(c), addLightControl(b)>>)
    BY <1>3 DEF OwnCommand
  <2> DEFINE f == [color |-> c, brightness |-> b]  P == <<addColor(c), addLightControl(b)>>
  <2>2. f \in OwnFields
    BY DEF OwnFields
  <2>3. CommandPlan(f, P)
    BY <2>2 DEF CommandPlan
  <2> QED BY <2>1, <2>3
<1>4. CASE GpsCommand
  <2>1. PICK n \in NodeIds :
          Create([nodeid |-> n, read_gps |-> 165], <<addNodeID(n), addReadGPS(165)>>)
    BY <1>4 DEF GpsCommand
  <2> DEFINE f == [nodeid |-> n, read_gps |-> 165]  P == <<addNodeID(n), addReadGPS(165)>>
  <2>2. f \in GpsFields
    BY DEF GpsFields
  <2>3. CommandPlan(f, P)
    BY <2>2 DEF CommandPlan
  <2> QED BY <2>1, <2>3
<1> QED BY <1>1, <1>2, <1>3, <1>4 DEF Commands

(* The reports *)
LEMMA ReportCreated ==
    ASSUME Reports
    PROVE  \E f, P : P \in Plan /\ ReportPlan(f, P) /\ Create(f, P)
<1>1. CASE add_queue_lpp_root
  <2>0. PICK n \in ReportIds, c \in Colors, b \in Brights, s \in Lamps :
             \E t \in Temperature(s), h \in Humidity(s) :
               Create([report |-> n, lamp |-> s], LampRecords(n, c, b, t, h, s))
    BY <1>1 DEF add_queue_lpp_root
  <2>1. PICK t \in Temperature(s), h \in Humidity(s) :
               Create([report |-> n, lamp |-> s], LampRecords(n, c, b, t, h, s))
    BY <2>0
  <2>2. t \in Int /\ h \in Int
    BY MeasuredType
  <2> DEFINE f == [report |-> n, lamp |-> s]  P == LampRecords(n, c, b, t, h, s)
  <2>3. P \in Plan /\ ReportPlan(f, P)
    BY <2>2, RootReport
  <2> QED BY <2>1, <2>3
<1>2. CASE add_queue_infomation
  <2>1. PICK n \in ReportIds, s \in Lamps :
          Create([report |-> n],
                 <<addNodeID(n), addGPS(s.lat, s.lon, 0), addMESHID(s.meshid),
                   addMESHCH(s.meshch)>>)
    BY <1>2 DEF add_queue_infomation
  <2> DEFINE f == [report |-> n]
             P == <<addNodeID(n), addGPS(s.lat, s.lon, 0), addMESHID(s.meshid),
                    addMESHCH(s.meshch)>>
  <2>2. P \in Plan /\ ReportPlan(f, P)
    BY PositionReport
  <2>3. Create(f, P)
    BY <2>1
  <2> HIDE DEF f, P
  <2> QED BY <2>2, <2>3
<1> QED BY <1>1, <1>2 DEF Reports

(* The decoder leaves the encoder's state alone.                           *)
LEMMA DecoderLeaves ==
    ASSUME Receive \/ ParseCMLPP
    PROVE  /\ UNCHANGED <<calls, sent, buffer>>
           /\ phase' \in {"decode", "done"}
           /\ (phase = "encode" /\ calls = <<>>) \/ phase = "decode"
<1>1. CASE Receive
  BY <1>1 DEF Receive
<1>2. CASE ParseCMLPP
  <2> USE DEF Record, TooShort, Parsing, Return
  <2>1. CASE ParseColor
    BY <2>1 DEF ParseColor
  <2>2. CASE ParseLightControl
    BY <2>2 DEF ParseLightControl
  <2>3. CASE ParseNodeId
    BY <2>3 DEF ParseNodeId
  <2>4. CASE ParseReadGps
    BY <2>4 DEF ParseReadGps
  <2>5. CASE ParseTypeControl
    BY <2>5 DEF ParseTypeControl
  <2>6. CASE ParseGps
    BY <2>6 DEF ParseGps
  <2>7. CASE UnknownType
    BY <2>7 DEF UnknownType
  <2>8. CASE EndOfPayload
    BY <2>8 DEF EndOfPayload
  <2> QED BY <1>2, <2>1, <2>2, <2>3, <2>4, <2>5, <2>6, <2>7, <2>8 DEF ParseCMLPP
<1> QED BY <1>1, <1>2

LEMMA LayoutStep ==
    ASSUME LayoutInv, [Next]_vars
    PROVE  LayoutInv'
<1>1. CASE Commands
  <2>1. PICK f, P : CommandPlan(f, P) /\ Create(f, P)
    BY <1>1, CommandCreated
  <2>2. P \in Plan /\ Off(P, Len(P)) <= 45 /\ Planned(f, P)
    BY <2>1, CommandFits DEF Planned
  <2> QED BY <2>1, <2>2, LayoutCreated
<1>2. CASE Reports
  <2>1. PICK f, P : P \in Plan /\ ReportPlan(f, P) /\ Create(f, P)
    BY <1>2, ReportCreated
  <2>2. Off(P, Len(P)) <= 45 /\ Planned(f, P)
    BY <2>1 DEF Planned, ReportPlan
  <2> QED BY <2>1, <2>2, LayoutCreated
<1>3. CASE Add
  <2>1. phase = "encode" /\ phase' = "encode" /\ sent' = sent
    BY <1>3 DEF Add
  <2>2. PICK P \in Plan : /\ Planned(sent, P) /\ Off(P, Len(P)) <= 45
                          /\ \E k \in 0 .. Len(P) : Made(P, k)
    BY <2>1 DEF LayoutInv
  <2>3. PICK k \in 0 .. Len(P) : Made(P, k)
    BY <2>2
  <2>4. k + 1 \in 0 .. Len(P) /\ Made(P, k + 1)' /\ buffer' \in Seq(Byte)
    BY <1>3, <2>2, <2>3, MadeAdd DEF LayoutInv
  <2>5. Planned(sent, P)'
    BY <2>1, <2>2 DEF Planned, CommandPlan, ReportPlan
  <2>6. \E j \in 0 .. Len(P) : Made(P, j)'
    BY <2>4
  <2> QED BY <2>1, <2>2, <2>4, <2>5, <2>6 DEF LayoutInv
<1>4. ASSUME UNCHANGED <<calls, sent, buffer>>, phase # "idle", phase' # "idle",
             phase' \in {"encode", "decode", "done"},
             phase' \in {"decode", "done"} => calls = <<>>
      PROVE  LayoutInv'
  <2>1. PICK P \in Plan : /\ Planned(sent, P) /\ Off(P, Len(P)) <= 45
                          /\ \E k \in 0 .. Len(P) : Made(P, k)
    BY <1>4 DEF LayoutInv
  <2>2. PICK k \in 0 .. Len(P) : Made(P, k)
    BY <2>1
  <2>3. Made(P, k)'
    BY <1>4, <2>2 DEF Made, RecordAt
  <2>4. Planned(sent, P)'
    BY <1>4, <2>1 DEF Planned, CommandPlan, ReportPlan
  <2>5. \E j \in 0 .. Len(P) : Made(P, j)'
    BY <2>3
  <2>6. buffer' \in Seq(Byte) /\ (phase' \in {"decode", "done"} => calls' = <<>>)
    BY <1>4 DEF LayoutInv
  <2> QED BY <1>4, <2>1, <2>4, <2>5, <2>6 DEF LayoutInv
<1>5. CASE Receive \/ ParseCMLPP
  <2>1. /\ UNCHANGED <<calls, sent, buffer>> /\ phase' \in {"decode", "done"}
        /\ (phase = "encode" /\ calls = <<>>) \/ phase = "decode"
    BY <1>5, DecoderLeaves
  <2>2. calls = <<>>
    BY <2>1 DEF LayoutInv
  <2> QED BY <1>4, <2>1, <2>2
<1>6. CASE UNCHANGED vars
  <2>1. CASE phase = "idle"
    BY <1>6, <2>1 DEF vars, LayoutInv
  <2>2. CASE phase # "idle"
    BY <1>4, <1>6, <2>2 DEF vars, LayoutInv
  <2> QED BY <2>1, <2>2
<1> QED BY <1>1, <1>2, <1>3, <1>5, <1>6 DEF Next

LEMMA LayoutInit ==
    ASSUME Init
    PROVE  LayoutInv
BY DEF Init, LayoutInv

(* All the calls of the plan have been made when the text is received.     *)
LEMMA AllMade ==
    ASSUME LayoutInv, phase # "idle", calls = <<>>
    PROVE  \E P \in Plan : Planned(sent, P) /\ Off(P, Len(P)) <= 45 /\ Made(P, Len(P))
<1>1. phase # "idle" /\ calls = <<>>
  OBVIOUS
<1>2. PICK P \in Plan : /\ Planned(sent, P) /\ Off(P, Len(P)) <= 45
                        /\ \E k \in 0 .. Len(P) : Made(P, k)
  BY <1>1 DEF LayoutInv
<1>3. PICK k \in 0 .. Len(P) : Made(P, k)
  BY <1>2
<1>4. k = Len(P)
  <2>1. P \in Seq(Calls) /\ Len(P) \in Nat
    BY PlanType
  <2>2. SubSeq(P, k + 1, Len(P)) = <<>>
    BY <1>1, <1>3 DEF Made
  <2>3. Len(SubSeq(P, k + 1, Len(P))) = IF k + 1 <= Len(P) THEN Len(P) - (k + 1) + 1 ELSE 0
    BY <2>1, SubSeqProperties
  <2> DEFINE l == Len(P)  z == Len(SubSeq(P, k + 1, Len(P)))
  <2>4. z = 0 /\ l \in Nat /\ k \in 0 .. l
    BY <2>1, <2>2
  <2>5. z = IF k + 1 <= l THEN l - (k + 1) + 1 ELSE 0
    BY <2>3
  <2> HIDE DEF l, z
  <2>6. k = l
    BY <2>4, <2>5
  <2> QED BY <2>6 DEF l
<1> QED BY <1>2, <1>3, <1>4

LEMMA LayoutFits ==
    ASSUME LayoutInv
    PROVE  ReportFits
<1>1. CASE phase = "idle"
  BY <1>1 DEF LayoutInv, ReportFits, ALLOCATED
<1>2. CASE phase # "idle"
  <2>1. PICK P \in Plan : /\ Planned(sent, P) /\ Off(P, Len(P)) <= 45
                          /\ \E k \in 0 .. Len(P) : Made(P, k)
    BY <1>2 DEF LayoutInv
  <2>2. PICK k \in 0 .. Len(P) : Made(P, k)
    BY <2>1
  <2>3. Len(P) \in 0 .. 13 /\ k \in Nat
    BY PlanType
  <2>4. Off(P, k) <= Off(P, Len(P))
    BY <2>3, OffMonotone
  <2>5. Off(P, k) \in Nat /\ Off(P, Len(P)) \in Nat
    BY <2>3, OffType
  <2>6. Len(buffer) = Off(P, k)
    BY <2>2 DEF Made
  <2> DEFINE o == Off(P, k)  e == Off(P, Len(P))
  <2>7. o \in Nat /\ e \in Nat /\ o <= e /\ e <= 45
    BY <2>1, <2>4, <2>5
  <2> HIDE DEF o, e
  <2>8. o < 51
    BY <2>7
  <2> QED BY <2>6, <2>8 DEF o, ReportFits, ALLOCATED
<1> QED BY <1>1, <1>2

(* Every payload that CMLPP.c writes for the commands and the reports fits *)
(* the 51 bytes of CayenneLPP__create(51), although CayenneLPP__add checks *)
(* against 255, and leaves a byte for the terminator of test().            *)
THEOREM ReportsFit == Spec => []ReportFits
<1>1. Init => LayoutInv
  BY LayoutInit
<1>2. LayoutInv /\ [Next]_vars => LayoutInv'
  BY LayoutStep
<1>3. LayoutInv => ReportFits
  BY LayoutFits
<1> QED BY <1>1, <1>2, <1>3, PTL DEF Spec

(* The reading behind the alarm: more than 80 degrees is the raw value     *)
(* 47312 and more, of a transaction that succeeded.                        *)
LEMMA HotReading ==
    ASSUME NEW a \in Answers
    PROVE  (\E t \in si7021_read_temperature(a) : t > 8000 * 65536)
           <=> a.err = "none" /\ a.raw >= 47312
<1> DEFINE w == a.raw  r == si7021_read(a)  K == 4685 * 65536  L == 8000 * 65536
<1>1. w \in Raw
  BY DEF Answers
<1>2. \A x \in Raw : ((x - (x % 4)) * 17572 - 4685 * 65536 > 8000 * 65536 <=> x >= 47312)
  BY SMT DEF Raw
<1>3. \A x \in Raw : x >= 47312 => x - (x % 4) # 0
  BY SMT DEF Raw
<1>4. r = IF a.err # "none" THEN 0 ELSE w - (w % 4)
  BY DEF si7021_read
<1>5. si7021_read_temperature(a) = IF r = 0 THEN {} ELSE {r * 17572 - 4685 * 65536}
  BY DEF si7021_read_temperature
<1> HIDE DEF w, r
<1>6. CASE a.err # "none"
  <2>1. si7021_read_temperature(a) = {}
    BY <1>4, <1>5, <1>6, SMT
  <2> QED BY <1>6, <2>1, SMT
<1>7. CASE a.err = "none"
  <2>1. r = w - (w % 4)
    BY <1>4, <1>7
  <2>2. (r * 17572 - 4685 * 65536 > 8000 * 65536 <=> w >= 47312) /\ (w >= 47312 => r # 0)
    BY <1>1, <1>2, <1>3, <2>1, SMT
  <2>3. r = 0 => ~(w >= 47312)
    BY <2>2
  <2>4. CASE r = 0
    <3>1. si7021_read_temperature(a) = {}
      BY <1>5, <2>4, SMT
    <3> QED BY <2>3, <2>4, <3>1, SMT DEF w
  <2>5. CASE r # 0
    <3>1. si7021_read_temperature(a) = {r * 17572 - 4685 * 65536}
      BY <1>5, <2>5, SMT
    <3> QED BY <1>7, <2>2, <3>1, SMT DEF w
  <2> QED BY <2>4, <2>5, SMT
<1> QED BY <1>6, <1>7, SMT

(* The alarm is in the ninth record of a lamp's report.                    *)
LEMMA LayoutAlarm ==
    ASSUME LayoutInv
    PROVE  AlarmIsMeasured
<1> SUFFICES ASSUME phase = "decode", "lamp" \in DOMAIN sent
             PROVE  /\ buffer[31] = 146
                    /\ buffer[32] = 3 <=> /\ sent.lamp.adc \in 3100 .. 4095
                                          /\ sent.lamp.temp_again.err = "none"
                                          /\ sent.lamp.temp_again.raw >= 47312
  BY SMT DEF AlarmIsMeasured
<1> DEFINE s == sent.lamp
<1>0. phase # "idle" /\ calls = <<>>
  BY DEF LayoutInv
<1>1. PICK P \in Plan : Planned(sent, P) /\ Off(P, Len(P)) <= 45 /\ Made(P, Len(P))
  BY <1>0, AllMade
<1>2. ReportPlan(sent, P)
  <2>1. ASSUME CommandPlan(sent, P)
        PROVE  FALSE
    <3>1. DOMAIN sent \subseteq {"nodeid", "color", "brightness", "type_control", "read_gps"}
      BY <2>1 DEF CommandPlan, TypedFields, AutoFields, OwnFields, GpsFields
    <3> QED BY <3>1
  <2> QED BY <1>1, <2>1 DEF Planned
<1>3. s \in Lamps /\ Len(P) >= 9 /\ Off(P, 8) = 30 /\ P[9] = addError_code(ErrorCode(s))
  BY <1>2 DEF ReportPlan
<1>4. Len(P) \in Nat
  BY PlanType
<1> DEFINE e == ErrorCode(s)
<1>5. e \in Byte /\ s.temp_again \in Answers
  BY <1>3, ErrorCodeByte, LampType
<1>6. e = 3 <=> /\ s.adc \in 3100 .. 4095
                /\ s.temp_again.err = "none" /\ s.temp_again.raw >= 47312
  <2> DEFINE hot == \E t \in si7021_read_temperature(s.temp_again) : t > 8000 * 65536
             A == s.adc \in 3100 .. 4095
             H == s.temp_again.err = "none" /\ s.temp_again.raw >= 47312
  <2>1. e = 3 <=> A /\ hot
    BY <1>3, ErrorCodeIs, SMT
  <2>2. hot <=> H
    BY <1>5, HotReading, SMT
  <2> HIDE DEF hot, A, H, e
  <2>3. e = 3 <=> A /\ H
    BY <2>1, <2>2
  <2> QED BY <2>3, SMT DEF A, H
<1> HIDE DEF e
<1>7. buffer[31] = 146 /\ buffer[32] = e
  <2> DEFINE c == P[9]
  <2>1. c = Call(146, 2, <<e>>)
    BY <1>3 DEF e, addError_code
  <2>2. c.type = 146 /\ c.bytes = <<e>> /\ Len(c.bytes) = 1
    BY <1>5, <2>1, Types, CarriedByte
  <2>3. RecordAt(P, 9)
    <3>1. 9 \in 1 .. Len(P)
      BY <1>3, <1>4
    <3> QED BY <1>1, <3>1 DEF Made
  <2>4. Off(P, 9 - 1) + 1 = 31 /\ Off(P, 9 - 1) + 1 + 1 = 32
    <3>1. 9 - 1 = 8
      OBVIOUS
    <3> QED BY <1>3, <3>1
  <2>5. buffer[31] = c.type /\ \A j \in 1 .. Len(c.bytes) : buffer[31 + j] = c.bytes[j]
    BY <2>3, <2>4 DEF RecordAt
  <2>6. 1 \in 1 .. Len(c.bytes) /\ 31 + 1 = 32
    BY <2>2
  <2>7. buffer[32] = c.bytes[1]
    BY <2>5, <2>6
  <2> QED BY <2>2, <2>5, <2>7
<1> QED BY <1>6, <1>7, SMT

(* The error code 3 of add_queue_lpp_root() lies at its place in the       *)
(* report, and it is there exactly if the supply voltage was in its range  *)
(* and si7021_read_temperature(), called for the second time, measured     *)
(* more than 80 degrees: for every lamp and every answer of the sensor.    *)
THEOREM AlarmsAreMeasured == Spec => []AlarmIsMeasured
<1>1. Init => LayoutInv
  BY LayoutInit
<1>2. LayoutInv /\ [Next]_vars => LayoutInv'
  BY LayoutStep
<1>3. LayoutInv => AlarmIsMeasured
  BY LayoutAlarm
<1> QED BY <1>1, <1>2, <1>3, PTL DEF Spec

-----------------------------------------------------------------------------
(* The text *)

LEMMA HalfOf ==
    ASSUME NEW n \in Nat
    PROVE  (2 * n) \div 2 = n /\ (2 * n) % 2 = 0
OBVIOUS

LEMMA DigitPlaces ==
    ASSUME NEW n \in Nat, NEW i \in 1 .. n
    PROVE  /\ 2 * i - 1 \in 1 .. 2 * n /\ 2 * i \in 1 .. 2 * n
           /\ ((2 * i - 1) + 1) \div 2 = i /\ (2 * i - 1) % 2 = 1
           /\ (2 * i + 1) \div 2 = i /\ (2 * i) % 2 = 0
<1>1. (2 * i) \div 2 = i /\ (2 * i) % 2 = 0
  BY HalfOf
<1>2. (2 * i - 1) + 1 = 2 * i
  OBVIOUS
<1>3. (2 * i + 1) \div 2 = i /\ (2 * i - 1) % 2 = 1
  OBVIOUS
<1>4. 2 * i - 1 \in 1 .. 2 * n /\ 2 * i \in 1 .. 2 * n
  OBVIOUS
<1> QED BY <1>1, <1>2, <1>3, <1>4

LEMMA DigitsOf ==
    ASSUME NEW x \in Byte
    PROVE  /\ x \div 16 \in Int /\ x % 16 \in Int
           /\ 16 * (x \div 16) + (x % 16) = x
BY SMT DEF Byte

(* test() turns the text "%02X" of bytes back into the bytes.              *)
LEMMA TextBack ==
    ASSUME NEW b \in Seq(Byte)
    PROVE  test(HexText(b)) = b
<1> DEFINE n == Len(b)  s == HexText(b)
<1>1. n \in Nat /\ b = [i \in 1 .. n |-> b[i]] /\ \A i \in 1 .. n : b[i] \in Byte
  OBVIOUS
<1>2. s = [i \in 1 .. 2 * n |->
             IF i % 2 = 1 THEN b[(i + 1) \div 2] \div 16 ELSE b[(i + 1) \div 2] % 16]
  BY DEF HexText
<1> HIDE DEF s
<1>3. \A i \in 1 .. n : s[2 * i - 1] = b[i] \div 16 /\ s[2 * i] = b[i] % 16
  <2> HIDE DEF n
  <2> SUFFICES ASSUME NEW i \in 1 .. n
               PROVE  s[2 * i - 1] = b[i] \div 16 /\ s[2 * i] = b[i] % 16
    OBVIOUS
  <2> DEFINE p == 2 * i - 1  q == 2 * i
  <2>1. /\ p \in 1 .. 2 * n /\ q \in 1 .. 2 * n
        /\ (p + 1) \div 2 = i /\ p % 2 = 1 /\ (q + 1) \div 2 = i /\ q % 2 = 0
    BY <1>1, DigitPlaces
  <2> HIDE DEF p, q
  <2>2. s[p] = b[i] \div 16
    BY <1>2, <2>1
  <2>3. s[q] = b[i] % 16
    BY <1>2, <2>1
  <2> QED BY <2>2, <2>3 DEF p, q
<1>4. Len(s) = 2 * n
  <2> HIDE DEF n
  <2>1. 2 * n \in Nat
    BY <1>1
  <2> QED BY <1>2, <2>1
<1>5. Len(s) \div 2 = n
  BY <1>1, <1>4, HalfOf
<1>6. test(s) = [i \in 1 .. n |-> 16 * s[2 * i - 1] + s[2 * i]]
  BY <1>5 DEF test
<1>7. \A i \in 1 .. n : 16 * s[2 * i - 1] + s[2 * i] = b[i]
  BY <1>1, <1>3, DigitsOf
<1>8. test(s) = b
  <2> HIDE DEF n
  <2> QED BY <1>1, <1>6, <1>7
<1> QED BY <1>8 DEF s

(* A set of positions has a least one.                                     *)
LEMMA LeastPosition ==
    ASSUME NEW S \in SUBSET Nat, S # {}
    PROVE  Min(S) \in S /\ \A y \in S : Min(S) <= y
<1> DEFINE R == OpToRel(<, Nat)
<1>1. R = {ss \in Nat \X Nat : ss[1] < ss[2]}
  BY DEF OpToRel
<1>2. IsWellFoundedOn(R, Nat)
  BY NatLessThanWellFounded
<1> HIDE DEF R
<1>3. PICK x \in S : \A y \in S : ~(<<y, x>> \in R)
  BY <1>2, WFMin
<1>4. ASSUME NEW y \in S
      PROVE  x <= y
  <2>1. <<y, x>> \in Nat \X Nat /\ <<y, x>>[1] = y /\ <<y, x>>[2] = x
    OBVIOUS
  <2>2. ~(y < x)
    BY <1>1, <1>3, <2>1
  <2> QED BY <2>2
<1>5. \E z \in S : \A y \in S : z <= y
  BY <1>4
<1> QED BY <1>5 DEF Min

(* The C string made of b: the m bytes before the first zero.              *)
CutAt(b, m) ==
    /\ m \in 0 .. Len(b)
    /\ \A i \in 1 .. m : b[i] # 0
    /\ m < Len(b) => b[m + 1] = 0

LEMMA CStringCuts ==
    ASSUME NEW b \in Seq(Byte)
    PROVE  \E m \in Nat : CutAt(b, m) /\ CString(b) = SubSeq(b, 1, m)
<1> DEFINE n == Len(b)
           I == {i \in 1 .. n : b[i] = 0}
           z == SelectInSeq(b, LAMBDA x : x = 0)
<1>1. z = IF I # {} THEN Min(I) ELSE 0
  BY DEF SelectInSeq
<1>2. CString(b) = IF z = 0 THEN b ELSE SubSeq(b, 1, z - 1)
  BY DEF CString
<1>3. n \in Nat
  OBVIOUS
<1> HIDE DEF z
<1>4. CASE I = {}
  <2>1. \A i \in 1 .. n : b[i] # 0
    BY <1>4
  <2>2. CString(b) = b /\ b = SubSeq(b, 1, n)
    BY <1>1, <1>2, <1>4, SubSeqFull
  <2>3. CutAt(b, n)
    BY <1>3, <2>1 DEF CutAt
  <2> QED BY <1>3, <2>2, <2>3
<1>5. CASE I # {}
  <2>1. I \in SUBSET Nat
    BY <1>3
  <2>2. z = Min(I)
    BY <1>1, <1>5
  <2>3. z \in I /\ \A y \in I : z <= y
    <3> HIDE DEF I
    <3> QED BY <1>5, <2>1, <2>2, LeastPosition
  <2>4. z \in 1 .. n /\ b[z] = 0
    BY <2>3
  <2>5. \A i \in 1 .. z - 1 : b[i] # 0
    <3> SUFFICES ASSUME NEW i \in 1 .. z - 1, b[i] = 0
                 PROVE  FALSE
      OBVIOUS
    <3>1. i \in 1 .. n /\ ~(z <= i)
      BY <1>3, <2>4
    <3>2. i \in I
      BY <3>1
    <3> QED BY <2>3, <3>1, <3>2
  <2> DEFINE m == z - 1
  <2>6. m \in 0 .. n /\ m \in Nat /\ m + 1 = z /\ z # 0
    BY <1>3, <2>4
  <2>7. CutAt(b, m)
    <3> HIDE DEF n
    <3> QED BY <2>4, <2>5, <2>6 DEF CutAt, n
  <2> QED BY <1>2, <2>6, <2>7
<1> QED BY <1>4, <1>5

-----------------------------------------------------------------------------
(* The decoder *)

(* pBuffer has reached the byte o of the C string of m bytes.              *)
Window(o, m) ==
    /\ rest \in Seq(Byte) /\ Len(rest) = m - o
    /\ \A i \in 1 .. m - o : rest[i] = buffer[o + i]

LEMMA Received ==
    ASSUME buffer \in Seq(Byte), Receive
    PROVE  \E m \in Nat : CutAt(buffer, m) /\ Window(0, m)'
<1>1. rest' = CString(test(HexText(buffer))) /\ buffer' = buffer
  BY DEF Receive
<1>2. rest' = CString(buffer)
  BY <1>1, TextBack
<1>3. PICK m \in Nat : CutAt(buffer, m) /\ CString(buffer) = SubSeq(buffer, 1, m)
  BY CStringCuts
<1>4. \A i \in 1 .. m : buffer[i] \in Byte
  <2>1. Len(buffer) \in Nat /\ m <= Len(buffer)
    BY <1>3 DEF CutAt
  <2>2. \A i \in 1 .. m : i \in 1 .. Len(buffer)
    BY <2>1
  <2> QED BY <2>2
<1> DEFINE s == SubSeq(buffer, 1, m)
<1>5. /\ s \in Seq(Byte) /\ Len(s) = IF 1 <= m THEN m - 1 + 1 ELSE 0
      /\ \A i \in 1 .. m - 1 + 1 : s[i] = buffer[1 + i - 1]
  BY <1>4, SubSeqProperties
<1> HIDE DEF s
<1>6. Len(s) = m - 0 /\ \A i \in 1 .. m - 0 : s[i] = buffer[0 + i]
  <2>1. \A i \in 1 .. m - 0 : i \in 1 .. m - 1 + 1 /\ 1 + i - 1 = 0 + i
    OBVIOUS
  <2> QED BY <1>5, <2>1
<1>7. rest' = s
  BY <1>2, <1>3 DEF s
<1>8. Window(0, m)'
  BY <1>1, <1>5, <1>6, <1>7 DEF Window
<1> QED BY <1>3, <1>8

(* The decoder goes on behind a record.                                    *)
LEMMA Advanced ==
    ASSUME NEW o \in Nat, NEW m \in Nat, o <= m, Window(o, m), NEW size \in 1 .. 7,
           Len(rest) >= size, rest' = SubSeq(rest, size + 1, Len(rest)), buffer' = buffer
    PROVE  o + size <= m /\ Window(o + size, m)'
<1> DEFINE n == Len(rest)
<1>1. n = m - o /\ n \in Nat /\ rest \in Seq(Byte)
  BY DEF Window
<1>2. \A i \in 1 .. n : rest[i] \in Byte
  BY <1>1
<1> HIDE DEF n
<1>3. size <= n
  BY DEF n
<1>4. \A i \in size + 1 .. n : rest[i] \in Byte
  BY <1>1, <1>2
<1> DEFINE s == SubSeq(rest, size + 1, n)
<1>5. /\ s \in Seq(Byte) /\ Len(s) = IF size + 1 <= n THEN n - (size + 1) + 1 ELSE 0
      /\ \A i \in 1 .. n - (size + 1) + 1 : s[i] = rest[(size + 1) + i - 1]
  <2>1. size + 1 \in Int /\ n \in Int
    BY <1>1
  <2> QED BY <1>4, <2>1, SubSeqProperties
<1> HIDE DEF s
<1>6. Len(s) = m - (o + size) /\ o + size <= m
  BY <1>1, <1>3, <1>5
<1>7. \A i \in 1 .. m - (o + size) : s[i] = buffer[(o + size) + i]
  <2> SUFFICES ASSUME NEW i \in 1 .. m - (o + size)
               PROVE  s[i] = buffer[(o + size) + i]
    OBVIOUS
  <2>1. i \in 1 .. n - (size + 1) + 1 /\ (size + 1) + i - 1 = size + i
    BY <1>1
  <2>2. size + i \in 1 .. m - o /\ o + (size + i) = (o + size) + i
    BY <1>1
  <2>3. s[i] = rest[size + i]
    BY <1>5, <2>1
  <2>4. rest[size + i] = buffer[o + (size + i)]
    BY <2>2 DEF Window
  <2> QED BY <2>2, <2>3, <2>4
<1>8. rest' = s
  BY DEF s, n
<1> QED BY <1>5, <1>6, <1>7, <1>8 DEF Window

(* The bytes of the record in front of the decoder.                        *)
LEMMA FieldBytes ==
    ASSUME NEW o \in Nat, NEW m \in Nat, o <= m, Window(o, m), NEW size \in 2 .. 7,
           Len(rest) >= size, NEW v \in Seq(Byte), Len(v) = size - 1,
           \A i \in 1 .. Len(v) : buffer[o + 1 + i] = v[i]
    PROVE  SubSeq(rest, 2, size) = v
<1> DEFINE n == Len(rest)  s == SubSeq(rest, 2, size)
<1>1. n = m - o /\ n \in Nat /\ rest \in Seq(Byte) /\ size <= n
  BY DEF Window
<1>2. \A i \in 1 .. n : rest[i] \in Byte
  BY <1>1
<1> HIDE DEF n
<1>3. \A i \in 2 .. size : rest[i] \in Byte
  BY <1>1, <1>2
<1>4. /\ s \in Seq(Byte) /\ Len(s) = IF 2 <= size THEN size - 2 + 1 ELSE 0
      /\ \A i \in 1 .. size - 2 + 1 : s[i] = rest[2 + i - 1]
  <2>1. 2 \in Int /\ size \in Int
    OBVIOUS
  <2> QED BY <1>3, <2>1, SubSeqProperties
<1> HIDE DEF s
<1>5. Len(s) = size - 1
  BY <1>4
<1>6. \A i \in 1 .. size - 1 : s[i] = v[i]
  <2> SUFFICES ASSUME NEW i \in 1 .. size - 1
               PROVE  s[i] = v[i]
    OBVIOUS
  <2>1. i \in 1 .. size - 2 + 1 /\ 2 + i - 1 = 1 + i /\ 1 + i \in 1 .. m - o
        /\ o + (1 + i) = o + 1 + i
    BY <1>1
  <2>2. s[i] = rest[1 + i]
    BY <1>4, <2>1
  <2>3. rest[1 + i] = buffer[o + (1 + i)]
    BY <2>1 DEF Window
  <2>4. i \in 1 .. Len(v)
    OBVIOUS
  <2> QED BY <2>1, <2>2, <2>3, <2>4
<1>7. s = v
  BY <1>4, <1>5, <1>6
<1> QED BY <1>7 DEF s

LEMMA ValueBack ==
    /\ \A c \in Word : Value(BigEndian2(c)) = c
    /\ \A v \in Byte : Value(<<v>>) = v
<1>1. ASSUME NEW c \in Word
      PROVE  Value(BigEndian2(c)) = c
  <2> DEFINE x == (c \div 256) % 256  y == c % 256  b == BigEndian2(c)
  <2>a. \A d \in Word : d \div 256 \in Byte /\ (d \div 256) * 256 + (d % 256) = d
    BY SMT DEF Word, Byte
  <2>b. \A e \in Byte : e % 256 = e
    BY SMT DEF Byte
  <2>1. \A d \in Word : ((d \div 256) % 256) * 256 + (d % 256) = d
    BY <2>a, <2>b
  <2>2. x * 256 + y = c
    BY <2>1
  <2>3. b = <<x, y>>
    BY DEF BigEndian2
  <2> HIDE DEF x, y, b
  <2>4. Len(b) = 2 /\ b[1] = x /\ b[2] = y
    BY <2>3
  <2>5. Value(b) = b[1] * 256 + b[2]
    BY <2>4 DEF Value
  <2> QED BY <2>2, <2>4, <2>5 DEF b
<1>2. ASSUME NEW v \in Byte
      PROVE  Value(<<v>>) = v
  BY DEF Value
<1> QED BY <1>1, <1>2

LEMMA ParseIsDecoding ==
    ASSUME ParseCMLPP
    PROVE  phase = "decode"
BY DEF ParseCMLPP, ParseColor, ParseLightControl, ParseNodeId, ParseReadGps, ParseTypeControl,
       ParseGps, UnknownType, EndOfPayload, Record, TooShort, Parsing

(* What ParseCMLPP() has found stays in the JSON object.                   *)
LEMMA RootGrows ==
    ASSUME ParseCMLPP
    PROVE  root' = root \/ \E name, item : root' = AddItem(root, name, item)
<1> USE DEF Record, TooShort, Return
<1>1. CASE ParseColor
  BY <1>1 DEF ParseColor
<1>2. CASE ParseLightControl
  BY <1>2 DEF ParseLightControl
<1>3. CASE ParseNodeId
  BY <1>3 DEF ParseNodeId
<1>4. CASE ParseReadGps
  BY <1>4 DEF ParseReadGps
<1>5. CASE ParseTypeControl
  BY <1>5 DEF ParseTypeControl
<1>6. CASE ParseGps
  BY <1>6 DEF ParseGps
<1>7. CASE UnknownType
  BY <1>7 DEF UnknownType
<1>8. CASE EndOfPayload
  BY <1>8 DEF EndOfPayload
<1> QED BY <1>1, <1>2, <1>3, <1>4, <1>5, <1>6, <1>7, <1>8 DEF ParseCMLPP

-----------------------------------------------------------------------------
(* The node id of a report *)

(* No byte of a node's address is zero.                                    *)
ZeroFreeIds == \A n \in ReportIds : \A i \in 1 .. 6 : n[i] # 0

(* The decoder is in front of the node id, or has found it.                *)
ReportInv ==
    phase \in {"decode", "done"} /\ ~IsCommand =>
        \/ /\ phase = "decode" /\ root = <<>>
           /\ \E m \in Nat : m >= 7 /\ Window(0, m)
        \/ "nodeid" \in DOMAIN root /\ root.nodeid = sent.report

LEMMA FirstRecord ==
    ASSUME LayoutInv, phase # "idle", calls = <<>>, ~IsCommand
    PROVE  /\ sent.report \in ReportIds /\ sent.report \in Mac
           /\ buffer \in Seq(Byte) /\ Len(buffer) \in Nat /\ Len(buffer) >= 7
           /\ buffer[1] = 150 /\ \A i \in 1 .. 6 : buffer[1 + i] = sent.report[i]
<1>1. PICK P \in Plan : Planned(sent, P) /\ Made(P, Len(P))
  BY AllMade
<1>2. ReportPlan(sent, P)
  <2>1. CommandPlan(sent, P) => "report" \notin DOMAIN sent
    BY CommandCarries
  <2> QED BY <1>1, <2>1 DEF Planned, IsCommand
<1> DEFINE n == sent.report  c == P[1]
<1>3. n \in ReportIds /\ c = addNodeID(n) /\ P # <<>>
  BY <1>2 DEF ReportPlan
<1>4. n \in Mac
  BY <1>3, LppAssumption
<1>5. c.type = 150 /\ c.bytes = n /\ Len(c.bytes) = 6
  BY <1>3, <1>4, CarriedNodeId
<1>6. P \in Seq(Calls) /\ Len(P) \in 0 .. 13
  BY PlanType
<1>7. 1 \in 1 .. Len(P)
  BY <1>3, <1>6
<1>8. RecordAt(P, 1)
  BY <1>1, <1>7 DEF Made
<1>9. Off(P, 1 - 1) = 0 /\ Off(P, 1) = Off(P, 1 - 1) + 1 + Len(c.bytes)
  <2>1. 1 - 1 = 0
    OBVIOUS
  <2> QED BY <1>7, <2>1, OffType, RecordEnds
<1>10. Off(P, 1) = 7
  BY <1>5, <1>9
<1>11. Len(buffer) >= 7
  <2>1. Off(P, 1) <= Off(P, Len(P))
    <3> DEFINE l == Len(P)
    <3>1. l \in 0 .. 13 /\ 1 \in 1 .. l
      BY <1>6, <1>7
    <3> HIDE DEF l
    <3>2. 1 \in 0 .. l
      BY <3>1
    <3>3. Off(P, 1) <= Off(P, l)
      BY <3>1, <3>2, OffMonotone
    <3> QED BY <3>3 DEF l
  <2>2. Len(buffer) = Off(P, Len(P))
    BY <1>1 DEF Made
  <2>3. buffer \in Seq(Byte) /\ Len(buffer) \in Nat
    BY DEF LayoutInv
  <2> QED BY <1>10, <2>1, <2>2, <2>3
<1>12. buffer[0 + 1] = c.type /\ \A j \in 1 .. Len(c.bytes) : buffer[0 + 1 + j] = c.bytes[j]
  BY <1>8, <1>9 DEF RecordAt
<1>13. buffer[1] = 150 /\ \A i \in 1 .. 6 : buffer[1 + i] = n[i]
  <2>1. 0 + 1 = 1
    OBVIOUS
  <2> QED BY <1>5, <1>12, <2>1
<1> QED BY <1>3, <1>4, <1>11, <1>13 DEF LayoutInv

(* The zero-free node id is not cut off.                                   *)
LEMMA ReportReceived ==
    ASSUME ZeroFreeIds, LayoutInv, Receive
    PROVE  ReportInv'
<1> SUFFICES ASSUME ~IsCommand'
             PROVE  /\ phase' = "decode" /\ root' = <<>>
                    /\ \E m \in Nat : m >= 7 /\ Window(0, m)'
  BY DEF ReportInv
<1>1. /\ phase = "encode" /\ calls = <<>> /\ phase' = "decode" /\ root' = <<>>
      /\ sent' = sent
  BY DEF Receive
<1>2. ~IsCommand
  BY <1>1 DEF IsCommand
<1>3. /\ sent.report \in ReportIds /\ buffer \in Seq(Byte) /\ Len(buffer) \in Nat
      /\ Len(buffer) >= 7
      /\ buffer[1] = 150 /\ \A i \in 1 .. 6 : buffer[1 + i] = sent.report[i]
  BY <1>1, <1>2, FirstRecord
<1>4. PICK m \in Nat : CutAt(buffer, m) /\ Window(0, m)'
  BY <1>3, Received
<1>5. m >= 7
  <2> SUFFICES ASSUME m < 7
               PROVE  FALSE
    OBVIOUS
  <2>1. buffer[m + 1] = 0
    BY <1>3, <1>4 DEF CutAt
  <2>2. CASE m = 0
    BY <1>3, <2>1, <2>2
  <2>3. CASE m \in 1 .. 6
    <3>1. buffer[1 + m] = sent.report[m] /\ sent.report[m] # 0
      BY <1>3, <2>3 DEF ZeroFreeIds
    <3>2. m + 1 = 1 + m
      OBVIOUS
    <3> QED BY <2>1, <3>1, <3>2
  <2> QED BY <2>2, <2>3
<1> QED BY <1>1, <1>4, <1>5

LEMMA ReportParsed ==
    ASSUME LayoutInv, ReportInv, ParseCMLPP
    PROVE  ReportInv'
<1>1. /\ UNCHANGED <<calls, sent, buffer>> /\ phase = "decode"
  BY DecoderLeaves, ParseIsDecoding
<1> SUFFICES ASSUME ~IsCommand
             PROVE  "nodeid" \in DOMAIN root' /\ root'.nodeid = sent.report
  BY <1>1 DEF ReportInv, IsCommand
<1>2. CASE root = <<>> /\ \E m \in Nat : m >= 7 /\ Window(0, m)
  <2>1. PICK m \in Nat : m >= 7 /\ Window(0, m)
    BY <1>2
  <2>2. calls = <<>>
    BY <1>1 DEF LayoutInv
  <2>3. /\ sent.report \in Mac
        /\ buffer[1] = 150 /\ \A i \in 1 .. 6 : buffer[1 + i] = sent.report[i]
    BY <1>1, <2>2, FirstRecord
  <2>4. rest[1] = 150 /\ Len(rest) \in Nat /\ Len(rest) >= 7
    <3>1. Len(rest) = m - 0 /\ \A i \in 1 .. m - 0 : rest[i] = buffer[0 + i]
      BY <2>1 DEF Window
    <3>2. m - 0 = m /\ 1 \in 1 .. m - 0 /\ 0 + 1 = 1
      BY <2>1
    <3> QED BY <2>1, <2>3, <3>1, <3>2
  <2> DEFINE n == sent.report
  <2>5. SubSeq(rest, 2, 7) = n
    <3>1. n \in Seq(Byte) /\ Len(n) = 7 - 1 /\ \A i \in 1 .. Len(n) : buffer[0 + 1 + i] = n[i]
      <4>1. n \in Seq(Byte) /\ Len(n) = 6
        BY <2>3, MacType
      <4>2. \A i \in 1 .. 6 : buffer[0 + 1 + i] = n[i]
        BY <2>3
      <4> QED BY <4>1, <4>2
    <3>2. 0 \in Nat /\ 0 <= m /\ 7 \in 2 .. 7
      OBVIOUS
    <3> HIDE DEF n
    <3> DEFINE o == 0  size == 7
    <3>3. /\ o \in Nat /\ o <= m /\ Window(o, m) /\ size \in 2 .. 7 /\ Len(rest) >= size
          /\ Len(n) = size - 1 /\ \A i \in 1 .. Len(n) : buffer[o + 1 + i] = n[i]
      BY <2>1, <2>4, <3>1, <3>2
    <3> HIDE DEF o, size
    <3>4. SubSeq(rest, 2, size) = n
      BY <3>1, <3>3, FieldBytes
    <3> QED BY <3>4 DEF size
  <2>6. ParseNodeId
    BY <2>4 DEF ParseCMLPP, ParseColor, ParseLightControl, ParseReadGps, ParseTypeControl,
                ParseGps, UnknownType, EndOfPayload, Record, TooShort, Parsing, Known
  <2>7. root' = AddItem(root, "nodeid", n)
    <3>1. ~TooShort(150, 7)
      BY <2>4 DEF TooShort
    <3>2. root' = AddItem(root, "nodeid", SubSeq(rest, 2, 7))
      BY <2>6, <3>1 DEF ParseNodeId, Record
    <3> QED BY <2>5, <3>2
  <2>8. "nodeid" \in DOMAIN root' /\ root'["nodeid"] = n
    BY <1>2, <2>7 DEF AddItem
  <2> QED BY <2>8
<1>3. CASE "nodeid" \in DOMAIN root /\ root.nodeid = sent.report
  <2>1. CASE root' = root
    BY <1>3, <2>1
  <2>2. CASE \E name, item : root' = AddItem(root, name, item)
    <3>1. PICK name, item : root' = AddItem(root, name, item)
      BY <2>2
    <3>2. "nodeid" \in DOMAIN root' /\ root'["nodeid"] = root["nodeid"]
      BY <1>3, <3>1 DEF AddItem
    <3> QED BY <1>3, <3>2
  <2> QED BY <2>1, <2>2, RootGrows
<1> QED BY <1>1, <1>2, <1>3 DEF ReportInv

LEMMA ReportStep ==
    ASSUME ZeroFreeIds, LayoutInv, ReportInv, [Next]_vars
    PROVE  ReportInv'
<1>1. CASE Commands \/ Reports
  <2>1. \E f, P : Create(f, P)
    BY <1>1, CommandCreated, ReportCreated
  <2> QED BY <2>1 DEF Create, ReportInv
<1>2. CASE Add
  BY <1>2 DEF Add, ReportInv
<1>3. CASE Receive
  BY <1>3, ReportReceived
<1>4. CASE ParseCMLPP
  BY <1>4, ReportParsed
<1>5. CASE UNCHANGED vars
  BY <1>5 DEF vars, ReportInv, IsCommand, Window
<1> QED BY <1>1, <1>2, <1>3, <1>4, <1>5 DEF Next

(* If no byte of the nodes' addresses is zero, add_queue_lpp_node() finds  *)
(* the sender's node id in every report: the id is the first record and    *)
(* ParseCMLPP() has it in the JSON object before it can give up.  The      *)
(* hypothesis is needed: test() is followed by strlen().                   *)
THEOREM ReportsHaveNodeId ==
    ASSUME ZeroFreeIds
    PROVE  Spec => []ReportHasNodeId
<1>1. Init => LayoutInv /\ ReportInv
  BY LayoutInit DEF Init, ReportInv
<1>2. LayoutInv /\ ReportInv /\ [Next]_vars => (LayoutInv /\ ReportInv)'
  BY LayoutStep, ReportStep
<1>3. ReportInv => ReportHasNodeId
  BY DEF ReportInv, ReportHasNodeId
<1> QED BY <1>1, <1>2, <1>3, PTL DEF Spec

-----------------------------------------------------------------------------
(* The fields of a command *)

(* The record of a type holds the field the type stands for.               *)
LEMMA CarriedField ==
    ASSUME NEW f, NEW c, Carries(f, c)
    PROVE  /\ c.type = 150 => /\ Len(c.bytes) = 6 /\ "nodeid" \in DOMAIN f
                              /\ c.bytes = f["nodeid"]
           /\ c.type = 135 => /\ Len(c.bytes) = 2 /\ "color" \in DOMAIN f
                              /\ Value(c.bytes) = f["color"]
           /\ c.type = 111 => /\ Len(c.bytes) = 1 /\ "brightness" \in DOMAIN f
                              /\ Value(c.bytes) = f["brightness"]
           /\ c.type = 155 => /\ Len(c.bytes) = 1 /\ "type_control" \in DOMAIN f
                              /\ Value(c.bytes) = f["type_control"]
           /\ c.type = 152 => /\ Len(c.bytes) = 1 /\ "read_gps" \in DOMAIN f
                              /\ Value(c.bytes) = f["read_gps"]
<1>1. CASE "nodeid" \in DOMAIN f /\ f.nodeid \in Mac /\ c = addNodeID(f.nodeid)
  <2>1. c.type = 150 /\ c.bytes = f.nodeid /\ Len(c.bytes) = 6
    BY <1>1, CarriedNodeId
  <2> QED BY <1>1, <2>1, SMT
<1>2. CASE "color" \in DOMAIN f /\ f.color \in Word /\ c = addColor(f.color)
  <2>1. c.type = 135 /\ c.bytes = BigEndian2(f.color) /\ Len(c.bytes) = 2
    BY <1>2, CarriedColor
  <2>2. Value(c.bytes) = f.color
    BY <1>2, <2>1, ValueBack
  <2> QED BY <1>2, <2>1, <2>2, SMT
<1>3. CASE "brightness" \in DOMAIN f /\ f.brightness \in Byte
           /\ c = addLightControl(f.brightness)
  <2>1. c.type = 111 /\ c.bytes = <<f.brightness>> /\ Len(c.bytes) = 1
    BY <1>3, Literals, CarriedByte DEF addLightControl
  <2>2. Value(c.bytes) = f.brightness
    BY <1>3, <2>1, ValueBack
  <2> QED BY <1>3, <2>1, <2>2, SMT
<1>4. CASE "type_control" \in DOMAIN f /\ f.type_control \in Byte
           /\ c = addTypeControl(f.type_control)
  <2>1. c.type = 155 /\ c.bytes = <<f.type_control>> /\ Len(c.bytes) = 1
    BY <1>4, Literals, CarriedByte DEF addTypeControl
  <2>2. Value(c.bytes) = f.type_control
    BY <1>4, <2>1, ValueBack
  <2> QED BY <1>4, <2>1, <2>2, SMT
<1>5. CASE "read_gps" \in DOMAIN f /\ f.read_gps \in Byte /\ c = addReadGPS(f.read_gps)
  <2>1. c.type = 152 /\ c.bytes = <<f.read_gps>> /\ Len(c.bytes) = 1
    BY <1>5, Literals, CarriedByte DEF addReadGPS
  <2>2. Value(c.bytes) = f.read_gps
    BY <1>5, <2>1, ValueBack
  <2> QED BY <1>5, <2>1, <2>2, SMT
<1> QED BY <1>1, <1>2, <1>3, <1>4, <1>5 DEF Carries

Names(P, j) == {Name(P[i].type) : i \in 1 .. j}

(* The decoder has taken j records of the command out of m bytes, and      *)
(* stops only at the end or at a record that is cut.                       *)
Decoded(P, m, j) ==
    /\ j \in 0 .. Len(P) /\ Off(P, j) <= m /\ Window(Off(P, j), m)
    /\ root = [x \in Names(P, j) |-> sent[x]] /\ Names(P, j) \subseteq DOMAIN sent
    /\ phase = "done" => j = Len(P) \/ m < Off(P, j + 1)

CommandInv ==
    phase \in {"decode", "done"} /\ IsCommand =>
        \E P \in Plan : /\ CommandPlan(sent, P) /\ Made(P, Len(P))
                        /\ \E m \in Nat, j \in Nat : CutAt(buffer, m) /\ Decoded(P, m, j)

(* A record is taken: its field is the one that was sent.                  *)
LEMMA FieldTaken ==
    ASSUME NEW P \in Plan, NEW m \in Nat, NEW j \in Nat, Decoded(P, m, j), j < Len(P),
           NEW size \in 2 .. 7, Len(P[j + 1].bytes) = size - 1, Len(rest) >= size,
           NEW name, name = Name(P[j + 1].type), name \in DOMAIN sent,
           root' = AddItem(root, name, sent[name]),
           rest' = SubSeq(rest, size + 1, Len(rest)),
           UNCHANGED <<phase, calls, sent, buffer>>, phase = "decode"
    PROVE  Decoded(P, m, j + 1)'
<1> DEFINE o == Off(P, j)  l == Len(P)  w == Len(P[j + 1].bytes)
<1>1. /\ o \in Nat /\ o <= m /\ Window(o, m) /\ l \in Nat /\ j \in 0 .. l /\ j < l
  BY OffType, PlanType DEF Decoded
<1>2. j + 1 \in 1 .. l /\ (j + 1) - 1 = j /\ j + 1 \in 0 .. l
  <2> HIDE DEF l, o
  <2> QED BY <1>1
<1>3. Off(P, j + 1) = o + 1 + w
  BY <1>2, RecordEnds
<1>4. Off(P, j + 1) = o + size
  <2> HIDE DEF o
  <2>1. w = size - 1
    OBVIOUS
  <2> HIDE DEF w
  <2> QED BY <1>1, <1>3, <2>1
<1>5. o + size <= m /\ Window(o + size, m)'
  <2>1. size \in 1 .. 7
    OBVIOUS
  <2> HIDE DEF o
  <2> QED BY <1>1, <2>1, Advanced
<1>6. Names(P, j + 1) = Names(P, j) \cup {name}
  <2>1. \A i : i \in 1 .. j + 1 <=> i \in 1 .. j \/ i = j + 1
    OBVIOUS
  <2> QED BY <2>1 DEF Names
<1>7. /\ root = [x \in Names(P, j) |-> sent[x]] /\ Names(P, j) \subseteq DOMAIN sent
  BY DEF Decoded
<1>8. root' = [x \in Names(P, j + 1) |-> sent[x]]
  <2> DEFINE N == Names(P, j)  v == sent[name]
  <2>1. DOMAIN root = N /\ \A x \in N : root[x] = sent[x]
    BY <1>7
  <2>2. root' = [x \in N \cup {name} |-> IF x \in N THEN root[x] ELSE v]
    BY <2>1 DEF AddItem
  <2>3. \A x \in N \cup {name} : (IF x \in N THEN root[x] ELSE v) = sent[x]
    BY <2>1
  <2> HIDE DEF N, v
  <2>4. root' = [x \in N \cup {name} |-> sent[x]]
    BY <2>2, <2>3
  <2> QED BY <1>6, <2>4 DEF N
<1>9. Names(P, j + 1) \subseteq DOMAIN sent
  BY <1>6, <1>7
<1>10. Off(P, j + 1) <= m /\ Window(Off(P, j + 1), m)'
  BY <1>4, <1>5
<1> QED BY <1>2, <1>8, <1>9, <1>10 DEF Decoded

(* ParseCMLPP() returns at a record that is cut.                           *)
LEMMA Stopped ==
    ASSUME NEW P \in Plan, NEW m \in Nat, NEW j \in Nat, Decoded(P, m, j), Return,
           j < Len(P) => Len(rest) < 1 + Len(P[j + 1].bytes)
    PROVE  Decoded(P, m, j)'
<1> DEFINE o == Off(P, j)  l == Len(P)
<1>1. /\ o \in Nat /\ o <= m /\ Window(o, m) /\ l \in Nat /\ j \in 0 .. l
  BY OffType, PlanType DEF Decoded
<1>2. j = l \/ m < Off(P, j + 1)
  <2> SUFFICES ASSUME j < l
               PROVE  m < Off(P, j + 1)
    <3> HIDE DEF l, o
    <3> QED BY <1>1
  <2> DEFINE w == Len(P[j + 1].bytes)  e == Off(P, j + 1)  r == Len(rest)
  <2>1. j + 1 \in 1 .. l /\ (j + 1) - 1 = j
    <3> HIDE DEF l, o
    <3> QED BY <1>1
  <2>2. w \in Nat /\ e = o + 1 + w
    BY <2>1, RecordEnds
  <2>3. r = m - o /\ r < 1 + w
    BY <1>1 DEF Window
  <2> HIDE DEF w, e, r, o, l
  <2>4. m < e
    BY <1>1, <2>2, <2>3
  <2> QED BY <2>4 DEF e
<1> QED BY <1>2 DEF Decoded, Return, Window

LEMMA NameOf ==
    /\ Name(150) = "nodeid" /\ Name(135) = "color" /\ Name(111) = "brightness"
    /\ Name(155) = "type_control" /\ Name(152) = "read_gps"
BY SMT DEF Name

(* What is in front of the decoder: the next record of the plan.           *)
LEMMA NextRecord ==
    ASSUME NEW P \in Plan, NEW m \in Nat, NEW j \in Nat, CommandPlan(sent, P),
           Made(P, Len(P)), CutAt(buffer, m), Decoded(P, m, j), Len(rest) >= 2
    PROVE  LET c == P[j + 1]
           IN  /\ j < Len(P) /\ Carries(sent, c) /\ rest[1] = c.type
               /\ c.bytes \in Seq(Byte)
               /\ \A i \in 1 .. Len(c.bytes) : buffer[Off(P, j) + 1 + i] = c.bytes[i]
<1> DEFINE o == Off(P, j)  l == Len(P)  c == P[j + 1]  r == Len(rest)
<1>1. /\ o \in Nat /\ o <= m /\ l \in Nat /\ j \in 0 .. l
      /\ r = m - o /\ r >= 2 /\ \A i \in 1 .. m - o : rest[i] = buffer[o + i]
  BY OffType, PlanType DEF Decoded, Window
<1>2. Len(buffer) = Off(P, l) /\ m <= Len(buffer) /\ Len(buffer) \in Nat
  <2>1. Len(buffer) = Off(P, l) /\ Off(P, l) \in Nat
    BY <1>1, OffType DEF Made
  <2>2. m \in 0 .. Len(buffer)
    BY DEF CutAt
  <2> QED BY <2>1, <2>2
<1>3. j < l
  <2> SUFFICES ASSUME j = l
               PROVE  FALSE
    <3> HIDE DEF l, o, r
    <3> QED BY <1>1
  <2>1. m <= o
    BY <1>2
  <2> HIDE DEF l, o, r
  <2> QED BY <1>1, <2>1
<1>4. j + 1 \in 1 .. l /\ (j + 1) - 1 = j
  <2> HIDE DEF l, o, r
  <2> QED BY <1>1, <1>3
<1>5. RecordAt(P, j + 1) /\ Carries(sent, c)
  BY <1>4, CommandCarries DEF Made
<1>6. buffer[o + 1] = c.type /\ \A i \in 1 .. Len(c.bytes) : buffer[o + 1 + i] = c.bytes[i]
  BY <1>4, <1>5 DEF RecordAt
<1>7. rest[1] = buffer[o + 1]
  <2> HIDE DEF l, o, r
  <2>1. 1 \in 1 .. m - o
    BY <1>1
  <2> QED BY <1>1, <2>1
<1>8. c.bytes \in Seq(Byte)
  BY <1>4, RecordEnds
<1> QED BY <1>3, <1>5, <1>6, <1>7, <1>8

(* One branch of ParseCMLPP() on a record of a command.                    *)
Takes(type, size, name, item) ==
    /\ Parsing(type) /\ Len(rest) >= size
    /\ root' = AddItem(root, name, item)
    /\ rest' = SubSeq(rest, size + 1, Len(rest))
    /\ UNCHANGED <<phase, calls, sent, buffer>>

Holds(c, size, name, item) ==
    /\ Len(c.bytes) = size - 1 /\ name \in DOMAIN sent
    /\ SubSeq(rest, 2, size) = c.bytes => item = sent[name]

LEMMA RecordParsed ==
    ASSUME NEW P \in Plan, NEW m \in Nat, NEW j \in Nat, CommandPlan(sent, P),
           Made(P, Len(P)), CutAt(buffer, m), Decoded(P, m, j),
           NEW type, NEW size \in 2 .. 7, NEW name, NEW item, name = Name(type),
           Takes(type, size, name, item),
           P[j + 1].type = type => Holds(P[j + 1], size, name, item)
    PROVE  Decoded(P, m, j + 1)'
<1> DEFINE c == P[j + 1]
<1>1. Len(rest) >= 2 /\ rest[1] = type /\ phase = "decode"
  BY DEF Takes, Parsing
<1>2. /\ j < Len(P) /\ rest[1] = c.type /\ c.bytes \in Seq(Byte)
      /\ \A i \in 1 .. Len(c.bytes) : buffer[Off(P, j) + 1 + i] = c.bytes[i]
  BY <1>1, NextRecord
<1>3. Holds(c, size, name, item)
  BY <1>1, <1>2
<1> DEFINE o == Off(P, j)  v == c.bytes
<1>4. o \in Nat /\ o <= m /\ Window(o, m)
  BY OffType DEF Decoded
<1>5. SubSeq(rest, 2, size) = v
  <2>1. v \in Seq(Byte) /\ Len(v) = size - 1 /\ \A i \in 1 .. Len(v) : buffer[o + 1 + i] = v[i]
    BY <1>2, <1>3 DEF Holds
  <2>2. Len(rest) >= size
    BY DEF Takes
  <2> HIDE DEF o, v
  <2> QED BY <1>4, <2>1, <2>2, FieldBytes
<1>6. item = sent[name]
  BY <1>3, <1>5 DEF Holds
<1>7. name = Name(c.type)
  BY <1>1, <1>2
<1>8. /\ Len(c.bytes) = size - 1 /\ name \in DOMAIN sent /\ Len(rest) >= size
      /\ root' = AddItem(root, name, sent[name])
      /\ rest' = SubSeq(rest, size + 1, Len(rest))
      /\ UNCHANGED <<phase, calls, sent, buffer>>
  BY <1>3, <1>6 DEF Holds, Takes
<1> QED BY <1>1, <1>2, <1>7, <1>8, FieldTaken

LEMMA CommandParsed ==
    ASSUME NEW P \in Plan, NEW m \in Nat, NEW j \in Nat, CommandPlan(sent, P),
           Made(P, Len(P)), CutAt(buffer, m), Decoded(P, m, j), ParseCMLPP
    PROVE  Decoded(P, m, j)' \/ Decoded(P, m, j + 1)'
<1> DEFINE c == P[j + 1]  r == Len(rest)
<1>1. r >= 2 => j < Len(P) /\ Carries(sent, c) /\ rest[1] = c.type
  BY NextRecord
<1>2. r \in Nat
  BY DEF Decoded, Window
<1>3. Carries(sent, c) => /\ Len(c.bytes) \in Nat /\ 1 <= Len(c.bytes)
                          /\ c.type \in Known /\ c.type # 136
  BY CarriedCall
<1>4. /\ 7 \in 2 .. 7 /\ 3 \in 2 .. 7 /\ 2 \in 2 .. 7
      /\ 7 - 1 = 6 /\ 3 - 1 = 2 /\ 2 - 1 = 1 /\ 1 + 6 = 7 /\ 1 + 2 = 3
  OBVIOUS
<1>5. CASE ParseNodeId
  <2>1. CASE TooShort(150, 7)
    <3>1. r >= 2 /\ rest[1] = 150 /\ r < 7 /\ Return
      BY <2>1 DEF TooShort, Parsing
    <3>2. Len(c.bytes) = 6
      BY <1>1, <3>1, CarriedField
    <3>3. r < 1 + Len(c.bytes)
      BY <3>1, <3>2
    <3> QED BY <3>1, <3>3, Stopped
  <2>2. CASE Record(150, 7, "nodeid", LAMBDA b : b)
    <3> DEFINE b == SubSeq(rest, 2, 7)
    <3>1. Takes(150, 7, "nodeid", b)
      BY <2>2 DEF Record, Takes
    <3>2. Carries(sent, c)
      BY <1>1, <3>1 DEF Takes, Parsing
    <3>3. c.type = 150 => /\ Len(c.bytes) = 6 /\ "nodeid" \in DOMAIN sent
                          /\ c.bytes = sent["nodeid"]
      BY <3>2, CarriedField
    <3>4. c.type = 150 => Holds(c, 7, "nodeid", b)
      BY <1>4, <3>3 DEF Holds
    <3> HIDE DEF b
    <3> QED BY <1>4, <3>1, <3>4, NameOf, RecordParsed
  <2> QED BY <1>5, <2>1, <2>2 DEF ParseNodeId
<1>6. CASE ParseColor
  <2>1. CASE TooShort(135, 3)
    <3>1. r >= 2 /\ rest[1] = 135 /\ r < 3 /\ Return
      BY <2>1 DEF TooShort, Parsing
    <3>2. Len(c.bytes) = 2
      BY <1>1, <3>1, CarriedField
    <3>3. r < 1 + Len(c.bytes)
      BY <3>1, <3>2
    <3> QED BY <3>1, <3>3, Stopped
  <2>2. CASE Record(135, 3, "color", Value)
    <3> DEFINE b == SubSeq(rest, 2, 3)  item == Value(b)
    <3>1. Takes(135, 3, "color", item)
      BY <2>2 DEF Record, Takes
    <3>2. Carries(sent, c)
      BY <1>1, <3>1 DEF Takes, Parsing
    <3>3. c.type = 135 => /\ Len(c.bytes) = 2 /\ "color" \in DOMAIN sent
                          /\ Value(c.bytes) = sent["color"]
      BY <3>2, CarriedField
    <3>4. c.type = 135 => Holds(c, 3, "color", item)
      BY <1>4, <3>3 DEF Holds
    <3> HIDE DEF item
    <3> QED BY <1>4, <3>1, <3>4, NameOf, RecordParsed
  <2> QED BY <1>6, <2>1, <2>2 DEF ParseColor
<1>7. ASSUME NEW type \in {111, 152, 155}, NEW name, name = Name(type),
             Record(type, 2, name, Value)
      PROVE  Decoded(P, m, j + 1)'
  <2> DEFINE b == SubSeq(rest, 2, 2)  item == Value(b)
  <2>1. Takes(type, 2, name, item)
    BY <1>7 DEF Record, Takes
  <2>2. Carries(sent, c)
    BY <1>1, <2>1 DEF Takes, Parsing
  <2>3. c.type = type => /\ Len(c.bytes) = 1 /\ name \in DOMAIN sent
                         /\ Value(c.bytes) = sent[name]
    <3>2. CASE type = 111
      <4>1. name = "brightness"
        BY <1>7, <3>2, NameOf
      <4> QED BY <2>2, <3>2, <4>1, CarriedField
    <3>3. CASE type = 152
      <4>1. name = "read_gps"
        BY <1>7, <3>3, NameOf
      <4> QED BY <2>2, <3>3, <4>1, CarriedField
    <3>4. CASE type = 155
      <4>1. name = "type_control"
        BY <1>7, <3>4, NameOf
      <4> QED BY <2>2, <3>4, <4>1, CarriedField
    <3> QED BY <1>7, <3>2, <3>3, <3>4
  <2>4. c.type = type => Holds(c, 2, name, item)
    BY <1>4, <2>3 DEF Holds
  <2> HIDE DEF item
  <2> QED BY <1>4, <1>7, <2>1, <2>4, RecordParsed
<1>8. CASE ParseLightControl \/ ParseReadGps \/ ParseTypeControl
  BY <1>7, <1>8, NameOf DEF ParseLightControl, ParseReadGps, ParseTypeControl
<1>9. CASE ParseGps \/ UnknownType
  <2>1. r >= 2 /\ (rest[1] = 136 \/ rest[1] \notin Known)
    BY <1>9 DEF ParseGps, UnknownType, Parsing
  <2> QED BY <1>1, <1>3, <2>1
<1>10. CASE EndOfPayload
  <2>1. Return /\ r < 2
    BY <1>10 DEF EndOfPayload
  <2>2. ASSUME j < Len(P)
        PROVE  r < 1 + Len(c.bytes)
    <3>1. Len(P) \in Nat /\ j + 1 \in 1 .. Len(P)
      BY <2>2, PlanType
    <3>2. Carries(sent, c)
      BY <3>1, CommandCarries
    <3> DEFINE w == Len(c.bytes)
    <3>3. w \in Nat /\ 1 <= w
      BY <1>3, <3>2
    <3> HIDE DEF w, r
    <3>4. r < 1 + w
      BY <1>2, <2>1, <3>3
    <3> QED BY <3>4 DEF w, r
  <2> QED BY <2>1, <2>2, Stopped
<1> QED BY <1>5, <1>6, <1>8, <1>9, <1>10 DEF ParseCMLPP

LEMMA EmptyObject ==
    ASSUME NEW S, S = {}, NEW f
    PROVE  <<>> = [x \in S |-> f[x]]
OBVIOUS

LEMMA CommandReceived ==
    ASSUME LayoutInv, Receive
    PROVE  CommandInv'
<1>1. /\ phase = "encode" /\ calls = <<>> /\ phase' = "decode" /\ root' = <<>>
      /\ UNCHANGED <<calls, sent, buffer>>
  BY DEF Receive
<1> SUFFICES ASSUME IsCommand
             PROVE  \E P \in Plan : /\ CommandPlan(sent, P)' /\ Made(P, Len(P))'
                                    /\ \E m \in Nat, j \in Nat :
                                          CutAt(buffer, m)' /\ Decoded(P, m, j)'
  BY <1>1 DEF CommandInv, IsCommand
<1>2. PICK P \in Plan : Planned(sent, P) /\ Made(P, Len(P))
  BY <1>1, AllMade
<1>3. CommandPlan(sent, P)
  BY <1>2 DEF Planned, ReportPlan, IsCommand
<1>4. buffer \in Seq(Byte)
  BY DEF LayoutInv
<1>5. PICK m \in Nat : CutAt(buffer, m) /\ Window(0, m)'
  BY <1>4, Received
<1>6. Off(P, 0) = 0 /\ 0 \in 0 .. Len(P) /\ 0 <= m
  BY OffType, PlanType
<1>7. Names(P, 0) = {}
  BY DEF Names
<1>8. root' = [x \in Names(P, 0) |-> sent'[x]] /\ Names(P, 0) \subseteq DOMAIN sent'
  BY <1>1, <1>7, EmptyObject
<1>9. Decoded(P, m, 0)'
  BY <1>1, <1>5, <1>6, <1>8 DEF Decoded
<1>10. CutAt(buffer, m)' /\ Made(P, Len(P))' /\ CommandPlan(sent, P)'
  BY <1>1, <1>2, <1>3, <1>5 DEF CutAt, Made, RecordAt, CommandPlan
<1> QED BY <1>9, <1>10

LEMMA CommandStep ==
    ASSUME LayoutInv, CommandInv, [Next]_vars
    PROVE  CommandInv'
<1>1. CASE Commands \/ Reports
  <2>1. \E f, P : Create(f, P)
    BY <1>1, CommandCreated, ReportCreated
  <2> QED BY <2>1 DEF Create, CommandInv
<1>2. CASE Add
  BY <1>2 DEF Add, CommandInv
<1>3. CASE Receive
  BY <1>3, CommandReceived
<1>4. CASE ParseCMLPP
  <2>1. UNCHANGED <<calls, sent, buffer>> /\ phase = "decode"
    BY <1>4, DecoderLeaves, ParseIsDecoding
  <2> SUFFICES ASSUME IsCommand
               PROVE  \E P \in Plan : /\ CommandPlan(sent, P)' /\ Made(P, Len(P))'
                                      /\ \E m \in Nat, j \in Nat :
                                            CutAt(buffer, m)' /\ Decoded(P, m, j)'
    BY <2>1 DEF CommandInv, IsCommand
  <2>2. PICK P \in Plan : /\ CommandPlan(sent, P) /\ Made(P, Len(P))
                          /\ \E m \in Nat, j \in Nat : CutAt(buffer, m) /\ Decoded(P, m, j)
    BY <2>1 DEF CommandInv
  <2>3. PICK m \in Nat, j \in Nat : CutAt(buffer, m) /\ Decoded(P, m, j)
    BY <2>2
  <2>4. Decoded(P, m, j)' \/ Decoded(P, m, j + 1)'
    BY <1>4, <2>2, <2>3, CommandParsed
  <2>5. j + 1 \in Nat
    OBVIOUS
  <2>6. CutAt(buffer, m)' /\ Made(P, Len(P))' /\ CommandPlan(sent, P)'
    BY <2>1, <2>2, <2>3 DEF CutAt, Made, RecordAt, CommandPlan
  <2> QED BY <2>4, <2>5, <2>6
<1>5. CASE UNCHANGED vars
  <2> SUFFICES ASSUME phase \in {"decode", "done"}, IsCommand
               PROVE  \E P \in Plan : /\ CommandPlan(sent, P)' /\ Made(P, Len(P))'
                                      /\ \E m \in Nat, j \in Nat :
                                            CutAt(buffer, m)' /\ Decoded(P, m, j)'
    BY <1>5 DEF CommandInv, IsCommand, vars
  <2>1. PICK P \in Plan : /\ CommandPlan(sent, P) /\ Made(P, Len(P))
                          /\ \E m \in Nat, j \in Nat : CutAt(buffer, m) /\ Decoded(P, m, j)
    BY DEF CommandInv
  <2>2. PICK m \in Nat, j \in Nat : CutAt(buffer, m) /\ Decoded(P, m, j)
    BY <2>1
  <2>3. CutAt(buffer, m)' /\ Made(P, Len(P))' /\ CommandPlan(sent, P)'
    BY <1>5, <2>1, <2>2 DEF vars, CutAt, Made, RecordAt, CommandPlan
  <2>4. Decoded(P, m, j)'
    BY <1>5, <2>2 DEF vars, Decoded, Window
  <2> QED BY <2>3, <2>4
<1> QED BY <1>1, <1>2, <1>3, <1>4, <1>5 DEF Next

LEMMA CommandInit ==
    ASSUME Init
    PROVE  CommandInv
BY DEF Init, CommandInv

(* All the records of a command have all its fields.                       *)
LEMMA AllNames ==
    ASSUME NEW f, NEW P, CommandPlan(f, P)
    PROVE  Names(P, Len(P)) = DOMAIN f
<1>1. /\ addNodeID(f.nodeid).type = 150 /\ addColor(f.color).type = 135
      /\ addLightControl(f.brightness).type = 111
      /\ addTypeControl(f.type_control).type = 155 /\ addReadGPS(f.read_gps).type = 152
  BY DEF addNodeID, addColor, addLightControl, addTypeControl, addReadGPS, Call
<1>2. CASE f \in TypedFields /\ P = <<addNodeID(f.nodeid), addColor(f.color),
                                      addLightControl(f.brightness), addTypeControl(f.type_control)>>
  <2>1. DOMAIN f = {"nodeid", "color", "brightness", "type_control"}
    BY <1>2 DEF TypedFields
  <2>2. /\ Len(P) = 4 /\ Name(P[1].type) = "nodeid" /\ Name(P[2].type) = "color"
        /\ Name(P[3].type) = "brightness" /\ Name(P[4].type) = "type_control"
    BY <1>1, <1>2, NameOf
  <2>3. \A i : i \in 1 .. 4 <=> i \in {1, 2, 3, 4}
    OBVIOUS
  <2>4. Names(P, 4) = {Name(P[i].type) : i \in {1, 2, 3, 4}}
    BY <2>3 DEF Names
  <2> QED BY <2>1, <2>2, <2>4
<1>3. CASE f \in AutoFields /\ P = <<addNodeID(f.nodeid), addColor(f.color),
                                     addLightControl(f.brightness)>>
  <2>1. DOMAIN f = {"nodeid", "color", "brightness"}
    BY <1>3 DEF AutoFields
  <2>2. /\ Len(P) = 3 /\ Name(P[1].type) = "nodeid" /\ Name(P[2].type) = "color"
        /\ Name(P[3].type) = "brightness"
    BY <1>1, <1>3, NameOf
  <2>3. \A i : i \in 1 .. 3 <=> i \in {1, 2, 3}
    OBVIOUS
  <2>4. Names(P, 3) = {Name(P[i].type) : i \in {1, 2, 3}}
    BY <2>3 DEF Names
  <2> QED BY <2>1, <2>2, <2>4
<1>4. CASE f \in OwnFields /\ P = <<addColor(f.color), addLightControl(f.brightness)>>
  <2>1. DOMAIN f = {"color", "brightness"}
    BY <1>4 DEF OwnFields
  <2>2. Len(P) = 2 /\ Name(P[1].type) = "color" /\ Name(P[2].type) = "brightness"
    BY <1>1, <1>4, NameOf
  <2>3. \A i : i \in 1 .. 2 <=> i \in {1, 2}
    OBVIOUS
  <2>4. Names(P, 2) = {Name(P[i].type) : i \in {1, 2}}
    BY <2>3 DEF Names
  <2> QED BY <2>1, <2>2, <2>4
<1>5. CASE f \in GpsFields /\ P = <<addNodeID(f.nodeid), addReadGPS(f.read_gps)>>
  <2>1. DOMAIN f = {"nodeid", "read_gps"}
    BY <1>5 DEF GpsFields
  <2>2. Len(P) = 2 /\ Name(P[1].type) = "nodeid" /\ Name(P[2].type) = "read_gps"
    BY <1>1, <1>5, NameOf
  <2>3. \A i : i \in 1 .. 2 <=> i \in {1, 2}
    OBVIOUS
  <2>4. Names(P, 2) = {Name(P[i].type) : i \in {1, 2}}
    BY <2>3 DEF Names
  <2> QED BY <2>1, <2>2, <2>4
<1> QED BY <1>2, <1>3, <1>4, <1>5 DEF CommandPlan

LEMMA WholeCommand ==
    ASSUME NEW P \in Plan, NEW m \in Nat, CommandPlan(sent, P), Decoded(P, m, Len(P))
    PROVE  root = sent
<1>1. root = [x \in Names(P, Len(P)) |-> sent[x]]
  BY DEF Decoded
<1>2. Names(P, Len(P)) = DOMAIN sent /\ sent = [x \in DOMAIN sent |-> sent[x]]
  BY AllNames, CommandCarries
<1> QED BY <1>1, <1>2

(* The end of a command's decoding: it is complete, or cut in a record.    *)
LEMMA CommandDone ==
    ASSUME CommandInv, phase = "done", IsCommand
    PROVE  \E P \in Plan, m \in Nat, j \in Nat :
              /\ CommandPlan(sent, P) /\ Made(P, Len(P)) /\ CutAt(buffer, m)
              /\ Decoded(P, m, j)
              /\ j = Len(P) \/ (j < Len(P) /\ m < Off(P, j + 1))
<1>1. PICK P \in Plan : /\ CommandPlan(sent, P) /\ Made(P, Len(P))
                        /\ \E m \in Nat, j \in Nat : CutAt(buffer, m) /\ Decoded(P, m, j)
  BY DEF CommandInv
<1>2. PICK m \in Nat, j \in Nat : CutAt(buffer, m) /\ Decoded(P, m, j)
  BY <1>1
<1>3. j \in 0 .. Len(P) /\ (j = Len(P) \/ m < Off(P, j + 1))
  BY <1>2 DEF Decoded
<1>4. j = Len(P) \/ (j < Len(P) /\ m < Off(P, j + 1))
  BY <1>3, PlanType
<1> QED BY <1>1, <1>2, <1>4

LEMMA CommandBack ==
    ASSUME LayoutInv, CommandInv
    PROVE  RoundTrip
<1> SUFFICES ASSUME phase = "done", IsCommand, ZeroFree
             PROVE  root = sent /\ rest = <<>>
  BY DEF RoundTrip
<1>1. PICK P \in Plan, m \in Nat, j \in Nat :
              /\ CommandPlan(sent, P) /\ Made(P, Len(P)) /\ CutAt(buffer, m)
              /\ Decoded(P, m, j)
              /\ j = Len(P) \/ (j < Len(P) /\ m < Off(P, j + 1))
  BY CommandDone
<1> DEFINE n == Len(buffer)  l == Len(P)
<1>2. n \in Nat /\ DOMAIN buffer = 1 .. n /\ m \in 0 .. n
  BY <1>1 DEF LayoutInv, CutAt
<1>3. m = n
  <2> SUFFICES ASSUME m < n
               PROVE  FALSE
    <3> HIDE DEF n
    <3> QED BY <1>2
  <2>1. buffer[m + 1] = 0
    BY <1>1 DEF CutAt
  <2>2. m + 1 \in DOMAIN buffer
    <3> HIDE DEF n
    <3> QED BY <1>2
  <2> QED BY <2>1, <2>2 DEF ZeroFree
<1>4. n = Off(P, l)
  BY <1>1 DEF Made
<1>5. j = l
  <2> SUFFICES ASSUME j < l, m < Off(P, j + 1)
               PROVE  FALSE
    BY <1>1
  <2>1. l \in 0 .. 13
    BY PlanType
  <2>2. j + 1 \in 0 .. l
    <3> HIDE DEF l
    <3> QED BY <2>1
  <2>3. Off(P, j + 1) <= Off(P, l)
    <3> HIDE DEF l
    <3> QED BY <2>1, <2>2, OffMonotone
  <2>4. Off(P, j + 1) \in Nat
    BY OffType
  <2> QED BY <1>2, <1>3, <1>4, <2>3, <2>4
<1>6. root = sent
  BY <1>1, <1>5, WholeCommand
<1>7. rest \in Seq(Byte) /\ Len(rest) = m - Off(P, l)
  BY <1>1, <1>5 DEF Decoded, Window
<1>8. Len(rest) = 0
  BY <1>2, <1>3, <1>4, <1>7
<1>9. rest = <<>>
  BY <1>7, <1>8
<1> QED BY <1>6, <1>9

(* For all addresses, colours, brightnesses and type controls, what the    *)
(* LPP records encode is what ParseCMLPP() decodes from the text, unless a *)
(* byte of the payload is zero.                                            *)
THEOREM RoundTrips == Spec => []RoundTrip
<1>1. Init => LayoutInv /\ CommandInv
  BY LayoutInit, CommandInit
<1>2. LayoutInv /\ CommandInv /\ [Next]_vars => (LayoutInv /\ CommandInv)'
  BY LayoutStep, CommandStep
<1>3. LayoutInv /\ CommandInv => RoundTrip
  BY CommandBack
<1> QED BY <1>1, <1>2, <1>3, PTL DEF Spec

(* Without a brightness and a GPS query there is nothing to do.            *)
LEMMA NoCommand ==
    ASSUME NEW r, "brightness" \notin DOMAIN r, "read_gps" \notin DOMAIN r
    PROVE  Command(r) = <<>>
BY DEF Command

(* A command with a type control other than zero is not cut behind its     *)
(* brightness: neither byte of the last record is zero.                    *)
LEMMA TypeControlStays ==
    ASSUME NEW P \in Plan, NEW m \in Nat, Made(P, Len(P)), CutAt(buffer, m), Len(P) = 4,
           NEW t \in Byte, t # 0, P[4] = addTypeControl(t), Off(P, 3) <= m, m < Off(P, 3 + 1)
    PROVE  FALSE
<1> DEFINE o == Off(P, 3)
<1>1. P[4].type = 155 /\ P[4].bytes = <<t>> /\ Len(P[4].bytes) = 1
  BY Literals, CarriedByte DEF addTypeControl
<1>2. 4 \in 1 .. Len(P) /\ 4 - 1 = 3 /\ 3 + 1 = 4
  OBVIOUS
<1>3. o \in Nat /\ Off(P, 4) = o + 1 + 1
  <2>1. Off(P, 4 - 1) \in Nat /\ Off(P, 4) = Off(P, 4 - 1) + 1 + Len(P[4].bytes)
    BY <1>2, RecordEnds, Zenon
  <2>2. Off(P, 4 - 1) = o
    BY <1>2, Zenon
  <2> QED BY <1>1, <2>1, <2>2, Zenon
<1>4. RecordAt(P, 4)
  BY <1>2 DEF Made
<1>5. buffer[o + 1] = 155 /\ buffer[o + 1 + 1] = t
  <2>1. buffer[o + 1] = P[4].type /\ \A i \in 1 .. Len(P[4].bytes) : buffer[o + 1 + i] = P[4].bytes[i]
    BY <1>2, <1>4 DEF RecordAt
  <2>2. 1 \in 1 .. Len(P[4].bytes) /\ P[4].bytes[1] = t
    BY <1>1
  <2> QED BY <1>1, <2>1, <2>2
<1>6. m < Len(buffer)
  <2>1. Len(buffer) = Off(P, Len(P)) /\ Len(P) = 3 + 1
    BY <1>2 DEF Made
  <2>2. Len(buffer) = Off(P, 3 + 1)
    BY <2>1, Zenon
  <2> QED BY <2>2, Zenon
<1>7. buffer[m + 1] = 0
  BY <1>6 DEF CutAt
<1>8. m = o \/ m = o + 1
  <2> DEFINE e == Off(P, 4)
  <2>1. o <= m /\ m < e /\ e = o + 1 + 1
    BY <1>2, <1>3
  <2> HIDE DEF o, e
  <2> QED BY <1>3, <2>1
<1> QED BY <1>5, <1>7, <1>8

(* What is left of a command that is cut is not a command.                 *)
LEMMA CutCommand ==
    ASSUME 0 \notin TypeControls, NEW P \in Plan, NEW m \in Nat, NEW j \in Nat,
           CommandPlan(sent, P), Made(P, Len(P)), CutAt(buffer, m), Decoded(P, m, j),
           j < Len(P), m < Off(P, j + 1)
    PROVE  Command(root) = <<>>
<1>1. DOMAIN root = Names(P, j) /\ Off(P, j) <= m
  BY DEF Decoded
<1>2. /\ addNodeID(sent.nodeid).type = 150 /\ addColor(sent.color).type = 135
  BY DEF addNodeID, addColor, Call
<1>3. ASSUME \A i \in 1 .. j : Name(P[i].type) \in {"nodeid", "color"}
      PROVE  Command(root) = <<>>
  <2>1. "brightness" \notin DOMAIN root /\ "read_gps" \notin DOMAIN root
    BY <1>1, <1>3 DEF Names
  <2> QED BY <2>1, NoCommand
<1>4. CASE sent \in TypedFields /\ P = <<addNodeID(sent.nodeid), addColor(sent.color),
              addLightControl(sent.brightness), addTypeControl(sent.type_control)>>
  <2>1. Len(P) = 4 /\ P[1].type = 150 /\ P[2].type = 135
        /\ P[4] = addTypeControl(sent.type_control)
    BY <1>2, <1>4
  <2>2. sent.type_control \in TypeControls
    BY <1>4 DEF TypedFields
  <2>3. sent.type_control \in Byte /\ sent.type_control # 0
    BY <2>2, FieldTypes
  <2>4. CASE j = 3
    <3>1. Off(P, 3) <= m /\ m < Off(P, 3 + 1)
      BY <1>1, <2>4, Zenon
    <3> DEFINE t == sent.type_control
    <3>2. t \in Byte /\ t # 0 /\ P[4] = addTypeControl(t)
      BY <2>1, <2>3
    <3> HIDE DEF t
    <3>3. FALSE
      BY <2>1, <3>1, <3>2, TypeControlStays
    <3> QED BY <3>3
  <2>5. CASE j # 3
    <3>1. \A i \in 1 .. j : i = 1 \/ i = 2
      BY <2>1, <2>5
    <3> QED BY <1>3, <2>1, <3>1, NameOf
  <2> QED BY <2>4, <2>5
<1>5. CASE sent \in AutoFields /\ P = <<addNodeID(sent.nodeid), addColor(sent.color),
              addLightControl(sent.brightness)>>
  <2>1. Len(P) = 3 /\ P[1].type = 150 /\ P[2].type = 135
    BY <1>2, <1>5
  <2>2. \A i \in 1 .. j : i = 1 \/ i = 2
    BY <2>1
  <2> QED BY <1>3, <2>1, <2>2, NameOf
<1>6. CASE sent \in OwnFields /\ P = <<addColor(sent.color), addLightControl(sent.brightness)>>
  <2>1. Len(P) = 2 /\ P[1].type = 135
    BY <1>2, <1>6
  <2>2. \A i \in 1 .. j : i = 1
    BY <2>1
  <2> QED BY <1>3, <2>1, <2>2, NameOf
<1>7. CASE sent \in GpsFields /\ P = <<addNodeID(sent.nodeid), addReadGPS(sent.read_gps)>>
  <2>1. Len(P) = 2 /\ P[1].type = 150
    BY <1>2, <1>7
  <2>2. \A i \in 1 .. j : i = 1
    BY <2>1
  <2> QED BY <1>3, <2>1, <2>2, NameOf
<1> QED BY <1>4, <1>5, <1>6, <1>7 DEF CommandPlan

LEMMA CommandObeyed ==
    ASSUME 0 \notin TypeControls, CommandInv
    PROVE  NeverAnotherCommand
<1> SUFFICES ASSUME phase = "done", IsCommand
             PROVE  Command(root) \in {Command(sent), <<>>}
  BY DEF NeverAnotherCommand
<1>1. PICK P \in Plan, m \in Nat, j \in Nat :
              /\ CommandPlan(sent, P) /\ Made(P, Len(P)) /\ CutAt(buffer, m)
              /\ Decoded(P, m, j)
              /\ j = Len(P) \/ (j < Len(P) /\ m < Off(P, j + 1))
  BY CommandDone
<1>2. CASE j = Len(P)
  <2>1. root = sent
    BY <1>1, <1>2, WholeCommand
  <2> QED BY <2>1
<1>3. CASE j < Len(P) /\ m < Off(P, j + 1)
  <2>1. Command(root) = <<>>
    BY <1>1, <1>3, CutCommand
  <2> QED BY <2>1
<1> QED BY <1>1, <1>2, <1>3

(* cm_lorawan_event_handler() obeys the command that was sent or does      *)
(* nothing, wherever a zero byte cuts the payload, if no type control is   *)
(* zero.  The hypothesis is needed: a type control of zero is the one byte *)
(* whose loss turns a payload into another command, the one without a type *)
(* control, and the handler knows only the type controls 1 and 2.          *)
THEOREM NeverAnother ==
    ASSUME 0 \notin TypeControls
    PROVE  Spec => []NeverAnotherCommand
<1>1. Init => LayoutInv /\ CommandInv
  BY LayoutInit, CommandInit
<1>2. LayoutInv /\ CommandInv /\ [Next]_vars => (LayoutInv /\ CommandInv)'
  BY LayoutStep, CommandStep
<1>3. CommandInv => NeverAnotherCommand
  BY CommandObeyed
<1> QED BY <1>1, <1>2, <1>3, PTL DEF Spec

=============================================================================
