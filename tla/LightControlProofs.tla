------------------------- MODULE LightControlProofs -------------------------
(***************************************************************************)
(* Proofs about the light control that hold however the handlers           *)
(* interleave: what status_led, its copies and the lamp hold, that the     *)
(* duty cycles fit the channels, and where the timer's mailbox can lose a  *)
(* group command.                                                          *)
(***************************************************************************)
EXTENDS LightControl, TLAPS, FiniteSetTheorems, SequenceTheorems

Blinks == {[color |-> 0, bright |-> 10], [color |-> 0, bright |-> 100]}
PlainNames ==
    {"copy", "commit", "reload", "return", "set_flag", "check_flag", "clear_flag",
     "mesh_wait", "root_write", "root_write_own", "root_write_ble"}

(* The accesses a handler may have on its list.                            *)
Ops ==
    [op : {"color", "status", "to_group"}, arg : Settings]
    \cup [op : {"bright"}, arg : Settings \cup Blinks]
    \cup [op : {"digit"}, arg : [at : 1 .. numDigits, digit : 0 .. 9]]
    \cup [op : {"asked"}, arg : [id : MeshIds]]
    \cup [op : {"low_pwm", "max_pwm", "gen"}, arg : Profiles]
    \cup [op : PlainNames, arg : Settings \cup {NoSetting}]

(* Membership in Ops gives the argument its shape, access by access.       *)
LEMMA OpArgs ==
    ASSUME NEW o \in Ops
    PROVE  /\ o.op \in {"color", "status", "to_group"} => o.arg \in Settings
           /\ o.op = "bright" => o.arg \in Settings \cup Blinks
           /\ o.op = "digit" => o.arg \in [at : 1 .. numDigits, digit : 0 .. 9]
           /\ o.op = "asked" => o.arg \in [id : MeshIds]
           /\ o.op \in {"low_pwm", "max_pwm", "gen"} => o.arg \in Profiles
BY DEF Ops, PlainNames

TypeInv ==
    /\ TypeOK
    /\ todo \in [Tasks -> Seq(Ops)]
    /\ lamp \in [show : [color : Int, bright : Int], low : Int, max : Int]
    /\ minutes \in 0 .. MaxMinutes
    /\ status_led.work <= minutes /\ nvs.work <= minutes
    /\ \A t \in Tasks : copy[t].work <= minutes
-----------------------------------------------------------------------------
(* The lists handlers start with.                                          *)

(* The accesses without an argument.                                       *)
LEMMA PlainOps ==
    ASSUME NEW s \in Settings \cup {NoSetting}, NEW name \in PlainNames
    PROVE  Op(name, s) \in Ops
BY DEF Op, Ops

(* save_led() is a list of accesses.                                       *)
LEMMA SaveTyped == save_led \in Seq(Ops)
<1>1. Op("copy", NoSetting) \in Ops /\ Op("commit", NoSetting) \in Ops
  BY PlainOps DEF PlainNames
<1> QED
  BY <1>1 DEF save_led

(* So is the sequence every light command makes.                           *)
LEMMA ApplyTyped == ASSUME NEW s \in Settings PROVE Apply(s) \in Seq(Ops)
<1>1. Op("color", s) \in Ops /\ Op("bright", s) \in Ops /\ Op("status", s) \in Ops
  BY DEF Op, Ops
<1>2. <<Op("color", s), Op("bright", s), Op("status", s)>> \in Seq(Ops)
  BY <1>1
<1> QED
  BY <1>2, SaveTyped, ConcatProperties DEF Apply

(* So is a command that is left for the timer as well.                     *)
LEMMA GroupCallTyped ==
    ASSUME NEW s \in Settings
    PROVE  /\ <<Op("to_group", s), Op("set_flag", NoSetting)>> \in Seq(Ops)
           /\ Apply(s) \o <<Op("to_group", s), Op("set_flag", NoSetting)>> \in Seq(Ops)
<1>1. Op("to_group", s) \in Ops
  BY DEF Op, Ops
<1>2. Op("set_flag", NoSetting) \in Ops
  BY PlainOps DEF PlainNames
<1>3. <<Op("to_group", s), Op("set_flag", NoSetting)>> \in Seq(Ops)
  BY <1>1, <1>2
<1> QED
  BY <1>3, ApplyTyped, ConcatProperties

(* So are the multicasts of root_write_msg().                              *)
LEMMA WritesTyped ==
    ASSUME NEW s \in Settings
    PROVE  root_write_msg(s) \in Seq(Ops) /\ root_write_own(s) \in Seq(Ops)
<1>1. /\ Op("mesh_wait", s) \in Ops /\ Op("root_write", s) \in Ops
      /\ Op("root_write_own", s) \in Ops
  BY PlainOps DEF PlainNames
<1> QED
  BY <1>1 DEF root_write_msg, root_write_own

(* So is what the handler of a downlink does, whatever the downlink says.  *)
LEMMA DownlinkTyped ==
    ASSUME NEW s \in Settings, NEW node \in Nodes \cup {""}, NEW type \in {0, 1, 2}
    PROVE  Downlink(type, node, s) \in Seq(Ops) /\ ReadGps(node, s) \in Seq(Ops)
<1>1. Apply(s) \o root_write_own(s) \in Seq(Ops)
  BY ApplyTyped, WritesTyped, ConcatProperties
<1>2. <<>> \in Seq(Ops)
  BY EmptySeq
<1>3. Downlink(type, node, s) \in {Apply(s), Apply(s) \o root_write_own(s),
                                  root_write_msg(s), <<>>}
  BY Zenon DEF Downlink
<1> QED
  BY <1>1, <1>2, <1>3, ApplyTyped, WritesTyped DEF ReadGps

(* A mesh id has at most as many digits as meshid has places.              *)
LEMMA DigitsBounded == ASSUME NEW id \in MeshIds PROVE Digits(id) \in 0 .. numDigits
<1> DEFINE D == {k \in 0 .. numDigits - 1 : id \div 10^k > 0}
<1>1. numDigits - 1 \in Int /\ 0 \in Int /\ numDigits - 1 = 5
  BY DEF numDigits
<1>2. IsFiniteSet(0 .. numDigits - 1) /\ Cardinality(0 .. numDigits - 1) = numDigits
  <2>1. /\ IsFiniteSet(0 .. numDigits - 1)
        /\ Cardinality(0 .. numDigits - 1) =
              IF 0 > numDigits - 1 THEN 0 ELSE (numDigits - 1) - 0 + 1
    BY <1>1, FS_Interval, Zenon
  <2> QED
    BY <2>1 DEF numDigits
<1>3. IsFiniteSet(D) /\ Cardinality(D) <= numDigits
  BY <1>2, FS_Subset
<1>4. Cardinality(D) \in Nat
  BY <1>3, FS_CardinalityType
<1> QED
  BY <1>3, <1>4 DEF Digits, numDigits

(* The powers of ten DigitWrites divides by.                               *)
LEMMA PowersOfTen ==
    /\ 10^0 = 1 /\ 10^1 = 10 /\ 10^2 = 100 /\ 10^3 = 1000 /\ 10^4 = 10000
    /\ 10^5 = 100000 /\ 10^6 = 1000000
BY SMT

(* What LightAssumption says of a mesh id.                                 *)
LEMMA MeshIdsAreNat == ASSUME NEW id \in MeshIds PROVE id \in Nat /\ id < 1000000
<1>1. id \in Nat /\ id < 10^numDigits
  BY LightAssumption, Zenon DEF LightAssumption
<1> QED
  BY <1>1, PowersOfTen, SMT DEF numDigits

(* A digit of a mesh id is one.                                            *)
LEMMA DigitTyped ==
    ASSUME NEW id \in MeshIds, NEW k \in 1 .. numDigits
    PROVE  (id \div 10^(k - 1)) % 10 \in 0 .. 9
<1>1. id \in Nat
  BY MeshIdsAreNat
<1>2. k - 1 \in {0, 1, 2, 3, 4, 5}
  BY DEF numDigits
<1>3. 10^(k - 1) \in Nat \ {0}
  <2>1. /\ 10^0 \in Nat \ {0} /\ 10^1 \in Nat \ {0} /\ 10^2 \in Nat \ {0}
        /\ 10^3 \in Nat \ {0} /\ 10^4 \in Nat \ {0} /\ 10^5 \in Nat \ {0}
    BY SMT
  <2> QED
    BY <1>2, <2>1, Zenon
<1> QED
  BY <1>1, <1>3, SMT

(* WRITE_MESH_NETWORK_PF is a list of accesses.                            *)
LEMMA MeshWriteTyped ==
    ASSUME NEW id \in MeshIds
    PROVE  /\ DigitWrites(id) \in Seq(Ops) /\ <<Op("asked", [id |-> id])>> \in Seq(Ops)
           /\ DigitWrites(id) \o <<Op("asked", [id |-> id])>> \o save_led \in Seq(Ops)
<1>1. DigitWrites(id) \in Seq(Ops)
  <2> DEFINE F(k) == Op("digit", [at |-> numDigits + 1 - k,
                                  digit |-> (id \div 10^(k - 1)) % 10])
  <2>1. \A k \in 1 .. Digits(id) : F(k) \in Ops
    <3> TAKE k \in 1 .. Digits(id)
    <3>1. k \in 1 .. numDigits /\ numDigits + 1 - k \in 1 .. numDigits
      BY DigitsBounded DEF numDigits
    <3>2. (id \div 10^(k - 1)) % 10 \in 0 .. 9
      BY <3>1, DigitTyped
    <3> QED
      BY <3>1, <3>2 DEF Op, Ops
  <2>2. Digits(id) \in Nat
    BY DigitsBounded DEF numDigits
  <2>3. DigitWrites(id) = [k \in 1 .. Digits(id) |-> F(k)]
    BY DEF DigitWrites
  <2> HIDE DEF F
  <2> QED
    BY <2>1, <2>2, <2>3, IsASeq
<1>2. <<Op("asked", [id |-> id])>> \in Seq(Ops)
  BY DEF Op, Ops
<1>3. DigitWrites(id) \o <<Op("asked", [id |-> id])>> \in Seq(Ops)
  BY <1>1, <1>2, ConcatProperties
<1> QED
  BY <1>1, <1>2, <1>3, SaveTyped, ConcatProperties

(* So is WRITE_STREET_LIGHT_PF.                                            *)
LEMMA ProfileTyped ==
    ASSUME NEW p \in Profiles
    PROVE  <<Op("low_pwm", p), Op("max_pwm", p), Op("gen", p)>> \o save_led \in Seq(Ops)
<1>1. <<Op("low_pwm", p), Op("max_pwm", p), Op("gen", p)>> \in Seq(Ops)
  BY DEF Op, Ops
<1> QED
  BY <1>1, SaveTyped, ConcatProperties

(* So is SCAN_SL.                                                          *)
LEMMA ScanTyped == <<Blink(10), Blink(100), Op("return", NoSetting)>> \in Seq(Ops)
<1>1. Blink(10) \in Ops /\ Blink(100) \in Ops
  BY DEF Blink, Op, Ops, Blinks
<1>2. Op("return", NoSetting) \in Ops
  BY PlainOps DEF PlainNames
<1> QED
  BY <1>1, <1>2
-----------------------------------------------------------------------------
(* Types.                                                                  *)

(* The two word sizes, as facts: the intervals below them stay folded.     *)
LEMMA WordSizes == UINT8 \in Nat /\ UINT8 = 256 /\ UINT16 \in Nat /\ UINT16 = 65536
BY SMT DEF UINT8, UINT16

(* A byte is at most 255.                                                  *)
LEMMA Bytes == \A x \in 0 .. UINT8 - 1 : x \in Nat /\ x <= 255
<1>1. UINT8 \in Nat
  BY WordSizes
<1>2. \A x \in 0 .. UINT8 - 1 : x \in Nat /\ x <= UINT8 - 1
  BY <1>1
<1>3. UINT8 - 1 = 255
  BY WordSizes
<1> QED
  BY <1>2, <1>3, Zenon

(* The bounds of a behaviour are numbers.                                  *)
LEMMA BoundsAreNat == MaxCommands \in Nat /\ MaxMinutes \in Nat /\ MaxRestarts \in Nat
BY LightAssumption, Zenon DEF LightAssumption

(* The two members of a request are numbers of their width.                *)
LEMMA RequestsAreNumbers ==
    ASSUME NEW s \in Requests
    PROVE  s \in [color : Nat, bright : Nat]
<1>1. UINT16 \in Nat /\ UINT8 \in Nat
  BY WordSizes
<1>2. Settings \subseteq [color : 0 .. UINT16 - 1, bright : 0 .. UINT8 - 1]
  BY LightAssumption, Zenon DEF LightAssumption
<1>3. CASE s \in Settings
  <2>1. s \in [color : 0 .. UINT16 - 1, bright : 0 .. UINT8 - 1]
    BY <1>2, <1>3
  <2> QED
    BY <1>1, <2>1
<1>4. CASE s = Default
  BY <1>4 DEF Default
<1> QED
  BY <1>3, <1>4 DEF Requests

(* Whatever is requested, the effective colour and brightness are          *)
(* integers.                                                               *)
LEMMA EffectiveRanges ==
    ASSUME NEW v \in Int
    PROVE  /\ effective_color(v) \in Int
           /\ 2700 <= effective_color(v) /\ effective_color(v) <= 6500
           /\ effective_brightness(v) \in Int
           /\ 10 <= effective_brightness(v) /\ effective_brightness(v) <= 100
BY DEF effective_color, effective_brightness

(* The members of status_led.                                              *)
LEMMA StateFields ==
    ASSUME NEW st \in States
    PROVE  /\ st.set \in Requests /\ st.work \in 0 .. MaxMinutes
           /\ st.meshid \in [1 .. numDigits -> 0 .. 9]
           /\ st.asked \in MeshIds \cup {123456}
           /\ st.low \in 0 .. UINT8 - 1 /\ st.max \in 0 .. UINT8 - 1
           /\ st.gen \in {1, 2}
<1> DEFINE W == 0 .. MaxMinutes
           D == [1 .. numDigits -> 0 .. 9]
           A == MeshIds \cup {123456}
           B == 0 .. UINT8 - 1
           G == {1, 2}
<1>1. States = [set : Requests, work : W, meshid : D, asked : A, low : B, max : B, gen : G]
  BY DEF States
<1> HIDE DEF W, D, A, B, G
<1>2. /\ st.set \in Requests /\ st.work \in W /\ st.meshid \in D /\ st.asked \in A
      /\ st.low \in B /\ st.max \in B /\ st.gen \in G
  BY <1>1
<1> USE DEF W, D, A, B, G
<1> QED
  BY <1>2

(* An assignment to one field of status_led.                               *)
Updated(new, set, work, meshid, asked) ==
    /\ new \in States
    /\ new.set = set /\ new.work = work /\ new.meshid = meshid /\ new.asked = asked

(* status_led with one member replaced.                                    *)
LEMMA StateUpdates ==
    ASSUME NEW st \in States
    PROVE  /\ \A s \in Requests : Updated([st EXCEPT !.set = s], s, st.work, st.meshid, st.asked)
           /\ \A m \in [1 .. numDigits -> 0 .. 9] : Updated([st EXCEPT !.meshid = m], st.set, st.work, m, st.asked)
           /\ \A id \in MeshIds : Updated([st EXCEPT !.asked = id], st.set, st.work, st.meshid, id)
           /\ \A l \in 0 .. UINT8 - 1 : Updated([st EXCEPT !.low = l], st.set, st.work, st.meshid, st.asked)
           /\ \A l \in 0 .. UINT8 - 1 : Updated([st EXCEPT !.max = l], st.set, st.work, st.meshid, st.asked)
           /\ \A g \in {1, 2} : Updated([st EXCEPT !.gen = g], st.set, st.work, st.meshid, st.asked)
           /\ \A w \in 0 .. MaxMinutes : Updated([st EXCEPT !.work = w], st.set, w, st.meshid, st.asked)
<1> DEFINE W == 0 .. MaxMinutes
           D == [1 .. numDigits -> 0 .. 9]
           A == MeshIds \cup {123456}
           B == 0 .. UINT8 - 1
           G == {1, 2}
<1>1. States = [set : Requests, work : W, meshid : D, asked : A, low : B, max : B, gen : G]
  BY DEF States
<1>2. \A id \in MeshIds : id \in A
  BY SMT
<1> HIDE DEF W, D, A, B, G
<1>3. /\ \A s \in Requests : Updated([st EXCEPT !.set = s], s, st.work, st.meshid, st.asked)
      /\ \A m \in D : Updated([st EXCEPT !.meshid = m], st.set, st.work, m, st.asked)
      /\ \A a \in A : Updated([st EXCEPT !.asked = a], st.set, st.work, st.meshid, a)
      /\ \A b \in B : Updated([st EXCEPT !.low = b], st.set, st.work, st.meshid, st.asked)
      /\ \A b \in B : Updated([st EXCEPT !.max = b], st.set, st.work, st.meshid, st.asked)
      /\ \A g \in G : Updated([st EXCEPT !.gen = g], st.set, st.work, st.meshid, st.asked)
      /\ \A w \in W : Updated([st EXCEPT !.work = w], st.set, w, st.meshid, st.asked)
  BY <1>1 DEF Updated
<1> QED
  BY <1>2, <1>3 DEF W, D, B, G

(* status_led with the working time replaced.                              *)
LEMMA StateWork ==
    ASSUME NEW st \in States, NEW w
    PROVE  /\ [st EXCEPT !.work = w].work = w
           /\ [st EXCEPT !.work = w].set = st.set
           /\ [st EXCEPT !.work = w].meshid = st.meshid
           /\ [st EXCEPT !.work = w].asked = st.asked
           /\ [st EXCEPT !.work = w].low = st.low /\ [st EXCEPT !.work = w].max = st.max
<1> DEFINE W == 0 .. MaxMinutes
           D == [1 .. numDigits -> 0 .. 9]
           A == MeshIds \cup {123456}
           B == 0 .. UINT8 - 1
           G == {1, 2}
<1>1. States = [set : Requests, work : W, meshid : D, asked : A, low : B, max : B, gen : G]
  BY DEF States
<1> HIDE DEF W, D, A, B, G
<1> QED
  BY <1>1

(* A handler that has made its first access has a list of accesses left.   *)
LEMMA DoneTyped ==
    ASSUME todo \in [Tasks -> Seq(Ops)], NEW t \in Tasks, todo[t] # <<>>
    PROVE  /\ Head(todo[t]) \in Ops /\ Tail(todo[t]) \in Seq(Ops)
           /\ Done(t) => todo' \in [Tasks -> Seq(Ops)]
<1>1. todo[t] \in Seq(Ops)
  OBVIOUS
<1>2. Head(todo[t]) \in Ops /\ Tail(todo[t]) \in Seq(Ops)
  BY <1>1, HeadTailProperties
<1> QED
  BY <1>2 DEF Done

(* init_led() shows a lamp of the right type.                              *)
LEMMA LitTyped ==
    ASSUME NEW st \in States
    PROVE  /\ Lit(st) \in [show : [color : Int, bright : Int], low : Int, max : Int]
           /\ Lit(st).show.color \in {effective_color(s.color) : s \in Requests}
           /\ Lit(st).show.bright \in {effective_brightness(s.bright) : s \in Requests}
           /\ Lit(st).low \in 0 .. UINT8 - 1 /\ Lit(st).max \in 0 .. UINT8 - 1
<1>1. /\ st.set \in Requests
      /\ st.low \in 0 .. UINT8 - 1 /\ st.max \in 0 .. UINT8 - 1
  BY StateFields
<1>2. effective_color(st.set.color) \in Int /\ effective_brightness(st.set.bright) \in Int
  <2>1. st.set.color \in Int /\ st.set.bright \in Int
    BY <1>1, RequestsAreNumbers
  <2> QED
    BY <2>1, EffectiveRanges
<1>3. Lit(st) = [show |-> [color |-> effective_color(st.set.color),
                           bright |-> effective_brightness(st.set.bright)],
                 low |-> st.low, max |-> st.max]
  BY DEF Lit, Shown
<1>4. st.low \in Int /\ st.max \in Int
  BY <1>1, Bytes
<1> QED
  BY <1>1, <1>2, <1>3, <1>4

(* app_main's defaults are a state.                                        *)
LEMMA FirstBootTyped == FirstBoot \in States
<1>1. <<1, 2, 3, 4, 5, 6>> \in [1 .. numDigits -> 0 .. 9]
  BY DEF numDigits
<1>2. Default \in Requests
  BY DEF Requests
<1>3. 0 \in 0 .. MaxMinutes
  BY BoundsAreNat
<1>4. 41 \in 0 .. UINT8 - 1 /\ 185 \in 0 .. UINT8 - 1
  BY WordSizes
<1> QED
  BY <1>1, <1>2, <1>3, <1>4, SMT DEF FirstBoot, States

(* The first boot has the types.                                           *)
LEMMA InitTyped == Init => TypeInv
<1> SUFFICES ASSUME Init PROVE TypeInv
  OBVIOUS
<1>1. FirstBoot \in States /\ FirstBoot.work = 0
  BY FirstBootTyped DEF FirstBoot
<1>2. todo \in [Tasks -> Seq(Ops)]
  BY EmptySeq DEF Init
<1>3. MaxMinutes \in Nat
  BY BoundsAreNat
<1>4. status_led = FirstBoot /\ nvs = FirstBoot /\ copy = [t \in Tasks |-> FirstBoot]
  BY DEF Init
<1>5. lamp = Lit(FirstBoot)
  BY DEF Init
<1>6. TypeOK
  BY <1>1, <1>4, <1>5, LitTyped DEF Init, TypeOK
<1>7. minutes = 0
  BY DEF Init
<1> QED
  BY <1>1, <1>2, <1>3, <1>4, <1>5, <1>6, <1>7, LitTyped DEF TypeInv

(* A handler starts, or changes nothing but its own list.                  *)
LEMMA ListOnlyTyped ==
    ASSUME TypeInv, todo' \in [Tasks -> Seq(Ops)],
           UNCHANGED <<ram, nvs, lamp, rescaled, minutes>>, mesh_started' \in BOOLEAN
    PROVE  TypeInv'
BY DEF TypeInv, TypeOK, ram

(* A handler that starts keeps the types.                                  *)
LEMMA StartTyped ==
    ASSUME TypeInv, NEW t \in Tasks, NEW ops \in Seq(Ops), Start(t, ops)
    PROVE  TypeInv'
<1>1. todo' \in [Tasks -> Seq(Ops)]
  BY DEF Start, TypeInv
<1> QED
  BY <1>1, ListOnlyTyped DEF Start, TypeInv, TypeOK, ghosts

(* Every assignment to status_led keeps the types.                         *)
LEMMA AssignTyped ==
    ASSUME TypeInv, NEW t \in Tasks, todo[t] # <<>>, NEW st \in States,
           st.work <= minutes, Assign(t, st)
    PROVE  TypeInv'
<1>1. todo' \in [Tasks -> Seq(Ops)]
  BY DoneTyped DEF TypeInv, Assign
<1> QED
  BY <1>1 DEF Assign, TypeInv, TypeOK, counts

(* Set_Brightness() keeps the types.                                       *)
LEMMA BrightenTyped ==
    ASSUME TypeInv, NEW t \in Tasks, todo[t] # <<>>, Done(t), NEW b \in Int, Brighten(b),
           \/ \E s \in Requests : b = s.bright
           \/ b \in {10, 100}
    PROVE  TypeInv'
<1>1. todo' \in [Tasks -> Seq(Ops)]
  BY DoneTyped DEF TypeInv
<1>2. effective_brightness(b) \in {effective_brightness(s.bright) : s \in Requests} \cup {10, 100}
  BY DEF effective_brightness
<1>3. effective_brightness(b) \in Int
  BY EffectiveRanges
<1>4. status_led.low \in 0 .. UINT8 - 1 /\ status_led.max \in 0 .. UINT8 - 1
  BY StateFields DEF TypeInv, TypeOK
<1>5. status_led.low \in Int /\ status_led.max \in Int
  BY <1>4, Bytes
<1>6. lamp' = [show |-> [color |-> lamp.show.color, bright |-> effective_brightness(b)],
                low |-> status_led.low, max |-> status_led.max]
  <2>1. lamp.show \in [color : Int, bright : Int]
    BY DEF TypeInv
  <2>2. \A r \in [color : Int, bright : Int] : \A x :
            [r EXCEPT !.bright = x] = [color |-> r.color, bright |-> x]
    OBVIOUS
  <2> QED
    BY <2>1, <2>2, Zenon DEF Brighten
<1>7. /\ lamp' \in [show : [color : Int, bright : Int], low : Int, max : Int]
      /\ lamp'.show.color = lamp.show.color
      /\ lamp'.show.bright = effective_brightness(b)
      /\ lamp'.low = status_led.low /\ lamp'.max = status_led.max
  BY <1>3, <1>5, <1>6 DEF TypeInv
<1>8. UNCHANGED <<ram, nvs, mesh_started, minutes>> /\ rescaled' = FALSE
  BY DEF Brighten, counts
<1> QED
  BY <1>1, <1>2, <1>4, <1>7, <1>8 DEF TypeInv, TypeOK, ram

(* An access of Set_Color() keeps the types.                               *)
LEMMA SetColorTyped == ASSUME TypeInv, NEW t \in Tasks, SetColor(t) PROVE TypeInv'
<1>1. todo[t] # <<>> /\ Done(t) /\ Head(todo[t]).op = "color"
  BY DEF SetColor, Doing
<1>2. todo' \in [Tasks -> Seq(Ops)] /\ Head(todo[t]) \in Ops
  BY <1>1, DoneTyped DEF TypeInv
<1>3. Arg(t) \in Requests
  BY <1>1, <1>2, OpArgs DEF Arg, Requests
<1>4. effective_color(Arg(t).color) \in Int
  BY <1>3, RequestsAreNumbers, EffectiveRanges
<1>5. lamp' = [show |-> [color |-> effective_color(Arg(t).color), bright |-> lamp.show.bright],
               low |-> lamp.low, max |-> lamp.max]
  BY DEF SetColor, TypeInv
<1>6. /\ lamp' \in [show : [color : Int, bright : Int], low : Int, max : Int]
      /\ lamp'.show.color \in {effective_color(s.color) : s \in Requests}
      /\ lamp'.show.bright = lamp.show.bright
      /\ lamp'.low = lamp.low /\ lamp'.max = lamp.max
  BY <1>3, <1>4, <1>5 DEF TypeInv
<1>7. UNCHANGED <<ram, nvs, mesh_started, rescaled, minutes>>
  BY DEF SetColor, ghosts, counts
<1> QED
  BY <1>2, <1>6, <1>7 DEF TypeInv, TypeOK, ram

(* An access of Set_Brightness() keeps the types.                          *)
LEMMA SetBrightnessTyped == ASSUME TypeInv, NEW t \in Tasks, SetBrightness(t) PROVE TypeInv'
<1>1. todo[t] # <<>> /\ Done(t) /\ Head(todo[t]).op = "bright" /\ Brighten(Arg(t).bright)
  BY DEF SetBrightness, Doing
<1>2. Head(todo[t]) \in Ops
  BY <1>1, DoneTyped DEF TypeInv
<1>3. Arg(t) \in Requests \/ Arg(t) \in Blinks
  BY <1>1, <1>2, OpArgs DEF Arg, Requests
<1>4. CASE Arg(t) \in Requests
  BY <1>1, <1>4, RequestsAreNumbers, BrightenTyped
<1>5. CASE Arg(t) \in Blinks
  <2>1. Arg(t).bright \in {10, 100} /\ Arg(t).bright \in Int
    BY <1>5 DEF Blinks
  <2> QED
    BY <1>1, <2>1, BrightenTyped
<1> QED
  BY <1>3, <1>4, <1>5

(* An access of SCAN_SL's return to the last status keeps the types.       *)
LEMMA ReturnTyped == ASSUME TypeInv, NEW t \in Tasks, ReturnToStatus(t) PROVE TypeInv'
<1>1. todo[t] # <<>> /\ Done(t) /\ Brighten(status_led.set.bright)
  BY DEF ReturnToStatus, Doing
<1>2. status_led.set \in Requests
  BY StateFields DEF TypeInv, TypeOK
<1> QED
  BY <1>1, <1>2, RequestsAreNumbers, BrightenTyped

(* An access of a light command to status_led keeps the types.             *)
LEMMA SetStatusTyped == ASSUME TypeInv, NEW t \in Tasks, SetStatus(t) PROVE TypeInv'
<1> DEFINE st == [status_led EXCEPT !.set = Arg(t)]
<1>1. todo[t] # <<>> /\ Head(todo[t]).op = "status" /\ Assign(t, st)
  BY DEF SetStatus, Doing
<1>2. Head(todo[t]) \in Ops
  BY <1>1, DoneTyped DEF TypeInv
<1>3. Arg(t) \in Requests
  BY <1>1, <1>2, OpArgs DEF Arg, Requests
<1>4. st \in States /\ st.work = status_led.work
  <2>1. status_led \in States
    BY DEF TypeInv, TypeOK
  <2> QED
    BY <1>3, <2>1, StateUpdates, Zenon DEF Updated
<1>5. st.work <= minutes
  BY <1>4 DEF TypeInv
<1> QED
  BY <1>1, <1>4, <1>5, AssignTyped

(* An access of WRITE_MESH_NETWORK_PF to status_led keeps the types.       *)
LEMMA SetMeshIdTyped == ASSUME TypeInv, NEW t \in Tasks, SetMeshId(t) PROVE TypeInv'
<1>1. todo[t] # <<>>
  BY DEF SetMeshId, Doing
<1>2. Head(todo[t]) \in Ops
  BY <1>1, DoneTyped DEF TypeInv
<1>3. CASE Doing(t, "digit") /\ Assign(t, [status_led EXCEPT !.meshid[Arg(t).at] = Arg(t).digit])
  <2> DEFINE st == [status_led EXCEPT !.meshid[Arg(t).at] = Arg(t).digit]
  <2>1. Arg(t) \in [at : 1 .. numDigits, digit : 0 .. 9]
    BY <1>2, <1>3, OpArgs DEF Arg, Doing
  <2>2. st \in States /\ st.work = status_led.work
    <3>1. status_led \in States /\ status_led.meshid \in [1 .. numDigits -> 0 .. 9]
      BY StateFields DEF TypeInv, TypeOK
    <3>2. [status_led.meshid EXCEPT ![Arg(t).at] = Arg(t).digit] \in [1 .. numDigits -> 0 .. 9]
      BY <2>1, <3>1
    <3> QED
      BY <3>1, <3>2, StateUpdates, Zenon DEF Updated
  <2>3. st.work <= minutes
    BY <2>2 DEF TypeInv
  <2> QED
    BY <1>1, <1>3, <2>2, <2>3, AssignTyped
<1>4. CASE Doing(t, "asked") /\ Assign(t, [status_led EXCEPT !.asked = Arg(t).id])
  <2> DEFINE st == [status_led EXCEPT !.asked = Arg(t).id]
  <2>1. Arg(t).id \in MeshIds
    BY <1>2, <1>4, OpArgs DEF Arg, Doing
  <2>2. st \in States /\ st.work = status_led.work
    <3>1. status_led \in States
      BY DEF TypeInv, TypeOK
    <3> QED
      BY <2>1, <3>1, StateUpdates, Zenon DEF Updated
  <2>3. st.work <= minutes
    BY <2>2 DEF TypeInv
  <2> QED
    BY <1>1, <1>4, <2>2, <2>3, AssignTyped
<1> QED
  BY <1>3, <1>4 DEF SetMeshId

(* A profile is stored in bytes.                                           *)
LEMMA ProfileUpdates ==
    ASSUME TypeInv, NEW t \in Tasks, SetProfile(t)
    PROVE  \E st : /\ Updated(st, status_led.set, status_led.work, status_led.meshid,
                              status_led.asked)
                   /\ Assign(t, st)
<1>1. todo[t] # <<>> /\ Head(todo[t]).op \in {"low_pwm", "max_pwm", "gen"}
  BY DEF SetProfile, Doing
<1>2. Head(todo[t]) \in Ops
  BY <1>1, DoneTyped DEF TypeInv
<1>3. Arg(t) \in Profiles
  BY <1>1, <1>2, OpArgs DEF Arg
<1>4. Arg(t).low \in Int /\ Arg(t).max \in Int
  <2>1. Profiles \subseteq [low : Int, max : Int, gen : STRING]
    BY LightAssumption, Zenon DEF LightAssumption
  <2> QED
    BY <1>3, <2>1
<1>5. Arg(t).low % UINT8 \in 0 .. UINT8 - 1 /\ Arg(t).max % UINT8 \in 0 .. UINT8 - 1
  <2>1. \A n \in Nat \ {0} : \A x \in Int : x % n \in 0 .. n - 1
    OBVIOUS
  <2>2. UINT8 \in Nat \ {0}
    BY WordSizes
  <2> QED
    BY <1>4, <2>1, <2>2, Zenon
<1> DEFINE g == IF Arg(t).gen = "DIM" THEN 2
                ELSE IF Arg(t).gen = "DIMCOLOR" THEN 1 ELSE status_led.gen
           sl == [status_led EXCEPT !.low = Arg(t).low % UINT8]
           sm == [status_led EXCEPT !.max = Arg(t).max % UINT8]
           sg == [status_led EXCEPT !.gen = g]
<1>6. g \in {1, 2}
  BY StateFields DEF TypeInv, TypeOK
<1> DEFINE Same(st) ==
             Updated(st, status_led.set, status_led.work, status_led.meshid, status_led.asked)
<1>7. Same(sl) /\ Same(sm) /\ Same(sg)
  <2> HIDE DEF g
  <2>1. status_led \in States
    BY DEF TypeInv, TypeOK
  <2>2. Same(sl)
    BY <1>5, <2>1, StateUpdates, Zenon
  <2>3. Same(sm)
    BY <1>5, <2>1, StateUpdates, Zenon
  <2>4. Same(sg)
    BY <1>6, <2>1, StateUpdates, Zenon
  <2> QED
    BY <2>2, <2>3, <2>4
<1>8. Assign(t, sl) \/ Assign(t, sm) \/ Assign(t, sg)
  BY DEF SetProfile
<1> HIDE DEF sl, sm, sg
<1> QED
  BY <1>7, <1>8

(* An access of WRITE_STREET_LIGHT_PF to status_led keeps the types.       *)
LEMMA SetProfileTyped == ASSUME TypeInv, NEW t \in Tasks, SetProfile(t) PROVE TypeInv'
<1>1. PICK st \in States : st.work = status_led.work /\ Assign(t, st)
  BY ProfileUpdates DEF Updated
<1>2. todo[t] # <<>> /\ status_led.work <= minutes
  BY DEF SetProfile, Doing, TypeInv
<1> QED
  BY <1>1, <1>2, AssignTyped

(* save_led()'s argument is a state.                                       *)
LEMMA CopyTyped == ASSUME TypeInv, NEW t \in Tasks, CopyStatus(t) PROVE TypeInv'
<1>1. todo' \in [Tasks -> Seq(Ops)]
  BY DoneTyped DEF CopyStatus, Doing, TypeInv
<1> QED
  BY <1>1 DEF CopyStatus, TypeInv, TypeOK, ghosts, counts

(* What save_led() stores is a state.                                      *)
LEMMA CommitTyped == ASSUME TypeInv, NEW t \in Tasks, Commit(t) PROVE TypeInv'
<1>1. todo' \in [Tasks -> Seq(Ops)]
  BY DoneTyped DEF Commit, Doing, TypeInv
<1> QED
  BY <1>1 DEF Commit, TypeInv, TypeOK, ram, ghosts, counts

(* What read_led() reads is a state.                                       *)
LEMMA ReloadTyped == ASSUME TypeInv, NEW t \in Tasks, Reload(t) PROVE TypeInv'
<1>1. todo[t] # <<>> /\ Assign(t, nvs) /\ nvs \in States /\ nvs.work <= minutes
  BY DEF Reload, Doing, TypeInv, TypeOK
<1> QED
  BY <1>1, AssignTyped

(* A group command left for the timer keeps the types.                     *)
LEMMA ToGroupTyped == ASSUME TypeInv, NEW t \in Tasks, ToGroup(t) PROVE TypeInv'
<1>1. todo[t] # <<>> /\ Done(t) /\ Head(todo[t]).op = "to_group"
  BY DEF ToGroup, Doing
<1>2. todo' \in [Tasks -> Seq(Ops)] /\ Head(todo[t]) \in Ops
  BY <1>1, DoneTyped DEF TypeInv
<1>3. Arg(t) \in Settings
  BY <1>1, <1>2, OpArgs DEF Arg
<1> QED
  BY <1>2, <1>3 DEF ToGroup, TypeInv, TypeOK, counts

(* The flag set for it keeps the types.                                    *)
LEMMA SetFlagTyped == ASSUME TypeInv, NEW t \in Tasks, SetFlag(t) PROVE TypeInv'
<1>1. todo' \in [Tasks -> Seq(Ops)]
  BY DoneTyped DEF SetFlag, Doing, TypeInv
<1> QED
  BY <1>1 DEF SetFlag, TypeInv, TypeOK, counts

(* The timer's look at the group flag keeps the types.                     *)
LEMMA CheckFlagTyped == ASSUME TypeInv, NEW t \in Tasks, CheckFlag(t) PROVE TypeInv'
<1> DEFINE l == <<Op("mesh_wait", NoSetting), Op("root_write_ble", NoSetting),
                  Op("clear_flag", NoSetting)>>
<1>1. /\ Op("mesh_wait", NoSetting) \in Ops /\ Op("root_write_ble", NoSetting) \in Ops
      /\ Op("clear_flag", NoSetting) \in Ops
  BY PlainOps DEF PlainNames
<1>2. l \in Seq(Ops) /\ <<>> \in Seq(Ops)
  BY <1>1, EmptySeq
<1>3. todo' = [todo EXCEPT ![t] = IF ble_cmd_to_gr THEN l ELSE <<>>]
  BY DEF CheckFlag
<1> HIDE DEF l
<1>4. todo' \in [Tasks -> Seq(Ops)]
  BY <1>2, <1>3 DEF TypeInv
<1> QED
  BY <1>4, ListOnlyTyped DEF CheckFlag, ghosts, counts, TypeInv, TypeOK

(* The accesses that change neither status_led nor the lamp keep the       *)
(* types.                                                                  *)
LEMMA WaitTyped ==
    ASSUME TypeInv, NEW t \in Tasks, ClearFlag(t) \/ MeshWait(t) \/ RootWrite(t)
    PROVE  TypeInv'
<1>1. todo[t] # <<>> /\ Done(t)
  BY DEF ClearFlag, MeshWait, RootWrite, Doing
<1>2. todo' \in [Tasks -> Seq(Ops)]
  BY <1>1, DoneTyped DEF TypeInv
<1>3. CASE ClearFlag(t)
  BY <1>2, <1>3 DEF ClearFlag, TypeInv, TypeOK, ghosts, counts
<1>4. CASE MeshWait(t) \/ RootWrite(t)
  BY <1>2, <1>4, ListOnlyTyped DEF MeshWait, RootWrite, ghosts, counts, TypeInv, TypeOK
<1> QED
  BY <1>3, <1>4

(* The 60th second keeps the types.                                        *)
LEMMA MinuteTyped == ASSUME TypeInv, Minute PROVE TypeInv'
<1>1. minutes < MaxMinutes /\ minutes' = minutes + 1 /\ minutes \in 0 .. MaxMinutes
  BY DEF Minute, TypeInv
<1>2. MaxMinutes \in Nat /\ minutes \in Nat /\ minutes' \in 0 .. MaxMinutes
  BY <1>1, BoundsAreNat
<1>3. status_led \in States /\ status_led.work \in Nat /\ status_led.work <= minutes
  BY <1>2, StateFields DEF TypeInv, TypeOK
<1>4. status_led' \in States /\ status_led'.work <= minutes'
  <2>1. status_led.work + 1 \in 0 .. MaxMinutes
    BY <1>1, <1>2, <1>3
  <2>2. status_led' \in States /\ status_led'.work = status_led.work + 1
    BY <1>3, <2>1, StateUpdates, Zenon DEF Minute, Updated
  <2> QED
    BY <1>1, <1>2, <1>3, <2>2
<1>5. save_led \o <<Op("check_flag", NoSetting)>> \in Seq(Ops)
  <2>1. Op("check_flag", NoSetting) \in Ops
    BY PlainOps DEF PlainNames
  <2>2. <<Op("check_flag", NoSetting)>> \in Seq(Ops)
    BY <2>1
  <2> QED
    BY <2>2, SaveTyped, ConcatProperties
<1>6. todo' \in [Tasks -> Seq(Ops)]
  BY <1>5 DEF Minute, TypeInv, Tasks
<1>7. nvs.work <= minutes' /\ \A t \in Tasks : copy[t].work <= minutes'
  <2>1. nvs \in States /\ \A t \in Tasks : copy[t] \in States
    BY DEF TypeInv, TypeOK
  <2>2. \A st \in States : st.work \in Nat
    BY <1>2, StateFields
  <2>3. nvs.work <= minutes /\ \A t \in Tasks : copy[t].work <= minutes
    BY DEF TypeInv
  <2> QED
    BY <1>1, <1>2, <2>1, <2>2, <2>3
<1>8. UNCHANGED <<nvs, lamp, copy, recvb_form_ble, ble_cmd_to_gr, mesh_started, rescaled>>
  BY DEF Minute, ghosts
<1> QED
  BY <1>2, <1>4, <1>6, <1>7, <1>8 DEF TypeInv, TypeOK

(* A tick keeps the types.                                                 *)
LEMMA TickTyped == ASSUME TypeInv, Tick PROVE TypeInv'
<1>1. Op("check_flag", NoSetting) \in Ops
  BY PlainOps DEF PlainNames
<1>2. <<Op("check_flag", NoSetting)>> \in Seq(Ops)
  BY <1>1
<1>3. todo' \in [Tasks -> Seq(Ops)]
  BY <1>2 DEF Tick, TypeInv, Tasks
<1> QED
  BY <1>3, ListOnlyTyped DEF Tick, ghosts, counts, TypeInv, TypeOK

(* A restart keeps the types.                                              *)
LEMMA RestartTyped == ASSUME TypeInv, Restart PROVE TypeInv'
<1>1. nvs \in States /\ nvs.work <= minutes
  BY DEF TypeInv, TypeOK
<1>2. /\ status_led' = nvs /\ nvs' = nvs /\ copy' = [t \in Tasks |-> nvs]
      /\ lamp' = Lit(nvs) /\ todo' = [t \in Tasks |-> <<>>] /\ minutes' = minutes
      /\ recvb_form_ble' = NoSetting /\ ble_cmd_to_gr' = FALSE
      /\ mesh_started' = FALSE /\ rescaled' = FALSE
  BY DEF Restart, Boot
<1>3. todo' \in [Tasks -> Seq(Ops)]
  BY <1>2, EmptySeq
<1>4. TypeOK'
  BY <1>1, <1>2, LitTyped DEF TypeOK
<1> QED
  BY <1>1, <1>2, <1>3, <1>4, LitTyped DEF TypeInv

(* Every step of a handler keeps the types.                                *)
LEMMA TaskStepTyped == ASSUME TypeInv, NEW t \in Tasks, TaskStep(t) PROVE TypeInv'
BY SetColorTyped, SetBrightnessTyped, ReturnTyped, SetStatusTyped, SetMeshIdTyped,
   SetProfileTyped, CopyTyped, CommitTyped, ReloadTyped, ToGroupTyped, SetFlagTyped,
   CheckFlagTyped, WaitTyped, Zenon DEF TaskStep

(* Every handler that starts keeps the types.                              *)
LEMMA StartsTyped ==
    ASSUME TypeInv,
           \/ LORAWAN_UPDATE \/ TEST_CONTROL_SL \/ TEST_CONTROL_SL_GR
           \/ READ_PF \/ WRITE_MESH_NETWORK_PF \/ WRITE_STREET_LIGHT_PF \/ SCAN_SL
    PROVE  TypeInv'
<1> USE StartTyped DEF Tasks
<1>1. CASE LORAWAN_UPDATE
  <2> PICK s \in Settings, node \in Nodes \cup {""} :
          \/ \E type \in {0, 1, 2} : Start("parser", Downlink(type, node, s))
          \/ node # "" /\ Start("parser", ReadGps(node, s))
    BY <1>1 DEF LORAWAN_UPDATE
  <2>1. CASE \E type \in {0, 1, 2} : Start("parser", Downlink(type, node, s))
    BY <2>1, DownlinkTyped, Zenon
  <2>2. CASE Start("parser", ReadGps(node, s))
    <3>1. ReadGps(node, s) \in Seq(Ops)
      BY DownlinkTyped
    <3> QED
      BY <2>2, <3>1
  <2> QED
    BY <2>1, <2>2
<1>2. CASE TEST_CONTROL_SL
  BY <1>2, ApplyTyped DEF TEST_CONTROL_SL
<1>3. CASE TEST_CONTROL_SL_GR
  <2> PICK s \in Settings :
          Start("bt", Apply(s) \o <<Op("to_group", s), Op("set_flag", NoSetting)>>)
    BY <1>3 DEF TEST_CONTROL_SL_GR
  <2>1. Apply(s) \o <<Op("to_group", s), Op("set_flag", NoSetting)>> \in Seq(Ops)
    BY GroupCallTyped
  <2> QED
    BY <2>1
<1>4. CASE READ_PF
  <2>1. Op("reload", NoSetting) \in Ops
    BY PlainOps DEF PlainNames
  <2>2. read_led \in Seq(Ops)
    BY <2>1 DEF read_led
  <2> QED
    BY <1>4, <2>2 DEF READ_PF
<1>5. CASE WRITE_MESH_NETWORK_PF
  BY <1>5, MeshWriteTyped DEF WRITE_MESH_NETWORK_PF
<1>6. CASE WRITE_STREET_LIGHT_PF
  BY <1>6, ProfileTyped DEF WRITE_STREET_LIGHT_PF
<1>7. CASE SCAN_SL
  BY <1>7, ScanTyped DEF SCAN_SL
<1> QED
  BY <1>1, <1>2, <1>3, <1>4, <1>5, <1>6, <1>7

(* TypeInv is inductive.                                                   *)
LEMMA StepTyped == TypeInv /\ [Next]_vars => TypeInv'
<1> SUFFICES ASSUME TypeInv, [Next]_vars PROVE TypeInv'
  OBVIOUS
<1>1. CASE \/ LORAWAN_UPDATE \/ TEST_CONTROL_SL \/ TEST_CONTROL_SL_GR
           \/ READ_PF \/ WRITE_MESH_NETWORK_PF \/ WRITE_STREET_LIGHT_PF \/ SCAN_SL
  BY <1>1, StartsTyped
<1>2. CASE Minute \/ Tick
  BY <1>2, MinuteTyped, TickTyped
<1>3. CASE \E t \in Tasks : TaskStep(t)
  BY <1>3, TaskStepTyped
<1>4. CASE MeshStarted
  BY <1>4, ListOnlyTyped DEF MeshStarted, ghosts, counts, TypeInv
<1>5. CASE Restart
  BY <1>5, RestartTyped
<1>6. CASE UNCHANGED vars
  BY <1>6, ListOnlyTyped DEF vars, ghosts, counts, TypeInv, TypeOK
<1> QED
  BY <1>1, <1>2, <1>3, <1>4, <1>5, <1>6, Zenon DEF Next

(* The types, with what each access carries, hold in every behaviour.      *)
THEOREM TypeInvariant == Spec => []TypeInv
BY InitTyped, StepTyped, PTL DEF Spec

(* However the handlers interleave, status_led, its copies and the lamp    *)
(* hold settings, digits and ranges that were asked for.                   *)
THEOREM TypeCorrect == Spec => []TypeOK
<1>1. TypeInv => TypeOK
  BY DEF TypeInv
<1> QED
  BY <1>1, TypeInvariant, PTL
-----------------------------------------------------------------------------
(* Duty cycles.                                                            *)

(* Set_Color() gives the channel at most its full duty.                    *)
LEMMA ColorDuty == ASSUME NEW v \in Int PROVE Set_Color(v) \in 0 .. FULL_DUTY
<1> DEFINE c == effective_color(v)
<1>1. c \in Int /\ 2700 <= c /\ c <= 6500
  BY EffectiveRanges
<1> HIDE DEF c
<1> DEFINE d == ((c - 2700) * 255) \div 3800
<1>2. d \in Int /\ 0 <= d /\ d <= 255
  BY <1>1
<1>3. Set_Color(v) = d
  BY DEF Set_Color, FULL_DUTY, c
<1> HIDE DEF d
<1>4. FULL_DUTY \in Nat /\ d <= FULL_DUTY
  BY <1>2 DEF FULL_DUTY
<1> QED
  BY <1>2, <1>3, <1>4

(* The brightness is inverted, so up to a ninth of the range is taken off  *)
(* low_pwm; SafeRange is what keeps the result from going below 0.         *)
LEMMA MappedBrightness ==
    ASSUME NEW b \in Int, 10 <= b, b <= 100, NEW low \in Nat, NEW max \in Nat,
           SafeRange(low, max)
    PROVE  /\ TruncDiv((90 - b) * (max - low), 90) + low \in Int
           /\ 0 <= TruncDiv((90 - b) * (max - low), 90) + low
           /\ TruncDiv((90 - b) * (max - low), 90) + low <= max
<1> DEFINE d == max - low
           x == 90 - b
<1>1. d \in Nat /\ x \in Int /\ x <= 80 /\ x >= -10
  BY DEF SafeRange
<1>2. CASE x >= 0
  <2>1. x * d >= 0 /\ x * d <= 80 * d
    BY <1>1, <1>2
  <2>2. (x * d) \div 90 >= 0 /\ (x * d) \div 90 <= d
    BY <1>1, <2>1
  <2> QED
    BY <1>1, <1>2, <2>1, <2>2 DEF TruncDiv
<1>3. CASE x < 0
  <2>1. x * d = -((-x) * d) /\ (-x) * d <= 10 * d /\ (-x) * d >= 0
    BY <1>1, <1>3
  <2>2. (-x) * d < 90 * (low + 1)
    BY <1>1, <2>1 DEF SafeRange
  <2>3. ((-x) * d) \div 90 <= low /\ ((-x) * d) \div 90 >= 0
    BY <1>1, <2>1, <2>2
  <2> QED
    BY <1>1, <1>3, <2>1, <2>3 DEF TruncDiv
<1> QED
  BY <1>1, <1>2, <1>3

(* On a safe range so does Set_Brightness().                               *)
LEMMA BrightnessDuty ==
    ASSUME NEW v \in Int, NEW low \in Nat, NEW max \in Nat, max <= 255, SafeRange(low, max)
    PROVE  Set_Brightness(v, low, max) \in 0 .. FULL_DUTY
<1> DEFINE b == effective_brightness(v)
           y == TruncDiv((90 - b) * (max - low), 90) + low
<1>1. b \in Int /\ 10 <= b /\ b <= 100
  BY EffectiveRanges
<1>2. y \in Int /\ 0 <= y /\ y <= max
  <2> HIDE DEF b
  <2> QED
    BY <1>1, MappedBrightness
<1>3. Set_Brightness(v, low, max) = y % UINT16
  <2>1. 100 - b - 10 = 90 - b /\ 100 - 10 = 90
    BY <1>1
  <2> QED
    BY <2>1 DEF Set_Brightness
<1> HIDE DEF y
<1>4. y % UINT16 = y
  <2>1. \A n \in Nat : y < n => y % n = y
    BY <1>2
  <2>2. UINT16 \in Nat /\ y < UINT16
    BY <1>2, WordSizes
  <2> QED
    BY <2>1, <2>2, Zenon
<1>5. FULL_DUTY \in Nat /\ y <= FULL_DUTY
  BY <1>2, SMT DEF FULL_DUTY
<1> QED
  BY <1>2, <1>3, <1>4, <1>5

(* However the handlers interleave and whatever they ask for, both duty    *)
(* cycles fit the 8-bit channels on every PWM range that is safe.          *)
THEOREM DutiesFit == Spec => []LampFits
<1>1. TypeInv => LampFits
  <2> SUFFICES ASSUME TypeInv PROVE LampFits
    OBVIOUS
  <2>1. lamp.show.color \in Int /\ lamp.show.bright \in Int
    BY DEF TypeInv
  <2>2. lamp.low \in Nat /\ lamp.max \in Nat /\ lamp.max <= 255
    BY Bytes DEF TypeInv, TypeOK
  <2> QED
    BY <2>1, <2>2, ColorDuty, BrightnessDuty DEF LampFits
<1> QED
  BY <1>1, TypeInvariant, PTL
-----------------------------------------------------------------------------
(* The mailbox between the Bluetooth task and the timer.                   *)

MailOps == {"to_group", "set_flag", "check_flag", "clear_flag", "root_write_ble"}
NoMail(l) == \A i \in DOMAIN l : l[i].op \notin MailOps

(* In a list of the Bluetooth task recvb_form_ble is written just before   *)
(* the flag is set.                                                        *)
FlagFollows(l) ==
    \A i \in DOMAIN l :
        /\ l[i].op \notin {"check_flag", "clear_flag", "root_write_ble"}
        /\ l[i].op = "to_group" => i < Len(l) /\ l[i + 1].op = "set_flag"

(* The timer saves, looks at the flag, multicasts and clears it.           *)
Plain(name) == Op(name, NoSetting)
TimerLists ==
    {<<>>,
     <<Plain("copy"), Plain("commit"), Plain("check_flag")>>,
     <<Plain("commit"), Plain("check_flag")>>,
     <<Plain("check_flag")>>,
     <<Plain("mesh_wait"), Plain("root_write_ble"), Plain("clear_flag")>>,
     <<Plain("root_write_ble"), Plain("clear_flag")>>,
     <<Plain("clear_flag")>>}
Serving == Doing("timer", "mesh_wait") \/ Doing("timer", "root_write_ble")
           \/ Doing("timer", "clear_flag")

(* GroupCommandServed, carried through the timer's last step: the timer    *)
(* serves only while the flag is up.                                       *)
MailInv ==
    /\ NoMail(todo["parser"]) /\ FlagFollows(todo["bt"]) /\ todo["timer"] \in TimerLists
    /\ Serving => ble_cmd_to_gr
    /\ ~ble_cmd_to_gr \/ Doing("timer", "clear_flag") =>
          stored \in {sent, missed} \/ Doing("bt", "set_flag")

(* What is left of a list after its first access.                          *)
LEMMA MailTails ==
    ASSUME NEW l \in Seq(Ops), l # <<>>
    PROVE  /\ NoMail(l) => NoMail(Tail(l)) /\ Head(l).op \notin MailOps
           /\ FlagFollows(l) =>
                 /\ FlagFollows(Tail(l))
                 /\ Head(l).op \notin {"check_flag", "clear_flag", "root_write_ble"}
                 /\ Head(l).op = "to_group" =>
                       Tail(l) # <<>> /\ Head(Tail(l)).op = "set_flag"
<1>1. /\ Len(l) \in Nat /\ Len(l) > 0 /\ Head(l) = l[1] /\ 1 \in DOMAIN l
      /\ Tail(l) \in Seq(Ops) /\ Len(Tail(l)) = Len(l) - 1
      /\ DOMAIN l = 1 .. Len(l) /\ DOMAIN Tail(l) = 1 .. Len(l) - 1
      /\ \A i \in 1 .. Len(l) - 1 : Tail(l)[i] = l[i + 1]
  OBVIOUS
<1>2. ASSUME NoMail(l) PROVE NoMail(Tail(l)) /\ Head(l).op \notin MailOps
  <2>1. \A i \in 1 .. Len(l) - 1 : i + 1 \in DOMAIN l
    BY <1>1
  <2> QED
    BY <1>1, <1>2, <2>1 DEF NoMail
<1>3. ASSUME FlagFollows(l) PROVE FlagFollows(Tail(l))
  <2> SUFFICES ASSUME NEW i \in 1 .. Len(l) - 1
               PROVE  /\ Tail(l)[i].op \notin {"check_flag", "clear_flag", "root_write_ble"}
                      /\ Tail(l)[i].op = "to_group" =>
                            i < Len(Tail(l)) /\ Tail(l)[i + 1].op = "set_flag"
    BY <1>1 DEF FlagFollows
  <2>1. i + 1 \in DOMAIN l /\ Tail(l)[i] = l[i + 1]
    BY <1>1
  <2>2. /\ l[i + 1].op \notin {"check_flag", "clear_flag", "root_write_ble"}
        /\ l[i + 1].op = "to_group" => i + 1 < Len(l) /\ l[i + 1 + 1].op = "set_flag"
    BY <1>3, <2>1 DEF FlagFollows
  <2>3. i + 1 < Len(l) => Tail(l)[i + 1] = l[i + 1 + 1]
    BY <1>1
  <2> QED
    BY <1>1, <2>1, <2>2, <2>3
<1>4. ASSUME FlagFollows(l)
      PROVE  /\ Head(l).op \notin {"check_flag", "clear_flag", "root_write_ble"}
             /\ Head(l).op = "to_group" => Tail(l) # <<>> /\ Head(Tail(l)).op = "set_flag"
  <2>1. /\ l[1].op \notin {"check_flag", "clear_flag", "root_write_ble"}
        /\ l[1].op = "to_group" => 1 < Len(l) /\ l[1 + 1].op = "set_flag"
    BY <1>1, <1>4 DEF FlagFollows
  <2>2. ASSUME 1 < Len(l) PROVE Tail(l) # <<>> /\ Head(Tail(l)) = l[1 + 1]
    <3> DEFINE m == Tail(l)
    <3>1. m \in Seq(Ops) /\ Len(m) > 0 /\ m[1] = l[1 + 1]
      BY <1>1, <2>2
    <3> HIDE DEF m
    <3>2. m # <<>> /\ Head(m) = m[1]
      BY <3>1
    <3> QED
      BY <3>1, <3>2 DEF m
  <2> QED
    BY <1>1, <2>1, <2>2
<1> QED
  BY <1>2, <1>3, <1>4

(* Two lists one after the other.                                          *)
LEMMA MailJoined ==
    ASSUME NEW l \in Seq(Ops), NEW m \in Seq(Ops), NoMail(l)
    PROVE  /\ NoMail(m) => NoMail(l \o m)
           /\ FlagFollows(m) => FlagFollows(l \o m)
<1>1. /\ Len(l) \in Nat /\ Len(m) \in Nat /\ Len(l \o m) = Len(l) + Len(m)
      /\ DOMAIN l = 1 .. Len(l) /\ DOMAIN m = 1 .. Len(m)
      /\ DOMAIN (l \o m) = 1 .. Len(l) + Len(m)
      /\ \A i \in 1 .. Len(l) : (l \o m)[i] = l[i]
      /\ \A i \in 1 .. Len(m) : (l \o m)[Len(l) + i] = m[i]
  BY ConcatProperties
<1>2. \A i \in 1 .. Len(l) + Len(m) :
         i \in 1 .. Len(l) \/ \E j \in 1 .. Len(m) : i = Len(l) + j
  <2> TAKE i \in 1 .. Len(l) + Len(m)
  <2>1. CASE i > Len(l)
    <3>1. i - Len(l) \in 1 .. Len(m) /\ i = Len(l) + (i - Len(l))
      BY <1>1, <2>1
    <3> QED
      BY <3>1
  <2>2. CASE i <= Len(l)
    BY <1>1, <2>2
  <2> QED
    BY <1>1, <2>1, <2>2
<1>3. NoMail(m) => NoMail(l \o m)
  BY <1>1, <1>2 DEF NoMail
<1>4. ASSUME FlagFollows(m) PROVE FlagFollows(l \o m)
  <2> SUFFICES ASSUME NEW i \in 1 .. Len(l) + Len(m)
               PROVE  /\ (l \o m)[i].op \notin {"check_flag", "clear_flag", "root_write_ble"}
                      /\ (l \o m)[i].op = "to_group" =>
                            i < Len(l \o m) /\ (l \o m)[i + 1].op = "set_flag"
    BY <1>1 DEF FlagFollows
  <2>1. CASE i \in 1 .. Len(l)
    BY <1>1, <2>1 DEF NoMail, MailOps
  <2>2. ASSUME NEW j \in 1 .. Len(m), i = Len(l) + j
        PROVE  /\ (l \o m)[i].op \notin {"check_flag", "clear_flag", "root_write_ble"}
               /\ (l \o m)[i].op = "to_group" =>
                     i < Len(l \o m) /\ (l \o m)[i + 1].op = "set_flag"
    <3>1. /\ (l \o m)[i] = m[j]
          /\ m[j].op \notin {"check_flag", "clear_flag", "root_write_ble"}
          /\ m[j].op = "to_group" => j < Len(m) /\ m[j + 1].op = "set_flag"
      BY <1>1, <1>4, <2>2 DEF FlagFollows
    <3>2. j < Len(m) => i < Len(l \o m) /\ (l \o m)[i + 1] = m[j + 1]
      <4>1. i + 1 = Len(l) + (j + 1)
        BY <1>1, <2>2
      <4> QED
        BY <1>1, <2>2, <4>1
    <3> QED
      BY <3>1, <3>2
  <2> QED
    BY <1>2, <2>1, <2>2
<1> QED
  BY <1>3, <1>4

(* The lists of the other handlers keep out of the mailbox.                *)
LEMMA ListsWithoutMail ==
    ASSUME NEW s \in Settings
    PROVE  /\ NoMail(save_led) /\ NoMail(Apply(s)) /\ NoMail(<<>>) /\ NoMail(read_led)
           /\ NoMail(root_write_msg(s)) /\ NoMail(Apply(s) \o root_write_own(s))
<1>1. NoMail(save_led) /\ NoMail(<<>>) /\ NoMail(read_led)
  BY DEF NoMail, MailOps, save_led, read_led, Op
<1>2. NoMail(root_write_msg(s)) /\ NoMail(root_write_own(s))
  BY DEF NoMail, MailOps, root_write_msg, root_write_own, Op
<1>3. NoMail(<<Op("color", s), Op("bright", s), Op("status", s)>>)
  BY DEF NoMail, MailOps, Op
<1>4. <<Op("color", s), Op("bright", s), Op("status", s)>> \in Seq(Ops)
  <2>1. Op("color", s) \in Ops /\ Op("bright", s) \in Ops /\ Op("status", s) \in Ops
    BY DEF Op, Ops
  <2> QED
    BY <2>1
<1>5. NoMail(Apply(s))
  BY <1>1, <1>3, <1>4, SaveTyped, MailJoined DEF Apply
<1> QED
  BY <1>1, <1>2, <1>5, ApplyTyped, WritesTyped, MailJoined

(* So does the writing of a mesh id.                                       *)
LEMMA MeshWithoutMail ==
    ASSUME NEW id \in MeshIds
    PROVE  NoMail(DigitWrites(id) \o <<Op("asked", [id |-> id])>> \o save_led)
<1>1. NoMail(DigitWrites(id))
  <2>1. \A k \in DOMAIN DigitWrites(id) : DigitWrites(id)[k].op = "digit"
    BY DEF DigitWrites, Op
  <2> QED
    BY <2>1 DEF NoMail, MailOps
<1>2. NoMail(<<Op("asked", [id |-> id])>>) /\ NoMail(save_led)
  BY DEF NoMail, MailOps, Op, save_led
<1>3. /\ DigitWrites(id) \in Seq(Ops) /\ <<Op("asked", [id |-> id])>> \in Seq(Ops)
      /\ DigitWrites(id) \o <<Op("asked", [id |-> id])>> \in Seq(Ops)
  BY MeshWriteTyped, ConcatProperties
<1> QED
  BY <1>1, <1>2, <1>3, SaveTyped, MailJoined

(* A list without mail is one the Bluetooth task may have.                 *)
LEMMA NoMailFollows == ASSUME NEW l, NoMail(l) PROVE FlagFollows(l)
BY DEF NoMail, FlagFollows, MailOps

(* A group command is stored before its flag is set.                       *)
LEMMA GroupCallFollows ==
    ASSUME NEW s \in Settings
    PROVE  FlagFollows(Apply(s) \o <<Op("to_group", s), Op("set_flag", NoSetting)>>)
<1> DEFINE m == <<Op("to_group", s), Op("set_flag", NoSetting)>>
<1>1. FlagFollows(m)
  BY DEF FlagFollows, Op
<1>2. m \in Seq(Ops)
  BY GroupCallTyped
<1> HIDE DEF m
<1>3. FlagFollows(Apply(s) \o m)
  BY <1>1, <1>2, ApplyTyped, ListsWithoutMail, MailJoined
<1> QED
  BY <1>3 DEF m

(* What is left of a list of the timer.                                    *)
LEMMA TimerTails ==
    ASSUME NEW l \in TimerLists, l # <<>>
    PROVE  /\ Head(l).op \in {"copy", "commit", "check_flag", "mesh_wait", "root_write_ble",
                               "clear_flag"}
           /\ Tail(l) \in TimerLists
           /\ Tail(l) # <<>> /\ Head(Tail(l)).op \in {"mesh_wait", "root_write_ble", "clear_flag"}
                 => Head(l).op \in {"mesh_wait", "root_write_ble"}
           /\ Tail(l) # <<>> /\ Head(Tail(l)).op = "clear_flag" => Head(l).op = "root_write_ble"
           /\ Head(l).op = "clear_flag" => Tail(l) = <<>>
<1>0. \A name : Plain(name).op = name
  BY DEF Plain, Op
<1>1. \A a : Head(<<a>>) = a /\ Tail(<<a>>) = <<>> /\ <<a>> # <<>>
  OBVIOUS
<1>2. \A a, b : Head(<<a, b>>) = a /\ Tail(<<a, b>>) = <<b>> /\ <<a, b>> # <<>>
  OBVIOUS
<1>3. \A a, b, c : Head(<<a, b, c>>) = a /\ Tail(<<a, b, c>>) = <<b, c>>
  OBVIOUS
<1>4. CASE l = <<Plain("copy"), Plain("commit"), Plain("check_flag")>>
  BY <1>0, <1>2, <1>3, <1>4 DEF TimerLists
<1>5. CASE l = <<Plain("commit"), Plain("check_flag")>>
  BY <1>0, <1>1, <1>2, <1>5 DEF TimerLists
<1>6. CASE l = <<Plain("check_flag")>> \/ l = <<Plain("clear_flag")>>
  BY <1>0, <1>1, <1>6 DEF TimerLists
<1>7. CASE l = <<Plain("mesh_wait"), Plain("root_write_ble"), Plain("clear_flag")>>
  BY <1>0, <1>2, <1>3, <1>7 DEF TimerLists
<1>8. CASE l = <<Plain("root_write_ble"), Plain("clear_flag")>>
  BY <1>0, <1>1, <1>2, <1>8 DEF TimerLists
<1> QED
  BY <1>4, <1>5, <1>6, <1>7, <1>8 DEF TimerLists

(* A handler starts: no list of the mailbox's two tasks is touched but by  *)
(* its own task.                                                           *)
LEMMA MailStart ==
    ASSUME TypeInv, MailInv, NEW t \in {"parser", "bt"}, NEW ops, Start(t, ops),
           IF t = "bt" THEN FlagFollows(ops) ELSE NoMail(ops)
    PROVE  MailInv'
<1>1. /\ todo' = [todo EXCEPT ![t] = ops] /\ todo[t] = <<>>
      /\ UNCHANGED <<ble_cmd_to_gr, stored, sent, missed>>
  BY DEF Start, MayStart, Resting, ram, ghosts, mail
<1>2. /\ todo'[t] = ops /\ \A u \in Tasks \ {t} : todo'[u] = todo[u]
  BY <1>1 DEF TypeInv, Tasks
<1>3. todo'["timer"] = todo["timer"] /\ (t = "parser" => todo'["bt"] = todo["bt"])
  BY <1>2 DEF Tasks
<1>4. NoMail(todo'["parser"]) /\ FlagFollows(todo'["bt"])
  BY <1>2 DEF Tasks, MailInv
<1>5. Doing("bt", "set_flag") => Doing("bt", "set_flag")'
  BY <1>1, <1>3 DEF Doing
<1>6. /\ Serving' <=> Serving
      /\ Doing("timer", "clear_flag")' <=> Doing("timer", "clear_flag")
  BY <1>3 DEF Serving, Doing
<1> QED
  BY <1>1, <1>3, <1>4, <1>5, <1>6 DEF MailInv

(* An access of the parser task, or one of the Bluetooth task that is not  *)
(* one to the mailbox.                                                     *)
LEMMA MailElsewhere ==
    ASSUME TypeInv, MailInv, NEW t \in {"parser", "bt"}, todo[t] # <<>>, Done(t),
           Head(todo[t]).op # "set_flag", Head(todo[t]).op # "to_group",
           UNCHANGED <<ble_cmd_to_gr, stored, sent, missed>>
    PROVE  MailInv'
<1>1. /\ todo' = [todo EXCEPT ![t] = Tail(todo[t])]
      /\ todo'[t] = Tail(todo[t]) /\ \A u \in Tasks \ {t} : todo'[u] = todo[u]
  BY DEF Done, TypeInv, Tasks
<1>2. NoMail(todo'["parser"]) /\ FlagFollows(todo'["bt"])
  BY <1>1, MailTails DEF MailInv, TypeInv, Tasks
<1>3. todo'["timer"] = todo["timer"] /\ (t = "parser" => todo'["bt"] = todo["bt"])
  BY <1>1 DEF Tasks
<1>4. Doing("bt", "set_flag") => Doing("bt", "set_flag")'
  BY <1>3 DEF Doing
<1>5. /\ Serving' <=> Serving
      /\ Doing("timer", "clear_flag")' <=> Doing("timer", "clear_flag")
  BY <1>3 DEF Serving, Doing
<1> QED
  BY <1>2, <1>3, <1>4, <1>5 DEF MailInv

(* The Bluetooth task stores a group command: its flag is next.            *)
LEMMA MailStored == ASSUME TypeInv, MailInv, ToGroup("bt") PROVE MailInv'
<1>1. /\ todo["bt"] # <<>> /\ Head(todo["bt"]).op = "to_group"
      /\ todo' = [todo EXCEPT !["bt"] = Tail(todo["bt"])] /\ UNCHANGED ble_cmd_to_gr
  BY DEF ToGroup, Doing, Done
<1>2. /\ todo'["bt"] = Tail(todo["bt"])
      /\ todo'["timer"] = todo["timer"] /\ todo'["parser"] = todo["parser"]
  BY <1>1 DEF TypeInv, Tasks
<1>3. /\ FlagFollows(todo'["bt"])
      /\ todo'["bt"] # <<>> /\ Head(todo'["bt"]).op = "set_flag"
  BY <1>1, <1>2, MailTails DEF MailInv, TypeInv, Tasks
<1>4. Doing("bt", "set_flag")' /\ (Serving' <=> Serving)
  BY <1>2, <1>3 DEF Serving, Doing
<1> QED
  BY <1>1, <1>2, <1>3, <1>4 DEF MailInv

(* It sets the flag: a timer that has still to clear it misses it.         *)
LEMMA MailFlagged == ASSUME TypeInv, MailInv, SetFlag("bt") PROVE MailInv'
<1>1. /\ todo["bt"] # <<>> /\ todo' = [todo EXCEPT !["bt"] = Tail(todo["bt"])]
      /\ ble_cmd_to_gr' = TRUE /\ stored' = stored
      /\ missed' = IF Doing("timer", "clear_flag") THEN stored ELSE missed
  BY DEF SetFlag, Doing, Done
<1>2. /\ todo'["bt"] = Tail(todo["bt"])
      /\ todo'["timer"] = todo["timer"] /\ todo'["parser"] = todo["parser"]
  BY <1>1 DEF TypeInv, Tasks
<1>3. FlagFollows(todo'["bt"])
  BY <1>1, <1>2, MailTails DEF MailInv, TypeInv, Tasks
<1>4. Doing("timer", "clear_flag")' <=> Doing("timer", "clear_flag")
  BY <1>2 DEF Doing
<1> QED
  BY <1>1, <1>2, <1>3, <1>4 DEF MailInv

(* The timer's accesses.                                                   *)
LEMMA MailTimer ==
    ASSUME TypeInv, MailInv, TaskStep("timer")
    PROVE  MailInv'
<1> DEFINE l == todo["timer"]
<1>0. l # <<>> /\ l \in TimerLists /\ "timer" \in Tasks
  BY DEF TaskStep, SetColor, SetBrightness, ReturnToStatus, SetStatus, SetMeshId,
         SetProfile, CopyStatus, Commit, Reload, ToGroup, SetFlag, CheckFlag, ClearFlag,
         MeshWait, RootWrite, Doing, MailInv, Tasks
<1>1. ASSUME CheckFlag("timer") PROVE MailInv'
  <2> DEFINE m == <<Plain("mesh_wait"), Plain("root_write_ble"), Plain("clear_flag")>>
  <2>1. /\ todo' = [todo EXCEPT !["timer"] = IF ble_cmd_to_gr THEN m ELSE <<>>]
        /\ UNCHANGED <<ble_cmd_to_gr, stored, sent, missed>>
    BY <1>1 DEF CheckFlag, Plain, ram, ghosts, mail
  <2>2. m \in TimerLists /\ <<>> \in TimerLists /\ Head(m).op = "mesh_wait"
    BY DEF TimerLists, Plain, Op
  <2> HIDE DEF m
  <2>3. /\ todo'["timer"] = IF ble_cmd_to_gr THEN m ELSE <<>>
        /\ todo'["bt"] = todo["bt"] /\ todo'["parser"] = todo["parser"]
    BY <2>1 DEF TypeInv, Tasks
  <2>4. ~Doing("timer", "clear_flag")' /\ (Serving' => ble_cmd_to_gr)
    BY <2>2, <2>3 DEF Serving, Doing
  <2>5. Doing("bt", "set_flag")' <=> Doing("bt", "set_flag")
    BY <2>3 DEF Doing
  <2> QED
    BY <2>1, <2>2, <2>3, <2>4, <2>5 DEF MailInv
<1>2. ASSUME Done("timer")
      PROVE  /\ todo'["timer"] = Tail(l) /\ Tail(l) \in TimerLists
             /\ todo'["bt"] = todo["bt"] /\ todo'["parser"] = todo["parser"]
             /\ Doing("bt", "set_flag")' <=> Doing("bt", "set_flag")
             /\ Serving' => Head(l).op \in {"mesh_wait", "root_write_ble"}
             /\ Doing("timer", "clear_flag")' => Head(l).op = "root_write_ble"
  <2>1. /\ todo'["timer"] = Tail(l)
        /\ todo'["bt"] = todo["bt"] /\ todo'["parser"] = todo["parser"]
    BY <1>2 DEF Done, TypeInv, Tasks
  <2> HIDE DEF l
  <2>2. /\ Tail(l) \in TimerLists
        /\ Tail(l) # <<>> /\ Head(Tail(l)).op \in {"mesh_wait", "root_write_ble", "clear_flag"}
              => Head(l).op \in {"mesh_wait", "root_write_ble"}
        /\ Tail(l) # <<>> /\ Head(Tail(l)).op = "clear_flag" => Head(l).op = "root_write_ble"
    BY <1>0, TimerTails
  <2> QED
    BY <2>1, <2>2 DEF Serving, Doing
<1>3. Head(l).op \in {"mesh_wait", "root_write_ble"} => Serving
  BY <1>0 DEF Serving, Doing
<1>4. ASSUME ClearFlag("timer") PROVE MailInv'
  <2>1. /\ Doing("timer", "clear_flag") /\ Done("timer") /\ ~ble_cmd_to_gr'
        /\ Head(l).op = "clear_flag" /\ UNCHANGED <<stored, sent, missed>>
    BY <1>4 DEF ClearFlag, Doing, ghosts, mail
  <2>2. ~Serving'
    BY <1>2, <2>1
  <2> QED
    BY <1>2, <2>1, <2>2 DEF MailInv
<1>5. ASSUME RootWrite("timer") PROVE MailInv'
  <2>1. /\ Done("timer") /\ Head(l).op \in {"root_write", "root_write_own", "root_write_ble"}
        /\ Head(l).op = "root_write_ble" => sent' = stored
        /\ UNCHANGED <<ble_cmd_to_gr, stored, missed>>
    BY <1>5 DEF RootWrite, Doing, ram
  <2>2. Head(l).op = "root_write_ble"
    <3> HIDE DEF l
    <3> QED
      BY <1>0, <2>1, TimerTails
  <2> QED
    BY <1>2, <1>3, <2>1, <2>2 DEF MailInv
<1>6. ASSUME CopyStatus("timer") \/ Commit("timer") \/ MeshWait("timer") PROVE MailInv'
  <2>1. /\ Done("timer") /\ Head(l).op \in {"copy", "commit", "mesh_wait"}
        /\ UNCHANGED <<ble_cmd_to_gr, stored, sent, missed>>
    BY <1>6 DEF CopyStatus, Commit, MeshWait, Doing, ram, ghosts, mail
  <2> QED
    BY <1>2, <1>3, <2>1 DEF MailInv
<1>7. ~(\/ SetColor("timer") \/ SetBrightness("timer") \/ ReturnToStatus("timer")
        \/ SetStatus("timer") \/ SetMeshId("timer") \/ SetProfile("timer")
        \/ Reload("timer") \/ ToGroup("timer") \/ SetFlag("timer"))
  <2>1. Head(l).op \in {"copy", "commit", "check_flag", "mesh_wait", "root_write_ble",
                        "clear_flag"}
    <3> HIDE DEF l
    <3> QED
      BY <1>0, TimerTails
  <2> QED
    BY <2>1 DEF SetColor, SetBrightness, ReturnToStatus, SetStatus, SetMeshId, SetProfile,
                Reload, ToGroup, SetFlag, Doing
<1> QED
  BY <1>1, <1>4, <1>5, <1>6, <1>7 DEF TaskStep

(* Every access keeps MailInv.                                             *)
LEMMA MailTask == ASSUME TypeInv, MailInv, NEW t \in Tasks, TaskStep(t) PROVE MailInv'
<1>1. CASE t = "timer"
  BY <1>1, MailTimer
<1>2. ASSUME t # "timer" PROVE MailInv'
  <2>0. t \in {"parser", "bt"} /\ todo[t] \in Seq(Ops)
    BY <1>2 DEF Tasks, TypeInv
  <2>1. todo[t] # <<>>
    BY DEF TaskStep, SetColor, SetBrightness, ReturnToStatus, SetStatus, SetMeshId,
           SetProfile, CopyStatus, Commit, Reload, ToGroup, SetFlag, CheckFlag, ClearFlag,
           MeshWait, RootWrite, Doing
  <2>2. /\ Head(todo[t]).op \notin {"check_flag", "clear_flag", "root_write_ble"}
        /\ Head(todo[t]).op \in {"to_group", "set_flag"} => t = "bt"
    BY <2>0, <2>1, MailTails DEF MailInv, MailOps
  <2>3. CASE ToGroup(t) \/ SetFlag(t)
    <3>1. t = "bt"
      BY <2>2, <2>3 DEF ToGroup, SetFlag, Doing
    <3> QED
      BY <2>3, <3>1, MailStored, MailFlagged
  <2>4. ASSUME Done(t), Head(todo[t]).op # "set_flag", Head(todo[t]).op # "to_group",
               UNCHANGED <<ble_cmd_to_gr, stored, sent, missed>>
        PROVE  MailInv'
    BY <2>0, <2>1, <2>4, MailElsewhere
  <2>5. CASE SetColor(t) \/ SetBrightness(t) \/ ReturnToStatus(t) \/ CopyStatus(t)
             \/ Commit(t) \/ MeshWait(t)
    BY <2>4, <2>5 DEF SetColor, SetBrightness, ReturnToStatus, Brighten, CopyStatus, Commit,
                      MeshWait, Doing, ram, ghosts, mail
  <2>6. CASE SetStatus(t) \/ SetMeshId(t) \/ SetProfile(t) \/ Reload(t)
    <3>1. /\ \E st : Assign(t, st)
          /\ Head(todo[t]).op \in {"status", "digit", "asked", "low_pwm", "max_pwm", "gen", "reload"}
      BY <2>6 DEF SetStatus, SetMeshId, SetProfile, Reload, Doing
    <3> QED
      BY <2>4, <3>1 DEF Assign, mail
  <2>7. CASE RootWrite(t)
    BY <2>2, <2>4, <2>7 DEF RootWrite, Doing, ram
  <2>8. ~CheckFlag(t) /\ ~ClearFlag(t)
    BY <2>2 DEF CheckFlag, ClearFlag, Doing
  <2> QED
    BY <2>3, <2>5, <2>6, <2>7, <2>8 DEF TaskStep
<1> QED
  BY <1>1, <1>2

(* The timer's start keeps MailInv.                                        *)
LEMMA MailTick == ASSUME TypeInv, MailInv, Minute \/ Tick PROVE MailInv'
<1> DEFINE m == save_led \o <<Op("check_flag", NoSetting)>>
           n == <<Op("check_flag", NoSetting)>>
<1>1. /\ \E k \in {m, n} : todo' = [todo EXCEPT !["timer"] = k]
      /\ UNCHANGED <<ble_cmd_to_gr, stored, sent, missed>>
  BY DEF Minute, Tick, ram, ghosts, mail
<1>2. m = <<Plain("copy"), Plain("commit"), Plain("check_flag")>>
  <2> DEFINE a == <<Plain("copy"), Plain("commit")>>
             c == <<Plain("check_flag")>>
             d == <<Plain("copy"), Plain("commit"), Plain("check_flag")>>
  <2>1. \A name \in PlainNames : Plain(name) \in Ops
    BY PlainOps DEF Plain
  <2>2. a \in Seq(Ops) /\ c \in Seq(Ops) /\ d \in Seq(Ops) /\ m = a \o c
    BY <2>1 DEF PlainNames, save_led, Plain
  <2>3. /\ Len(a) = 2 /\ Len(c) = 1 /\ Len(d) = 3
        /\ d[1] = a[1] /\ d[2] = a[2] /\ d[3] = c[1]
    OBVIOUS
  <2> HIDE DEF a, c, d
  <2>4. /\ a \o c \in Seq(Ops) /\ Len(a \o c) = 3
        /\ (a \o c)[1] = a[1] /\ (a \o c)[2] = a[2] /\ (a \o c)[3] = c[1]
    <3>1. /\ a \o c \in Seq(Ops) /\ Len(a \o c) = Len(a) + Len(c)
          /\ \A i \in 1 .. Len(a) : (a \o c)[i] = a[i]
          /\ \A i \in 1 .. Len(c) : (a \o c)[Len(a) + i] = c[i]
      BY <2>2, ConcatProperties
    <3> QED
      BY <2>3, <3>1
  <2>5. \A i \in 1 .. 3 : (a \o c)[i] = d[i]
    BY <2>3, <2>4
  <2>6. a \o c = d
    BY <2>2, <2>3, <2>4, <2>5, SeqEqual
  <2> QED
    BY <2>2, <2>6 DEF d
<1>3. /\ m \in TimerLists /\ n \in TimerLists
      /\ m # <<>> /\ Head(m).op = "copy" /\ n # <<>> /\ Head(n).op = "check_flag"
  <2> HIDE DEF m
  <2> QED
    BY <1>2 DEF TimerLists, Plain, Op
<1> HIDE DEF m, n
<1>4. /\ todo'["timer"] \in {m, n}
      /\ todo'["bt"] = todo["bt"] /\ todo'["parser"] = todo["parser"]
  BY <1>1 DEF TypeInv, Tasks
<1>5. ~Serving' /\ ~Doing("timer", "clear_flag")'
  BY <1>3, <1>4 DEF Serving, Doing
<1>6. Doing("bt", "set_flag")' <=> Doing("bt", "set_flag")
  BY <1>4 DEF Doing
<1> QED
  BY <1>1, <1>3, <1>4, <1>5, <1>6 DEF MailInv

(* Every handler that starts keeps MailInv.                                *)
LEMMA MailStarts ==
    ASSUME TypeInv, MailInv,
           \/ LORAWAN_UPDATE \/ TEST_CONTROL_SL \/ TEST_CONTROL_SL_GR
           \/ READ_PF \/ WRITE_MESH_NETWORK_PF \/ WRITE_STREET_LIGHT_PF \/ SCAN_SL
    PROVE  MailInv'
<1>1. CASE LORAWAN_UPDATE
  <2> PICK s \in Settings, node \in Nodes \cup {""} :
          \/ \E type \in {0, 1, 2} : Start("parser", Downlink(type, node, s))
          \/ node # "" /\ Start("parser", ReadGps(node, s))
    BY <1>1 DEF LORAWAN_UPDATE
  <2>1. \A type \in {0, 1, 2} : Downlink(type, node, s) \in
          {Apply(s), Apply(s) \o root_write_own(s), root_write_msg(s), <<>>}
    BY Zenon DEF Downlink
  <2>2. /\ NoMail(ReadGps(node, s))
        /\ \A type \in {0, 1, 2} : NoMail(Downlink(type, node, s))
    BY <2>1, ListsWithoutMail DEF ReadGps
  <2>3. \A ops : NoMail(ops) /\ Start("parser", ops) => MailInv'
    BY MailStart
  <2> QED
    BY <2>2, <2>3
<1>s. \A ops : FlagFollows(ops) /\ Start("bt", ops) => MailInv'
  BY MailStart
<1>2. CASE TEST_CONTROL_SL
  BY <1>2, <1>s, ListsWithoutMail, NoMailFollows DEF TEST_CONTROL_SL
<1>3. CASE TEST_CONTROL_SL_GR
  BY <1>3, <1>s, GroupCallFollows DEF TEST_CONTROL_SL_GR
<1>4. CASE READ_PF
  <2>1. NoMail(read_led)
    BY DEF NoMail, MailOps, read_led, Op
  <2> QED
    BY <1>4, <1>s, <2>1, NoMailFollows DEF READ_PF
<1>5. CASE WRITE_MESH_NETWORK_PF
  BY <1>5, <1>s, MeshWithoutMail, NoMailFollows DEF WRITE_MESH_NETWORK_PF
<1>6. CASE WRITE_STREET_LIGHT_PF
  <2> PICK p \in Profiles :
         Start("bt", <<Op("low_pwm", p), Op("max_pwm", p), Op("gen", p)>> \o save_led)
    BY <1>6 DEF WRITE_STREET_LIGHT_PF
  <2>1. NoMail(<<Op("low_pwm", p), Op("max_pwm", p), Op("gen", p)>>) /\ NoMail(save_led)
    BY DEF NoMail, MailOps, Op, save_led
  <2>2. <<Op("low_pwm", p), Op("max_pwm", p), Op("gen", p)>> \in Seq(Ops)
    BY DEF Op, Ops
  <2>3. NoMail(<<Op("low_pwm", p), Op("max_pwm", p), Op("gen", p)>> \o save_led)
    BY <2>1, <2>2, SaveTyped, MailJoined
  <2> QED
    BY <1>s, <2>3, NoMailFollows
<1>7. CASE SCAN_SL
  <2>1. NoMail(<<Blink(10), Blink(100), Op("return", NoSetting)>>)
    BY DEF NoMail, MailOps, Blink, Op
  <2> QED
    BY <1>7, <1>s, <2>1, NoMailFollows DEF SCAN_SL
<1> QED
  BY <1>1, <1>2, <1>3, <1>4, <1>5, <1>6, <1>7

(* MailInv is inductive.                                                   *)
LEMMA MailNext == TypeInv /\ MailInv /\ [Next]_vars => MailInv'
<1> SUFFICES ASSUME TypeInv, MailInv, [Next]_vars PROVE MailInv'
  OBVIOUS
<1>1. CASE MeshStarted \/ UNCHANGED vars
  <2>1. UNCHANGED <<todo, ble_cmd_to_gr, stored, sent, missed>>
    BY <1>1 DEF MeshStarted, vars, ram, ghosts, mail
  <2> QED
    BY <2>1 DEF MailInv, Serving, Doing
<1>2. CASE Restart
  <2>1. /\ \A t \in Tasks : todo'[t] = <<>>
        /\ stored' = 0 /\ sent' = 0
    BY <1>2 DEF Restart, Boot
  <2> QED
    BY <2>1 DEF MailInv, Serving, Doing, NoMail, FlagFollows, TimerLists, Tasks
<1> QED
  BY <1>1, <1>2, MailStarts, MailTick, MailTask DEF Next

(* However the handlers interleave, ble_cmd_to_gr loses a Bluetooth group  *)
(* command in one window only: when it is stored and flagged               *)
(* (Bluetooth.c:267-268) between the timer's multicast and the clearing of *)
(* the flag (main.c:879-880).                                              *)
THEOREM GroupCommandsServed == Spec => []GroupCommandServed
<1>1. Init => MailInv
  BY DEF Init, MailInv, Serving, Doing, NoMail, FlagFollows, TimerLists, Tasks
<1>2. MailInv => GroupCommandServed
  BY DEF MailInv, GroupCommandServed
<1> QED
  BY <1>1, <1>2, MailNext, TypeInvariant, PTL DEF Spec
=============================================================================
