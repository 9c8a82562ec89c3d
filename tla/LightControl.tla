---------------------------- MODULE LightControl ----------------------------
(***************************************************************************)
(* How the lamp of the root is controlled (main/main.c, main/Bluetooth.c): *)
(* downlinks handled by cm_lorawan_event_handler in the parser task,       *)
(* commands handled by the Bluetooth callback esp_spp_cb, and the periodic *)
(* timer streetlight_working.  All three work on status_led, on its copy   *)
(* in NVS and on the PWM channels, without a lock, and Set_Color() and     *)
(* Set_Brightness() block for a second each.  A handler is the list of its *)
(* accesses to shared state, todo, and a step performs the first of them.  *)
(***************************************************************************)
EXTENDS LedDriver, Sequences, FiniteSets

CONSTANTS Settings,      \* [color, bright] requests
          MeshIds,       \* mesh ids written over Bluetooth
          Profiles,      \* [low, max, gen] street light profiles, likewise
          Others,        \* node ids other than the root's
          Exclusive,     \* TRUE: a handler starts only when the others rest
          MaxCommands,   \* bound: commands in a behaviour
          MaxMinutes,    \* bound: minutes in a behaviour
          MaxRestarts    \* bound: restarts in a behaviour

Default == [color |-> 2700, bright |-> 100]
numDigits == 6

(* A request fits the payload's records and the text buffers made from it, *)
(* and a mesh id the array meshid; nothing in the code refuses others.     *)
ASSUME LightAssumption ==
    /\ Settings \subseteq [color : 0 .. UINT16 - 1, bright : 0 .. UINT8 - 1]
    /\ MeshIds \subseteq Nat /\ \A id \in MeshIds : id < 10^numDigits
    /\ Profiles \subseteq [low : Int, max : Int, gen : STRING]
    /\ "self" \notin Others /\ "" \notin Others
    /\ Exclusive \in BOOLEAN
    /\ MaxCommands \in Nat /\ MaxMinutes \in Nat /\ MaxRestarts \in Nat

Tasks == {"parser", "bt", "timer"}
Nodes == Others \cup {"self"}

VARIABLES status_led,     \* mycolor and mybrightness (set), ledworking (work), ...
          nvs,            \* the blob "led_state"
          lamp,           \* what the PWM channels were last given, by which range
          todo,           \* accesses each handler has still to make
          copy,           \* save_led()'s argument, a copy of status_led
          recvb_form_ble, ble_cmd_to_gr,   \* Bluetooth group command for the timer
          mesh_started,   \* mwifi_is_started()
          stored,         \* ghost: group commands stored in recvb_form_ble so far
          sent, missed,   \* ghosts: the last of them multicast; the last of them
                          \* whose flag was set just before the timer cleared it
          rescaled,       \* ghost: the PWM range changed since Set_Brightness()
          commands, minutes, restarts      \* counted for the bounds

ram == <<status_led, copy, recvb_form_ble, ble_cmd_to_gr>>
mail == <<stored, sent, missed>>
ghosts == <<mail, rescaled>>
counts == <<commands, minutes, restarts>>
vars == <<ram, nvs, lamp, todo, mesh_started, ghosts, counts>>

(* What app_main stores on first boot.  MODEL and meshch travel with the   *)
(* rest and are left out; asked is a ghost, the mesh id last asked for.    *)
FirstBoot ==
    [set |-> Default, work |-> 0, meshid |-> <<1, 2, 3, 4, 5, 6>>, asked |-> 123456,
     low |-> 41, max |-> 185, gen |-> 1]

NoSetting == [color |-> 0, bright |-> 0]
Shown(s) == [color |-> effective_color(s.color), bright |-> effective_brightness(s.bright)]

(* init_led() *)
Lit(st) == [show |-> Shown(st.set), low |-> st.low, max |-> st.max]

Op(name, a) == [op |-> name, arg |-> a]
save_led == <<Op("copy", NoSetting), Op("commit", NoSetting)>>
read_led == <<Op("reload", NoSetting)>>
root_write_msg(s) == <<Op("mesh_wait", s), Op("root_write", s)>>
root_write_own(s) == <<Op("mesh_wait", s), Op("root_write_own", s)>>

(* Set_Color, Set_Brightness, status_led, save_led: every light command.   *)
Apply(s) == <<Op("color", s), Op("bright", s), Op("status", s)>> \o save_led

(* cm_lorawan_event_handler: single (1), group (2) and auto control, a     *)
(* command without a node id; type is 0 where the downlink has no          *)
(* type_control.  root_write_own is root_write_msg for a command that is   *)
(* also the root's own.                                                    *)
ForwardFirst(type, node, s) ==
    CASE node = ""                     -> Apply(s)
      [] node = "self" /\ type = 1     -> Apply(s)
      [] node = "self" /\ type \in {0, 2} -> root_write_own(s) \o Apply(s)
      [] node \in Others /\ type = 1   -> root_write_msg(s)
      [] OTHER                         -> <<>>

Downlink(type, node, s) ==
    CASE node = ""                     -> Apply(s)
      [] node = "self" /\ type = 1     -> Apply(s)
      [] node = "self" /\ type \in {0, 2} -> Apply(s) \o root_write_own(s)
      [] node \in Others /\ type = 1   -> root_write_msg(s)
      [] OTHER                         -> <<>>

(* The GPS query of another node is passed on; Uplink answers the root's.  *)
ReadGps(node, s) == IF node = "self" THEN <<>> ELSE root_write_msg(s)

(* app_main's first boot: the defaults are stored, init_led() shows them.  *)
Init ==
    /\ status_led = FirstBoot
    /\ nvs = status_led
    /\ lamp = Lit(FirstBoot)
    /\ todo = [t \in Tasks |-> <<>>]
    /\ copy = [t \in Tasks |-> status_led]
    /\ recvb_form_ble = NoSetting /\ ble_cmd_to_gr = FALSE
    /\ mesh_started = FALSE
    /\ stored = 0 /\ sent = 0 /\ missed = 0 /\ rescaled = FALSE
    /\ commands = 0 /\ minutes = 0 /\ restarts = 0

-----------------------------------------------------------------------------
(* Handlers start *)

Resting(t) == todo[t] = <<>>
MayStart(t) == Resting(t) /\ (Exclusive => \A u \in Tasks : Resting(u))

Start(t, ops) ==
    /\ MayStart(t)
    /\ commands < MaxCommands
    /\ commands' = commands + 1
    /\ todo' = [todo EXCEPT ![t] = ops]
    /\ UNCHANGED <<ram, nvs, lamp, mesh_started, ghosts, minutes, restarts>>

LORAWAN_UPDATE ==
    \E s \in Settings, node \in Nodes \cup {""} :
        \/ \E type \in {0, 1, 2} : Start("parser", Downlink(type, node, s))
        \/ node # "" /\ Start("parser", ReadGps(node, s))

TEST_CONTROL_SL == \E s \in Settings : Start("bt", Apply(s))

(* A light command that is left in recvb_form_ble for the timer, too.      *)
FlagFirst ==
    \E s \in Settings :
        Start("bt", Apply(s) \o <<Op("set_flag", NoSetting), Op("to_group", s)>>)

TEST_CONTROL_SL_GR ==
    \E s \in Settings :
        Start("bt", Apply(s) \o <<Op("to_group", s), Op("set_flag", NoSetting)>>)

(* READ_MESH_NETWORK_PF and READ_STREET_LIGHT_PF reload status_led.        *)
READ_PF == Start("bt", read_led)

(* WRITE_MESH_NETWORK_PF: the digits of the id are written from the last   *)
(* one on, as many as the id has.                                          *)
Digits(id) == Cardinality({k \in 0 .. numDigits - 1 : id \div 10^k > 0})
DigitsFromFirst(id) ==
    [k \in 1 .. Digits(id) |-> Op("digit", [at |-> k, digit |-> (id \div 10^(k - 1)) % 10])]
DigitWrites(id) ==
    [k \in 1 .. Digits(id) |->
        Op("digit", [at |-> numDigits + 1 - k, digit |-> (id \div 10^(k - 1)) % 10])]

WRITE_MESH_NETWORK_PF ==
    \E id \in MeshIds : Start("bt", DigitWrites(id) \o <<Op("asked", [id |-> id])>> \o save_led)

(* WRITE_STREET_LIGHT_PF: the lamp is not set again.                       *)
WRITE_STREET_LIGHT_PF ==
    \E p \in Profiles :
        Start("bt", <<Op("low_pwm", p), Op("max_pwm", p), Op("gen", p)>> \o save_led)

(* SCAN_SL: the lamp blinks (five times, once here) and returns to the     *)
(* last status.                                                            *)
Blink(b) == Op("bright", [color |-> 0, bright |-> b])
NoReturn == Start("bt", <<Blink(10), Blink(100)>>)
SCAN_SL == Start("bt", <<Blink(10), Blink(100), Op("return", NoSetting)>>)

(* streetlight_working: the 60th second saves the working time; the group  *)
(* command left by Bluetooth is looked at on every tick.                   *)
WrappingMinute ==
    /\ MayStart("timer")
    /\ minutes < MaxMinutes
    /\ minutes' = minutes + 1
    /\ status_led' = [status_led EXCEPT !.work = (@ + 1) % 2]
    /\ todo' = [todo EXCEPT !["timer"] = save_led \o <<Op("check_flag", NoSetting)>>]
    /\ UNCHANGED <<nvs, lamp, copy, recvb_form_ble, ble_cmd_to_gr, mesh_started,
                   ghosts, commands, restarts>>

Minute ==
    /\ MayStart("timer")
    /\ minutes < MaxMinutes
    /\ minutes' = minutes + 1
    /\ status_led' = [status_led EXCEPT !.work = @ + 1]
    /\ todo' = [todo EXCEPT !["timer"] = save_led \o <<Op("check_flag", NoSetting)>>]
    /\ UNCHANGED <<nvs, lamp, copy, recvb_form_ble, ble_cmd_to_gr, mesh_started,
                   ghosts, commands, restarts>>

Tick ==
    /\ MayStart("timer")
    /\ ble_cmd_to_gr
    /\ todo' = [todo EXCEPT !["timer"] = <<Op("check_flag", NoSetting)>>]
    /\ UNCHANGED <<ram, nvs, lamp, mesh_started, ghosts, counts>>

-----------------------------------------------------------------------------
(* Handlers continue: one access to shared state each.                     *)

Doing(t, name) == todo[t] # <<>> /\ Head(todo[t]).op = name
Arg(t) == Head(todo[t]).arg
Done(t) == todo' = [todo EXCEPT ![t] = Tail(@)]

SetColor(t) ==
    /\ Doing(t, "color") /\ Done(t)
    /\ lamp' = [lamp EXCEPT !.show.color = effective_color(Arg(t).color)]
    /\ UNCHANGED <<ram, nvs, mesh_started, ghosts, counts>>

(* max_pwm and low_pwm are status_led's at the time of the call.           *)
Brighten(b) ==
    /\ lamp' = [show |-> [lamp.show EXCEPT !.bright = effective_brightness(b)],
                low |-> status_led.low, max |-> status_led.max]
    /\ rescaled' = FALSE
    /\ UNCHANGED <<ram, nvs, mesh_started, mail, counts>>

SetBrightness(t) == Doing(t, "bright") /\ Done(t) /\ Brighten(Arg(t).bright)

ReturnToStatus(t) == Doing(t, "return") /\ Done(t) /\ Brighten(status_led.set.bright)

Assign(t, st) ==
    /\ Done(t)
    /\ status_led' = st
    /\ rescaled' = (rescaled \/ <<st.low, st.max>> # <<status_led.low, status_led.max>>)
    /\ UNCHANGED <<copy, recvb_form_ble, ble_cmd_to_gr, nvs, lamp, mesh_started,
                   mail, counts>>

SetStatus(t) ==
    /\ Doing(t, "status")
    /\ Assign(t, [status_led EXCEPT !.set = Arg(t)])

SetMeshId(t) ==
    \/ /\ Doing(t, "digit")
       /\ Assign(t, [status_led EXCEPT !.meshid[Arg(t).at] = Arg(t).digit])
    \/ /\ Doing(t, "asked")
       /\ Assign(t, [status_led EXCEPT !.asked = Arg(t).id])

SetProfile(t) ==
    \/ Doing(t, "low_pwm") /\ Assign(t, [status_led EXCEPT !.low = Arg(t).low % UINT8])
    \/ Doing(t, "max_pwm") /\ Assign(t, [status_led EXCEPT !.max = Arg(t).max % UINT8])
    \/ /\ Doing(t, "gen")
       /\ Assign(t, [status_led EXCEPT !.gen =
              IF Arg(t).gen = "DIM" THEN 2 ELSE IF Arg(t).gen = "DIMCOLOR" THEN 1 ELSE @])

CopyStatus(t) ==
    /\ Doing(t, "copy") /\ Done(t)
    /\ copy' = [copy EXCEPT ![t] = status_led]
    /\ UNCHANGED <<status_led, recvb_form_ble, ble_cmd_to_gr, nvs, lamp, mesh_started,
                   ghosts, counts>>

Commit(t) ==
    /\ Doing(t, "commit") /\ Done(t)
    /\ nvs' = copy[t]
    /\ UNCHANGED <<ram, lamp, mesh_started, ghosts, counts>>

Reload(t) == Doing(t, "reload") /\ Assign(t, nvs)

ToGroup(t) ==
    /\ Doing(t, "to_group") /\ Done(t)
    /\ recvb_form_ble' = Arg(t)
    /\ stored' = stored + 1
    /\ UNCHANGED <<sent, missed, rescaled, status_led, copy, ble_cmd_to_gr, nvs, lamp,
                   mesh_started, counts>>

SetFlag(t) ==
    /\ Doing(t, "set_flag") /\ Done(t)
    /\ ble_cmd_to_gr' = TRUE
    /\ missed' = IF Doing("timer", "clear_flag") THEN stored ELSE missed
    /\ UNCHANGED <<stored, sent, rescaled, status_led, copy, recvb_form_ble, nvs, lamp,
                   mesh_started, counts>>

(* The timer multicasts the group command and clears the flag afterwards;  *)
(* what it sends is in recvb_form_ble when root_write_msg() formats it.    *)
FlagKept(t) ==
    /\ Doing(t, "check_flag")
    /\ todo' = [todo EXCEPT ![t] =
          IF ble_cmd_to_gr
          THEN <<Op("mesh_wait", NoSetting), Op("root_write_ble", NoSetting)>>
          ELSE <<>>]
    /\ UNCHANGED <<ram, nvs, lamp, mesh_started, ghosts, counts>>

CheckFlag(t) ==
    /\ Doing(t, "check_flag")
    /\ todo' = [todo EXCEPT ![t] =
          IF ble_cmd_to_gr
          THEN <<Op("mesh_wait", NoSetting), Op("root_write_ble", NoSetting),
                 Op("clear_flag", NoSetting)>>
          ELSE <<>>]
    /\ UNCHANGED <<ram, nvs, lamp, mesh_started, ghosts, counts>>

ClearFlag(t) ==
    /\ Doing(t, "clear_flag") /\ Done(t)
    /\ ble_cmd_to_gr' = FALSE
    /\ UNCHANGED <<status_led, copy, recvb_form_ble, nvs, lamp, mesh_started,
                   ghosts, counts>>

(* root_write_msg() waits for the mesh, then writes to all nodes.          *)
MeshWait(t) ==
    /\ Doing(t, "mesh_wait") /\ Done(t)
    /\ mesh_started
    /\ UNCHANGED <<ram, nvs, lamp, mesh_started, ghosts, counts>>

RootWrite(t) ==
    /\ \/ /\ Doing(t, "root_write") \/ Doing(t, "root_write_own")
          /\ sent' = sent
       \/ /\ Doing(t, "root_write_ble")
          /\ sent' = stored
    /\ Done(t)
    /\ UNCHANGED <<ram, nvs, lamp, mesh_started, stored, missed, rescaled, counts>>

TaskStep(t) ==
    \/ SetColor(t) \/ SetBrightness(t) \/ ReturnToStatus(t) \/ SetStatus(t)
    \/ SetMeshId(t) \/ SetProfile(t)
    \/ CopyStatus(t) \/ Commit(t) \/ Reload(t) \/ ToGroup(t) \/ SetFlag(t)
    \/ CheckFlag(t) \/ ClearFlag(t) \/ MeshWait(t) \/ RootWrite(t)

MeshStarted ==
    /\ ~mesh_started
    /\ mesh_started' = TRUE
    /\ UNCHANGED <<ram, nvs, lamp, todo, ghosts, counts>>

(* RESTART_MCU, the low-heap restart, a crash or a power failure: app_main *)
(* reads NVS and init_led() shows it.                                      *)
Boot(st) ==
    /\ restarts < MaxRestarts
    /\ restarts' = restarts + 1
    /\ status_led' = st
    /\ lamp' = Lit(st)
    /\ todo' = [t \in Tasks |-> <<>>]
    /\ copy' = [t \in Tasks |-> st]
    /\ recvb_form_ble' = NoSetting /\ ble_cmd_to_gr' = FALSE
    /\ mesh_started' = FALSE
    /\ stored' = 0 /\ sent' = 0 /\ missed' = 0 /\ rescaled' = FALSE
    /\ UNCHANGED <<nvs, commands, minutes>>

UnreadRestart == Boot([FirstBoot EXCEPT !.set = NoSetting])
Restart == Boot(nvs)

Next ==
    \/ LORAWAN_UPDATE \/ TEST_CONTROL_SL \/ TEST_CONTROL_SL_GR
    \/ READ_PF \/ WRITE_MESH_NETWORK_PF \/ WRITE_STREET_LIGHT_PF \/ SCAN_SL
    \/ Minute \/ Tick
    \/ \E t \in Tasks : TaskStep(t)
    \/ MeshStarted \/ Restart

(* Handlers that are not blocked continue, the timer ticks, and mwifi,     *)
(* started by app_main before the handlers exist, comes up.                *)
Fairness ==
    /\ \A t \in Tasks : WF_vars(TaskStep(t))
    /\ WF_vars(Tick)
    /\ WF_vars(MeshStarted)

Spec == Init /\ [][Next]_vars
FairSpec == Spec /\ Fairness
-----------------------------------------------------------------------------
Requests == Settings \cup {Default}
States == [set : Requests, work : 0 .. MaxMinutes, meshid : [1 .. numDigits -> 0 .. 9],
           asked : MeshIds \cup {123456}, low : 0 .. UINT8 - 1, max : 0 .. UINT8 - 1,
           gen : {1, 2}]

(* status_led, its copies and the lamp hold settings that were requested.  *)
TypeOK ==
    /\ status_led \in States /\ nvs \in States
    /\ copy \in [Tasks -> States]
    /\ lamp.show.color \in {effective_color(s.color) : s \in Requests}
    /\ lamp.show.bright \in {effective_brightness(s.bright) : s \in Requests} \cup {10, 100}
    /\ lamp.low \in 0 .. UINT8 - 1 /\ lamp.max \in 0 .. UINT8 - 1
    /\ recvb_form_ble \in Settings \cup {NoSetting}
    /\ ble_cmd_to_gr \in BOOLEAN /\ mesh_started \in BOOLEAN /\ rescaled \in BOOLEAN

Quiet == \A t \in Tasks : Resting(t)

(* When no handler is running, what the lamp shows, what status_led says   *)
(* (and the next report sends) and what a restart would restore agree.     *)
(* The lamp uses the PWM range of status_led, unless that was written and  *)
(* no command has set the brightness since.                                *)
Settled ==
    Quiet => /\ lamp.show = Shown(status_led.set) /\ nvs = status_led
             /\ rescaled \/ lamp = Lit(status_led)

(* Whatever was requested, by whichever handlers, the duty cycles of the   *)
(* lamp fit its 8-bit channels (led_driver.c:8, "0-255"), on every safe    *)
(* range: the inverted brightness, which goes below the 10 it is mapped    *)
(* from, never makes the uint16_t result wrap.                             *)
LampFits ==
    /\ Set_Color(lamp.show.color) \in 0 .. FULL_DUTY
    /\ SafeRange(lamp.low, lamp.max) =>
           Set_Brightness(lamp.show.bright, lamp.low, lamp.max) \in 0 .. FULL_DUTY

(* array_to_num(), which READ_MESH_NETWORK_PF and the reports show.        *)
array_to_num(m) ==
    100000 * m[1] + 10000 * m[2] + 1000 * m[3] + 100 * m[4] + 10 * m[5] + m[6]

(* A mesh id written over Bluetooth is the one shown, stored and restored  *)
(* after a restart, in its own digits; an id with fewer than six leaves    *)
(* the leading digits of the one before it.                                *)
MeshIdAsAsked ==
    Quiet => array_to_num(nvs.meshid) % 10^Digits(nvs.asked) = nvs.asked

(* When the parser task multicasts a command of the root's own group, the  *)
(* root shows it and has saved it: a restart never leaves the root behind  *)
(* the nodes it has just commanded.                                        *)
SavedBeforeMulticast ==
    Doing("parser", "root_write_own") =>
        nvs.set = Arg("parser") /\ lamp.show = Shown(Arg("parser"))

(* The working time in NVS never goes backwards.                           *)
WorkingTimeGrows == [][nvs'.work >= nvs.work]_nvs

(* Where a Bluetooth group command can be lost, however the handlers       *)
(* interleave: once the flag is down, the newest command (a newer one      *)
(* overwrites one that waits) has been multicast, or its flag was set      *)
(* between the timer's multicast and the timer's clearing of the flag.     *)
GroupCommandServed ==
    ~ble_cmd_to_gr /\ ~Doing("bt", "set_flag") => stored \in {sent, missed}

(* A downlink is handled to its end, so the parser task gets back to the   *)
(* modem's lines; a Bluetooth group command leaves the flag.               *)
HandlersFinish ==
    /\ \A t \in Tasks : ~Resting(t) ~> Resting(t)
    /\ ble_cmd_to_gr ~> ~ble_cmd_to_gr
=============================================================================
