----------------------------- MODULE Lifecycle ------------------------------
(***************************************************************************)
(* From power-on to running (app_main of main/main.c): settings and        *)
(* credentials are read from NVS or stored, then mesh, Bluetooth, lamp,    *)
(* queue and modem link are started one after the other, while Bluetooth   *)
(* commands, mesh reports and firmware updates (Ota) already arrive.       *)
(* Flash errors, faults and restarts happen at any step.                   *)
(*                                                                         *)
(* A stored setting is a name for its whole contents.                      *)
(***************************************************************************)
EXTENDS Ota, Functions

CONSTANTS KeyOrder,      \* DEVADDR, NWKSKEY, APPSKEY, as they are stored
          UserSettings,  \* what Bluetooth commands may store
          MaxErrors,     \* bound: calls of the flash driver that fail
          MaxReboots,    \* bound: restarts and faults
          MaxCommands    \* bound: Bluetooth commands

LED == "led_state"
Keys == Range(KeyOrder)
Entries == Keys \cup {LED}
Blank == "blank"         \* ESP_ERR_NVS_NOT_FOUND
Default == "default"
Zeros == "zeros"         \* status_led before anything was read into it

ASSUME LifecycleAssumption ==
    /\ KeyOrder \in Seq(STRING) /\ LED \notin Keys
    /\ UserSettings \cap {Blank, Default, Zeros} = {}
    /\ MaxErrors \in Nat /\ MaxReboots \in Nat /\ MaxCommands \in Nat

(* The steps of app_main; init_led() is three, each fade taking a second,  *)
(* and lora_init() is the part of init_LoraWAN() that needs the modem.     *)
EarlyTransmitter ==
    <<"nvs_flash_init", "read_led", "save_led", "credentials", "mwifi_start", "init_bluetooth",
      "init_led", "led_color", "led_bright", "Brideg_LORAWAN_TX", "queue_init", "init_LoraWAN",
      "lora_init", "timers">>
app_main ==
    <<"nvs_flash_init", "read_led", "save_led", "credentials", "mwifi_start", "init_bluetooth",
      "init_led", "led_color", "led_bright", "queue_init", "init_LoraWAN", "lora_init",
      "Brideg_LORAWAN_TX", "timers">>

VARIABLES pc,          \* app_main's next step, an index
          key,         \* the credential it reads next, an index
          status_led,
          nvs,         \* contents of each entry
          lamp,        \* settings the colour and brightness channels show
          bt,          \* accesses the Bluetooth callback has still to make
          fault,       \* what dereferenced something not created yet, or ""
          errors, reboots, commands,   \* counted for the bounds
          intended,    \* ghost: what each entry should hold
          raced        \* ghost: a light command overlapped init_led()

ram == <<pc, key, status_led, lamp, bt>>
ghosts == <<intended, raced>>
counts == <<errors, reboots, commands>>
vars == <<ram, nvs, fault, counts, ghosts, otaVars>>

Step == IF pc <= Len(app_main) THEN app_main[pc] ELSE "done"
Started(s) == pc > CHOOSE i \in DOMAIN app_main : app_main[i] = s
Booted == Step = "done"
Running == fault = ""

Dark == [color |-> Blank, bright |-> Blank]

Init ==
    /\ pc = 1 /\ key = 1 /\ status_led = Zeros /\ lamp = Dark /\ bt = <<>>
    /\ nvs = [e \in Entries |-> Blank]
    /\ fault = ""
    /\ errors = 0 /\ reboots = 0 /\ commands = 0
    /\ intended = nvs /\ raced = FALSE
    /\ OtaInit

-----------------------------------------------------------------------------
(* app_main *)

At(s) == Running /\ Step = s
Proceed == pc' = pc + 1
Error == errors < MaxErrors /\ errors' = errors + 1

(* A full or damaged partition is erased; every other error aborts.        *)
nvs_flash_init ==
    /\ At("nvs_flash_init")
    /\ \/ Proceed /\ UNCHANGED <<nvs, errors, fault>>
       \/ Proceed /\ Error /\ nvs' = [e \in Entries |-> Blank] /\ UNCHANGED fault
       \/ Error /\ fault' = "nvs" /\ UNCHANGED <<pc, nvs>>
    /\ UNCHANGED <<key, status_led, lamp, bt, reboots, commands, ghosts, otaVars>>

(* nvs_set and nvs_commit, or an error that is only printed.               *)
Store(e, v) ==
    \/ nvs' = [nvs EXCEPT ![e] = v] /\ UNCHANGED errors
    \/ Error /\ UNCHANGED nvs

(* read_led() is false when the entry is missing or a call fails: the      *)
(* defaults are set, and save_led() is next.  An error of the first        *)
(* nvs_get_blob() is returned as true, and status_led stays as it is.      *)
DefaultsAlways ==
    /\ At("read_led") /\ Proceed
    /\ status_led' = Default
    /\ UNCHANGED <<key, lamp, bt, nvs, fault, counts, ghosts, otaVars>>

ReadsMissing ==
    /\ At("read_led") /\ pc' = pc + 2
    /\ status_led' = nvs[LED]
    /\ UNCHANGED <<key, lamp, bt, nvs, fault, counts, ghosts, otaVars>>

ReadLed ==
    /\ At("read_led")
    /\ \/ nvs[LED] # Blank /\ status_led' = nvs[LED] /\ pc' = pc + 2 /\ UNCHANGED errors
       \/ nvs[LED] = Blank /\ status_led' = Default /\ Proceed /\ UNCHANGED errors
       \/ Error /\ status_led' = Default /\ Proceed
       \/ Error /\ UNCHANGED status_led /\ pc' = pc + 2
    /\ UNCHANGED <<key, lamp, bt, nvs, fault, reboots, commands, ghosts, otaVars>>

SaveDefaults ==
    /\ At("save_led") /\ Proceed
    /\ Store(LED, status_led)
    /\ intended' = [intended EXCEPT ![LED] = IF nvs[LED] = Blank THEN status_led ELSE @]
    /\ UNCHANGED <<key, status_led, lamp, bt, fault, reboots, commands, raced, otaVars>>

(* get_string() for one key after the other, and save_string() of the      *)
(* default where it was false: the key is missing or a call failed.        *)
Credential ==
    /\ At("credentials") /\ key <= Len(KeyOrder)
    /\ key' = key + 1
    /\ LET k == KeyOrder[key] IN
         /\ \/ nvs[k] # Blank /\ UNCHANGED <<nvs, errors>>
            \/ nvs[k] = Blank /\ nvs' = [nvs EXCEPT ![k] = Default] /\ UNCHANGED errors
            \/ Error /\ nvs' \in {nvs, [nvs EXCEPT ![k] = Default]}
         /\ intended' = [intended EXCEPT ![k] = IF nvs[k] = Blank THEN Default ELSE @]
    /\ UNCHANGED <<pc, status_led, lamp, bt, fault, reboots, commands, raced, otaVars>>

CredentialsRead ==
    /\ At("credentials") /\ key > Len(KeyOrder) /\ Proceed
    /\ UNCHANGED <<key, status_led, lamp, bt, nvs, fault, counts, ghosts, otaVars>>

(* init_led(): the channels are dark until the fade service is installed.  *)
ColorOnly ==
    /\ Running /\ Step \in {"init_led", "led_color", "led_bright"} /\ Proceed
    /\ lamp' = IF Step = "led_color" THEN [lamp EXCEPT !.color = status_led] ELSE lamp
    /\ raced' = (raced \/ bt # <<>>)
    /\ UNCHANGED <<key, status_led, bt, nvs, fault, counts, intended, otaVars>>

InitLed ==
    /\ Running /\ Step \in {"init_led", "led_color", "led_bright"} /\ Proceed
    /\ lamp' = CASE Step = "led_color"  -> [lamp EXCEPT !.color = status_led]
                 [] Step = "led_bright" -> [lamp EXCEPT !.bright = status_led]
                 [] OTHER               -> lamp
    /\ raced' = (raced \/ bt # <<>>)
    /\ UNCHANGED <<key, status_led, bt, nvs, fault, counts, intended, otaVars>>

(* Steps that create something others use; none of them waits.             *)
BluetoothAwaitsLink ==
    /\ Running /\ Proceed
    /\ Step \in {"mwifi_start", "init_bluetooth", "queue_init", "init_LoraWAN",
                 "Brideg_LORAWAN_TX", "timers"}
    /\ Step = "init_bluetooth" => Started("init_LoraWAN")
    /\ UNCHANGED <<key, status_led, lamp, bt, nvs, fault, counts, ghosts, otaVars>>

Create ==
    /\ Running /\ Proceed
    /\ Step \in {"mwifi_start", "init_bluetooth", "queue_init", "init_LoraWAN",
                 "Brideg_LORAWAN_TX", "timers"}
    /\ UNCHANGED <<key, status_led, lamp, bt, nvs, fault, counts, ghosts, otaVars>>

Boot ==
    \/ nvs_flash_init \/ ReadLed \/ SaveDefaults \/ Credential \/ CredentialsRead
    \/ InitLed \/ Create

(* lora_init() repeats its commands until the modem has answered all.      *)
ModemAnswers ==
    /\ At("lora_init") /\ Proceed
    /\ UNCHANGED <<key, status_led, lamp, bt, nvs, fault, counts, ghosts, otaVars>>

-----------------------------------------------------------------------------
(* What runs beside it *)

(* A call that needs a queue or an event group; NULL faults.               *)
Uses(objects, by) == fault' = IF \A o \in objects : Started(o) THEN "" ELSE by

(* A node's report reaches root_read_task as soon as the mesh is up.       *)
root_read_task ==
    /\ Running /\ Started("mwifi_start")
    /\ Started("queue_init") \/ reboots < MaxReboots
    /\ Uses({"queue_init"}, "report")
    /\ UNCHANGED <<ram, nvs, counts, ghosts, otaVars>>

Brideg_LORAWAN_TX ==
    /\ Running /\ Started("Brideg_LORAWAN_TX")
    /\ Uses({"queue_init", "init_LoraWAN"}, "transmit")
    /\ UNCHANGED <<ram, nvs, counts, ghosts, otaVars>>

(* Once a minute the timer saves status_led and queues a report.           *)
streetlight_working ==
    /\ Running /\ Started("timers")
    /\ Store(LED, status_led)
    /\ intended' = [intended EXCEPT ![LED] = status_led]
    /\ Uses({"queue_init"}, "timer")
    /\ UNCHANGED <<ram, reboots, commands, raced, otaVars>>

Op(name, s) == [op |-> name, set |-> s]

(* TEST_CONTROL_SL of the Bluetooth callback.                              *)
LightCommand(s) ==
    /\ Running /\ Started("init_bluetooth")
    /\ bt = <<>> /\ commands < MaxCommands
    /\ commands' = commands + 1
    /\ bt' = <<Op("color", s), Op("bright", s), Op("status", s), Op("save", s)>>
    /\ raced' = (raced \/ Step \in {"led_color", "led_bright"})
    /\ UNCHANGED <<pc, key, status_led, lamp, nvs, fault, errors, reboots, intended, otaVars>>

(* WRITE_LORAWAN_PF: save_string() of the keys, one after the other, then  *)
(* lora_init(), which waits for the event group of the link.               *)
WriteLorawan(s) ==
    /\ Running /\ Started("init_bluetooth")
    /\ bt = <<>> /\ commands < MaxCommands
    /\ commands' = commands + 1
    /\ bt' = Append([i \in 1 .. Len(KeyOrder) |->
                        [op |-> "save_string", set |-> s, key |-> KeyOrder[i]]],
                    Op("lora_init", s))
    /\ UNCHANGED <<pc, key, status_led, lamp, nvs, fault, errors, reboots, ghosts, otaVars>>

Doing(name) == Running /\ bt # <<>> /\ Head(bt).op = name
BtDone == bt' = Tail(bt)

(* Set_Color() and Set_Brightness() have no effect before init_led().      *)
Fade ==
    /\ Doing("color") \/ Doing("bright")
    /\ BtDone
    /\ lamp' = IF Started("init_led") THEN [lamp EXCEPT ![Head(bt).op] = Head(bt).set] ELSE lamp
    /\ UNCHANGED <<pc, key, status_led, nvs, fault, counts, ghosts, otaVars>>

SetStatus ==
    /\ Doing("status") /\ BtDone
    /\ status_led' = Head(bt).set
    /\ UNCHANGED <<pc, key, lamp, nvs, fault, counts, ghosts, otaVars>>

SaveLed ==
    /\ Doing("save") /\ BtDone
    /\ Store(LED, status_led)
    /\ intended' = [intended EXCEPT ![LED] = status_led]
    /\ UNCHANGED <<pc, key, status_led, lamp, fault, reboots, commands, raced, otaVars>>

SaveString ==
    /\ Doing("save_string") /\ BtDone
    /\ Store(Head(bt).key, Head(bt).set)
    /\ intended' = [intended EXCEPT ![Head(bt).key] = Head(bt).set]
    /\ UNCHANGED <<pc, key, status_led, lamp, fault, reboots, commands, raced, otaVars>>

(* Faults at once, or waits for the modem like app_main's.                 *)
LoraInit ==
    /\ Doing("lora_init") /\ BtDone
    /\ Uses({"init_LoraWAN"}, "lorawan")
    /\ UNCHANGED <<pc, key, status_led, lamp, nvs, counts, ghosts, otaVars>>

Callback == Fade \/ SetStatus \/ SaveLed \/ SaveString

-----------------------------------------------------------------------------
(* Updates and restarts *)

others == <<ram, nvs, errors, reboots, ghosts, fault>>

StartUpdate ==
    /\ Running /\ Started("init_bluetooth") /\ commands < MaxCommands
    /\ commands' = commands + 1
    /\ \E u \in Updates : UPDATE_FW_VIA_BLE(u)
    /\ UNCHANGED others

OtaStep(u) == Running /\ ota_task(u) /\ UNCHANGED <<others, commands>>
TransferStep(u) == Running /\ Transfer(u) /\ UNCHANGED <<others, commands>>

NodeRestarts == node_read_task /\ UNCHANGED <<others, commands>>

(* esp_http_client_close() of a client that is NULL.                       *)
CloseNull ==
    /\ Running /\ reboots < MaxReboots
    /\ \E u \in Updates : ota[u] = "EXIT" /\ ~client[u]
    /\ fault' = "client"
    /\ UNCHANGED <<ram, nvs, counts, ghosts, otaVars>>

Restarted ==
    /\ reboots' = reboots + 1
    /\ pc' = 1 /\ key' = 1 /\ status_led' = Zeros /\ lamp' = Dark /\ bt' = <<>>
    /\ fault' = "" /\ raced' = FALSE
    /\ OtaRestart
    /\ UNCHANGED <<nvs, errors, commands, intended>>

(* A fault ends in a restart; so do RESTART_MCU, too little heap (both     *)
(* once something runs) and power failures.                                *)
Panic == ~Running /\ Restarted
Restart == Running /\ reboots < MaxReboots /\ Restarted

Next ==
    \/ Boot \/ ModemAnswers \/ Callback \/ LoraInit
    \/ root_read_task \/ Brideg_LORAWAN_TX \/ streetlight_working
    \/ \E s \in UserSettings : LightCommand(s) \/ WriteLorawan(s)
    \/ StartUpdate \/ CloseNull
    \/ \E u \in Updates : OtaStep(u)
    \/ NodeRestarts \/ Panic \/ Restart

(* The scheduler runs app_main and the callbacks, a device that faulted    *)
(* restarts, and a transfer goes on or fails.  Nothing makes the modem     *)
(* answer lora_init(), or the server let a root in that tries forever.     *)
Fairness ==
    /\ WF_vars(Boot) /\ WF_vars(Callback) /\ WF_vars(Panic)
    /\ \A u \in Updates : WF_vars(TransferStep(u))

Spec == Init /\ [][Next]_vars
FairSpec == Spec /\ Fairness
-----------------------------------------------------------------------------
Contents == UserSettings \cup {Default, Zeros, Blank}

(* Settings are ones that a user or app_main stored, and a running device  *)
(* never takes a missing entry for settings.                               *)
TypeOK ==
    /\ pc \in 1 .. Len(app_main) + 1 /\ key \in 1 .. Len(KeyOrder) + 1
    /\ status_led \in Contents \ {Blank}
    /\ nvs \in [Entries -> Contents] /\ intended \in [Entries -> Contents]
    /\ lamp \in [color : Contents, bright : Contents]
    /\ ota \in [Updates -> {"off", "client", "open", "headers", "init", "read", "send",
                            "notify", "EXIT"}]
    /\ recv_size \in [Updates -> 0 .. Chunks] /\ total_size \in [Updates -> 0 .. Huge]
    /\ part \in Seq(1 .. Chunks)

(* Tasks the firmware starts itself find the queue and the link made: only *)
(* what comes from outside can be too early, a mesh report or new LoRaWAN  *)
(* credentials, and nothing is once app_main has come to its end.          *)
FaultsOnlyFromOutside ==
    /\ fault \in {"", "nvs", "client", "report", "lorawan"}
    /\ fault \in {"report", "lorawan"} => ~Started("init_LoraWAN")

(* As long as the flash works, restarts at any step never lose or replace  *)
(* what was stored, neither settings nor credentials, and a device that    *)
(* has read its settings runs with the stored ones.                        *)
NvsKept ==
    errors = 0 =>
        /\ nvs = intended
        /\ Started("save_led") /\ bt = <<>> => status_led = nvs[LED]

(* A running lamp shows status_led, commands that came before the lamp was *)
(* initialised included, unless one overlapped init_led().                 *)
LampShowsStatus ==
    Started("led_bright") /\ bt = <<>> /\ ~raced =>
        lamp = [color |-> status_led, bright |-> status_led]

(* Once faults and restarts are over app_main comes to its end, wherever   *)
(* they left it, unless the modem keeps it waiting in init_LoraWAN(): no   *)
(* other step of it waits for anybody.                                     *)
ComesUp == []<>Booted \/ <>[](Step = "lora_init")

(* Every update ends, in success, failure or a restart, with the one       *)
(* exception the code makes: while the server does not let it in, a root   *)
(* tries again.  Nothing later in ota_task, a size that is not known       *)
(* included, keeps it from ending.                                         *)
UpdatesEnd == \A u \in Updates : []<>(ota[u] = "off") \/ <>[](ota[u] = "open")
=============================================================================
