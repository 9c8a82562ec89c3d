-------------------------- MODULE LifecycleProofs ---------------------------
(***************************************************************************)
(* Proofs about start-up and updates: types, what restarts leave in NVS,   *)
(* what the lamp shows, and that only whole images are sent to and run by  *)
(* the nodes, for every size of the image and number of updates, errors    *)
(* and restarts.                                                           *)
(***************************************************************************)
EXTENDS Lifecycle, TLAPS

OtaPlaces ==
    {"off", "client", "open", "headers", "init", "read", "send", "notify", "EXIT"}

Prefix(n) == [i \in 1 .. n |-> i]

OtaTyped ==
    /\ ota \in [Updates -> OtaPlaces]
    /\ client \in [Updates -> BOOLEAN]
    /\ recv_size \in [Updates -> 0 .. Chunks]
    /\ total_size \in [Updates -> 0 .. Huge]
    /\ notice \in BOOLEAN /\ shared \in BOOLEAN

PartTyped == part \in Seq(1 .. Chunks)

InPartition(u) == ota[u] \in {"read", "send"}

(* The update that has the partition is the only one.                      *)
Sole == \A u, v \in Updates : InPartition(u) /\ InPartition(v) => u = v

(* What the partition holds follows from how far that update has come.     *)
Progress ==
    \A u \in Updates :
        /\ ota[u] \in {"init", "read"} => total_size[u] \in {Chunks, Huge}
        /\ ota[u] # "read" => recv_size[u] = 0
        /\ ota[u] = "read" => part = Prefix(recv_size[u])
        /\ ota[u] = "send" => part = Whole
        /\ ota[u] = "notify" => image = Whole

ImagesWhole ==
    /\ image \in {<<>>, Whole} /\ firmware \in {<<>>, Whole}
    /\ notice => image = Whole

OtaInv == OtaTyped /\ (~shared => Sole /\ Progress /\ ImagesWhole)

-----------------------------------------------------------------------------
(* A chunk appended to a prefix of the image makes the next prefix.        *)
LEMMA PrefixGrows ==
    ASSUME NEW n \in Nat
    PROVE  Append(Prefix(n), n + 1) = Prefix(n + 1)
<1>1. Prefix(n) \in Seq(Nat) /\ Len(Prefix(n)) = n
  BY DEF Prefix
<1>2. DOMAIN Append(Prefix(n), n + 1) = 1 .. n + 1
  BY <1>1
<1>3. \A i \in 1 .. n + 1 : Append(Prefix(n), n + 1)[i] = i
  BY <1>1 DEF Prefix
<1>4. Append(Prefix(n), n + 1) \in Seq(Nat)
  BY <1>1
<1> QED
  BY <1>2, <1>3, <1>4 DEF Prefix

(* The whole image and the erased partition are prefixes.                  *)
LEMMA WholeIsPrefix == Whole = Prefix(Chunks) /\ Prefix(0) = <<>>
  BY DEF Whole, Prefix

(* The sizes an update may see are in range, and none of them is 0.        *)
LEMMA Sizes ==
    /\ 0 \in 0 .. Chunks /\ 0 \in 0 .. Huge /\ Chunks \in 0 .. Huge /\ Huge \in 0 .. Huge
    /\ Chunks # 0 /\ Huge # 0
  BY OtaAssumption DEF Huge

(* No update runs after power-on.                                          *)
LEMMA OtaInvInit == Init => OtaInv
<1> SUFFICES ASSUME OtaInit PROVE OtaInv
  BY DEF Init
<1>1. OtaTyped
  BY Sizes DEF OtaInit, OtaTyped, OtaPlaces
<1>2. Sole /\ Progress /\ ImagesWhole
  BY DEF OtaInit, Sole, InPartition, Progress, ImagesWhole
<1> QED
  BY <1>1, <1>2 DEF OtaInv

(* One step of an ota_task.                                                *)
LEMMA OtaTaskKeeps ==
    ASSUME OtaInv, NEW u \in Updates, ota_task(u)
    PROVE  OtaInv'
<1> USE OtaAssumption DEF To, Leave, sizes, nodes
<1>1. OtaTyped'
  <2>1. CASE HttpClientInit(u) \/ Opened(u) \/ NotOpened(u)
    BY <2>1 DEF OtaInv, OtaTyped, OtaPlaces, HttpClientInit, Opened, NotOpened
  <2>2. CASE FetchHeaders(u)
    BY <2>2, Sizes DEF OtaInv, OtaTyped, OtaPlaces, FetchHeaders
  <2>3. CASE FirmwareInit(u)
    <3>1. shared' \in BOOLEAN
      BY <2>3 DEF OtaInv, OtaTyped, FirmwareInit
    <3> QED
      BY <2>3, <3>1, Sizes DEF OtaInv, OtaTyped, OtaPlaces, FirmwareInit
  <2>4. CASE Download(u)
    <3>1. recv_size' \in [Updates -> 0 .. Chunks]
      <4>1. recv_size[u] < Chunks => recv_size[u] + 1 \in 0 .. Chunks
        BY DEF OtaInv, OtaTyped
      <4> QED
        BY <2>4, <4>1, Sizes DEF OtaInv, OtaTyped, Download
    <3>2. ota' \in [Updates -> OtaPlaces]
      BY <2>4 DEF OtaInv, OtaTyped, OtaPlaces, Download
    <3>3. total_size' \in [Updates -> 0 .. Huge] /\ UNCHANGED <<client, notice, shared>>
      BY <2>4, Sizes DEF OtaInv, OtaTyped, Download
    <3> QED
      BY <3>1, <3>2, <3>3 DEF OtaInv, OtaTyped
  <2>6. CASE Downloaded(u)
    BY <2>6, Sizes DEF OtaInv, OtaTyped, OtaPlaces, Downloaded
  <2>5. CASE FirmwareSend(u) \/ Notify(u) \/ EXIT(u)
    BY <2>5 DEF OtaInv, OtaTyped, OtaPlaces, FirmwareSend, Notify, EXIT
  <2> QED
    BY <2>1, <2>2, <2>3, <2>4, <2>5, <2>6 DEF ota_task, Transfer
<1> SUFFICES ASSUME ~shared' PROVE (Sole /\ Progress /\ ImagesWhole)'
  BY <1>1 DEF OtaInv
<1>2. ~shared
  BY DEF ota_task, Transfer, HttpClientInit, Opened, NotOpened, FetchHeaders, FirmwareInit, Download,
         Downloaded, FirmwareSend, Notify, EXIT
<1>3. OtaTyped /\ Sole /\ Progress /\ ImagesWhole
  BY <1>2 DEF OtaInv
<1>4. CASE HttpClientInit(u) \/ Opened(u) \/ NotOpened(u)
  <2>1. ota'[u] \notin {"init", "read", "send", "notify"} /\ ota[u] # "read"
    BY <1>3, <1>4 DEF HttpClientInit, Opened, NotOpened, OtaTyped
  <2>2. \A v \in Updates \ {u} : ota'[v] = ota[v]
    BY <1>3, <1>4 DEF HttpClientInit, Opened, NotOpened, OtaTyped
  <2>3. UNCHANGED <<recv_size, total_size, part, image, notice, firmware>>
    BY <1>4 DEF HttpClientInit, Opened, NotOpened
  <2> QED
    BY <1>3, <2>1, <2>2, <2>3 DEF Sole, InPartition, Progress, ImagesWhole
<1>9. CASE FetchHeaders(u)
  <2>1. PICK n \in {0, Chunks, Huge} :
            /\ ota[u] = "headers" /\ ota' = [ota EXCEPT ![u] = IF n = 0 THEN "EXIT" ELSE "init"]
            /\ total_size' = [total_size EXCEPT ![u] = n]
    BY <1>9 DEF FetchHeaders
  <2>2. /\ ota'[u] \in {"EXIT", "init"}
        /\ ota'[u] = "init" => total_size'[u] \in {Chunks, Huge}
    BY <1>3, <2>1 DEF OtaTyped
  <2>3. \A v \in Updates \ {u} : ota'[v] = ota[v] /\ total_size'[v] = total_size[v]
    BY <1>3, <2>1 DEF OtaTyped
  <2>4. UNCHANGED <<recv_size, part, image, notice, firmware>>
    BY <1>9 DEF FetchHeaders
  <2> QED
    BY <1>3, <2>1, <2>2, <2>3, <2>4 DEF Sole, InPartition, Progress, ImagesWhole
<1>5. CASE FirmwareInit(u)
  <2>1. CASE ota'[u] = "read"
    <3>1. part' = <<>> /\ \A v \in Updates \ {u} : ~InPartition(v) /\ ota'[v] = ota[v]
      BY <1>3, <1>5, <2>1 DEF FirmwareInit, InPartition, OtaTyped, OtaPlaces
    <3>2. recv_size'[u] = 0 /\ UNCHANGED sizes
      BY <1>3, <1>5, <2>1 DEF FirmwareInit, Progress, OtaTyped, OtaPlaces
    <3>3. Sole' /\ ImagesWhole'
      BY <1>3, <1>5, <3>1 DEF FirmwareInit, Sole, InPartition, ImagesWhole
    <3>4. Progress'
      BY <1>3, <1>5, <2>1, <3>1, <3>2, WholeIsPrefix
         DEF FirmwareInit, InPartition, Progress, OtaTyped, OtaPlaces
    <3> QED
      BY <3>3, <3>4
  <2>2. CASE ota'[u] # "read"
    BY <1>3, <1>5, <2>2 DEF FirmwareInit, OtaTyped, OtaPlaces, Sole, InPartition, Progress,
       ImagesWhole
  <2> QED
    BY <2>1, <2>2
<1>6. CASE Download(u) \/ Downloaded(u)
  <2>1. InPartition(u) /\ ota[u] = "read" /\ \A v \in Updates \ {u} : ~InPartition(v)
    BY <1>3, <1>6 DEF Download, Downloaded, InPartition, Sole
  <2>2. Sole' /\ ImagesWhole'
    <3>1. UNCHANGED <<image, notice, firmware, shared>>
      BY <1>6 DEF Download, Downloaded
    <3>2. \A v \in Updates \ {u} : ota'[v] = ota[v]
      BY <1>3, <1>6 DEF Download, Downloaded, OtaTyped
    <3>3. Sole'
      BY <1>3, <2>1, <3>1, <3>2 DEF Sole, InPartition
    <3> QED
      BY <1>3, <3>1, <3>3 DEF ImagesWhole
  <2>3. \A v \in Updates \ {u} : /\ ota'[v] = ota[v] /\ recv_size'[v] = recv_size[v]
                                 /\ total_size'[v] = total_size[v]
    BY <1>3, <1>6 DEF Download, Downloaded, OtaTyped
  <2>4. CASE ota'[u] = "read"
    <3>1. recv_size[u] \in Nat /\ part' = Append(Prefix(recv_size[u]), recv_size[u] + 1)
      BY <1>3, <1>6, <2>1, <2>4 DEF Download, Downloaded, Progress, OtaTyped
    <3>2. part' = Prefix(recv_size'[u]) /\ total_size'[u] = total_size[u]
      BY <1>3, <1>6, <2>4, <3>1, PrefixGrows DEF Download, Downloaded, OtaTyped
    <3> QED
      BY <1>3, <1>6, <2>1, <2>2, <2>3, <2>4, <3>2
         DEF Progress, InPartition, Download, Downloaded
  <2>5. CASE ota'[u] # "read"
    <3>1. ota'[u] = "send" => part' = Whole
      <4>1. CASE Downloaded(u)
        BY <1>3, <2>1, <4>1, WholeIsPrefix DEF Downloaded, Progress, OtaTyped, Huge
      <4>2. CASE Download(u)
        BY <1>3, <2>1, <4>2 DEF Download, OtaTyped
      <4> QED
        BY <1>6, <4>1, <4>2
    <3>2. recv_size'[u] = 0 /\ ota'[u] \in {"send", "EXIT"} /\ image' = image
      BY <1>3, <1>6, <2>5 DEF Download, Downloaded, OtaTyped
    <3> QED
      BY <1>3, <2>1, <2>2, <2>3, <3>1, <3>2 DEF Progress, InPartition
  <2> QED
    BY <2>4, <2>5
<1>7. CASE FirmwareSend(u)
  <2>1. ota[u] = "send" /\ part = Whole
    BY <1>3, <1>7 DEF FirmwareSend, Progress
  <2>2. \A v \in Updates : ota'[v] = IF v = u THEN ota'[u] ELSE ota[v]
    BY <1>3, <1>7 DEF FirmwareSend, OtaTyped
  <2>3. ota'[u] \in {"notify", "EXIT"} /\ (ota'[u] = "notify" => image' = Whole)
    BY <1>3, <1>7, <2>1 DEF FirmwareSend, OtaTyped
  <2>4. image' \in {image, Whole} /\ part' = part /\ UNCHANGED <<sizes, notice, firmware>>
    BY <1>7, <2>1 DEF FirmwareSend
  <2> QED
    BY <1>3, <2>1, <2>2, <2>3, <2>4 DEF Sole, InPartition, Progress, ImagesWhole
<1>8. CASE Notify(u) \/ EXIT(u)
  <2>1. ota'[u] \in {"EXIT", "off"} /\ ota[u] \in {"notify", "EXIT"}
    BY <1>3, <1>8 DEF Notify, EXIT, OtaTyped
  <2>2. \A v \in Updates \ {u} : ota'[v] = ota[v]
    BY <1>3, <1>8 DEF Notify, EXIT, OtaTyped
  <2>3. UNCHANGED <<recv_size, total_size, part, image, firmware>>
    BY <1>8 DEF Notify, EXIT
  <2>4. notice' => image' = Whole
    <3>1. CASE Notify(u)
      BY <1>3, <3>1 DEF Notify, Progress
    <3>2. CASE EXIT(u)
      BY <1>3, <3>2 DEF EXIT, ImagesWhole
    <3> QED
      BY <1>8, <3>1, <3>2
  <2> QED
    BY <1>3, <2>1, <2>2, <2>3, <2>4 DEF Sole, InPartition, Progress, ImagesWhole
<1> QED
  BY <1>4, <1>5, <1>6, <1>7, <1>8, <1>9 DEF ota_task, Transfer

(* A command, a node's restart, a restart of the root, and the rest.       *)
LEMMA OtaInvNext == OtaInv /\ [Next]_vars => OtaInv'
<1> SUFFICES ASSUME OtaInv, [Next]_vars PROVE OtaInv'
  OBVIOUS
<1> USE OtaAssumption
<1>1. CASE UNCHANGED otaVars
  BY <1>1 DEF OtaInv, OtaTyped, Sole, InPartition, Progress, ImagesWhole, otaVars
<1>2. CASE StartUpdate
  <2>1. PICK u \in Updates : UPDATE_FW_VIA_BLE(u)
    BY <1>2 DEF StartUpdate
  <2> QED
    BY <2>1 DEF UPDATE_FW_VIA_BLE, To, sizes, nodes, OtaInv, OtaTyped, OtaPlaces, Sole,
       InPartition, Progress, ImagesWhole
<1>3. ASSUME NEW u \in Updates, OtaStep(u) PROVE OtaInv'
  BY <1>3, OtaTaskKeeps DEF OtaStep
<1>4. CASE NodeRestarts
  BY <1>4 DEF NodeRestarts, node_read_task, sizes, OtaInv, OtaTyped, Sole, InPartition,
     Progress, ImagesWhole
<1>5. CASE Panic \/ Restart
  <2>1. OtaRestart
    BY <1>5 DEF Panic, Restart, Restarted
  <2>2. OtaTyped'
    BY <2>1, Sizes DEF OtaRestart, OtaInv, OtaTyped, OtaPlaces
  <2>3. Sole' /\ Progress'
    BY <2>1 DEF OtaRestart, Sole, InPartition, Progress
  <2>4. ~shared' => ImagesWhole'
    BY <2>1 DEF OtaRestart, OtaInv, ImagesWhole
  <2> QED
    BY <2>2, <2>3, <2>4 DEF OtaInv
<1>6. CASE Boot
  BY <1>6, <1>1
     DEF Boot, nvs_flash_init, ReadLed, SaveDefaults, Credential, CredentialsRead, InitLed, Create
<1>7. CASE ModemAnswers \/ Callback \/ LoraInit
  BY <1>7, <1>1 DEF ModemAnswers, Callback, Fade, SetStatus, SaveLed, SaveString, LoraInit
<1>8. CASE root_read_task \/ Brideg_LORAWAN_TX \/ streetlight_working \/ CloseNull
  BY <1>8, <1>1 DEF root_read_task, Brideg_LORAWAN_TX, streetlight_working, CloseNull
<1>9. CASE \E s \in UserSettings : LightCommand(s) \/ WriteLorawan(s)
  BY <1>9, <1>1 DEF LightCommand, WriteLorawan
<1>10. CASE UNCHANGED vars
  BY <1>10, <1>1 DEF vars
<1> QED
  BY <1>2, <1>3, <1>4, <1>5, <1>6, <1>7, <1>8, <1>9, <1>10 DEF Next

(* Sequences stay sequences of their elements.                             *)
LEMMA SeqAppend ==
    ASSUME NEW S
    PROVE  <<>> \in Seq(S) /\ \A s \in Seq(S), e \in S : Append(s, e) \in Seq(S)
  OBVIOUS

(* The head of a sequence that is not empty.                               *)
LEMMA SeqHead ==
    ASSUME NEW S, NEW s \in Seq(S), 1 \in 1 .. Len(s)
    PROVE  s # <<>> /\ Head(s) = s[1]
  OBVIOUS

(* The partition only ever holds chunks of an image.                       *)
LEMMA PartKept == OtaInv /\ PartTyped /\ [Next]_vars => PartTyped'
<1> SUFFICES ASSUME OtaInv, PartTyped, [Next]_vars PROVE PartTyped'
  OBVIOUS
<1>1. CASE part' = part \/ part' = <<>>
  BY <1>1, SeqAppend DEF PartTyped
<1>2. ASSUME NEW u \in Updates, OtaStep(u) PROVE PartTyped'
  <2>1. CASE Download(u)
    <3>1. recv_size[u] \in 0 .. Chunks
      BY DEF OtaInv, OtaTyped
    <3>2. recv_size[u] < Chunks => recv_size[u] + 1 \in 1 .. Chunks
      BY <3>1, OtaAssumption
    <3>3. part' = part \/ (recv_size[u] < Chunks /\ part' = Append(part, recv_size[u] + 1))
      BY <2>1 DEF Download
    <3> QED
      BY <3>2, <3>3, SeqAppend DEF PartTyped
  <2>2. CASE ~Download(u)
    BY <1>1, <1>2, <2>2 DEF OtaStep, ota_task, Transfer, HttpClientInit, Opened, NotOpened, FetchHeaders,
       FirmwareInit, Downloaded, FirmwareSend, Notify, EXIT
  <2> QED
    BY <2>1, <2>2
<1>3. CASE StartUpdate \/ NodeRestarts \/ Panic \/ Restart
  BY <1>1, <1>3 DEF StartUpdate, UPDATE_FW_VIA_BLE, NodeRestarts, node_read_task, Panic, Restart,
     Restarted, OtaRestart
<1>4. CASE UNCHANGED otaVars
  BY <1>1, <1>4 DEF otaVars
<1>5. CASE Boot \/ ModemAnswers \/ Callback \/ LoraInit \/ UNCHANGED vars
  BY <1>5, <1>4 DEF Boot, nvs_flash_init, ReadLed, SaveDefaults, Credential, CredentialsRead,
     InitLed, Create, ModemAnswers, Callback, Fade, SetStatus, SaveLed, SaveString, LoraInit, vars
<1>6. CASE root_read_task \/ Brideg_LORAWAN_TX \/ streetlight_working \/ CloseNull
  BY <1>6, <1>4 DEF root_read_task, Brideg_LORAWAN_TX, streetlight_working, CloseNull
<1>7. CASE \E s \in UserSettings : LightCommand(s) \/ WriteLorawan(s)
  BY <1>7, <1>4 DEF LightCommand, WriteLorawan
<1> QED
  BY <1>2, <1>3, <1>5, <1>6, <1>7 DEF Next

(* For every size of an image and every number of ota_tasks: unless two of *)
(* them used the partition at once, nodes receive and run only whole       *)
(* images, through failed transfers, unknown sizes and restarts (ota_task, *)
(* node_read_task).                                                        *)
THEOREM WholeImages == Spec => []OnlyWholeImages
<1>1. OtaInv => OnlyWholeImages
  BY DEF OtaInv, ImagesWhole, OnlyWholeImages
<1> QED
  BY <1>1, OtaInvInit, OtaInvNext, PTL DEF Spec

-----------------------------------------------------------------------------
(* What app_main, the callbacks and the timer keep.                        *)

Ops ==
    [op : {"color", "bright", "status", "save", "lora_init"}, set : UserSettings]
    \cup [op : {"save_string"}, set : UserSettings, key : Keys]

MemTyped ==
    /\ pc \in 1 .. 15 /\ key \in 1 .. Len(KeyOrder) + 1
    /\ status_led \in Contents \ {Blank}
    /\ nvs \in [Entries -> Contents] /\ intended \in [Entries -> Contents]
    /\ lamp \in [color : Contents, bright : Contents]
    /\ bt \in Seq(Ops)
    /\ errors \in Nat

(* A command that changes status_led saves it next.                        *)
SavedNext ==
    \A i \in 1 .. Len(bt) : bt[i].op = "status" => i + 1 \in 1 .. Len(bt) /\ bt[i + 1].op = "save"

Saving == bt # <<>> /\ Head(bt).op = "save"

(* The defaults are only stored where nothing was.                         *)
Agree ==
    errors = 0 =>
        /\ nvs = intended
        /\ pc = 3 => nvs[LED] = Blank
        /\ pc > 3 => status_led = nvs[LED] \/ Saving

(* The callback and the timer come after init_bluetooth().                 *)
Quiet == pc <= 6 => bt = <<>>

MemInv == MemTyped /\ SavedNext /\ Agree /\ Quiet

(* Which step of app_main is at which index.                               *)
LEMMA StepIs ==
    ASSUME pc \in 1 .. 15
    PROVE  /\ Step = "nvs_flash_init" => pc = 1
           /\ Step = "read_led" => pc = 2
           /\ Step = "save_led" => pc = 3
           /\ Step = "credentials" => pc = 4
           /\ Step = "init_led" => pc = 7
           /\ Step = "led_color" <=> pc = 8
           /\ Step = "led_bright" <=> pc = 9
           /\ Step = "lora_init" => pc = 12
           /\ Step \in {"mwifi_start", "init_bluetooth", "queue_init", "init_LoraWAN",
                        "Brideg_LORAWAN_TX", "timers"} => pc \in {5, 6, 10, 11, 13, 14}
<1>1. Len(app_main) = 14
  BY DEF app_main
<1>2. pc \in 1 .. 14 \/ pc = 15
  OBVIOUS
<1>3. CASE pc = 15
  BY <1>1, <1>3 DEF Step
<1>4. CASE pc \in 1 .. 14
  <2>1. Step = app_main[pc]
    BY <1>1, <1>4 DEF Step
  <2> QED BY <1>4, <2>1 DEF app_main
<1> QED BY <1>2, <1>3, <1>4

(* What has been started when app_main is at which index.                  *)
LEMMA Positions ==
    /\ Len(app_main) = 14
    /\ Started("save_led") <=> pc > 3
    /\ Started("init_bluetooth") <=> pc > 6
    /\ Started("init_led") <=> pc > 7
    /\ Started("led_bright") <=> pc > 9
    /\ Started("queue_init") <=> pc > 10
    /\ Started("init_LoraWAN") <=> pc > 11
    /\ Started("Brideg_LORAWAN_TX") <=> pc > 13
    /\ Started("timers") <=> pc > 14
<1>1. DOMAIN app_main = 1 .. 14 /\ Len(app_main) = 14
  BY DEF app_main
<1>2. /\ app_main[3] = "save_led" /\ app_main[6] = "init_bluetooth"
      /\ app_main[7] = "init_led" /\ app_main[9] = "led_bright"
      /\ app_main[10] = "queue_init" /\ app_main[11] = "init_LoraWAN"
      /\ app_main[13] = "Brideg_LORAWAN_TX" /\ app_main[14] = "timers"
  BY DEF app_main
<1>3. \A i \in 1 .. 14 : /\ app_main[i] = "save_led" => i = 3
                         /\ app_main[i] = "init_bluetooth" => i = 6
                         /\ app_main[i] = "init_led" => i = 7
                         /\ app_main[i] = "led_bright" => i = 9
                         /\ app_main[i] = "queue_init" => i = 10
                         /\ app_main[i] = "init_LoraWAN" => i = 11
                         /\ app_main[i] = "Brideg_LORAWAN_TX" => i = 13
                         /\ app_main[i] = "timers" => i = 14
  BY DEF app_main
<1>4. /\ (CHOOSE i \in DOMAIN app_main : app_main[i] = "save_led") = 3
      /\ (CHOOSE i \in DOMAIN app_main : app_main[i] = "init_bluetooth") = 6
      /\ (CHOOSE i \in DOMAIN app_main : app_main[i] = "init_led") = 7
      /\ (CHOOSE i \in DOMAIN app_main : app_main[i] = "led_bright") = 9
      /\ (CHOOSE i \in DOMAIN app_main : app_main[i] = "queue_init") = 10
      /\ (CHOOSE i \in DOMAIN app_main : app_main[i] = "init_LoraWAN") = 11
      /\ (CHOOSE i \in DOMAIN app_main : app_main[i] = "Brideg_LORAWAN_TX") = 13
      /\ (CHOOSE i \in DOMAIN app_main : app_main[i] = "timers") = 14
  BY <1>1, <1>2, <1>3
<1> QED
  BY <1>1, <1>4 DEF Started

(* What an access of the callback carries.                                 *)
LEMMA OpFields ==
    ASSUME NEW o \in Ops
    PROVE  o.set \in UserSettings /\ (o.op = "save_string" => o.key \in Keys)
  BY DEF Ops

(* Settings are contents, and led_state is not one of the keys.            *)
LEMMA ContentsAre ==
    /\ UserSettings \subseteq Contents \ {Blank}
    /\ Default \in Contents \ {Blank} /\ Zeros \in Contents \ {Blank} /\ Blank \in Contents
    /\ LED \in Entries /\ LED \notin Keys /\ Keys \subseteq Entries
  BY LifecycleAssumption DEF Contents, Blank, Default, Zeros, Entries

(* After power-on nothing was read and nothing is stored.                  *)
LEMMA MemInvInit == Init => MemInv
<1> SUFFICES ASSUME Init PROVE MemInv
  OBVIOUS
<1>1. bt = <<>> /\ pc = 1 /\ key = 1 /\ errors = 0 /\ nvs = intended
  BY DEF Init
<1>2. bt \in Seq(Ops)
  BY <1>1
<1>3. status_led = Zeros /\ nvs = [e \in Entries |-> Blank]
      /\ lamp = [color |-> Blank, bright |-> Blank]
  BY DEF Init, Dark
<1>4. MemTyped
  <2>1. Len(KeyOrder) \in Nat
    BY LifecycleAssumption
  <2> QED
    BY <1>1, <1>2, <1>3, <2>1, ContentsAre DEF MemTyped
<1> QED
  BY <1>1, <1>4 DEF MemInv, SavedNext, Agree, Quiet

(* The steps of app_main.                                                  *)
LEMMA BootKeeps == MemInv /\ (Boot \/ ModemAnswers) => MemInv'
<1> SUFFICES ASSUME MemInv, Boot \/ ModemAnswers PROVE MemInv'
  OBVIOUS
<1>1. MemTyped /\ SavedNext /\ Agree /\ Quiet
  BY DEF MemInv
<1>2. bt' = bt /\ SavedNext' /\ (Saving <=> Saving')
  BY <1>1 DEF Boot, nvs_flash_init, ReadLed, SaveDefaults, Credential, CredentialsRead, InitLed,
              Create, ModemAnswers, SavedNext, Saving
<1> USE DEF Quiet
<1>3. CASE nvs_flash_init
  <2>1. pc = 1 /\ errors' \in Nat /\ (errors' = 0 => errors = 0 /\ nvs' = nvs)
    BY <1>1, <1>3, StepIs DEF nvs_flash_init, At, Error, MemTyped
  <2>2. pc' \in {1, 2} /\ key' = key
    BY <1>3, <2>1 DEF nvs_flash_init, Proceed
  <2>3. nvs' \in [Entries -> Contents] /\ UNCHANGED <<status_led, lamp, intended>>
    BY <1>1, <1>3, ContentsAre DEF nvs_flash_init, MemTyped, ghosts
  <2> QED
    BY <1>1, <1>2, <2>1, <2>2, <2>3 DEF MemInv, MemTyped, Agree
<1>4. CASE ReadLed
  <2>1. pc = 2 /\ pc' \in {3, 4} /\ UNCHANGED <<key, nvs, intended, lamp>>
    BY <1>1, <1>4, StepIs DEF ReadLed, At, Proceed, MemTyped, ghosts
  <2>2. status_led' \in Contents \ {Blank}
    BY <1>1, <1>4, ContentsAre DEF ReadLed, MemTyped
  <2>3. errors' \in Nat /\ (errors' = 0 => errors = 0)
    BY <1>1, <1>4 DEF ReadLed, Error, MemTyped
  <2>4. errors' = 0 => (pc' = 3 => nvs[LED] = Blank) /\ (pc' > 3 => status_led' = nvs[LED])
    BY <1>1, <1>4, <2>1 DEF ReadLed, Proceed, Error, MemTyped
  <2> QED
    BY <1>1, <1>2, <2>1, <2>2, <2>3, <2>4 DEF MemInv, MemTyped, Agree
<1>5. CASE SaveDefaults
  <2>1. pc = 3 /\ pc' = 4 /\ UNCHANGED <<key, status_led, lamp>>
    BY <1>1, <1>5, StepIs DEF SaveDefaults, At, Proceed, MemTyped
  <2>2. \/ nvs' = [nvs EXCEPT ![LED] = status_led] /\ errors' = errors
        \/ nvs' = nvs /\ errors' = errors + 1
    BY <1>5 DEF SaveDefaults, Store, Error
  <2>3. intended' = [intended EXCEPT ![LED] = IF nvs[LED] = Blank THEN status_led ELSE @]
    BY <1>5 DEF SaveDefaults
  <2>4. /\ nvs' \in [Entries -> Contents] /\ intended' \in [Entries -> Contents]
        /\ errors' \in Nat
    BY <1>1, <2>2, <2>3, ContentsAre DEF MemTyped
  <2>5. errors' = 0 => nvs' = intended' /\ status_led' = nvs'[LED]
    BY <1>1, <2>1, <2>2, <2>3, ContentsAre DEF MemTyped, Agree
  <2> QED
    BY <1>1, <1>2, <2>1, <2>4, <2>5 DEF MemInv, MemTyped, Agree
<1>6. CASE Credential
  <2> DEFINE k == KeyOrder[key]
  <2>1. /\ pc = 4 /\ pc' = 4 /\ UNCHANGED <<status_led, lamp>>
        /\ key' = key + 1 /\ key <= Len(KeyOrder)
    BY <1>1, <1>6, StepIs DEF Credential, At, MemTyped
  <2>2. key' \in 1 .. Len(KeyOrder) + 1 /\ k \in Keys
    BY <1>1, <2>1, LifecycleAssumption DEF MemTyped, Keys, Range
  <2>3. \/ nvs[k] # Blank /\ nvs' = nvs /\ errors' = errors
        \/ nvs[k] = Blank /\ nvs' = [nvs EXCEPT ![k] = Default] /\ errors' = errors
        \/ errors' = errors + 1 /\ nvs' \in {nvs, [nvs EXCEPT ![k] = Default]}
    BY <1>6 DEF Credential, Error
  <2>4. intended' = [intended EXCEPT ![k] = IF nvs[k] = Blank THEN Default ELSE @]
    BY <1>6 DEF Credential
  <2> HIDE DEF k
  <2>5. k \in Entries /\ k # LED
    BY <2>2, ContentsAre
  <2>6. /\ nvs' \in [Entries -> Contents] /\ intended' \in [Entries -> Contents]
        /\ errors' \in Nat /\ (errors' = 0 => errors = 0)
    BY <1>1, <2>3, <2>4, <2>5, ContentsAre DEF MemTyped
  <2>7. errors' = 0 => nvs' = intended' /\ nvs'[LED] = nvs[LED]
    BY <1>1, <2>3, <2>4, <2>5, ContentsAre DEF MemTyped, Agree
  <2> QED
    BY <1>1, <1>2, <2>1, <2>2, <2>6, <2>7 DEF MemInv, MemTyped, Agree
<1>7. CASE CredentialsRead \/ Create \/ ModemAnswers
  <2>1. pc \in {4, 5, 6, 10, 11, 12, 13, 14} /\ pc' = pc + 1
    BY <1>1, <1>7, StepIs DEF CredentialsRead, Create, ModemAnswers, At, Proceed, MemTyped
  <2>2. UNCHANGED <<key, status_led, nvs, intended, errors, lamp>>
    BY <1>7 DEF CredentialsRead, Create, ModemAnswers, counts, ghosts
  <2> QED
    BY <1>1, <1>2, <2>1, <2>2 DEF MemInv, MemTyped, Agree
<1>8. CASE InitLed
  <2>1. pc \in {7, 8, 9} /\ pc' = pc + 1
    BY <1>1, <1>8, StepIs DEF InitLed, Proceed, MemTyped
  <2>2. lamp' \in [color : Contents, bright : Contents]
    BY <1>1, <1>8 DEF InitLed, MemTyped
  <2>3. UNCHANGED <<key, status_led, nvs, intended, errors>>
    BY <1>8 DEF InitLed, counts
  <2> QED
    BY <1>1, <1>2, <2>1, <2>2, <2>3 DEF MemInv, MemTyped, Agree
<1> QED
  BY <1>3, <1>4, <1>5, <1>6, <1>7, <1>8 DEF Boot

(* Making an access of the callback: the next one comes to the front.      *)
LEMMA NextOp ==
    ASSUME MemTyped, SavedNext, bt # <<>>, bt' = Tail(bt)
    PROVE  /\ Head(bt) \in Ops /\ bt' \in Seq(Ops) /\ SavedNext'
           /\ Head(bt).op = "status" => Saving'
<1>1. /\ bt \in Seq(Ops) /\ Len(bt) \in Nat /\ Len(bt) # 0
      /\ Head(bt) = bt[1] /\ bt' \in Seq(Ops) /\ Len(bt') = Len(bt) - 1
  BY DEF MemTyped
<1>2. bt[1] \in Ops
  BY <1>1
<1>3. \A i \in 1 .. Len(bt') : bt'[i] = bt[i + 1]
  BY <1>1
<1>4. SavedNext'
  <2> SUFFICES ASSUME NEW i \in 1 .. Len(bt'), bt'[i].op = "status"
               PROVE  i + 1 \in 1 .. Len(bt') /\ bt'[i + 1].op = "save"
    BY DEF SavedNext
  <2>1. i + 1 \in 1 .. Len(bt) /\ bt[i + 1].op = "status"
    BY <1>1, <1>3
  <2>2. i + 2 \in 1 .. Len(bt) /\ bt[i + 2].op = "save"
    BY <2>1 DEF SavedNext
  <2> QED
    BY <1>1, <1>3, <2>2
<1>5. ASSUME Head(bt).op = "status" PROVE Saving'
  <2>1. 2 \in 1 .. Len(bt) /\ bt[2].op = "save"
    BY <1>1, <1>5 DEF SavedNext
  <2>2. 1 \in 1 .. Len(bt') /\ bt'[1].op = "save"
    BY <1>1, <1>3, <2>1
  <2>3. bt' # <<>> /\ Head(bt') = bt'[1]
    BY <1>1, <2>2, SeqHead
  <2> QED
    BY <2>2, <2>3 DEF Saving
<1> QED
  BY <1>1, <1>2, <1>4, <1>5

(* An access of the Bluetooth callback keeps memory and NVS in agreement.  *)
LEMMA CallbackKeeps == MemInv /\ (Callback \/ LoraInit) => MemInv'
<1> SUFFICES ASSUME MemInv, Callback \/ LoraInit PROVE MemInv'
  OBVIOUS
<1>1. MemTyped /\ SavedNext /\ Agree /\ Quiet
  BY DEF MemInv
<1>2. bt # <<>> /\ bt' = Tail(bt) /\ UNCHANGED <<pc, key>>
  BY DEF Callback, Fade, SetStatus, SaveLed, SaveString, LoraInit, Doing, BtDone
<1>3. /\ Head(bt) \in Ops /\ bt' \in Seq(Ops) /\ SavedNext'
      /\ Head(bt).op = "status" => Saving'
  BY <1>1, <1>2, NextOp
<1>10. pc' > 6 /\ pc' # 3 /\ Quiet'
  BY <1>1, <1>2 DEF MemTyped, Quiet
<1>4. Head(bt).set \in UserSettings /\ Head(bt).set \in Contents \ {Blank}
  BY <1>3, OpFields, ContentsAre
<1>5. CASE Fade
  <2>1. lamp' \in [color : Contents, bright : Contents]
    BY <1>1, <1>4, <1>5 DEF Fade, Doing, MemTyped
  <2>2. UNCHANGED <<status_led, nvs, intended, errors>> /\ ~Saving
    BY <1>5 DEF Fade, Doing, Saving, counts, ghosts
  <2> QED
    BY <1>1, <1>2, <1>3, <1>10, <2>1, <2>2 DEF MemInv, MemTyped, Agree
<1>6. CASE SetStatus
  <2>1. Saving' /\ status_led' = Head(bt).set /\ UNCHANGED <<nvs, intended, errors, lamp>>
    BY <1>3, <1>6 DEF SetStatus, Doing, counts, ghosts
  <2> QED
    BY <1>1, <1>2, <1>3, <1>4, <1>10, <2>1 DEF MemInv, MemTyped, Agree
<1>7. CASE SaveLed
  <2>1. UNCHANGED <<status_led, lamp>> /\ intended' = [intended EXCEPT ![LED] = status_led]
    BY <1>7 DEF SaveLed
  <2>2. \/ nvs' = [nvs EXCEPT ![LED] = status_led] /\ errors' = errors
        \/ nvs' = nvs /\ errors' = errors + 1
    BY <1>7 DEF SaveLed, Store, Error
  <2> QED
    BY <1>1, <1>2, <1>3, <1>10, <2>1, <2>2, ContentsAre DEF MemInv, MemTyped, Agree
<1>8. CASE SaveString
  <2>1. Head(bt).key \in Keys /\ ~Saving
    BY <1>3, <1>8, OpFields DEF SaveString, Doing, Saving
  <2>2. UNCHANGED <<status_led, lamp>> /\ intended' = [intended EXCEPT ![Head(bt).key] = Head(bt).set]
    BY <1>8 DEF SaveString
  <2>3. \/ nvs' = [nvs EXCEPT ![Head(bt).key] = Head(bt).set] /\ errors' = errors
        \/ nvs' = nvs /\ errors' = errors + 1
    BY <1>8 DEF SaveString, Store, Error
  <2> QED
    BY <1>1, <1>2, <1>3, <1>4, <1>10, <2>1, <2>2, <2>3, ContentsAre DEF MemInv, MemTyped, Agree
<1>9. CASE LoraInit
  <2>1. UNCHANGED <<status_led, nvs, intended, errors, lamp>> /\ ~Saving
    BY <1>9 DEF LoraInit, Doing, Saving, counts, ghosts
  <2> QED
    BY <1>1, <1>2, <1>3, <1>10, <2>1 DEF MemInv, MemTyped, Agree
<1> QED
  BY <1>5, <1>6, <1>7, <1>8, <1>9 DEF Callback

(* Commands of the user.                                                   *)
LEMMA CommandsKeep ==
    ASSUME MemInv, NEW s \in UserSettings, LightCommand(s) \/ WriteLorawan(s)
    PROVE  MemInv'
<1>1. MemTyped /\ Agree /\ ~Saving
  BY DEF MemInv, Saving, LightCommand, WriteLorawan
<1>2. UNCHANGED <<pc, key, status_led, lamp, nvs, intended, errors>>
  BY DEF LightCommand, WriteLorawan, ghosts
<1>4. pc' > 6 /\ pc' # 3 /\ Quiet'
  <2>1. pc > 6
    BY Positions, Zenon DEF LightCommand, WriteLorawan
  <2> QED
    BY <1>1, <1>2, <2>1 DEF MemTyped, Quiet
<1>3. bt' \in Seq(Ops) /\ SavedNext'
  <2>1. CASE LightCommand(s)
    <3>1. bt' = <<Op("color", s), Op("bright", s), Op("status", s), Op("save", s)>>
      BY <2>1 DEF LightCommand
    <3>2. /\ Op("color", s) \in Ops /\ Op("bright", s) \in Ops
          /\ Op("status", s) \in Ops /\ Op("save", s) \in Ops
      BY DEF Op, Ops
    <3>3. bt' \in Seq(Ops) /\ Len(bt') = 4
      BY <3>1, <3>2
    <3>4. /\ bt'[1].op = "color" /\ bt'[2].op = "bright" /\ bt'[3].op = "status"
          /\ bt'[4].op = "save"
      BY <3>1 DEF Op
    <3> QED
      BY <3>3, <3>4 DEF SavedNext
  <2>2. CASE WriteLorawan(s)
    <3> DEFINE saves == [i \in 1 .. Len(KeyOrder) |->
                            [op |-> "save_string", set |-> s, key |-> KeyOrder[i]]]
    <3>1. bt' = Append(saves, Op("lora_init", s))
      BY <2>2 DEF WriteLorawan
    <3>2. Len(KeyOrder) \in Nat /\ \A i \in 1 .. Len(KeyOrder) : KeyOrder[i] \in Keys
      BY LifecycleAssumption DEF Keys, Range
    <3>3. \A i \in 1 .. Len(KeyOrder) : saves[i] \in Ops /\ saves[i].op = "save_string"
      BY <3>2 DEF Ops
    <3>4. saves \in Seq(Ops) /\ Len(saves) = Len(KeyOrder)
      BY <3>2, <3>3
    <3>5. Op("lora_init", s) \in Ops /\ Op("lora_init", s).op = "lora_init"
      BY DEF Op, Ops
    <3> HIDE DEF saves
    <3>6. bt' \in Seq(Ops) /\ Len(bt') = Len(KeyOrder) + 1
      BY <3>1, <3>4, <3>5
    <3>7. \A i \in 1 .. Len(bt') : bt'[i].op \in {"save_string", "lora_init"}
      BY <3>1, <3>2, <3>3, <3>4, <3>5, <3>6 DEF saves
    <3> QED
      BY <3>6, <3>7 DEF SavedNext
  <2> QED
    BY <2>1, <2>2
<1> QED
  BY <1>1, <1>2, <1>3, <1>4 DEF MemInv, MemTyped, Agree

(* Every step keeps memory and NVS in agreement.                           *)
LEMMA MemInvNext == MemInv /\ [Next]_vars => MemInv'
<1> SUFFICES ASSUME MemInv, [Next]_vars PROVE MemInv'
  OBVIOUS
<1>1. CASE UNCHANGED <<pc, key, status_led, lamp, bt, nvs, intended, errors>>
  BY <1>1 DEF MemInv, MemTyped, SavedNext, Agree, Saving, Quiet
<1>2. CASE Panic \/ Restart
  <2>1. /\ pc' = 1 /\ key' = 1 /\ status_led' = Zeros /\ lamp' = [color |-> Blank, bright |-> Blank]
        /\ bt' = <<>> /\ UNCHANGED <<nvs, errors, intended>>
    BY <1>2 DEF Panic, Restart, Restarted, Dark
  <2>2. bt' \in Seq(Ops) /\ SavedNext'
    BY <2>1, SeqAppend DEF SavedNext
  <2>3. key' \in 1 .. Len(KeyOrder) + 1
    BY <2>1, LifecycleAssumption
  <2> QED
    BY <2>1, <2>2, <2>3, ContentsAre DEF MemInv, MemTyped, Agree, Quiet
<1>3. CASE streetlight_working
  <2>1. UNCHANGED <<pc, key, status_led, lamp, bt>> /\ intended' = [intended EXCEPT ![LED] = status_led]
    BY <1>3 DEF streetlight_working, ram
  <2>2. \/ nvs' = [nvs EXCEPT ![LED] = status_led] /\ errors' = errors
        \/ nvs' = nvs /\ errors' = errors + 1
    BY <1>3 DEF streetlight_working, Store, Error
  <2>3. SavedNext' /\ (Saving <=> Saving')
    BY <2>1 DEF MemInv, SavedNext, Saving
  <2>4. pc > 14
    BY <1>3, Positions, Zenon DEF streetlight_working
  <2> QED
    BY <2>1, <2>2, <2>3, <2>4, ContentsAre DEF MemInv, MemTyped, Agree, Quiet
<1>4. CASE root_read_task \/ Brideg_LORAWAN_TX \/ CloseNull \/ UNCHANGED vars
  BY <1>1, <1>4 DEF root_read_task, Brideg_LORAWAN_TX, CloseNull, vars, ram, counts, ghosts
<1>5. CASE StartUpdate \/ NodeRestarts \/ \E u \in Updates : OtaStep(u)
  BY <1>1, <1>5 DEF StartUpdate, NodeRestarts, OtaStep, others, ram, ghosts
<1> QED
  BY <1>2, <1>3, <1>4, <1>5, BootKeeps, CallbackKeeps, CommandsKeep DEF Next

-----------------------------------------------------------------------------
(* In every behaviour, whatever fails, settings are ones that were stored  *)
(* or are the defaults, and a missing entry is never taken for settings    *)
(* (app_main, esp_spp_cb, ota_task).                                       *)
THEOREM TypeCorrect == Spec => []TypeOK
<1>1. OtaInv /\ PartTyped /\ MemInv => TypeOK
  BY Positions DEF OtaInv, OtaTyped, OtaPlaces, PartTyped, MemInv, MemTyped, TypeOK
<1>2. Init => PartTyped
  BY SeqAppend DEF Init, OtaInit, PartTyped
<1> QED
  BY <1>1, <1>2, OtaInvInit, OtaInvNext, PartKept, MemInvInit, MemInvNext, PTL DEF Spec

(* For every set of keys and settings and any number of restarts, at any   *)
(* step of start-up or of a command: while the flash works, each entry of  *)
(* NVS holds what was stored last, and the device runs with the stored     *)
(* settings (app_main, read_led, save_led, save_string).                   *)
THEOREM SettingsKept == Spec => []NvsKept
<1>1. MemInv => NvsKept
  BY Positions DEF MemInv, Agree, Saving, NvsKept
<1> QED
  BY <1>1, MemInvInit, MemInvNext, PTL DEF Spec

-----------------------------------------------------------------------------
(* The order of start-up.                                                  *)

FaultInv ==
    /\ fault \in {"", "nvs", "client", "report", "lorawan"}
    /\ fault \in {"report", "lorawan"} => pc <= 11

(* Every step keeps faults to those that come from outside.                *)
LEMMA FaultInvNext == MemInv /\ FaultInv /\ [Next]_vars => FaultInv'
<1> SUFFICES ASSUME pc \in 1 .. 15, FaultInv, [Next]_vars PROVE FaultInv'
  BY DEF MemInv, MemTyped
<1>1. CASE fault' \in {"", "nvs", "client"}
  BY <1>1 DEF FaultInv
<1>2. CASE fault' = fault /\ (pc' = pc \/ fault = "")
  BY <1>2 DEF FaultInv
<1>3. CASE Boot \/ ModemAnswers
  BY <1>1, <1>2, <1>3 DEF Boot, nvs_flash_init, ReadLed, SaveDefaults, Credential,
     CredentialsRead, InitLed, Create, ModemAnswers, At, Running
<1>11. (~(pc > 10) \/ ~(pc > 11)) => pc <= 11
  OBVIOUS
<1>12. (pc > 13 => pc > 10 /\ pc > 11) /\ (pc > 14 => pc > 10)
  OBVIOUS
<1>4. CASE LoraInit
  <2>1. pc' = pc /\ fault' = IF Started("init_LoraWAN") THEN "" ELSE "lorawan"
    BY <1>4 DEF LoraInit, Uses
  <2>2. CASE Started("init_LoraWAN")
    BY <1>1, <2>1, <2>2
  <2>3. CASE ~Started("init_LoraWAN")
    <3>1. pc <= 11
      BY <1>11, <2>3, Positions, Zenon
    <3> QED
      BY <2>1, <2>3, <3>1 DEF FaultInv
  <2> QED
    BY <2>2, <2>3
<1>5. CASE Fade \/ SetStatus \/ SaveLed \/ SaveString
  BY <1>2, <1>5 DEF Fade, SetStatus, SaveLed, SaveString
<1>6. CASE root_read_task
  <2>1. pc' = pc /\ fault' = IF Started("queue_init") THEN "" ELSE "report"
    BY <1>6 DEF root_read_task, Uses, ram
  <2>2. CASE Started("queue_init")
    BY <1>1, <2>1, <2>2
  <2>3. CASE ~Started("queue_init")
    <3>1. pc <= 11
      BY <1>11, <2>3, Positions, Zenon
    <3> QED
      BY <2>1, <2>3, <3>1 DEF FaultInv
  <2> QED
    BY <2>2, <2>3
<1>7. CASE Brideg_LORAWAN_TX \/ streetlight_working
  <2>1. CASE Brideg_LORAWAN_TX
    <3>1. /\ Started("Brideg_LORAWAN_TX")
          /\ fault' = IF Started("queue_init") /\ Started("init_LoraWAN") THEN "" ELSE "transmit"
      BY <2>1 DEF Brideg_LORAWAN_TX, Uses
    <3>2. Started("queue_init") /\ Started("init_LoraWAN")
      BY <1>12, <3>1, Positions, Zenon
    <3> QED
      BY <1>1, <3>1, <3>2
  <2>2. CASE streetlight_working
    <3>1. Started("timers") /\ fault' = IF Started("queue_init") THEN "" ELSE "timer"
      BY <2>2 DEF streetlight_working, Uses
    <3>2. Started("queue_init")
      BY <1>12, <3>1, Positions, Zenon
    <3> QED
      BY <1>1, <3>1, <3>2
  <2> QED
    BY <1>7, <2>1, <2>2
<1>8. CASE CloseNull \/ Panic \/ Restart
  BY <1>1, <1>8 DEF CloseNull, Panic, Restart, Restarted
<1>9. CASE StartUpdate \/ NodeRestarts \/ \E u \in Updates : OtaStep(u)
  BY <1>2, <1>9 DEF StartUpdate, NodeRestarts, OtaStep, others, ram
<1>10. CASE (\E s \in UserSettings : LightCommand(s) \/ WriteLorawan(s)) \/ UNCHANGED vars
  BY <1>2, <1>10 DEF LightCommand, WriteLorawan, vars, ram
<1> QED
  BY <1>3, <1>4, <1>5, <1>6, <1>7, <1>8, <1>9, <1>10 DEF Next, Callback

(* The order of app_main protects every task the firmware starts itself:   *)
(* only mesh reports and new credentials can come too early, and only      *)
(* before init_LoraWAN() (app_main, root_read_task, esp_spp_cb).           *)
THEOREM StartOrderSafe == Spec => []FaultsOnlyFromOutside
<1>1. Init => FaultInv
  BY DEF Init, FaultInv
<1>2. ASSUME MemInv, FaultInv PROVE FaultsOnlyFromOutside
  <2>1. pc <= 11 => ~(pc > 11)
    BY <1>2 DEF MemInv, MemTyped
  <2>2. pc <= 11 => ~Started("init_LoraWAN")
    BY <2>1, Positions, Zenon
  <2> QED
    BY <1>2, <2>2 DEF FaultInv, FaultsOnlyFromOutside
<1> QED
  BY <1>1, <1>2, MemInvInit, MemInvNext, FaultInvNext, PTL DEF Spec

-----------------------------------------------------------------------------
(* What the lamp shows.                                                    *)

Full(s) == [color |-> s, bright |-> s]

(* What is left of a light command after none, one, two or three of its    *)
(* accesses.                                                               *)
ToColor(s) == <<Op("color", s), Op("bright", s), Op("status", s), Op("save", s)>>
ToBright(s) == <<Op("bright", s), Op("status", s), Op("save", s)>>
ToStatus(s) == <<Op("status", s), Op("save", s)>>
ToSave(s) == <<Op("save", s)>>

(* No access to the lamp or to status_led is left.                         *)
Plain(b) == \A i \in 1 .. Len(b) : b[i].op \in {"save_string", "lora_init"}

Shape ==
    \/ Plain(bt)
    \/ \E s \in UserSettings : bt \in {ToColor(s), ToBright(s), ToStatus(s), ToSave(s)}

(* After init_led(): how lamp and status_led differ in a light command.    *)
Shown ==
    /\ Plain(bt) => lamp = Full(status_led)
    /\ \A s \in UserSettings :
          /\ bt = ToColor(s) => lamp = Full(status_led)
          /\ bt = ToBright(s) => lamp.color = s
          /\ bt = ToStatus(s) => lamp = Full(s)
          /\ bt = ToSave(s) => lamp = Full(status_led)

LampInv ==
    /\ Shape
    /\ ~raced => /\ pc \in {8, 9} => Plain(bt)
                 /\ pc = 9 => lamp.color = status_led
                 /\ pc > 9 => Shown

(* The accesses of a light command, one after the other.                   *)
LEMMA LightTails ==
    ASSUME NEW s
    PROVE  /\ Tail(ToColor(s)) = ToBright(s) /\ Head(ToColor(s)) = Op("color", s)
           /\ Tail(ToBright(s)) = ToStatus(s) /\ Head(ToBright(s)) = Op("bright", s)
           /\ Tail(ToStatus(s)) = ToSave(s) /\ Head(ToStatus(s)) = Op("status", s)
           /\ Tail(ToSave(s)) = <<>> /\ Head(ToSave(s)) = Op("save", s)
           /\ <<>> \notin {ToColor(s), ToBright(s), ToStatus(s), ToSave(s)}
<1>1. Tail(ToColor(s)) = ToBright(s) /\ Head(ToColor(s)) = Op("color", s)
  BY DEF ToColor, ToBright
<1>2. Tail(ToBright(s)) = ToStatus(s) /\ Head(ToBright(s)) = Op("bright", s)
  BY DEF ToStatus, ToBright
<1>3. Tail(ToStatus(s)) = ToSave(s) /\ Head(ToStatus(s)) = Op("status", s)
  BY DEF ToStatus, ToSave
<1>4. Tail(ToSave(s)) = <<>> /\ Head(ToSave(s)) = Op("save", s)
  BY DEF ToSave
<1>5. <<>> \notin {ToColor(s), ToBright(s), ToStatus(s), ToSave(s)}
  BY DEF ToColor, ToBright, ToStatus, ToSave
<1> QED BY <1>1, <1>2, <1>3, <1>4, <1>5

(* A sequence of accesses is of one kind only.                             *)
LEMMA KindsApart ==
    /\ Plain(<<>>)
    /\ \A b : Plain(b) /\ b \in Seq(Ops) /\ b # <<>> =>
          Plain(Tail(b)) /\ Head(b).op \in {"save_string", "lora_init"}
    /\ \A s : ~Plain(ToColor(s)) /\ ~Plain(ToBright(s)) /\ ~Plain(ToStatus(s)) /\ ~Plain(ToSave(s))
    /\ \A r, s : /\ ToColor(r) \notin {ToBright(s), ToStatus(s), ToSave(s)}
                 /\ ToBright(r) \notin {ToStatus(s), ToSave(s)}
                 /\ ToStatus(r) # ToSave(s)
                 /\ ToColor(r) = ToColor(s) => r = s
                 /\ ToBright(r) = ToBright(s) => r = s
                 /\ ToStatus(r) = ToStatus(s) => r = s
                 /\ ToSave(r) = ToSave(s) => r = s
<1>1. Plain(<<>>)
  BY DEF Plain
<1>2. ASSUME NEW b, Plain(b), b \in Seq(Ops), b # <<>>
      PROVE  Plain(Tail(b)) /\ Head(b).op \in {"save_string", "lora_init"}
  <2>1. /\ Len(b) \in Nat /\ Len(b) # 0 /\ Head(b) = b[1] /\ Len(Tail(b)) = Len(b) - 1
        /\ \A i \in 1 .. Len(Tail(b)) : Tail(b)[i] = b[i + 1]
    BY <1>2
  <2>2. 1 \in 1 .. Len(b) /\ \A i \in 1 .. Len(Tail(b)) : i + 1 \in 1 .. Len(b)
    BY <2>1
  <2> QED BY <1>2, <2>1, <2>2 DEF Plain
<1>3. ASSUME NEW s
      PROVE  ~Plain(ToColor(s)) /\ ~Plain(ToBright(s)) /\ ~Plain(ToStatus(s)) /\ ~Plain(ToSave(s))
  <2>1. /\ Len(ToColor(s)) = 4 /\ ToColor(s)[1].op = "color"
        /\ Len(ToBright(s)) = 3 /\ ToBright(s)[1].op = "bright"
        /\ Len(ToStatus(s)) = 2 /\ ToStatus(s)[1].op = "status"
        /\ Len(ToSave(s)) = 1 /\ ToSave(s)[1].op = "save"
    BY DEF ToColor, ToBright, ToStatus, ToSave, Op
  <2> QED BY <2>1 DEF Plain
<1>4. ASSUME NEW r, NEW s
      PROVE  /\ ToColor(r) \notin {ToBright(s), ToStatus(s), ToSave(s)}
             /\ ToBright(r) \notin {ToStatus(s), ToSave(s)}
             /\ ToStatus(r) # ToSave(s)
             /\ ToColor(r) = ToColor(s) => r = s
             /\ ToBright(r) = ToBright(s) => r = s
             /\ ToStatus(r) = ToStatus(s) => r = s
             /\ ToSave(r) = ToSave(s) => r = s
  <2>1. \A x : /\ Head(ToColor(x)).op = "color" /\ Head(ToColor(x)).set = x
               /\ Head(ToBright(x)).op = "bright" /\ Head(ToBright(x)).set = x
               /\ Head(ToStatus(x)).op = "status" /\ Head(ToStatus(x)).set = x
               /\ Head(ToSave(x)).op = "save" /\ Head(ToSave(x)).set = x
    BY LightTails DEF Op
  <2>2. /\ ToColor(r) = ToColor(s) => r = s
        /\ ToBright(r) = ToBright(s) => r = s
        /\ ToStatus(r) = ToStatus(s) => r = s
        /\ ToSave(r) = ToSave(s) => r = s
    BY <2>1
  <2>3. /\ ToColor(r) \notin {ToBright(s), ToStatus(s), ToSave(s)}
        /\ ToBright(r) \notin {ToStatus(s), ToSave(s)}
        /\ ToStatus(r) # ToSave(s)
    BY <2>1
  <2> QED BY <2>2, <2>3
<1> QED BY <1>1, <1>2, <1>3, <1>4

(* A step of app_main keeps it.                                            *)
LEMMA LampBoot ==
    ASSUME MemInv, LampInv, Boot \/ ModemAnswers
    PROVE  LampInv'
<1>1. /\ pc \in 1 .. 15 /\ bt' = bt /\ (raced => raced')
      /\ lamp \in [color : Contents, bright : Contents]
  <2>1. pc \in 1 .. 15 /\ lamp \in [color : Contents, bright : Contents]
    BY DEF MemInv, MemTyped
  <2>2. bt' = bt
    BY DEF Boot, nvs_flash_init, ReadLed, SaveDefaults, Credential, CredentialsRead, InitLed,
           Create, ModemAnswers
  <2>3. raced => raced'
    BY Zenon DEF Boot, nvs_flash_init, ReadLed, SaveDefaults, Credential, CredentialsRead,
       InitLed, Create, ModemAnswers, ghosts
  <2> QED BY <2>1, <2>2, <2>3
<1>2. Shape' /\ (Plain(bt') <=> Plain(bt))
  BY <1>1 DEF LampInv, Shape
<1>3. CASE nvs_flash_init \/ ReadLed \/ SaveDefaults \/ Credential \/ CredentialsRead
  <2>1. pc \in 1 .. 4 /\ pc' \in 1 .. 5
    BY <1>1, <1>3, StepIs
       DEF nvs_flash_init, ReadLed, SaveDefaults, Credential, CredentialsRead, At, Proceed
  <2>2. pc' \notin {8, 9} /\ ~(pc' > 9)
    BY <2>1
  <2> QED BY <1>2, <2>2 DEF LampInv
<1>4. CASE InitLed
  <2>1. pc \in {7, 8, 9} /\ pc' = pc + 1
    BY <1>1, <1>4, StepIs DEF InitLed, Proceed
  <2>2. status_led' = status_led /\ (~raced' => ~raced /\ bt = <<>>)
    BY <1>4 DEF InitLed
  <2>3. ~raced' => Plain(bt')
    BY <1>1, <2>2, KindsApart
  <2>4. CASE pc = 7
    <3>1. pc' = 8
      BY <2>1, <2>4
    <3> QED BY <1>2, <2>3, <3>1 DEF LampInv
  <2>5. CASE pc = 8
    <3>1. pc' = 9 /\ lamp' = [lamp EXCEPT !.color = status_led]
      BY <1>1, <1>4, <2>1, <2>5, StepIs DEF InitLed
    <3>2. lamp'.color = status_led'
      BY <1>1, <2>2, <3>1
    <3> QED BY <1>2, <2>3, <3>1, <3>2 DEF LampInv
  <2>6. CASE pc = 9
    <3>1. pc' = 10 /\ lamp' = [lamp EXCEPT !.bright = status_led]
      BY <1>1, <1>4, <2>1, <2>6, StepIs DEF InitLed
    <3>2. ~raced' => lamp.color = status_led
      BY <2>2, <2>6 DEF LampInv
    <3>3. ~raced' => lamp' = Full(status_led')
      BY <1>1, <2>2, <3>1, <3>2 DEF Full
    <3>4. ~raced' => \A s \in UserSettings : bt' \notin {ToColor(s), ToBright(s), ToStatus(s), ToSave(s)}
      BY <1>1, <2>2, LightTails
    <3>5. ~raced' => Shown'
      BY <3>3, <3>4 DEF Shown
    <3> QED BY <1>2, <3>1, <3>5 DEF LampInv
  <2> QED BY <2>1, <2>4, <2>5, <2>6
<1>5. CASE Create \/ ModemAnswers
  <2>1. pc \in {5, 6, 10, 11, 12, 13, 14} /\ pc' = pc + 1
    BY <1>1, <1>5, StepIs DEF Create, ModemAnswers, At, Proceed
  <2>2. UNCHANGED <<status_led, lamp, raced>>
    BY <1>5 DEF Create, ModemAnswers, ghosts
  <2>3. pc' \notin {8, 9} /\ (pc' > 9 => pc > 9)
    BY <2>1
  <2>4. Shown => Shown'
    BY <1>1, <2>2 DEF Shown
  <2> QED BY <1>2, <2>2, <2>3, <2>4 DEF LampInv
<1> QED BY <1>3, <1>4, <1>5 DEF Boot

(* So does an access of the Bluetooth callback.                            *)
LEMMA LampCallback ==
    ASSUME MemInv, LampInv, Callback \/ LoraInit
    PROVE  LampInv'
<1>1. /\ pc \in 1 .. 15 /\ bt \in Seq(Ops) /\ lamp \in [color : Contents, bright : Contents]
      /\ bt # <<>> /\ bt' = Tail(bt) /\ pc' = pc /\ raced' = raced
  BY DEF MemInv, MemTyped, Callback, Fade, SetStatus, SaveLed, SaveString, LoraInit, Doing,
         BtDone, ghosts
<1>2. CASE Plain(bt)
  <2>1. Plain(bt') /\ Head(bt).op \in {"save_string", "lora_init"}
    BY <1>1, <1>2, KindsApart
  <2>2. UNCHANGED <<status_led, lamp>>
    BY <2>1 DEF Callback, Fade, SetStatus, SaveLed, SaveString, LoraInit, Doing
  <2>3. \A s \in UserSettings : bt' \notin {ToColor(s), ToBright(s), ToStatus(s), ToSave(s)}
    BY <2>1, KindsApart
  <2>4. Shown => Shown'
    BY <1>2, <2>2, <2>3 DEF Shown
  <2> QED BY <1>1, <2>1, <2>2, <2>4 DEF LampInv, Shape
<1>3. ASSUME NEW s \in UserSettings, bt \in {ToColor(s), ToBright(s), ToStatus(s), ToSave(s)}
      PROVE  LampInv'
  <2>1. bt' \in {ToBright(s), ToStatus(s), ToSave(s), <<>>} /\ Shape'
    <3>1. bt' \in {ToBright(s), ToStatus(s), ToSave(s), <<>>}
      BY <1>1, <1>3, LightTails
    <3> QED BY <3>1, KindsApart DEF Shape
  <2>2. ~Plain(bt)
    BY <1>3, KindsApart
  <2>3. ASSUME ~raced', pc > 9 PROVE Shown'
    <3>1. Shown /\ Started("init_led")
      <4>1. pc > 7
        BY <1>1, <2>3
      <4> QED BY <1>1, <2>3, <4>1, Positions DEF LampInv
    <3>2. CASE bt = ToColor(s)
      <4>1. bt' = ToBright(s) /\ Head(bt).op = "color" /\ Head(bt).set = s
        BY <1>1, <3>2, LightTails DEF Op
      <4>2. lamp' = [lamp EXCEPT !["color"] = s]
        BY <3>1, <4>1 DEF Callback, Fade, SetStatus, SaveLed, SaveString, LoraInit, Doing
      <4>3. lamp'.color = s
        BY <1>1, <4>2
      <4> QED BY <4>1, <4>3, KindsApart DEF Shown
    <3>3. CASE bt = ToBright(s)
      <4>1. bt' = ToStatus(s) /\ Head(bt).op = "bright" /\ Head(bt).set = s
        BY <1>1, <3>3, LightTails DEF Op
      <4>2. lamp' = [lamp EXCEPT !["bright"] = s]
        BY <3>1, <4>1 DEF Callback, Fade, SetStatus, SaveLed, SaveString, LoraInit, Doing
      <4>3. lamp.color = s
        BY <3>1, <3>3 DEF Shown
      <4>4. lamp' = Full(s)
        BY <1>1, <4>2, <4>3 DEF Full
      <4> QED BY <4>1, <4>4, KindsApart DEF Shown
    <3>4. CASE bt = ToStatus(s)
      <4>1. bt' = ToSave(s) /\ Head(bt).op = "status" /\ Head(bt).set = s
        BY <1>1, <3>4, LightTails DEF Op
      <4>2. lamp' = lamp /\ status_led' = s
        BY <4>1 DEF Callback, Fade, SetStatus, SaveLed, SaveString, LoraInit, Doing
      <4>3. lamp' = Full(status_led')
        BY <3>1, <3>4, <4>2 DEF Shown
      <4> QED BY <4>1, <4>3, KindsApart DEF Shown
    <3>5. CASE bt = ToSave(s)
      <4>1. bt' = <<>> /\ Head(bt).op = "save"
        BY <1>1, <3>5, LightTails DEF Op
      <4>2. lamp' = lamp /\ status_led' = status_led
        BY <4>1 DEF Callback, Fade, SetStatus, SaveLed, SaveString, LoraInit, Doing
      <4>3. lamp' = Full(status_led')
        BY <3>1, <3>5, <4>2 DEF Shown
      <4> QED BY <4>1, <4>3, LightTails DEF Shown
    <3> QED BY <1>3, <3>2, <3>3, <3>4, <3>5
  <2>4. ~raced => pc \notin {8, 9}
    BY <2>2 DEF LampInv
  <2> QED BY <1>1, <2>1, <2>3, <2>4 DEF LampInv
<1> QED BY <1>2, <1>3 DEF LampInv, Shape

(* So does a new Bluetooth command.                                        *)
LEMMA LampCommands ==
    ASSUME MemInv, LampInv, NEW s \in UserSettings, LightCommand(s) \/ WriteLorawan(s)
    PROVE  LampInv'
<1>1. /\ pc \in 1 .. 15 /\ bt = <<>> /\ Plain(bt)
      /\ UNCHANGED <<pc, status_led, lamp>> /\ (raced => raced')
  <2>1. pc \in 1 .. 15
    BY DEF MemInv, MemTyped
  <2>2. bt = <<>> /\ UNCHANGED <<pc, status_led, lamp>>
    BY DEF LightCommand, WriteLorawan
  <2>3. raced => raced'
    BY Zenon DEF LightCommand, WriteLorawan, ghosts
  <2> QED BY <2>1, <2>2, <2>3, KindsApart
<1>2. ~raced' /\ pc > 9 => lamp' = Full(status_led')
  BY <1>1 DEF LampInv, Shown
<1>3. CASE LightCommand(s)
  <2>1. bt' = ToColor(s)
    BY <1>3 DEF LightCommand, ToColor
  <2>2. ~raced' => pc \notin {8, 9}
    BY <1>1, <1>3, StepIs DEF LightCommand
  <2>3. ~raced' /\ pc > 9 => Shown'
    BY <1>2, <2>1, KindsApart DEF Shown
  <2> QED BY <1>1, <2>1, <2>2, <2>3 DEF LampInv, Shape
<1>4. CASE WriteLorawan(s)
  <2> DEFINE saves == [i \in 1 .. Len(KeyOrder) |->
                          [op |-> "save_string", set |-> s, key |-> KeyOrder[i]]]
  <2>1. bt' = Append(saves, Op("lora_init", s)) /\ raced' = raced
    BY <1>4 DEF WriteLorawan, ghosts
  <2>2. Len(KeyOrder) \in Nat /\ \A i \in 1 .. Len(KeyOrder) : KeyOrder[i] \in Keys
    BY LifecycleAssumption DEF Keys, Range
  <2>3. \A i \in 1 .. Len(KeyOrder) : saves[i] \in Ops /\ saves[i].op = "save_string"
    BY <2>2 DEF Ops
  <2>4. saves \in Seq(Ops) /\ Len(saves) = Len(KeyOrder)
    BY <2>2, <2>3
  <2>5. Op("lora_init", s) \in Ops /\ Op("lora_init", s).op = "lora_init"
    BY DEF Op, Ops
  <2>6. Plain(bt')
    <3> HIDE DEF saves
    <3>1. Len(bt') = Len(KeyOrder) + 1
      BY <2>1, <2>4, <2>5
    <3> QED BY <2>1, <2>2, <2>3, <2>4, <2>5, <3>1 DEF Plain
  <2>7. \A r \in UserSettings : bt' \notin {ToColor(r), ToBright(r), ToStatus(r), ToSave(r)}
    BY <2>6, KindsApart
  <2>8. ~raced' /\ pc > 9 => Shown'
    BY <1>2, <2>7 DEF Shown
  <2> QED BY <1>1, <2>1, <2>6, <2>8 DEF LampInv, Shape
<1> QED BY <1>3, <1>4

(* Every step keeps it.                                                    *)
LEMMA LampInvNext == MemInv /\ LampInv /\ [Next]_vars => LampInv'
<1> SUFFICES ASSUME MemInv, LampInv, [Next]_vars PROVE LampInv'
  OBVIOUS
<1>1. CASE UNCHANGED <<pc, status_led, lamp, bt, raced>>
  BY <1>1 DEF LampInv, Shape, Shown
<1>2. CASE Panic \/ Restart
  <2>1. pc' = 1 /\ bt' = <<>>
    BY <1>2 DEF Panic, Restart, Restarted
  <2> QED BY <2>1, KindsApart DEF LampInv, Shape
<1>3. CASE root_read_task \/ Brideg_LORAWAN_TX \/ streetlight_working \/ CloseNull
  BY <1>1, <1>3 DEF root_read_task, Brideg_LORAWAN_TX, streetlight_working, CloseNull, ram, ghosts
<1>4. CASE StartUpdate \/ NodeRestarts \/ \E u \in Updates : OtaStep(u)
  BY <1>1, <1>4 DEF StartUpdate, NodeRestarts, OtaStep, others, ram, ghosts
<1>5. CASE UNCHANGED vars
  BY <1>1, <1>5 DEF vars, ram, ghosts
<1> QED
  BY <1>2, <1>3, <1>4, <1>5, LampBoot, LampCallback, LampCommands DEF Next

(* For every set of settings and keys, through faults and restarts at any  *)
(* step: once init_led() is done, and between two light commands, the      *)
(* channels show the colour and the brightness of status_led, unless a     *)
(* command overlapped the second-long fades of init_led() (app_main,       *)
(* esp_spp_cb, Set_Color, Set_Brightness).                                 *)
THEOREM LampFollowsStatus == Spec => []LampShowsStatus
<1>1. Init => LampInv
  <2> SUFFICES ASSUME Init PROVE LampInv
    OBVIOUS
  <2>1. pc = 1 /\ bt = <<>>
    BY DEF Init
  <2> QED BY <2>1, KindsApart DEF LampInv, Shape
<1>2. ASSUME LampInv PROVE LampShowsStatus
  <2> SUFFICES ASSUME Started("led_bright"), bt = <<>>, ~raced
               PROVE  lamp = [color |-> status_led, bright |-> status_led]
    BY DEF LampShowsStatus
  <2>1. pc > 9
    BY Positions, Zenon
  <2>2. Shown /\ Plain(bt)
    BY <1>2, <2>1, KindsApart DEF LampInv
  <2> QED BY <2>2 DEF Shown, Full
<1> QED
  BY <1>1, <1>2, MemInvInit, MemInvNext, LampInvNext, PTL DEF Spec
=============================================================================
