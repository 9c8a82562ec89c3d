# Smart Lighting root node: a TLA+ verification project

The firmware of the repository runs on the root of a Wi-Fi mesh of street
lights. It controls its own lamp, takes commands from a LoRaWAN server and from
a phone over Bluetooth, passes commands on to the mesh, and sends the mesh
nodes' reports and its own to the server. This directory models the parts of
`main/` and `components/` that carry that logic, model-checks them with TLC and
proves theorems about them with TLAPS.

## Inventory

The components, the state each keeps, and how they meet:

| Part (source) | State | Operations | Meets |
|---|---|---|---|
| Uplink queue (`CM-QUEUE/queue.c`) | ring buffer `front`, `rear`, `size`, `array` | `enqueue`, `dequeue`, `isFull`, `isEmpty`, `print_queue` | filled by the timer, `root_read_task` and the parser task, emptied by `Brideg_LORAWAN_TX`; no lock |
| Modem link (`CM-MURATA/murata_parser.c`) | event bits RECV and SEND, `recv_status`, UART, modem credentials | `sendCMD`, `readCMD`, `lora_init`, parser task | called by `app_main`, the transmitter and the Bluetooth callback; raises `LORAWAN_UPDATE` |
| Uplink reports (`main.c`) | `data_form_node`, `node_id_compare`, `retry_`, `counter_sec` | `root_read_task`, `add_queue_lpp_node`, `add_queue_lpp_root`, `add_queue_infomation` | mesh events, the queue |
| Light control (`main.c`, `Bluetooth.c`) | `status_led`, its NVS copy, the lamp, `recvb_form_ble`, `ble_cmd_to_gr` | `cm_lorawan_event_handler`, `esp_spp_cb`, `streetlight_working` | parser task, Bluetooth task and timer share `status_led` without a lock |
| LED driver (`CM-LED-KAMMANIT`) | two PWM channels | `Set_Color`, `Set_Brightness`, `init_led` | called by all handlers, blocks for the fade time |
| LPP payloads (`CM-LPP-KAMMANIT`, `CM-LPPDEC`, `CM-TOOLS`) | a byte buffer | `CayenneLPP__add...`, `test`, `ParseCMLPP` | reports out, downlinks and node reports in |
| NVS (`CM-NVS`) | blob `led_state`, three credentials | `save_led`, `read_led`, `save_string`, `get_string` | called by handlers and boot |
| GPS receiver (`CM-GPS/nmea_parser.c`) | the item being read, the statements parsed so far, `parent`, `gps_info` | `gps_decode`, `parse_item`, `parse_gga` ... `parse_vtg` | UART in; `gps_info` is read by reports and the GPS answer |
| Firmware update (`main.c`, `ota_task`) | download position, the update partition, the nodes' image | `ota_task`, `node_read_task` | started by Bluetooth, once per command; HTTP client and `mupgrade` are external |
| Boot (`main.c`, `app_main`) | what exists so far | the initialisations, in order | mesh and Bluetooth run from the middle of it on |
| Si7021 (`CM-SI7021`), voltage (`main.c`) | | `si7021_read_temperature`, `si7021_read_humidity`, `adc1_get_raw` | values and error code of the root's report |

What is hard here: seven tasks share plain variables without a lock and preempt
one another by priority; handlers block for seconds in the middle of an update;
the modem may answer late, not at all, or answer somebody else's command;
recoveries are recursive; queues fill up; the device may restart at any point;
payload bytes are handled as C strings. `PROJECT.json` lists these hazards line
by line, with the properties that would catch them going wrong.

## Modules

| Module | Models | Composition |
|---|---|---|
| `BoundedFifo` | what the uplink queue promises: messages leave in order, each accepted one once; a full queue refuses | abstract specification |
| `MsgQueue` | `queue.c` and its consumer, one step per access to the shared structure | implements `BoundedFifo` (`ImplementsFifo`) |
| `MsgQueueProofs` | theorems about `MsgQueue` under preemption, and that it implements `BoundedFifo` without overlap | extends `MsgQueue` |
| `AtLink` | `sendCMD`, `readCMD`, `lora_init`, credentials | composes callers, poller, modem and NVS |
| `AtLinkProofs` | types, the handshake of `AtLink` and its event bits | extends `AtLink` |
| `AtCredentialProofs` | the credentials the modem ends up with | extends `AtLinkProofs` |
| `Uplink` | where queue messages come from | queue calls are single steps; node ids come from `LppCodec`'s decoder |
| `UplinkProofs` | theorems about `Uplink` | extends `Uplink` |
| `LedDriver` | duty-cycle arithmetic | used by `LightControl` |
| `LightControl` | all handlers that touch `status_led`, NVS and the lamp | extends `LedDriver` |
| `LightControlProofs` | theorems for interleaving handlers, the timer's mailbox among them | extends `LightControl` |
| `LightExclusiveProofs` | theorems for handlers that do not overlap | extends `LightControlProofs` |
| `LppCodec` | reports, commands, hex text, decoder | its decoded commands are `LightControl`'s inputs |
| `Si7021` | the sensor's readings, failures and conversions | used by `LppCodec` |
| `LppCodecProofs` | theorems about `LppCodec` and `Si7021` | extends `LppCodec` |
| `Nmea` | the GPS receiver's parser, character by character, on a wire that loses and changes input | |
| `Ota` | `ota_task`, several at once, and the nodes' restart | used by `Lifecycle` |
| `Lifecycle` | `app_main` step by step, with flash errors, faults, restarts and what already runs beside it | extends `Ota`: a restart may hit any step of an update |
| `LifecycleProofs` | theorems about `Lifecycle` and `Ota` | extends `Lifecycle` |
| `MCMsgQueue`, `MCAtLink`, `MCUplink`, `MCLightControl`, `MCLppCodec`, `MCNmea`, `MCLifecycle` | values of the constants for TLC | each extends its module |

### MsgQueue

The firmware is built for one core (`CONFIG_FREERTOS_UNICORE`), so two tasks are
inside `queue.c` at once only when one preempts the other. `Preempts` says who
may; `CanStep` keeps a preempted task from running. `EnqCheck ... EnqSizeStore`
are the accesses of `enqueue()`, in order; `queue->size = queue->size + 1` is a
load and a store, as compiled. `TxCheck ... TxCopyRest` are an iteration of
`Brideg_LORAWAN_TX`: `isEmpty()`, `print_queue()`, `dequeue()`, and the `sprintf()`
that reads the returned slot, in two halves so that a slot reused meanwhile can
be seen (`Torn`). `Raw` is memory nobody wrote. A message is a number in the
order of the calls. `fault` is `dequeue()` returning `INT_MIN` to `sprintf()`.

### AtLink

`todo` is the list of calls a task has still to make; `lora_init()` is such a
list, so a recovery inside `sendCMD()` is the list put in front of the command
to repeat, and recursion costs no extra machinery. `pc` is the place inside
`sendCMD()` or `readCMD()`. `xEventGroupSetBits` readies every waiting task
(`Release`), which then runs even if the bit is cleared again first. The modem
and the parser task are `AnswerOk` and `NoOk`: commands are answered in order,
an OK sets `recv_status` whoever sent the command, a credential command takes
effect when it is answered OK. `Prompt` says whether the answer comes within the
500 ms delay. Commands of `lora_init()` that are neither a reset nor a
credential are one command `cfg` before the credentials and one after them. Two
ghosts follow the handshake: `holder` is the call that found the link free
(`Free`) when it cleared SEND_BIT, until it ends or another sender writes, and
`answered` says whether the modem has answered it.

### Uplink

`root_read_task` in the steps in which it touches the static `data_form_node`
and `node_id_compare`. A packet without a node id is `junk`. One task may be
started per `PARENT_CONNECTED`; an older one may still be blocked in
`mwifi_root_read()`. The two non-duplicate branches of `add_queue_lpp_node()` do
the same and are one action.

### LightControl

A handler is a list of accesses to shared state (`todo`), so that the order in
the code is the order of the list and any two handlers may interleave between
any two accesses. `Downlink` is the case analysis of
`cm_lorawan_event_handler`; `Apply` is its repeated block. `save_led` takes its
argument by value, so it is a copy and a later commit. `Restart` may come at any
point; RAM is lost, NVS is not, and `init_led()` shows what NVS holds. The blink
of `SCAN_SL` is done once instead of five times: the four other rounds set the
same two values. A downlink GPS query without a node id (`main.c:812`) is not an
input here. `WRITE_MESH_NETWORK_PF` writes the digits of a mesh id one by one;
`asked` remembers the id itself. `WRITE_STREET_LIGHT_PF` stores a PWM range and a
generation; the lamp keeps the range it was last set with, and the ghost
`rescaled` says that the two may differ. Mesh ids with more than six digits,
which write in front of the array, and requests outside the C types of the
handlers are excluded by `LightAssumption`. The group command of the phone is left
in `recvb_form_ble` and its flag set afterwards, two accesses (`ToGroup`,
`SetFlag`); the ghosts `stored`, `sent` and `missed` are the numbers of the newest
command, of the newest one multicast, and of one whose flag was set just before
the timer clears it.

### LedDriver

`Set_Color` and `Set_Brightness` with C's truncating division and the
conversion to `uint16_t`. `LightControl` keeps the value after the clamp
(`effective_color`, `effective_brightness`) as the state of the lamp, and
`LampFits` applies the mapping to it.

### LppCodec

A payload is made by a list of `add` calls, each the record's type, the size it
is checked with and the bytes it writes; the two differ for GPS and actuation,
as in the code. The text is two hex digits per byte, `test()` undoes that, and
`CString` is the `strlen()` both callers apply. `ParseCMLPP` is one action per
branch. `Command` is what the handler looks for in the result. The decoder's GPS
branch never sees a whole record in these runs: the altitude sent is 0, so
`strlen()` cuts every position. A lamp (`Lamps`) is what a report is made from:
two answers of the sensor, one for the value and one for the error code, the ADC
reading and the settings. Where C leaves a conversion undefined (NAN, a negative
temperature as an unsigned number) every result in `Undefined` is tried.

### Si7021

A reading is a set of one value, or empty for NAN. Either of the two I2C
transactions may fail. The CRC byte is left out because `si7021_read()` only
prints whether it matches.

### Nmea

A sentence travels as its characters; those that always come in the same order
(a sentence's name, a time, the leading digits of a position) are one step. Each
has its spelling in ASCII (`Spelling`), and `crc` is the code's 8-bit XOR of it,
kept as the set of the bits that are set. `strtol()` works on the spelling as
well. A latitude and a longitude end in two equal digits, each a character of
its own, which the XOR does not see when both are lost. `gps_decode(c)` is one
turn of the code's loop: an item is stored in `parent` as soon as it ends, long
before the checksum is known, and `EndOfStatement` publishes `parent` when every
enabled statement has passed. `item_str` has 16 bytes and no check: `Offset`
says which fields of `parent` a longer text overwrites. `Lose` drops a run of
characters of any length (overflow, flush, full pattern queue), `Change`
replaces one; the ghost `wound` says whether the sentence under way lost or
changed one character that the checksum covers, or more. Copying `parent` to
`gps_info` is one step.

### Ota and Lifecycle

`ota_task` goes from one call of the HTTP client or of `mupgrade` to the next;
each may fail. `total_size` is unsigned, so the error -1 is a size larger than
any image (`Huge`). The image is a sequence of chunk numbers, and the partition
holds what was appended to it. A failed `esp_http_client_open()` on a root is
retried forever, which changes no state; no fairness ends it. Sizes are reset
when the loop is left, because nothing reads them again. `notice` and `firmware`
are about the nodes.

`Lifecycle` has one index into `app_main`, the list of its steps. Reading the
settings, saving the defaults and each credential are steps of their own, so
that a restart may come between any two. `init_LoraWAN()` is two: what it
creates, and `lora_init()`, which repeats its commands until the modem has
answered (`ModemAnswers`, which need not happen). A setting or a credential is a
name. An NVS call fails as an `Error`, with the return value the code gives its
caller. `Uses` is the dereference of a queue or event group that may not exist
yet; it sets `fault`, and a faulted device only restarts (`Panic`). `Restart`
may come at any step and keeps NVS, the partition and the nodes. `intended` is
what each entry should hold if no flash call had failed. `root_read_task`,
`Brideg_LORAWAN_TX` and `streetlight_working` appear here only as users of what
`app_main` creates; `Uplink`, `MsgQueue` and `LightControl` have their details.

## Runs

All bounds are constants named in the modules. Times are for two workers.

| Run | Shows | Instance |
|---|---|---|
| `queue_sequential` | refinement of `BoundedFifo`, `size` in bounds, no `INT_MIN`, no unwritten slot printed, each message settled | 2 slots, 2 producers, 5 messages: the ring wraps twice and is full and empty several times |
| `queue_stranded` | **violation**: a message is lost from `size` | 2 slots, 3 messages |
| `at_live` | calls return, polling goes on, no deadlock, the modem gets the stored credentials | 3 credentials, 2 profiles, 3 attempts, 4 unanswered commands: a recovery inside a recovery; the search stops where two initialisations overlap; 118,998 states |
| `at_late` | late and crossed answers: a call that found the link free has it for itself and ends with its own OK, event bits have owners, the poller's own recovery blocks for good | 2 attempts, 3 losses, 2 commands in flight; 2,124,954 states |
| `uplink_one_reader` | deduplication and the minute report | 2 nodes, 4 packets, 7 ticks, 2 connections |
| `uplink_reconnect` | **violation**: two `root_read_task`s share a buffer and a report is overwritten | 2 connections |
| `light_sequential` | agreement of lamp, status and NVS; duty cycles fit; mesh ids; save before multicast; working time | one handler at a time, 3 commands, 2 minutes, 1 restart at any step; one setting in range, one out of range; mesh ids of 3 and 6 digits; a safe PWM range and one that wraps |
| `light_overlap` | the newest group command is multicast or fell into the one window there is; no handler stays blocked, the flag goes down | all handlers interleaving, 3 commands (a command may overwrite one that waits or is being sent), 1 minute; 88,537 states |
| `lpp_payloads` | round trip; a cut command is obeyed or ignored, never mistaken; reports fit and their node id is found; alarms come from a measurement | zero bytes in the node id, colour and brightness of commands, type control 1 and 2, known and unknown lamp models; a cold, a hot, a failing sensor; the ADC at its maximum |
| `lpp_zero_mac` | **violation**: a node whose MAC has a zero byte loses every report | |
| `nmea_damage` | what is published after a checked position is a reported fix; two undamaged cycles heal everything; every fix is shown | 2 fixes in opposite hemispheres, 5 sentences each (a group of two, an unknown one, two with a position); one lost run of any length or one changed character, anywhere; 1,033,458 states |
| `lifecycle_boot` | start order, settings kept, lamp shows status, only whole images, the device comes up unless the modem never answers, updates end unless the server never lets the root in | 2 updates, 2 chunks, 2 credentials, 1 flash error, 2 restarts or faults at any step, 2 commands at any time after Bluetooth; 921,905 states |

Capacity 32 and 60 ticks per minute are made small: no guard compares them with
anything but the counters they bound. `MAX_SEND_FAIL` is 10 in the code. A
sender that starts a call during a poll resets `recv_status` and costs the poll
one attempt, so in `at_live`, where polls must not fail, it has to exceed the
number of other senders by two, as it does in the firmware. `CHECK_DEADLOCK
FALSE` is used where a behaviour ends because a bound is reached; `at_live`,
`nmea_damage` and the `lpp` runs have no such end and check for deadlock. In
`nmea_damage` the one damaged place may be anywhere and a loss of any length.
Damage in several places of one sentence would count as longer damage (`wound`),
and a loss that the checksum does not see is among those of one place already.
`lifecycle_boot` has two chunks because a download can then break before,
between and after writes; the proofs below cover every size.

### What the violations and the side conditions say

- `dequeue()` decrements `size` with a load and a store. The timer's `enqueue()`
  in between is overwritten: `queue.c:46` says the queue is empty when `size` is
  0, and it is not (`queue_stranded`); without overlap it is, for every capacity
  (`DrainedWhenSerial`). With more producers, one preempted between
  `isFull()` and its own update lets `size` pass the capacity in the same way;
  `SizeBounded` is therefore checked, and proved, for producers that do not
  preempt one another.
- After a reconnection two `root_read_task`s may live (`uplink_reconnect`).
- `strlen()` measures binary payloads (`lpp_zero_mac`). A command for 0 %
  brightness is cut for the same reason; `NeverAnotherCommand` allows it to be
  ignored.
- `Settled`, `SavedBeforeMulticast` and `WorkingTimeGrows` are checked with one
  handler at a time. They do not hold when handlers overlap: two handlers
  interleave their one-second fades, a blink restores a brightness a downlink is
  about to replace, a save commits an older copy.
- The timer multicasts the phone's group command and clears the flag in two steps
  (`main.c:879-880`). A flag set in between is cleared unserved (`missed`);
  `GroupCommandServed` says that this is the only way, in any interleaving, in
  which the newest command is lost. There is one buffer: a newer command replaces
  one the timer has not come to yet.
- `sendCMD()` resets `recv_status` before it waits for RECV_BIT
  (`murata_parser.c:402-405`). The OK of the poll it waits for sets the flag again,
  so the call may take it for its own answer; so it may the OK of another sender.
  `HolderIsAlone` says what the handshake gives to a call that finds the link free
  and shares it with no other sender.
- `ModemMatchesNvs` excludes overlapping initialisations, which can mix
  credentials of two profiles. In `at_live` credential commands are always
  answered (`MayFail`): if one is not, the late OK of the command before it, or
  of a poll that crosses it, is taken for its answer and the modem keeps the old
  value. `CredentialsArrive` makes the same assumption and no other. The search
  of `at_live` ends at an overlap, so liveness is checked up to there; the
  safety of overlapping calls is checked by `at_late` and proved.
- A mesh id with fewer digits than the one before keeps its leading digits
  (`Bluetooth.c:164`): `MeshIdAsAsked` is about the digits that were written.
- A new PWM range reaches the lamp only with the next command (`rescaled`).
- Outside `SafeRange` the brightness may wrap; nothing checks the range a phone
  sends.
- A sentence with a wrong checksum leaves its values in `parent`. They can be
  published: `PublishedIsAFix` holds from the first position that passed its
  checksum since the damage, not before. One character lost or changed between
  `$` and `*` never passes. Longer damage may: a position that lost two equal
  digits has the same XOR and is published wrong, until the next whole sentence
  with a position (`wound # "more"` in `Deliver`; without it TLC finds that loss).
- `app_main` waits in `init_LoraWAN()` for as long as the modem does not answer:
  the transmitter and the timers are not started. `ComesUp` names this one
  exception. With two restarts a boot after a fault can be interrupted again; a
  mesh report before `queue_init()` on every boot would keep the device
  from coming up, and nothing in the code rules that out.
- A root retries `esp_http_client_open()` without a limit (`main.c:94-105`):
  `UpdatesEnd` names this exception.
- Two updates at once erase and append to the same partition and may send a mix
  of both (`shared` in `OnlyWholeImages`).
- `EXIT` closes the HTTP client also when it could not be made (`CloseNull`).
- A mesh report or new credentials that arrive before `queue_init()` or
  `init_LoraWAN()` dereference NULL; `FaultsOnlyFromOutside` says these, a failing
  flash and `CloseNull` are the only such faults.
- A light command during `init_led()` may leave the lamp unlike `status_led`
  (`raced`). An NVS error can make the device run with zeros, or replace stored
  settings by defaults (`errors = 0` in `NvsKept`).
- The error code for over-voltage needs a reading above 4400 of a 12-bit ADC and
  is never sent; a sensor that does not answer is reported as normal; the
  voltage is measured at boot only.
- `OfferedWithoutRepeats` is about what is passed to `enqueue()`. If the queue is
  full the message is dropped and its node is still remembered as queued; the
  branch `retry_ > 10` (`main.c:389`) is reached only for a node that is not a
  duplicate, so it never readmits one.
- `LampFits` says duty cycles fit the channel, not that they stay between
  `LOW_PWM` and `MAX_PWM`: 91-100 % are mapped below `LOW_PWM`, because the value is
  inverted to 0-90 before it is mapped as 10-100.

### Fairness

`MsgQueue`: the transmitter keeps looping and a producer inside a call finishes
it; FreeRTOS runs a ready task once higher ones block, and all of them do
(delays, event waits). `AtLink`: tasks that are ready run, delays end, the modem
answers or fails what it was sent; the number of failures is bounded, and in
`at_live` polls are answered, because a failed poll blocks the link for good
(`ReaderRecoveryBlocks`). `LightControl`: handlers that are not blocked
continue, the timer ticks, and the mesh, started by `app_main` before any
handler exists, comes up. `Nmea`: the receiver keeps sending and its characters
arrive in the end (weak fairness of `Arrives`; the parser never refuses one);
damage is bounded. `Lifecycle`: the steps of app_main and of the callbacks that
wait for nobody proceed, so does the restart after a panic, and a transfer that
has been let in goes on or fails (the external calls return). There is no
fairness for the modem (`ModemAnswers`, and `LoraInit` in the Bluetooth callback)
and none for `esp_http_client_open()`. No command, report or payload is assumed to
arrive.

## Proofs

`MsgQueueProofs` proves, for every capacity, set of producers, number of
messages and (where not said otherwise) preemption relation:

- `TypeCorrect`: `Spec => []TypeOK`. `TypeOK` is inductive.
- `NeverFaults`: `Spec => []NoFault`. The invariant behind it says that while the
  transmitter is between `isEmpty()` and its own store of `size`, `size` is at
  least 1: producers only raise `size` or store a value they loaded plus one,
  and the transmitter is the only one that lowers it.
- `SizeStaysBounded`: if the only preemption is that of the transmitter by
  producers (`ProducersOnTop`), `Spec => []SizeBounded`. The invariant relates
  the value a task has loaded to the capacity; with a producer preempting another
  producer it is false.
- `PrintsWrittenSlots`: under the same assumption `Spec => []PrintReadsWritten`.
  Until the ring has wrapped once the slots are written in order; `WrittenInv`
  says that `size`, and the value `dequeue()` has loaded from it, count only slots
  that are written, an `enqueue()` under way included.

`queue_sequential` checks these properties without preemption; that they survive
the timer preempting the transmitter is shown by the proofs.

`MsgQueueProofs` also proves, when calls of the queue do not overlap (`Serial`: nobody
preempts anybody; `queue_stranded` shows that this is needed):

- `QueueIsFifo`: `Spec => ImplementsFifo`, the refinement of `BoundedFifo`. The
  messages that wait are the slots from `front` on, `size` of them, around the
  end of the array; `Slot` is the slot k places behind another, and `SlotIs`,
  `SlotNext` and the lemmas on `Ring` say what taking one off or adding one does
  to it. `FifoInv` says that one task is inside the queue (`Alone`), that the
  occupied slots hold messages (`RingInv`), and in which way `front`, `rear` and
  `size` disagree at each access of `enqueue()` and `dequeue()` (`EnqueueAt`,
  `DequeueAt`). Every access is then a stuttering step or one of the abstract
  accept, refuse and take.
- `DrainedWhenSerial`: `Spec => []EmptyMeansDrained`, from `Balance`: accepted
  messages are those handed over, the one in hand and those waiting.

`AtLinkProofs` proves, for every `MAX_SEND_FAIL`, order of credentials, profiles,
prompt or late modem, and any bound on losses, unanswered commands and nested
recoveries (from `AtAssumption` alone):

- `TypeCorrect`: `Spec => []TypeOK`. `TypeInv` strengthens it: a pending load or
  save names a credential, a save carries a profile, every line on the UART has a
  sender.
- `HolderAlone`: `Spec => []HolderIsAlone`. `GrantInv` adds that the call which has
  the link is between its clearing of SEND_BIT and its end, and that SEND_BIT is
  clear meanwhile: that is what keeps readCMD() in its wait, and with it the polls
  and their OKs off the link, however often the call retries.
- `RecvBitOwned`: `Spec => []RecvBitHasOwner`, and `RecoveryBlocksReader`:
  `Spec => ReaderRecoveryBlocks`. Both need `ReaderAfterMain` (readCMD() is created
  when app_main returns, and only once) and `NoCallsAtRest`.
- `SendBitOwned`: `Spec => []SendBitHasOwner`. Before readCMD() exists the property
  is vacuous, so the invariant `OwnerInv` says what makes it true at that moment:
  app_main's list always ends with a sendCMD() (`EndsInSend`), so it becomes empty
  only by setting SEND_BIT. `Shortened` and `SetAhead` are the facts about lists it
  rests on.

`AtCredentialProofs` proves, with the assumption that commands which carry a
credential are answered (`CredentialsAnswered`, see above why):

- `CredentialsArrive`: `Spec => []ModemMatchesNvs`, with a prompt or a late modem.
  `CredInv` follows a credential from NVS to the modem. As long as no two
  initialisations have overlapped: one task initialises at a time (`Sole`); each
  credential in a task's list of calls is the stored one or will be read from NVS
  before it is sent (`Filled`), and nothing is saved behind it (`SavesFirst`); and
  each credential is still to be sent or the last line on the UART that sets it
  carries the stored value (`Delivered`). The second half of the invariant, that
  a command in its delay is delivered, is what lets `Accept` and `Recover` drop it.
  The work is in the lists: what `get_string()` does to the call it fills
  (`FilledLoad`), what a recovery puts in front of the others (`FilledJoin`), and
  what `lora_init()` consists of (`InitParts`, `InitLoads`).

`UplinkProofs` proves, for all nodes, capacities, lengths of a minute and bounds:

- `TypeCorrect`: `Spec => []TypeOK` and `RootReportsEveryMinute`:
  `Spec => []OneRootReportPerMinute`, for any number of `root_read_task`s.
- `OfferedOnce`: `Spec => []OfferedWithoutRepeats`, for one `root_read_task`
  (`OneReader`; `uplink_reconnect` shows it false for two). `ReaderInv` relates,
  at each place of the task, `data_form_node` and `node_id_compare` to the reports
  received (`ReaderAt`), and says that what was offered is what the reports handled
  so far ask for (`Offers`). `Place`, the number of first reports up to one, takes
  the part of a recursive filter.

`LightControlProofs` proves, for every interleaving of the handlers, all
settings, mesh ids and profiles, and restarts at any access:

- `TypeCorrect`: `Spec => []TypeOK`. `TypeInv` adds what each pending access
  carries (`Ops`).
- `DutiesFit`: `Spec => []LampFits`. The arithmetic of `Set_Color()` and
  `Set_Brightness()`, with its wrap-around, stays within the channel on every
  `SafeRange`, for settings in range or not.
- `GroupCommandsServed`: `Spec => []GroupCommandServed`. `MailInv` says in which
  order the mailbox is used: the Bluetooth task writes the buffer just before the
  flag (`FlagFollows`), the parser task never touches either (`NoMail`), the timer
  multicasts only while the flag is up and clears it as its last step
  (`TimerLists`).

`LightExclusiveProofs` proves, when a handler starts only while the others rest
(`Exclusive`; the code assumes it and does not enforce it):

- `SettledWhenExclusive`, `MulticastIsSaved`, `MeshIdKept` and
  `WorkingTimeKept`: `Settled`, `SavedBeforeMulticast`, `MeshIdAsAsked` always,
  and `WorkingTimeGrows`. One invariant, `ExclusiveInv`, carries all four. It is
  about the accesses the one running handler has left: NVS is behind
  `status_led` only until a copy and its commit are made (`Stored`), the lamp
  ahead of it only until the assignment (`Followed`), the root's own command is
  assigned before it is multicast (`OwnFirst`), the digits of a mesh id are in
  place or still to be written (`Spelled`). `Sound` says which lists of accesses
  can occur at all.

`LifecycleProofs` proves, for every number of updates, image size, set of
credentials and settings, and any bound on errors, restarts and commands (from
`OtaAssumption` and `LifecycleAssumption`):

- `WholeImages`: `Spec => []OnlyWholeImages`. `OtaInv` adds to the types that only
  one update is past `mupgrade_firmware_init()` unless two have shared the
  partition (`Sole`), that such an update's partition holds exactly the chunks
  1 to `recv_size`, all of them once it sends (`Progress`), and that what nodes
  hold is whole (`ImagesWhole`).
- `TypeCorrect`: `Spec => []TypeOK`, with `PartTyped` for the partition.
- `SettingsKept`: `Spec => []NvsKept`. `MemInv` follows a setting on its way
  through the callback's list: a `status` is followed by its `save`
  (`SavedNext`), no command comes before Bluetooth is started (`Quiet`), and
  between the first boot's defaults and their save only `status_led` is ahead, so
  that with a working flash `nvs`, `intended` and `status_led`
  meet again whenever the list is empty (`Agree`).
- `StartOrderSafe`: `Spec => []FaultsOnlyFromOutside`. `FaultInv` relates every
  user of a queue or event group to the step of `app_main` that makes it.
- `LampFollowsStatus`: `Spec => []LampShowsStatus`. `LampInv` says what the two
  channels show at each step of `init_led()` and of a light command, unless the
  two overlapped; `Shape` lists the forms the callback's list can have.

`LppCodecProofs` proves, for all addresses, settings, sensor answers and lamps
(from `LppAssumption`):

- `ReportsFit`: `Spec => []ReportFits` and `AlarmsAreMeasured`:
  `Spec => []AlarmIsMeasured`. Both come from `LayoutInv`: the calls made and the
  calls left are a plan (`LampRecords` or one of the other five lists), and the
  buffer is the records made so far, one behind the other (`Made`, `RecordAt`, at
  the offset `Off`). Records have fixed sizes, so a lamp's report has 45 bytes, 43
  without a model number, a position 23, and the error code is byte 32.
  `HotReading` is the arithmetic of the alarm: in the sensor's conversion, more than
  80 degrees is a raw value of at least 47312.
- `ReportsHaveNodeId`: `Spec => []ReportHasNodeId`, if no reporting address has a
  zero byte (`ZeroFreeIds`; `lpp_zero_mac` shows that it is needed). The first
  record survives `strlen()` and is decoded first, and what the decoder does with
  the rest does not take it away, since cJSON finds the first of two items of a
  name (`ReportInv`).
- `RoundTrips`: `Spec => []RoundTrip`, and `NeverAnother`: `Spec =>
  []NeverAnotherCommand`. `TextBack` says that `test()` undoes "%02X" and
  `CStringCuts` that `strlen()` leaves a prefix that ends before the first zero.
  `CommandInv` then follows the decoder over the bytes before the first zero
  (`CutAt`): it is at the start of a record (`Window`), the object holds the
  fields of the records before it (`Names`), and it stops only at the end or at
  a record that is cut (`Decoded`). A record that is cut adds no field, so the
  object always holds the first fields of the command. `NeverAnother` needs `0
  \notin TypeControls`: a type control of 0 would be cut off and leave a valid
  command of the form without one. The handler knows only 1 and 2, and these are
  what the runs use; for `TypeControls = {0, 1, 2}` TLC finds the violation.

Every theorem is about `Spec`, from the named assumptions on the constants
(`QueueAssumption`, `AtAssumption`, `UplinkAssumption`, `LightAssumption`,
`LppAssumption`, `OtaAssumption`, `LifecycleAssumption`), which TLC evaluates on
the instances of the runs; the other hypotheses (`ProducersOnTop`, `Serial`,
`CredentialsAnswered`, `OneReader`, `Exclusive`, `ZeroFreeIds`, `0 \notin
TypeControls`) stand in the theorems. Each is satisfied by the run that checks
the same property, so none of the theorems is empty.

Only model-checked: liveness (`EveryMessageSettled`, `CallsReturn`, `KeepsPolling`,
`HandlersFinish`, `EveryFixShown`, `ComesUp`, `UpdatesEnd`), which TLAPS does not
handle here, and the invariants of `Nmea`, `PublishedIsAFix` and `HealsInTwoCycles`.
They say what a checksum accumulated over a whole sentence excludes: that needs
an induction over data, which the provers installed do not do.

## Not modelled

- ESP-IDF, ESP-MDF, the mesh upgrade packets and the modem's radio behaviour:
  external; their calls succeed or fail.
- The UART driver's pattern queue of the modem link, and its event loop: lines
  arrive or are lost.
- The memory behind out-of-bounds writes (`node_id_compare`, `strH`, the mesh id),
  except that of the GPS parser's `item_str`, which is its own result.
- A torn copy of `gps_info`: the copy is one step.
- The CRC of the sensor, which changes nothing, and its resolution, set once.
- The JSON parser, replies to the phone and log output.
- Functions without a caller: `front()`, `rear()`, the `deinit` functions, the
  unused `add` functions of the LPP library.
- Build output; its settings (one core, priorities, enabled NMEA statements) are
  taken from it.

## Plan

1. Done: the core (queue, link, reports, light, payloads); GPS receiver, firmware
   update, boot, sensor, mesh and lamp profiles.
2. Done: proofs of every safety property of `MsgQueue`, `AtLink`, `Uplink`,
   `LightControl`, `LppCodec` and `Lifecycle` that a run checks, and the refinement
   of `BoundedFifo`.
3. A composition of `LightControl` with `AtLink`: while the parser task is in a
   handler it cannot see an OK.
