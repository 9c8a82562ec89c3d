------------------------------- MODULE AtLink -------------------------------
(***************************************************************************)
(* The AT command link to the LoRaWAN modem (components/CM-MURATA/         *)
(* murata_parser.c): sendCMD() as called by app_main, Brideg_LORAWAN_TX    *)
(* and the Bluetooth callback, lora_init() and its credentials, the        *)
(* polling task readCMD(), the parser task that turns an "OK" line into    *)
(* recv_status, and the two event bits that are meant to keep senders and  *)
(* poller apart.  A step is one access to shared state or one delay; the   *)
(* calls of a task that are still to be made are kept as its list todo.    *)
(***************************************************************************)
EXTENDS Naturals, Sequences, SequencesExt, Functions

CONSTANTS Senders,       \* tasks that call sendCMD() besides readCMD()
          Profiles,      \* LoRaWAN credential sets
          KeyOrder,      \* the credentials, in the order lora_init() sends them
          MAX_SEND_FAIL, \* attempts before the link is initialised again
          MaxLosses,     \* bound: commands the modem leaves without an OK
          MayFail,       \* the commands that may be left without an OK
          Prompt,        \* TRUE: the modem answers within the 500 ms delay
          MaxUart,       \* bound: commands written and not yet answered
          MaxTodo        \* bound: nested recoveries, as length of todo

ASSUME AtAssumption ==
    /\ MAX_SEND_FAIL \in Nat \ {0}
    /\ MaxLosses \in Nat /\ MaxUart \in Nat /\ MaxTodo \in Nat
    /\ Prompt \in BOOLEAN
    /\ "main" \in Senders /\ Senders \subseteq {"main", "tx", "bt"}
    /\ KeyOrder \in Seq({"DADDR", "NWKSKEY", "APPSKEY"}) /\ IsInjective(KeyOrder)
    /\ Profiles # {} /\ "none" \notin Profiles

Tasks == Senders \cup {"reader"}
Keys == Range(KeyOrder)
NoProfile == "none"
NoArg == "none"
Nobody == "nobody"

(* What a task still has to do: call sendCMD(), set SEND_BIT at the end of *)
(* a sendCMD(), read a credential from NVS or write one to it.             *)
Send(c)     == [op |-> "send", arg |-> c, val |-> NoProfile]
SetSend     == [op |-> "set",  arg |-> NoArg, val |-> NoProfile]
Load(k)     == [op |-> "load", arg |-> k, val |-> NoProfile]
Save(k, p)  == [op |-> "save", arg |-> k, val |-> p]
PerKey(F(_)) == [i \in DOMAIN KeyOrder |-> F(KeyOrder[i])]

(* lora_rst() and lora_init().  The commands that set neither a credential *)
(* nor reset the modem are one command "cfg" before the credentials and    *)
(* one after them.                                                         *)
lora_init ==
    <<Send("AT"), Send("ATZ")>> \o PerKey(Load) \o <<Send("cfg")>>
        \o PerKey(Send) \o <<Send("cfg")>>

(* Only ATZ is sent without waiting for its OK.                            *)
chk_ret(c) == c # "ATZ"

VARIABLES recvBit, sendBit,   \* the event group
          recv_status,        \* set by the parser on "OK"
          pc, todo,           \* where each task is, and its pending calls
          send_fail,          \* attempts of the command under way
          uart,               \* commands written, not answered by the modem
          nvs,                \* stored credentials
          modem,              \* credentials the modem has accepted
          losses,             \* commands left without an OK so far
          holder, answered,   \* ghosts: the sendCMD() that has the link, see Free,
                              \* and whether the modem has answered it
          overlapped          \* ghost: two lora_init() or saves overlapped

bits == <<recvBit, sendBit, recv_status>>
env == <<uart, modem, losses>>
own == <<holder, answered>>
vars == <<bits, pc, todo, send_fail, env, nvs, own, overlapped>>

(* init_LoraWAN() up to lora_init(): app_main has stored a complete set of *)
(* credentials, RECV_BIT is set and readCMD() does not exist yet.          *)
Init ==
    /\ recvBit = TRUE /\ sendBit = FALSE /\ recv_status = FALSE
    /\ pc = [t \in Tasks |-> IF t = "main" THEN "next"
                             ELSE IF t = "reader" THEN "off" ELSE "idle"]
    /\ todo = [t \in Tasks |-> IF t = "main" THEN lora_init ELSE <<>>]
    /\ send_fail = [t \in Tasks |-> 0]
    /\ uart = <<>> /\ losses = 0
    /\ nvs \in {[k \in Keys |-> p] : p \in Profiles}
    /\ modem = [k \in Keys |-> NoProfile]
    /\ holder = Nobody /\ answered = FALSE
    /\ overlapped = FALSE

Go(t, from, to) == pc[t] = from /\ pc' = [pc EXCEPT ![t] = to]
Cmd(t) == Head(todo[t])
Doing(t, op) == pc[t] = "next" /\ todo[t] # <<>> /\ Cmd(t).op = op

(* xEventGroupSetBits() readies every task that waits for the bit.         *)
Release(p, from, to) == [u \in Tasks |-> IF p[u] = from THEN to ELSE p[u]]

Initialising(t) == \E i \in DOMAIN todo[t] :
    todo[t][i].arg \in Keys \cup {"AT", "ATZ", "cfg"}
Overlap(t) == overlapped' = (overlapped \/ \E u \in Tasks \ {t} : Initialising(u))

-----------------------------------------------------------------------------
(* The callers *)

(* Brideg_LORAWAN_TX sends a queued payload.                               *)
SendPayload ==
    /\ "tx" \in Senders /\ pc["reader"] # "off"
    /\ Go("tx", "idle", "next")
    /\ todo' = [todo EXCEPT !["tx"] = <<Send("SENDB")>>]
    /\ UNCHANGED <<bits, send_fail, env, nvs, own, overlapped>>

InitBeforeSave(p) ==
    /\ "bt" \in Senders
    /\ Go("bt", "idle", "next")
    /\ todo' = [todo EXCEPT !["bt"] =
          LET SaveNew(k) == Save(k, p) IN lora_init \o PerKey(SaveNew)]
    /\ Overlap("bt")
    /\ UNCHANGED <<bits, send_fail, env, nvs, own>>

(* WRITE_LORAWAN_PF of the Bluetooth callback; it may come while app_main  *)
(* is still in lora_init().                                                *)
WRITE_LORAWAN_PF(p) ==
    /\ "bt" \in Senders
    /\ Go("bt", "idle", "next")
    /\ todo' = [todo EXCEPT !["bt"] =
          LET SaveNew(k) == Save(k, p) IN PerKey(SaveNew) \o lora_init]
    /\ Overlap("bt")
    /\ UNCHANGED <<bits, send_fail, env, nvs, own>>

(* save_string(): one commit per key.                                      *)
save_string(t) ==
    /\ Doing(t, "save")
    /\ nvs' = [nvs EXCEPT ![Cmd(t).arg] = Cmd(t).val]
    /\ todo' = [todo EXCEPT ![t] = Tail(@)]
    /\ UNCHANGED <<bits, pc, send_fail, env, own, overlapped>>

(* get_string() in lora_init() fills the next command that carries the     *)
(* credential.                                                             *)
Carrier(calls, k) == SelectInSeq(calls, LAMBDA c : c.op = "send" /\ c.arg = k)

get_string(t) ==
    /\ Doing(t, "load")
    /\ LET k == Cmd(t).arg
           rest == Tail(todo[t])
       IN  todo' = [todo EXCEPT ![t] = [rest EXCEPT ![Carrier(rest, k)].val = nvs[k]]]
    /\ UNCHANGED <<bits, pc, send_fail, env, nvs, own, overlapped>>

(* A caller's list is empty: sendCMD() or lora_init() has returned.  When  *)
(* it is app_main's, readCMD() is created.                                 *)
Return(t) ==
    /\ t \in Senders /\ todo[t] = <<>> /\ pc[t] = "next"
    /\ pc' = [u \in Tasks |-> IF u = t THEN "idle"
                              ELSE IF u = "reader" /\ t = "main" THEN "rwait"
                              ELSE pc[u]]
    /\ UNCHANGED <<bits, todo, send_fail, env, nvs, own, overlapped>>

-----------------------------------------------------------------------------
(* sendCMD() *)

Call(t) ==
    /\ Doing(t, "send")
    /\ Go(t, "next", "wait")
    /\ recv_status' = FALSE
    /\ send_fail' = [send_fail EXCEPT ![t] = 0]
    /\ UNCHANGED <<recvBit, sendBit, todo, env, nvs, own, overlapped>>

WaitRecvBit(t) ==
    /\ recvBit
    /\ Go(t, "wait", "clear")
    /\ UNCHANGED <<bits, todo, send_fail, env, nvs, own, overlapped>>

(* The link is there for this call alone: readCMD() waits, or does not     *)
(* exist yet, and no command or answer of another is under way.            *)
Free == pc["reader"] \in {"off", "rwait"} /\ uart = <<>> /\ ~recv_status

ClearSendBitLate(t) ==
    /\ Go(t, "clear", "write")
    /\ holder' = IF Free THEN t ELSE Nobody
    /\ answered' = FALSE
    /\ UNCHANGED <<bits, todo, send_fail, env, nvs, overlapped>>

ClearSendBit(t) ==
    /\ Go(t, "clear", "write")
    /\ sendBit' = FALSE
    /\ holder' = IF Free THEN t ELSE Nobody
    /\ answered' = FALSE
    /\ UNCHANGED <<recvBit, recv_status, todo, send_fail, env, nvs, overlapped>>

Write(t) ==
    /\ Len(uart) < MaxUart
    /\ Go(t, "write", "delay")
    /\ uart' = Append(uart, [by |-> t, cmd |-> Cmd(t).arg, val |-> Cmd(t).val])
    /\ holder' = IF holder = t THEN t ELSE Nobody
    /\ UNCHANGED <<bits, todo, send_fail, modem, losses, nvs, answered, overlapped>>

(* The delay is over; with a prompt modem the answer is in by then.        *)
Awake(t) == Prompt => \A i \in DOMAIN uart : uart[i].by # t

Failed(t) == send_fail[t] + 1 >= MAX_SEND_FAIL

(* The locals of a sendCMD() that makes no further attempt.                *)
EndCall(t) ==
    /\ send_fail' = [send_fail EXCEPT ![t] = 0]
    /\ holder' = IF holder = t THEN Nobody ELSE holder
    /\ UNCHANGED answered

RetryForever(t) ==
    /\ Go(t, "delay", "write")
    /\ ~recv_status /\ chk_ret(Cmd(t).arg)
    /\ send_fail' = [send_fail EXCEPT ![t] = @ + 1]
    /\ UNCHANGED <<bits, todo, env, nvs, own, overlapped>>

Retry(t) ==
    /\ Go(t, "delay", "write")
    /\ ~recv_status /\ chk_ret(Cmd(t).arg) /\ ~Failed(t)
    /\ send_fail' = [send_fail EXCEPT ![t] = @ + 1]
    /\ UNCHANGED <<bits, todo, env, nvs, own, overlapped>>

AcceptNoSet(t) ==
    /\ Go(t, "delay", "next")
    /\ recv_status \/ ~chk_ret(Cmd(t).arg)
    /\ ~Failed(t)
    /\ todo' = [todo EXCEPT ![t] = Tail(@)]
    /\ EndCall(t)
    /\ UNCHANGED <<bits, env, nvs, overlapped>>

Accept(t) ==
    /\ Go(t, "delay", "next")
    /\ recv_status \/ ~chk_ret(Cmd(t).arg)
    /\ ~Failed(t)
    /\ todo' = [todo EXCEPT ![t] = <<SetSend>> \o Tail(@)]
    /\ EndCall(t)
    /\ UNCHANGED <<bits, env, nvs, overlapped>>

(* The last attempt was made: lora_init() and then the same command again, *)
(* whether or not that attempt was answered.                               *)
Recover(t) ==
    /\ Failed(t)
    /\ Len(todo[t]) < MaxTodo
    /\ Go(t, "delay", "next")
    /\ todo' = [todo EXCEPT ![t] = lora_init \o <<Cmd(t), SetSend>> \o Tail(@)]
    /\ EndCall(t)
    /\ Overlap(t)
    /\ UNCHANGED <<bits, env, nvs>>

SetSendBit(t) ==
    /\ Doing(t, "set")
    /\ sendBit' = TRUE
    /\ pc' = Release(pc, "rwait", "rclear")
    /\ todo' = [todo EXCEPT ![t] = Tail(@)]
    /\ holder' = Nobody
    /\ UNCHANGED <<recvBit, recv_status, send_fail, env, nvs, answered, overlapped>>

sendCMD(t) ==
    \/ Call(t) \/ WaitRecvBit(t) \/ ClearSendBit(t) \/ Write(t)
    \/ Awake(t) /\ (Retry(t) \/ Accept(t) \/ Recover(t))
    \/ SetSendBit(t)

-----------------------------------------------------------------------------
(* readCMD() *)

WaitSendBit ==
    /\ sendBit
    /\ Go("reader", "rwait", "rclear")
    /\ UNCHANGED <<bits, todo, send_fail, env, nvs, own, overlapped>>

ClearRecvBit ==
    /\ Go("reader", "rclear", "rwrite")
    /\ recvBit' = FALSE
    /\ send_fail' = [send_fail EXCEPT !["reader"] = 0]
    /\ UNCHANGED <<sendBit, recv_status, todo, env, nvs, own, overlapped>>

PollWrite ==
    /\ Len(uart) < MaxUart
    /\ Go("reader", "rwrite", "rdelay")
    /\ uart' = Append(uart, [by |-> "reader", cmd |-> "RECVB", val |-> NoProfile])
    /\ UNCHANGED <<bits, todo, send_fail, modem, losses, nvs, own, overlapped>>

PollAgain ==
    /\ ~recv_status /\ ~Failed("reader")
    /\ Go("reader", "rdelay", "rwrite")
    /\ send_fail' = [send_fail EXCEPT !["reader"] = @ + 1]
    /\ UNCHANGED <<bits, todo, env, nvs, own, overlapped>>

PollDone ==
    /\ recv_status /\ ~Failed("reader")
    /\ Go("reader", "rdelay", "rset")
    /\ send_fail' = [send_fail EXCEPT !["reader"] = 0]
    /\ UNCHANGED <<bits, todo, env, nvs, own, overlapped>>

(* The poll failed: lora_init() with RECV_BIT still clear.                 *)
PollFailedReleased ==
    /\ Failed("reader")
    /\ Go("reader", "rdelay", "next")
    /\ recvBit' = TRUE
    /\ todo' = [todo EXCEPT !["reader"] = lora_init]
    /\ Overlap("reader")
    /\ UNCHANGED <<sendBit, recv_status, send_fail, env, nvs, own>>

PollFailed ==
    /\ Failed("reader")
    /\ Go("reader", "rdelay", "next")
    /\ todo' = [todo EXCEPT !["reader"] = lora_init]
    /\ Overlap("reader")
    /\ UNCHANGED <<bits, send_fail, env, nvs, own>>

SetRecvBitLost ==
    /\ Go("reader", "rset", "rwait")
    /\ UNCHANGED <<bits, todo, send_fail, env, nvs, own, overlapped>>

SetRecvBitOnce ==
    /\ pc["reader"] = "rset"
    /\ recvBit' = TRUE
    /\ pc' = [Release(pc, "wait", "clear") EXCEPT !["reader"] = "off"]
    /\ UNCHANGED <<sendBit, recv_status, todo, send_fail, env, nvs, own, overlapped>>

SetRecvBit ==
    /\ pc["reader"] = "rset"
    /\ recvBit' = TRUE
    /\ pc' = [Release(pc, "wait", "clear") EXCEPT !["reader"] = "rwait"]
    /\ UNCHANGED <<sendBit, recv_status, todo, send_fail, env, nvs, own, overlapped>>

readCMD ==
    \/ WaitSendBit \/ ClearRecvBit \/ PollWrite
    \/ Awake("reader") /\ (PollAgain \/ PollDone \/ PollFailed)
    \/ SetRecvBit

-----------------------------------------------------------------------------
(* The modem, and the parser task that reads its lines.                    *)

(* AT_OK: the command took effect and murata_parser_task_entry() sets      *)
(* recv_status, whoever wrote the command.                                 *)
AnswerOk ==
    /\ uart # <<>>
    /\ LET c == Head(uart) IN
         modem' = IF c.cmd \in Keys THEN [modem EXCEPT ![c.cmd] = c.val] ELSE modem
    /\ uart' = Tail(uart)
    /\ recv_status' = TRUE
    /\ answered' = (answered \/ Head(uart).by = holder)
    /\ UNCHANGED <<recvBit, sendBit, pc, todo, send_fail, losses, nvs, holder, overlapped>>

(* An error line, or no line at all: the parser leaves recv_status alone.  *)
NoOk ==
    /\ uart # <<>> /\ Head(uart).cmd \in MayFail /\ losses < MaxLosses
    /\ losses' = losses + 1
    /\ uart' = Tail(uart)
    /\ UNCHANGED <<bits, pc, todo, send_fail, modem, nvs, own, overlapped>>

-----------------------------------------------------------------------------
TaskStep(t) == save_string(t) \/ get_string(t) \/ Return(t) \/ sendCMD(t)

Next ==
    \/ SendPayload
    \/ \E p \in Profiles : WRITE_LORAWAN_PF(p)
    \/ \E t \in Tasks : TaskStep(t)
    \/ readCMD
    \/ AnswerOk \/ NoOk

(* Tasks that are ready run, delays end, and the modem answers what it is  *)
(* asked; nothing makes a new payload or Bluetooth command arrive.         *)
Fairness ==
    /\ \A t \in Tasks : WF_vars(TaskStep(t))
    /\ WF_vars(readCMD)
    /\ WF_vars(AnswerOk \/ NoOk)

Spec == Init /\ [][Next]_vars
FairSpec == Spec /\ Fairness
-----------------------------------------------------------------------------
Items == [op : {"send", "set", "load", "save"},
          arg : Keys \cup {NoArg, "AT", "ATZ", "cfg", "SENDB"},
          val : Profiles \cup {NoProfile}]

SendPc == {"wait", "clear", "write", "delay"}
ReadPc == {"rwait", "rclear", "rwrite", "rdelay", "rset"}

(* The event bits, the program counters and the pending calls have their   *)
(* types, and a task inside sendCMD() has the command at the head of todo. *)
TypeOK ==
    /\ recvBit \in BOOLEAN /\ sendBit \in BOOLEAN /\ recv_status \in BOOLEAN
    /\ \A t \in Senders : pc[t] \in {"idle", "next"} \cup SendPc
    /\ pc["reader"] \in {"off", "next"} \cup SendPc \cup ReadPc
    /\ \A t \in Tasks :
          /\ todo[t] \in Seq(Items)
          /\ pc[t] \in SendPc => todo[t] # <<>> /\ Cmd(t).op = "send"
    /\ send_fail \in [Tasks -> 0 .. MAX_SEND_FAIL]
    /\ nvs \in [Keys -> Profiles]
    /\ modem \in [Keys -> Profiles \cup {NoProfile}]

(* The handshake of the event bits: a sendCMD() that finds the link free   *)
(* when it clears SEND_BIT keeps it until it ends or another sender takes  *)
(* part.  readCMD() does not poll, only commands of this call are on the   *)
(* UART, through all retries and however late the answers come, and an OK  *)
(* that ends the call is the answer to its own command.                    *)
HolderIsAlone ==
    holder # Nobody =>
        /\ pc["reader"] \in {"off", "rwait"}
        /\ \A i \in DOMAIN uart : uart[i].by = holder
        /\ recv_status => answered

(* No lost wake-up: while SEND_BIT is clear and readCMD() exists, some     *)
(* sendCMD() is under way that will set it.                                *)
SendBitHasOwner ==
    ~sendBit /\ pc["reader"] # "off" =>
        \E t \in Tasks : \/ pc[t] \in {"write", "delay"}
                         \/ \E i \in DOMAIN todo[t] : todo[t][i].op = "set"

(* RECV_BIT is clear only while readCMD() is between its two accesses to   *)
(* it, so a sender that waits for RECV_BIT waits for readCMD() alone.      *)
RecvBitHasOwner ==
    recvBit <=> pc["reader"] \notin {"rwrite", "rdelay", "rset", "next"} \cup SendPc

(* Unless two initialisations overlap, the modem ends up with exactly the  *)
(* credentials that are stored, whatever retries and recoveries it took.   *)
ModemMatchesNvs ==
    /\ ~overlapped /\ uart = <<>>
    /\ \A t \in Tasks : todo[t] = <<>>
    => modem = nvs

(* Once readCMD() gives up on the modem its recovery waits for a RECV_BIT  *)
(* only readCMD() sets: it stays there and the bit stays clear for good.   *)
ReaderRecoveryBlocks ==
    [][pc["reader"] = "wait" => pc'["reader"] = "wait" /\ ~recvBit']_vars

(* While the polls are answered, every sendCMD() and lora_init() returns,  *)
(* retries and recoveries included.                                        *)
CallsReturn ==
    \A t \in Senders : pc[t] # "idle" ~> pc[t] = "idle"

(* ... and readCMD() keeps polling for downlinks for ever.                 *)
KeepsPolling == []<>(pc["reader"] = "rdelay")
=============================================================================
