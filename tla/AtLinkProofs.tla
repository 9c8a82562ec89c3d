---------------------------- MODULE AtLinkProofs ----------------------------
(***************************************************************************)
(* Proofs about the AT command link, for every number of attempts, every   *)
(* order of credentials, any losses, late answers and nesting of           *)
(* recoveries.                                                             *)
(***************************************************************************)
EXTENDS AtLink, TLAPS

(* Pending calls with the arguments their step needs.                      *)
Names == Keys \cup {NoArg, "AT", "ATZ", "cfg", "SENDB"}
Vals == Profiles \cup {NoProfile}
Calls == [op : {"send", "set"}, arg : Names, val : Vals]
         \cup [op : {"load"}, arg : Keys, val : Vals]
         \cup [op : {"save"}, arg : Keys, val : Profiles]
Lines == [by : Tasks, cmd : Names \cup {"RECVB"}, val : Vals]

(* TypeOK as an inductive invariant.                                      *)
TypeInv ==
    /\ recvBit \in BOOLEAN /\ sendBit \in BOOLEAN /\ recv_status \in BOOLEAN
    /\ pc \in [Tasks -> {"idle", "off", "next"} \cup SendPc \cup ReadPc]
    /\ \A t \in Senders : pc[t] \in {"idle", "next"} \cup SendPc
    /\ pc["reader"] \in {"off", "next"} \cup SendPc \cup ReadPc
    /\ todo \in [Tasks -> Seq(Calls)]
    /\ \A t \in Tasks : pc[t] \in SendPc => todo[t] # <<>> /\ Cmd(t).op = "send"
    /\ send_fail \in [Tasks -> 0 .. MAX_SEND_FAIL]
    /\ nvs \in [Keys -> Profiles]
    /\ modem \in [Keys -> Vals]
    /\ uart \in Seq(Lines)

-----------------------------------------------------------------------------
(* Lists of calls *)

(* Every list of calls is a list of items of TypeOK.                       *)
LEMMA CallsAreItems == Seq(Calls) \subseteq Seq(Items)
<1>1. Calls \subseteq Items
  BY DEF Calls, Items, Names, Vals
<1> QED BY <1>1

(* Taking the first call off a list.                                       *)
LEMMA HeadIsCall ==
    ASSUME NEW s \in Seq(Calls), s # <<>>
    PROVE  Head(s) \in Calls /\ Tail(s) \in Seq(Calls)
OBVIOUS

(* lora_init() goes through the credentials only.                          *)
LEMMA KeysInOrder == \A i \in DOMAIN KeyOrder : KeyOrder[i] \in Keys
BY DEF Keys, Range

(* The credentials in their order form a list.                             *)
LEMMA KeyOrderIsSeq == DOMAIN KeyOrder = 1 .. Len(KeyOrder) /\ Len(KeyOrder) \in Nat
BY AtAssumption

(* The parts of lora_init() and of WRITE_LORAWAN_PF are lists of calls.    *)
LEMMA LoadsAreCalls == PerKey(Load) \in Seq(Calls)
<1>1. \A i \in DOMAIN KeyOrder : Load(KeyOrder[i]) \in Calls
  BY KeysInOrder DEF Load, Calls, Vals
<1> QED BY <1>1, KeyOrderIsSeq DEF PerKey

(* ... the commands that send the credentials,                             *)
LEMMA SendsAreCalls == PerKey(Send) \in Seq(Calls)
<1>1. \A i \in DOMAIN KeyOrder : Send(KeyOrder[i]) \in Calls
  BY KeysInOrder DEF Send, Calls, Vals, Names
<1> QED BY <1>1, KeyOrderIsSeq DEF PerKey

(* ... the saving of a new profile,                                        *)
LEMMA SavesAreCalls ==
    ASSUME NEW p \in Profiles
    PROVE  [i \in DOMAIN KeyOrder |-> Save(KeyOrder[i], p)] \in Seq(Calls)
<1>1. \A i \in DOMAIN KeyOrder : Save(KeyOrder[i], p) \in Calls
  BY KeysInOrder DEF Save, Calls
<1> QED BY <1>1, KeyOrderIsSeq

(* ... the setting of SEND_BIT at the end of sendCMD(),                    *)
LEMMA SetSendIsCall == SetSend \in Calls
BY DEF SetSend, Calls, Names, Vals

(* ... and single commands.                                                *)
LEMMA SendIsCall == \A c \in Names : Send(c) \in Calls
BY DEF Send, Calls, Vals

(* A list of one element.                                                  *)
LEMMA Singleton ==
    ASSUME NEW S, NEW x \in S
    PROVE  <<x>> \in Seq(S) /\ Len(<<x>>) = 1 /\ <<x>>[1] = x
OBVIOUS

(* Two lists one after the other.                                          *)
LEMMA Joined ==
    ASSUME NEW p \in Seq(Calls), NEW q \in Seq(Calls)
    PROVE  /\ p \o q \in Seq(Calls)
           /\ Len(p \o q) = Len(p) + Len(q)
           /\ \A i \in 1 .. Len(p) : (p \o q)[i] = p[i]
           /\ \A i \in 1 .. Len(q) : (p \o q)[Len(p) + i] = q[i]
<1>1. Len(p) \in Nat /\ Len(q) \in Nat
  OBVIOUS
<1> QED BY <1>1

(* lora_init() is a list of calls that ends with a sendCMD().              *)
LEMMA InitIsCalls ==
    /\ lora_init \in Seq(Calls)
    /\ lora_init # <<>>
    /\ lora_init[Len(lora_init)].op = "send"
<1> DEFINE a == <<Send("AT"), Send("ATZ")>>
           b == PerKey(Load)
           c == PerKey(Send)
           d == <<Send("cfg")>>
<1>1. a \in Seq(Calls) /\ d \in Seq(Calls)
  <2>1. Send("AT") \in Calls /\ Send("ATZ") \in Calls /\ Send("cfg") \in Calls
    BY SendIsCall DEF Names
  <2>2. d \in Seq(Calls)
    BY <2>1, Singleton
  <2>3. <<Send("AT")>> \in Seq(Calls) /\ <<Send("ATZ")>> \in Seq(Calls)
    BY <2>1, Singleton
  <2> QED BY <2>1, <2>2
<1>2. b \in Seq(Calls) /\ c \in Seq(Calls)
  BY LoadsAreCalls, SendsAreCalls
<1>3. Len(d) = 1 /\ d[1].op = "send"
  BY DEF Send
<1>4. lora_init = (a \o b \o d \o c) \o d
  BY DEF lora_init
<1> HIDE DEF a, b, c, d
<1>5. a \o b \o d \o c \in Seq(Calls)
  BY <1>1, <1>2, Joined
<1> DEFINE e == a \o b \o d \o c
<1> HIDE DEF e
<1>6. /\ e \o d \in Seq(Calls)
      /\ Len(e \o d) = Len(e) + 1
      /\ (e \o d)[Len(e) + 1] = d[1]
  <2>1. e \in Seq(Calls) /\ 1 \in 1 .. Len(d)
    BY <1>3, <1>5 DEF e
  <2>2. /\ e \o d \in Seq(Calls)
        /\ Len(e \o d) = Len(e) + Len(d)
        /\ \A i \in 1 .. Len(d) : (e \o d)[Len(e) + i] = d[i]
    BY <1>1, <2>1, Joined
  <2> QED BY <1>3, <2>1, <2>2
<1>7. Len(e) \in Nat
  BY <1>5 DEF e
<1> QED BY <1>3, <1>4, <1>6, <1>7 DEF e

(* What get_string() does to the list: only a val changes.                 *)
LEMMA PatchedCalls ==
    ASSUME NEW s \in Seq(Calls), NEW i, NEW v \in Profiles
    PROVE  /\ [s EXCEPT ![i].val = v] \in Seq(Calls)
           /\ Len([s EXCEPT ![i].val = v]) = Len(s)
           /\ \A j \in 1 .. Len(s) : [s EXCEPT ![i].val = v][j].op = s[j].op
<1> DEFINE r == [s EXCEPT ![i].val = v]
<1>1. \A j \in 1 .. Len(s) : s[j] \in Calls
  OBVIOUS
<1>2. \A c \in Calls : [c EXCEPT !.val = v] \in Calls /\ [c EXCEPT !.val = v].op = c.op
  BY DEF Calls, Vals
<1>3. DOMAIN r = 1 .. Len(s)
  OBVIOUS
<1>4. \A j \in 1 .. Len(s) : r[j] \in Calls /\ r[j].op = s[j].op
  <2> TAKE j \in 1 .. Len(s)
  <2>1. CASE j = i
    BY <1>1, <1>2, <2>1
  <2>2. CASE j # i
    BY <1>1, <2>2
  <2> QED BY <2>1, <2>2
<1>5. r \in [1 .. Len(s) -> Calls]
  BY <1>3, <1>4
<1>6. r \in Seq(Calls) /\ Len(r) = Len(s)
  BY <1>5
<1> QED BY <1>4, <1>6
-----------------------------------------------------------------------------
(* Types *)

(* The types hold when init_LoraWAN() calls lora_init().                   *)
LEMMA TypeInit == Init => TypeInv
<1> SUFFICES ASSUME Init PROVE TypeInv
  OBVIOUS
<1> USE AtAssumption DEF Init
<1>1. <<>> \in Seq(Calls) /\ <<>> \in Seq(Lines)
  OBVIOUS
<1>2. todo \in [Tasks -> Seq(Calls)]
  BY <1>1, InitIsCalls
<1>3. pc \in [Tasks -> {"idle", "off", "next"} \cup SendPc \cup ReadPc]
  OBVIOUS
<1>4. /\ \A t \in Senders : pc[t] \in {"idle", "next"} \cup SendPc
      /\ pc["reader"] \in {"off", "next"} \cup SendPc \cup ReadPc
      /\ \A t \in Tasks : pc[t] \notin SendPc
  BY DEF Tasks, SendPc
<1>5. nvs \in [Keys -> Profiles] /\ modem \in [Keys -> Vals]
  BY DEF Vals
<1>6. send_fail \in [Tasks -> 0 .. MAX_SEND_FAIL]
  OBVIOUS
<1> QED BY <1>1, <1>2, <1>3, <1>4, <1>5, <1>6 DEF TypeInv

(* A task starts a list of calls, or goes on to its next call.             *)
LEMMA TypeStart ==
    ASSUME TypeInv, NEW t \in Tasks, NEW s \in Seq(Calls),
           pc[t] \in {"idle", "next", "rdelay", "delay"},
           pc' = [pc EXCEPT ![t] = "next"],
           todo' = [todo EXCEPT ![t] = s]
    PROVE  /\ pc' \in [Tasks -> {"idle", "off", "next"} \cup SendPc \cup ReadPc]
           /\ \A u \in Senders : pc'[u] \in {"idle", "next"} \cup SendPc
           /\ pc'["reader"] \in {"off", "next"} \cup SendPc \cup ReadPc
           /\ todo' \in [Tasks -> Seq(Calls)]
           /\ \A u \in Tasks : pc'[u] \in SendPc =>
                 todo'[u] # <<>> /\ Head(todo'[u]).op = "send"
<1> USE DEF TypeInv, Tasks, SendPc, Cmd
<1>1. todo' \in [Tasks -> Seq(Calls)]
  OBVIOUS
<1>2. pc' \in [Tasks -> {"idle", "off", "next"} \cup SendPc \cup ReadPc]
  OBVIOUS
<1>3. pc'[t] = "next" /\ \A u \in Tasks \ {t} : pc'[u] = pc[u] /\ todo'[u] = todo[u]
  OBVIOUS
<1> QED BY <1>1, <1>2, <1>3

(* A payload or a Bluetooth command keeps the types.                       *)
LEMMA TypeCallers ==
    ASSUME TypeInv,
           SendPayload \/ \E p \in Profiles : WRITE_LORAWAN_PF(p)
    PROVE  TypeInv'
<1>1. CASE SendPayload
  <2>1. Send("SENDB") \in Calls
    BY SendIsCall DEF Names
  <2>2. <<Send("SENDB")>> \in Seq(Calls)
    BY <2>1, Singleton
  <2>3. /\ "tx" \in Tasks /\ pc["tx"] = "idle"
        /\ pc' = [pc EXCEPT !["tx"] = "next"]
        /\ todo' = [todo EXCEPT !["tx"] = <<Send("SENDB")>>]
    BY <1>1 DEF SendPayload, Go, Tasks
  <2>4. UNCHANGED <<bits, send_fail, env, nvs>>
    BY <1>1 DEF SendPayload
  <2> QED BY <2>2, <2>3, <2>4, TypeStart DEF TypeInv, Cmd, bits, env
<1>2. ASSUME NEW p \in Profiles, WRITE_LORAWAN_PF(p) PROVE TypeInv'
  <2> DEFINE saves == [i \in DOMAIN KeyOrder |-> Save(KeyOrder[i], p)]
  <2>1. saves \o lora_init \in Seq(Calls)
    BY SavesAreCalls, InitIsCalls, Joined
  <2>2. /\ "bt" \in Tasks /\ pc["bt"] = "idle"
        /\ pc' = [pc EXCEPT !["bt"] = "next"]
        /\ todo' = [todo EXCEPT !["bt"] = saves \o lora_init]
    BY <1>2 DEF WRITE_LORAWAN_PF, Go, Tasks, PerKey
  <2>3. UNCHANGED <<bits, send_fail, env, nvs>>
    BY <1>2 DEF WRITE_LORAWAN_PF
  <2> HIDE DEF saves
  <2> QED BY <2>1, <2>2, <2>3, TypeStart DEF TypeInv, Cmd, bits, env
<1> QED BY <1>1, <1>2
(* Steps between two sendCMD(): the list is shortened, or has returned.    *)
LEMMA TypeBetween ==
    ASSUME TypeInv, NEW t \in Tasks,
           save_string(t) \/ get_string(t) \/ Return(t) \/ SetSendBit(t)
    PROVE  TypeInv'
<1> USE DEF bits, env
<1>1. ASSUME NEW op, Doing(t, op)
      PROVE  /\ pc[t] = "next" /\ pc = [pc EXCEPT ![t] = "next"]
             /\ todo[t] \in Seq(Calls) /\ todo[t] # <<>>
             /\ Cmd(t) \in Calls /\ Cmd(t).op = op
             /\ Tail(todo[t]) \in Seq(Calls)
  <2>1. pc[t] = "next" /\ todo[t] \in Seq(Calls) /\ todo[t] # <<>> /\ Cmd(t).op = op
    BY <1>1 DEF Doing, TypeInv
  <2>2. Cmd(t) \in Calls /\ Tail(todo[t]) \in Seq(Calls)
    BY <2>1, HeadIsCall DEF Cmd
  <2>3. pc = [pc EXCEPT ![t] = "next"]
    BY <2>1 DEF TypeInv
  <2> QED BY <2>1, <2>2, <2>3
<1>2. CASE save_string(t)
  <2>1. /\ pc[t] = "next" /\ pc' = [pc EXCEPT ![t] = "next"]
        /\ Cmd(t) \in Calls /\ Cmd(t).op = "save"
        /\ Tail(todo[t]) \in Seq(Calls)
    BY <1>1, <1>2 DEF save_string
  <2>2. Cmd(t).val \in Profiles
    BY <2>1 DEF Calls
  <2>3. nvs' \in [Keys -> Profiles]
    BY <1>2, <2>2 DEF save_string, TypeInv
  <2>4. todo' = [todo EXCEPT ![t] = Tail(todo[t])]
    BY <1>2 DEF save_string
  <2>5. UNCHANGED <<bits, send_fail, env>>
    BY <1>2 DEF save_string
  <2> QED BY <2>1, <2>3, <2>4, <2>5, TypeStart DEF TypeInv, Cmd
<1>3. CASE get_string(t)
  <2> DEFINE k == Cmd(t).arg
             rest == Tail(todo[t])
             r == [rest EXCEPT ![Carrier(rest, k)].val = nvs[k]]
  <2>1. /\ pc[t] = "next" /\ pc' = [pc EXCEPT ![t] = "next"]
        /\ Cmd(t) \in Calls /\ Cmd(t).op = "load"
        /\ rest \in Seq(Calls)
    BY <1>1, <1>3 DEF get_string
  <2>2. nvs[k] \in Profiles
    BY <2>1 DEF Calls, TypeInv
  <2>3. r \in Seq(Calls)
    BY <2>1, <2>2, PatchedCalls
  <2>4. todo' = [todo EXCEPT ![t] = r]
    BY <1>3 DEF get_string
  <2>5. UNCHANGED <<bits, send_fail, env, nvs>>
    BY <1>3 DEF get_string
  <2> HIDE DEF r
  <2> QED BY <2>1, <2>3, <2>4, <2>5, TypeStart DEF TypeInv, Cmd
<1>4. CASE Return(t)
  BY <1>4, AtAssumption DEF Return, TypeInv, Tasks, Cmd, SendPc, ReadPc
<1>5. CASE SetSendBit(t)
  <2>1. /\ pc[t] = "next" /\ Tail(todo[t]) \in Seq(Calls)
    BY <1>1, <1>5 DEF SetSendBit
  <2>2. todo' \in [Tasks -> Seq(Calls)]
    BY <1>5, <2>1 DEF SetSendBit, TypeInv
  <2>3. /\ pc' \in [Tasks -> {"idle", "off", "next"} \cup SendPc \cup ReadPc]
        /\ \A u \in Tasks : pc'[u] = pc[u] \/ (pc[u] = "rwait" /\ pc'[u] = "rclear")
    BY <1>5 DEF SetSendBit, Release, TypeInv, ReadPc
  <2>4. /\ \A u \in Senders : pc'[u] \in {"idle", "next"} \cup SendPc
        /\ pc'["reader"] \in {"off", "next"} \cup SendPc \cup ReadPc
    BY <2>3 DEF TypeInv, Tasks, SendPc, ReadPc
  <2>5. \A u \in Tasks : pc'[u] \in SendPc =>
           todo'[u] # <<>> /\ Head(todo'[u]).op = "send"
    BY <1>5, <2>1, <2>3 DEF SetSendBit, TypeInv, SendPc, Cmd
  <2>6. sendBit' = TRUE /\ UNCHANGED <<recvBit, recv_status, send_fail, env, nvs>>
    BY <1>5 DEF SetSendBit
  <2> QED BY <2>2, <2>3, <2>4, <2>5, <2>6 DEF TypeInv, Cmd
<1> QED BY <1>2, <1>3, <1>4, <1>5

(* Steps inside one sendCMD().                                             *)
LEMMA TypeSend ==
    ASSUME TypeInv, NEW t \in Tasks,
           \/ Call(t) \/ WaitRecvBit(t) \/ ClearSendBit(t) \/ Write(t)
           \/ Retry(t) \/ Accept(t) \/ Recover(t)
    PROVE  TypeInv'
<1> USE AtAssumption DEF bits, env
<1>0. pc[t] \in SendPc =>
        todo[t] \in Seq(Calls) /\ Cmd(t) \in Calls /\ Tail(todo[t]) \in Seq(Calls)
  BY HeadIsCall DEF TypeInv, Cmd
<1>1. CASE Call(t)
  <2>3. send_fail' \in [Tasks -> 0 .. MAX_SEND_FAIL]
    BY <1>1 DEF Call, TypeInv
  <2>4. /\ pc' \in [Tasks -> {"idle", "off", "next"} \cup SendPc \cup ReadPc]
        /\ \A u \in Senders : pc'[u] \in {"idle", "next"} \cup SendPc
        /\ pc'["reader"] \in {"off", "next"} \cup SendPc \cup ReadPc
        /\ \A u \in Tasks : pc'[u] \in SendPc =>
              todo[u] # <<>> /\ Head(todo[u]).op = "send"
    BY <1>1 DEF Call, Go, Doing, TypeInv, Cmd, Tasks, SendPc
  <2>5. recv_status' = FALSE /\ UNCHANGED <<recvBit, sendBit, todo, env, nvs>>
    BY <1>1 DEF Call
  <2> QED BY <2>3, <2>4, <2>5 DEF TypeInv, Cmd
<1>2. CASE WaitRecvBit(t)
  BY <1>2 DEF WaitRecvBit, Go, TypeInv, Cmd, Tasks, SendPc
<1>3. CASE ClearSendBit(t)
  BY <1>3 DEF ClearSendBit, Go, TypeInv, Cmd, Tasks, SendPc
<1>4. CASE Write(t)
  <2> DEFINE line == [by |-> t, cmd |-> Cmd(t).arg, val |-> Cmd(t).val]
  <2>1. pc[t] \in SendPc
    BY <1>4 DEF Write, Go, SendPc
  <2>2. line \in Lines
    BY <1>0, <2>1 DEF Calls, Lines, Names, Vals
  <2>3. uart' = Append(uart, line)
    BY <1>4 DEF Write
  <2>4. uart' \in Seq(Lines)
    BY <2>2, <2>3 DEF TypeInv
  <2> QED BY <1>4, <2>4 DEF Write, Go, TypeInv, Cmd, Tasks, SendPc
<1>5. CASE Retry(t)
  <2>1. send_fail' \in [Tasks -> 0 .. MAX_SEND_FAIL]
    BY <1>5 DEF Retry, Failed, TypeInv
  <2> QED BY <1>5, <2>1 DEF Retry, Go, TypeInv, Cmd, Tasks, SendPc
<1>6. ASSUME EndCall(t) PROVE send_fail' \in [Tasks -> 0 .. MAX_SEND_FAIL]
  BY <1>6 DEF EndCall, TypeInv
<1>7. CASE Accept(t)
  <2>1. pc[t] = "delay" /\ pc' = [pc EXCEPT ![t] = "next"]
    BY <1>7 DEF Accept, Go
  <2>2. <<SetSend>> \o Tail(todo[t]) \in Seq(Calls)
    BY <1>0, <2>1, SetSendIsCall, Singleton, Joined DEF SendPc
  <2>3. todo' = [todo EXCEPT ![t] = <<SetSend>> \o Tail(todo[t])]
    BY <1>7 DEF Accept
  <2>4. UNCHANGED <<bits, env, nvs>> /\ EndCall(t)
    BY <1>7 DEF Accept
  <2> QED BY <1>6, <2>1, <2>2, <2>3, <2>4, TypeStart DEF TypeInv, Cmd
<1>8. CASE Recover(t)
  <2>1. pc[t] = "delay" /\ pc' = [pc EXCEPT ![t] = "next"]
    BY <1>8 DEF Recover, Go
  <2>2. <<Cmd(t), SetSend>> \in Seq(Calls)
    BY <1>0, <2>1, SetSendIsCall DEF SendPc
  <2>3. lora_init \o <<Cmd(t), SetSend>> \o Tail(todo[t]) \in Seq(Calls)
    BY <1>0, <2>1, <2>2, InitIsCalls, Joined DEF SendPc
  <2>4. todo' = [todo EXCEPT ![t] = lora_init \o <<Cmd(t), SetSend>> \o Tail(todo[t])]
    BY <1>8 DEF Recover
  <2>5. UNCHANGED <<bits, env, nvs>> /\ EndCall(t)
    BY <1>8 DEF Recover
  <2> QED BY <1>6, <2>1, <2>3, <2>4, <2>5, TypeStart DEF TypeInv, Cmd
<1> QED BY <1>1, <1>2, <1>3, <1>4, <1>5, <1>7, <1>8
(* Steps of readCMD() proper.                                              *)
LEMMA TypeRead ==
    ASSUME TypeInv, readCMD
    PROVE  TypeInv'
<1> USE AtAssumption DEF bits, env
<1>0. "reader" \in Tasks /\ "reader" \notin Senders
  BY DEF Tasks
<1>1. CASE WaitSendBit
  BY <1>0, <1>1 DEF WaitSendBit, Go, TypeInv, Cmd, SendPc, ReadPc
<1>2. CASE ClearRecvBit
  <2>1. recvBit' = FALSE /\ send_fail' \in [Tasks -> 0 .. MAX_SEND_FAIL]
    BY <1>0, <1>2 DEF ClearRecvBit, TypeInv
  <2>2. /\ pc["reader"] = "rclear" /\ pc' = [pc EXCEPT !["reader"] = "rwrite"]
        /\ UNCHANGED <<sendBit, recv_status, todo, env, nvs>>
    BY <1>2 DEF ClearRecvBit, Go
  <2>3. /\ pc' \in [Tasks -> {"idle", "off", "next"} \cup SendPc \cup ReadPc]
        /\ pc'["reader"] = "rwrite"
        /\ \A u \in Tasks \ {"reader"} : pc'[u] = pc[u]
    BY <1>0, <2>2 DEF TypeInv, ReadPc
  <2> QED BY <1>0, <2>1, <2>2, <2>3 DEF TypeInv, Cmd, SendPc, ReadPc, Tasks
<1>3. CASE PollWrite
  <2> DEFINE line == [by |-> "reader", cmd |-> "RECVB", val |-> NoProfile]
  <2>1. line \in Lines
    BY <1>0 DEF Lines, Vals
  <2>2. uart' = Append(uart, line)
    BY <1>3 DEF PollWrite
  <2>3. uart' \in Seq(Lines)
    BY <2>1, <2>2 DEF TypeInv
  <2> QED BY <1>0, <1>3, <2>3 DEF PollWrite, Go, TypeInv, Cmd, SendPc, ReadPc
<1>4. CASE PollAgain
  <2>1. send_fail' \in [Tasks -> 0 .. MAX_SEND_FAIL]
    BY <1>0, <1>4 DEF PollAgain, Failed, TypeInv
  <2> QED BY <1>0, <1>4, <2>1 DEF PollAgain, Go, TypeInv, Cmd, SendPc, ReadPc
<1>5. CASE PollDone
  <2>1. send_fail' \in [Tasks -> 0 .. MAX_SEND_FAIL]
    BY <1>0, <1>5 DEF PollDone, TypeInv
  <2> QED BY <1>0, <1>5, <2>1 DEF PollDone, Go, TypeInv, Cmd, SendPc, ReadPc
<1>6. CASE PollFailed
  <2>1. /\ pc["reader"] = "rdelay" /\ pc' = [pc EXCEPT !["reader"] = "next"]
        /\ todo' = [todo EXCEPT !["reader"] = lora_init]
        /\ UNCHANGED <<bits, send_fail, env, nvs>>
    BY <1>6 DEF PollFailed, Go
  <2> QED BY <1>0, <2>1, InitIsCalls, TypeStart DEF TypeInv, Cmd
<1>7. CASE SetRecvBit
  <2>1. /\ pc' \in [Tasks -> {"idle", "off", "next"} \cup SendPc \cup ReadPc]
        /\ pc'["reader"] = "rwait"
        /\ \A u \in Senders : pc'[u] = pc[u] \/ (pc[u] = "wait" /\ pc'[u] = "clear")
    BY <1>0, <1>7 DEF SetRecvBit, Release, TypeInv, SendPc, ReadPc, Tasks
  <2>2. \A u \in Tasks : pc'[u] \in SendPc => pc[u] \in SendPc
    BY <2>1 DEF Tasks, SendPc
  <2> QED BY <1>7, <2>1, <2>2 DEF SetRecvBit, TypeInv, Cmd, Tasks, SendPc, ReadPc
<1> QED BY <1>1, <1>2, <1>3, <1>4, <1>5, <1>6, <1>7 DEF readCMD

(* A line from the modem, or none, keeps the types.                        *)
LEMMA TypeModem ==
    ASSUME TypeInv, AnswerOk \/ NoOk
    PROVE  TypeInv'
<1> USE DEF bits, env
<1>0. uart # <<>> /\ Head(uart) \in Lines /\ Tail(uart) \in Seq(Lines)
  BY DEF AnswerOk, NoOk, TypeInv
<1>1. CASE AnswerOk
  <2>1. Head(uart).val \in Vals
    BY <1>0 DEF Lines
  <2>2. modem' \in [Keys -> Vals]
    BY <1>1, <2>1 DEF AnswerOk, TypeInv
  <2> QED BY <1>0, <1>1, <2>2 DEF AnswerOk, TypeInv, Cmd
<1>2. CASE NoOk
  BY <1>0, <1>2 DEF NoOk, TypeInv, Cmd
<1> QED BY <1>1, <1>2

(* Every step keeps the types.                                             *)
LEMMA TypeNext == TypeInv /\ [Next]_vars => TypeInv'
<1> SUFFICES ASSUME TypeInv, [Next]_vars PROVE TypeInv'
  OBVIOUS
<1>1. CASE UNCHANGED vars
  BY <1>1 DEF vars, bits, env, TypeInv, Cmd
<1>2. ASSUME NEW t \in Tasks, TaskStep(t) PROVE TypeInv'
  BY <1>2, TypeBetween, TypeSend DEF TaskStep, sendCMD
<1> QED BY <1>1, <1>2, TypeCallers, TypeRead, TypeModem DEF Next

(* Whatever fails, answers late or overlaps, indices, counters and pending *)
(* calls of the modem link keep their types: a task inside sendCMD() has   *)
(* its command, and no counter passes MAX_SEND_FAIL (murata_parser.c:399). *)
THEOREM TypeCorrect == Spec => []TypeOK
<1>1. TypeInv => TypeOK
  BY CallsAreItems DEF TypeInv, TypeOK, Vals
<1> QED BY <1>1, TypeInit, TypeNext, PTL DEF Spec
-----------------------------------------------------------------------------
(* The handshake of the two event bits *)

(* What HolderIsAlone rests on: the call that has the link is between its  *)
(* ClearSendBit and its end, and SEND_BIT, which is all that could let     *)
(* readCMD() start a poll, is clear.                                       *)
GrantInv ==
    /\ answered \in BOOLEAN
    /\ holder # Nobody =>
          /\ holder \in Tasks /\ pc[holder] \in {"write", "delay"}
          /\ ~sendBit
    /\ HolderIsAlone

(* A step that moves only tasks other than the holder, none of them out of *)
(* readCMD()'s wait, and leaves UART and flags alone.                      *)
LEMMA GrantKept ==
    ASSUME TypeInv, GrantInv, UNCHANGED <<sendBit, recv_status, uart, own>>,
           \A t \in Tasks : pc[t] \in {"write", "delay"} => pc'[t] \in {"write", "delay"},
           pc["reader"] \in {"off", "rwait"} /\ ~sendBit => pc'["reader"] \in {"off", "rwait"}
    PROVE  GrantInv'
BY DEF GrantInv, HolderIsAlone, own

(* Steps inside one sendCMD().                                             *)
LEMMA GrantSend ==
    ASSUME TypeInv, GrantInv, NEW t \in Tasks, sendCMD(t)
    PROVE  GrantInv'
<1> USE DEF bits, env, own
<1>t. /\ pc \in [Tasks -> {"idle", "off", "next"} \cup SendPc \cup ReadPc]
      /\ "reader" \in Tasks /\ uart \in Seq(Lines)
  BY DEF TypeInv, Tasks
<1>1. CASE Call(t)
  <2>1. /\ pc[t] = "next" /\ pc' = [pc EXCEPT ![t] = "wait"]
        /\ recv_status' = FALSE /\ UNCHANGED <<sendBit, uart, own>>
    BY <1>1 DEF Call, Go
  <2> QED BY <1>t, <2>1 DEF GrantInv, HolderIsAlone
<1>2. CASE WaitRecvBit(t) \/ Retry(t)
  <2>1. /\ UNCHANGED <<sendBit, recv_status, uart, own>>
        /\ \/ pc[t] = "wait" /\ pc' = [pc EXCEPT ![t] = "clear"]
           \/ pc[t] = "delay" /\ pc' = [pc EXCEPT ![t] = "write"]
    BY <1>2 DEF WaitRecvBit, Retry, Go
  <2> QED BY <1>t, <2>1, GrantKept
<1>3. CASE ClearSendBit(t)
  <2>1. /\ pc[t] = "clear" /\ pc' = [pc EXCEPT ![t] = "write"] /\ ~sendBit'
        /\ holder' = (IF Free THEN t ELSE Nobody) /\ answered' = FALSE
        /\ UNCHANGED <<recv_status, uart>>
    BY <1>3 DEF ClearSendBit, Go
  <2>2. CASE ~Free
    BY <2>1, <2>2 DEF GrantInv, HolderIsAlone
  <2>3. CASE Free
    <3>1. pc["reader"] \in {"off", "rwait"} /\ uart = <<>> /\ ~recv_status
      BY <2>3 DEF Free
    <3>2. pc'["reader"] = pc["reader"] /\ pc'[t] = "write"
      BY <1>t, <2>1, <3>1
    <3>3. ~recv_status' /\ ~sendBit' /\ answered' \in BOOLEAN
      BY <2>1, <3>1, Zenon
    <3>4. \A i \in DOMAIN uart' : uart'[i].by = t
      BY <2>1, <3>1
    <3>5. holder' = t
      BY <2>1, <2>3
    <3> QED BY <3>1, <3>2, <3>3, <3>4, <3>5 DEF GrantInv, HolderIsAlone
  <2> QED BY <2>2, <2>3
<1>4. CASE Write(t)
  <2> DEFINE line == [by |-> t, cmd |-> Cmd(t).arg, val |-> Cmd(t).val]
  <2>1. /\ pc[t] = "write" /\ pc' = [pc EXCEPT ![t] = "delay"]
        /\ uart' = Append(uart, line) /\ holder' = (IF holder = t THEN t ELSE Nobody)
        /\ UNCHANGED <<sendBit, recv_status, answered>>
    BY <1>4 DEF Write, Go
  <2>2. CASE holder # t
    BY <2>1, <2>2 DEF GrantInv, HolderIsAlone
  <2>3. CASE holder = t /\ t # Nobody
    <3>1. pc'["reader"] = pc["reader"] /\ pc'[t] = "delay" /\ holder' = t
      BY <1>t, <2>1, <2>3 DEF GrantInv, HolderIsAlone
    <3>2. line.by = t
      OBVIOUS
    <3> HIDE DEF line
    <3>3. \A i \in DOMAIN uart' : uart'[i].by = t
      BY <1>t, <2>1, <2>3, <3>2 DEF GrantInv, HolderIsAlone
    <3> QED BY <2>1, <2>3, <3>1, <3>3 DEF GrantInv, HolderIsAlone
  <2>4. CASE holder = t /\ t = Nobody
    BY <2>1, <2>4 DEF GrantInv, HolderIsAlone
  <2> QED BY <2>2, <2>3, <2>4
<1>5. CASE Accept(t) \/ Recover(t)
  <2>1. /\ pc[t] = "delay" /\ pc' = [pc EXCEPT ![t] = "next"]
        /\ holder' = (IF holder = t THEN Nobody ELSE holder)
        /\ UNCHANGED <<sendBit, recv_status, uart, answered>>
    BY <1>5 DEF Accept, Recover, EndCall, Go
  <2>2. CASE holder = t
    BY <2>1, <2>2 DEF GrantInv, HolderIsAlone
  <2>3. CASE holder # t
    BY <1>t, <2>1, <2>3 DEF GrantInv, HolderIsAlone
  <2> QED BY <2>2, <2>3
<1>6. CASE SetSendBit(t)
  BY <1>6 DEF SetSendBit, GrantInv, HolderIsAlone
<1> QED BY <1>1, <1>2, <1>3, <1>4, <1>5, <1>6 DEF sendCMD

(* Every step keeps GrantInv.                                              *)
LEMMA GrantNext == TypeInv /\ GrantInv /\ [Next]_vars => GrantInv'
<1> SUFFICES ASSUME TypeInv, GrantInv, [Next]_vars PROVE GrantInv'
  OBVIOUS
<1> USE DEF bits, env, own
<1>t. /\ pc \in [Tasks -> {"idle", "off", "next"} \cup SendPc \cup ReadPc]
      /\ "reader" \in Tasks /\ uart \in Seq(Lines) /\ "reader" \notin Senders
  BY AtAssumption DEF TypeInv, Tasks
<1>1. CASE UNCHANGED vars
  BY <1>1 DEF vars, GrantInv, HolderIsAlone
<1>2. CASE SendPayload \/ \E p \in Profiles : WRITE_LORAWAN_PF(p)
  <2>1. /\ UNCHANGED <<sendBit, recv_status, uart, own>>
        /\ \E t \in {"tx", "bt"} : pc[t] = "idle" /\ pc' = [pc EXCEPT ![t] = "next"]
    BY <1>2 DEF SendPayload, WRITE_LORAWAN_PF, Go
  <2> QED BY <1>t, <2>1, GrantKept
<1>3. ASSUME NEW t \in Tasks, save_string(t) \/ get_string(t) PROVE GrantInv'
  BY <1>3, GrantKept DEF save_string, get_string
<1>4. ASSUME NEW t \in Tasks, Return(t) PROVE GrantInv'
  <2>1. /\ UNCHANGED <<sendBit, recv_status, uart, own>> /\ pc[t] = "next" /\ t \in Senders
        /\ pc' = [u \in Tasks |-> IF u = t THEN "idle"
                                  ELSE IF u = "reader" /\ t = "main" THEN "rwait"
                                  ELSE pc[u]]
    BY <1>4 DEF Return
  <2>2. CASE t # "main"
    BY <1>t, <2>1, <2>2, GrantKept
  <2>3. CASE t = "main"
    <3>1. holder # Nobody => holder # t /\ holder # "reader"
      BY <2>1 DEF GrantInv, HolderIsAlone
    <3>2. pc'["reader"] = "rwait" /\ \A u \in Tasks \ {t, "reader"} : pc'[u] = pc[u]
      BY <1>t, <2>1, <2>3
    <3> QED BY <2>1, <3>1, <3>2 DEF GrantInv, HolderIsAlone
  <2> QED BY <2>2, <2>3
<1>5. CASE readCMD
  <2>1. UNCHANGED <<sendBit, recv_status, own>>
    BY <1>5 DEF readCMD, WaitSendBit, ClearRecvBit, PollWrite, PollAgain, PollDone,
                PollFailed, SetRecvBit
  <2>2. CASE SetRecvBit
    BY <1>t, <2>1, <2>2, GrantKept DEF SetRecvBit, Release
  <2>3. CASE WaitSendBit
    BY <1>t, <2>1, <2>3, GrantKept DEF WaitSendBit, Go
  <2>4. CASE ClearRecvBit \/ PollWrite \/ PollAgain \/ PollDone \/ PollFailed
    <3>1. pc["reader"] \in {"rclear", "rwrite", "rdelay"}
      BY <2>4 DEF ClearRecvBit, PollWrite, PollAgain, PollDone, PollFailed, Go
    <3> QED BY <2>1, <3>1 DEF GrantInv, HolderIsAlone
  <2> QED BY <1>5, <2>2, <2>3, <2>4 DEF readCMD
<1>6. CASE AnswerOk \/ NoOk
  <2>1. /\ uart # <<>> /\ uart' = Tail(uart) /\ UNCHANGED <<sendBit, pc, holder>>
        /\ \/ answered' = (answered \/ Head(uart).by = holder)
           \/ UNCHANGED <<recv_status, answered>>
    BY <1>6 DEF AnswerOk, NoOk
  <2>2. answered' \in BOOLEAN
    BY <2>1 DEF GrantInv
  <2>3. ASSUME holder # Nobody
        PROVE  (\A i \in DOMAIN uart' : uart'[i].by = holder) /\ Head(uart).by = holder
    <3>1. \A i \in DOMAIN uart : uart[i].by = holder
      BY <2>3 DEF GrantInv, HolderIsAlone
    <3> QED BY <1>t, <2>1, <3>1
  <2>4. ASSUME holder # Nobody PROVE recv_status' => answered'
    <3>1. Head(uart).by = holder
      BY <2>3, <2>4
    <3>2. recv_status => answered
      BY <2>4 DEF GrantInv, HolderIsAlone
    <3>3. CASE answered' = (answered \/ Head(uart).by = holder)
      BY <3>1, <3>3, Zenon
    <3>4. CASE recv_status' = recv_status /\ answered' = answered
      BY <3>2, <3>4, Zenon
    <3> QED BY <2>1, <3>3, <3>4, Zenon
  <2> QED BY <2>1, <2>2, <2>3, <2>4 DEF GrantInv, HolderIsAlone
<1> QED BY <1>1, <1>2, <1>3, <1>4, <1>5, <1>6, GrantSend DEF Next, TaskStep

(* SEND_BIT and RECV_BIT do give a sendCMD() the link to itself: if no     *)
(* poll, command or answer is under way when it clears SEND_BIT            *)
(* (murata_parser.c:408), readCMD() stays in its wait (:432) and every OK  *)
(* is the answer to this call's own command until the call ends or another *)
(* sender writes or sets the bit.                                          *)
THEOREM HolderAlone == Spec => []HolderIsAlone
<1>1. Init => GrantInv
  BY DEF Init, GrantInv, HolderIsAlone
<1>2. GrantInv => HolderIsAlone
  BY DEF GrantInv
<1> QED BY <1>1, <1>2, TypeInit, TypeNext, GrantNext, PTL DEF Spec

-----------------------------------------------------------------------------
(* The event bits *)

(* Tasks that are not in a list of calls have none, and readCMD() exists   *)
(* once app_main has returned from lora_init().                            *)
NoCallsAtRest ==
    \A t \in Tasks : pc[t] \in {"idle", "off"} \cup ReadPc => todo[t] = <<>>
ReaderAfterMain == pc["main"] = "idle" <=> pc["reader"] # "off"

PlaceInv == TypeInv /\ NoCallsAtRest /\ ReaderAfterMain /\ RecvBitHasOwner

(* Initially only app_main has calls to make, and RECV_BIT is set.         *)
LEMMA PlaceInit == Init => PlaceInv
<1> SUFFICES ASSUME Init PROVE PlaceInv
  OBVIOUS
<1>1. TypeInv
  BY TypeInit
<1>2. NoCallsAtRest
  BY DEF Init, NoCallsAtRest, ReadPc
<1>3. ReaderAfterMain /\ RecvBitHasOwner
  BY AtAssumption DEF Init, ReaderAfterMain, RecvBitHasOwner, Tasks, SendPc
<1> QED BY <1>1, <1>2, <1>3 DEF PlaceInv

(* Every step keeps tasks, lists and RECV_BIT in agreement.                *)
LEMMA PlaceNext == PlaceInv /\ [Next]_vars => PlaceInv'
<1> SUFFICES ASSUME PlaceInv, [Next]_vars PROVE PlaceInv'
  OBVIOUS
<1> USE AtAssumption DEF NoCallsAtRest, ReaderAfterMain, RecvBitHasOwner, bits
<1>0. TypeInv /\ TypeInv'
  BY TypeNext DEF PlaceInv
<1>t. "main" \in Tasks /\ "reader" \in Tasks /\ "reader" \notin Senders
  BY DEF Tasks
<1>a. NoCallsAtRest'
  <2> USE DEF PlaceInv, TypeInv
  <2>1. CASE UNCHANGED vars
    BY <2>1 DEF vars
  <2>2. CASE SendPayload
    BY <2>2 DEF SendPayload, Go, ReadPc
  <2>3. ASSUME NEW p \in Profiles, WRITE_LORAWAN_PF(p) PROVE NoCallsAtRest'
    BY <2>3 DEF WRITE_LORAWAN_PF, Go, ReadPc
  <2>4. ASSUME NEW t \in Tasks, TaskStep(t) PROVE NoCallsAtRest'
    <3>1. CASE save_string(t) \/ get_string(t)
      BY <3>1 DEF save_string, get_string, Doing, ReadPc
    <3>2. CASE Return(t)
      BY <1>t, <3>2 DEF Return, ReadPc, SendPc
    <3>3. CASE Call(t) \/ WaitRecvBit(t) \/ ClearSendBit(t) \/ Write(t) \/ Retry(t)
      BY <3>3 DEF Call, WaitRecvBit, ClearSendBit, Write, Retry, Go, ReadPc
    <3>4. CASE Accept(t) \/ Recover(t)
      BY <3>4 DEF Accept, Recover, Go, ReadPc
    <3>5. CASE SetSendBit(t)
      BY <3>5 DEF SetSendBit, Release, Doing, ReadPc
    <3> QED BY <2>4, <3>1, <3>2, <3>3, <3>4, <3>5 DEF TaskStep, sendCMD
  <2>5. CASE readCMD
    <3>1. CASE \/ WaitSendBit \/ ClearRecvBit \/ PollWrite
               \/ PollAgain \/ PollDone \/ PollFailed
      BY <3>1 DEF WaitSendBit, ClearRecvBit, PollWrite, PollAgain, PollDone,
                  PollFailed, Go, ReadPc
    <3>2. CASE SetRecvBit
      BY <3>2 DEF SetRecvBit, Release, ReadPc
    <3> QED BY <2>5, <3>1, <3>2 DEF readCMD
  <2>6. CASE AnswerOk \/ NoOk
    BY <2>6 DEF AnswerOk, NoOk
  <2> QED BY <2>1, <2>2, <2>3, <2>4, <2>5, <2>6 DEF Next
<1>b. (ReaderAfterMain /\ RecvBitHasOwner)'
  <2> USE <1>t DEF PlaceInv, TypeInv, SendPc
  <2>1. CASE UNCHANGED vars
    BY <2>1 DEF vars
  <2>2. CASE SendPayload
    BY <2>2 DEF SendPayload, Go
  <2>3. CASE \E p \in Profiles : WRITE_LORAWAN_PF(p)
    BY <2>3 DEF WRITE_LORAWAN_PF, Go
  <2>4. ASSUME NEW t \in Tasks, TaskStep(t) PROVE (ReaderAfterMain /\ RecvBitHasOwner)'
    <3>1. CASE save_string(t) \/ get_string(t)
      BY <3>1 DEF save_string, get_string
    <3>2. CASE Return(t)
      BY <3>2 DEF Return
    <3>3. CASE Call(t) \/ WaitRecvBit(t) \/ ClearSendBit(t)
      BY <3>3 DEF Call, WaitRecvBit, ClearSendBit, Doing, Go
    <3>4. CASE Write(t) \/ Retry(t) \/ Accept(t) \/ Recover(t)
      <4>1. /\ pc[t] \in {"write", "delay"} /\ recvBit' = recvBit
            /\ \E x \in {"next", "write", "delay"} : pc' = [pc EXCEPT ![t] = x]
        BY <3>4 DEF Write, Retry, Accept, Recover, Go
      <4> QED BY <4>1
    <3>5. CASE SetSendBit(t)
      BY <3>5 DEF SetSendBit, Release
    <3> QED BY <2>4, <3>1, <3>2, <3>3, <3>4, <3>5 DEF TaskStep, sendCMD
  <2>5. CASE readCMD
    <3>1. CASE \/ WaitSendBit \/ ClearRecvBit \/ PollWrite
               \/ PollAgain \/ PollDone \/ PollFailed
      BY <3>1 DEF WaitSendBit, ClearRecvBit, PollWrite, PollAgain, PollDone,
                  PollFailed, Go, ReadPc
    <3>2. CASE SetRecvBit
      BY <3>2 DEF SetRecvBit, Release
    <3> QED BY <2>5, <3>1, <3>2 DEF readCMD
  <2>6. CASE AnswerOk \/ NoOk
    BY <2>6 DEF AnswerOk, NoOk
  <2> QED BY <2>1, <2>2, <2>3, <2>4, <2>5, <2>6 DEF Next
<1> QED BY <1>0, <1>a, <1>b DEF PlaceInv

(* RECV_BIT is clear exactly while readCMD() is between its two accesses   *)
(* to it (murata_parser.c:433, :449) or in the recovery it started there.  *)
THEOREM RecvBitOwned == Spec => []RecvBitHasOwner
<1>1. PlaceInv => RecvBitHasOwner
  BY DEF PlaceInv
<1> QED BY <1>1, PlaceInit, PlaceNext, PTL DEF Spec
(* No step gets a readCMD() that waits for RECV_BIT any further.           *)
LEMMA BlockedStep ==
    PlaceInv /\ [Next]_vars =>
        [pc["reader"] = "wait" => pc'["reader"] = "wait" /\ ~recvBit']_vars
<1> SUFFICES ASSUME PlaceInv, Next, pc["reader"] = "wait"
             PROVE  pc'["reader"] = "wait" /\ ~recvBit'
  OBVIOUS
<1> USE AtAssumption DEF bits
<1>0. /\ "reader" \in Tasks /\ "reader" \notin Senders
      /\ pc \in [Tasks -> {"idle", "off", "next"} \cup SendPc \cup ReadPc]
      /\ ~recvBit /\ pc["main"] = "idle"
  BY DEF PlaceInv, TypeInv, ReaderAfterMain, RecvBitHasOwner, Tasks, SendPc
<1>1. CASE SendPayload \/ \E p \in Profiles : WRITE_LORAWAN_PF(p)
  <2>1. /\ recvBit' = recvBit
        /\ \E t \in {"tx", "bt"} : pc' = [pc EXCEPT ![t] = "next"]
    BY <1>1 DEF SendPayload, WRITE_LORAWAN_PF, Go
  <2> QED BY <1>0, <2>1
<1>2. ASSUME NEW t \in Tasks, TaskStep(t)
      PROVE  pc'["reader"] = "wait" /\ ~recvBit'
  <2>1. CASE save_string(t) \/ get_string(t)
    BY <1>0, <2>1 DEF save_string, get_string
  <2>2. CASE Return(t)
    BY <1>0, <2>2 DEF Return
  <2>3. CASE Call(t) \/ WaitRecvBit(t) \/ ClearSendBit(t) \/ Write(t) \/ Retry(t)
    BY <1>0, <2>3 DEF Call, WaitRecvBit, ClearSendBit, Write, Retry, Go
  <2>4. CASE Accept(t) \/ Recover(t)
    <3>1. recvBit' = recvBit /\ pc[t] = "delay" /\ pc' = [pc EXCEPT ![t] = "next"]
      BY <2>4 DEF Accept, Recover, Go
    <3> QED BY <1>0, <3>1
  <2>5. CASE SetSendBit(t)
    BY <1>0, <2>5 DEF SetSendBit, Release
  <2> QED BY <1>2, <2>1, <2>2, <2>3, <2>4, <2>5 DEF TaskStep, sendCMD
<1>3. CASE readCMD
  BY <1>3 DEF readCMD, WaitSendBit, ClearRecvBit, PollWrite, PollAgain, PollDone,
              PollFailed, SetRecvBit, Go
<1>4. CASE AnswerOk \/ NoOk
  BY <1>0, <1>4 DEF AnswerOk, NoOk
<1> QED BY <1>1, <1>2, <1>3, <1>4 DEF Next

(* A poll that failed MAX_SEND_FAIL times ends the link: lora_init() in    *)
(* readCMD() (murata_parser.c:445) waits for ever for the RECV_BIT that    *)
(* readCMD() itself holds clear.                                           *)
THEOREM RecoveryBlocksReader == Spec => ReaderRecoveryBlocks
<1> QED BY PlaceInit, PlaceNext, BlockedStep, PTL DEF Spec, ReaderRecoveryBlocks

-----------------------------------------------------------------------------
(* No lost wake-up of readCMD() *)

HasSet(s) == \E i \in DOMAIN s : s[i].op = "set"
EndsInSend(s) == s # <<>> => s[Len(s)].op \in {"send", "set"}

(* A list loses its head and keeps its operations otherwise.               *)
LEMMA Shortened ==
    ASSUME NEW s \in Seq(Calls), s # <<>>, EndsInSend(s),
           NEW r \in Seq(Calls), Len(r) = Len(Tail(s)),
           \A j \in 1 .. Len(r) : r[j].op = Tail(s)[j].op
    PROVE  /\ EndsInSend(r)
           /\ Head(s).op \notin {"send", "set"} => r # <<>> /\ (HasSet(s) => HasSet(r))
           /\ Head(s).op # "set" => (HasSet(s) => HasSet(r))
<1>1. Len(s) \in Nat /\ Len(s) > 0 /\ Len(r) = Len(s) - 1 /\ Len(r) \in Nat
  OBVIOUS
<1>2. \A j \in 1 .. Len(r) : r[j].op = s[j + 1].op
  BY <1>1
<1>3. EndsInSend(r)
  <2> SUFFICES ASSUME r # <<>> PROVE r[Len(r)].op \in {"send", "set"}
    BY DEF EndsInSend
  <2>1. Len(r) > 0
    BY <1>1
  <2> QED BY <1>1, <1>2, <2>1 DEF EndsInSend
<1>4. ASSUME Head(s).op # "set", HasSet(s) PROVE HasSet(r)
  <2>1. PICK i \in 1 .. Len(s) : s[i].op = "set"
    BY <1>4 DEF HasSet
  <2>2. i # 1
    BY <1>1, <1>4, <2>1
  <2>3. i - 1 \in 1 .. Len(r) /\ r[i - 1].op = "set"
    BY <1>1, <1>2, <2>1, <2>2
  <2> QED BY <2>3 DEF HasSet
<1>5. ASSUME Head(s).op \notin {"send", "set"} PROVE r # <<>>
  <2>1. s[1].op \notin {"send", "set"}
    BY <1>1, <1>5
  <2>2. Len(s) # 1
    BY <1>1, <2>1 DEF EndsInSend
  <2> QED BY <1>1, <2>2
<1> QED BY <1>3, <1>4, <1>5

(* What a finished attempt leaves to do: SEND_BIT will be set.             *)
LEMMA SetAhead ==
    ASSUME NEW p \in Seq(Calls), NEW q \in Seq(Calls), EndsInSend(q),
           NEW i \in 1 .. Len(p), p[i].op = "set", EndsInSend(p)
    PROVE  HasSet(p \o q) /\ EndsInSend(p \o q)
<1>1. /\ p \o q \in Seq(Calls)
      /\ Len(p \o q) = Len(p) + Len(q)
      /\ \A j \in 1 .. Len(p) : (p \o q)[j] = p[j]
      /\ \A j \in 1 .. Len(q) : (p \o q)[Len(p) + j] = q[j]
  BY Joined
<1>2. Len(p) \in Nat /\ Len(q) \in Nat /\ Len(p) > 0 /\ DOMAIN (p \o q) = 1 .. Len(p \o q)
  BY <1>1
<1>3. HasSet(p \o q)
  <2>1. i \in DOMAIN (p \o q) /\ (p \o q)[i].op = "set"
    BY <1>1, <1>2
  <2> QED BY <2>1 DEF HasSet
<1>4. CASE q = <<>>
  <2>1. Len(q) = 0
    BY <1>4
  <2>2. (p \o q)[Len(p \o q)] = p[Len(p)]
    BY <1>1, <1>2, <2>1
  <2> QED BY <1>2, <1>3, <2>2 DEF EndsInSend
<1>5. CASE q # <<>>
  <2>1. Len(q) > 0
    BY <1>2, <1>5
  <2>2. (p \o q)[Len(p \o q)] = q[Len(q)]
    BY <1>1, <1>2, <2>1
  <2> QED BY <1>3, <1>5, <2>2 DEF EndsInSend
<1> QED BY <1>4, <1>5
Owner(t) == pc[t] \in {"write", "delay"} \/ HasSet(todo[t])

(* While SEND_BIT is clear a sendCMD() is under way that will set it, or   *)
(* app_main is in its first lora_init(), which ends with one that will.    *)
OwnerInv ==
    /\ \A t \in Tasks : EndsInSend(todo[t])
    /\ ~sendBit /\ todo["main"] = <<>> => \E t \in Tasks : Owner(t)

(* A step of one task keeps OwnerInv if it sets SEND_BIT, makes the task   *)
(* an owner, or leaves an owner one and app_main's list as empty as it was.*)
LEMMA OwnerStep ==
    ASSUME OwnerInv, NEW t \in Tasks,
           EndsInSend(todo'[t]),
           \A u \in Tasks \ {t} : todo'[u] = todo[u] /\ (Owner(u) => Owner(u)'),
           \/ sendBit'
           \/ Owner(t)'
           \/ /\ sendBit' = sendBit /\ (Owner(t) => Owner(t)')
              /\ todo'["main"] = <<>> => todo["main"] = <<>>
    PROVE  OwnerInv'
<1>1. (\A u \in Tasks : EndsInSend(todo[u]))'
  BY DEF OwnerInv
<1>2. (~sendBit /\ todo["main"] = <<>> => \E u \in Tasks : Owner(u))'
  BY DEF OwnerInv
<1> QED BY <1>1, <1>2 DEF OwnerInv

(* A new payload or Bluetooth command keeps OwnerInv.                      *)
LEMMA OwnerCallers ==
    ASSUME PlaceInv, OwnerInv,
           SendPayload \/ \E p \in Profiles : WRITE_LORAWAN_PF(p)
    PROVE  OwnerInv'
<1> USE AtAssumption
<1>0. ASSUME NEW t \in {"tx", "bt"}, t \in Tasks, NEW s,
             pc[t] = "idle", pc' = [pc EXCEPT ![t] = "next"],
             todo' = [todo EXCEPT ![t] = s], EndsInSend(s), sendBit' = sendBit
      PROVE  OwnerInv'
  <2>1. todo'[t] = s /\ \A u \in Tasks \ {t} : todo'[u] = todo[u] /\ pc'[u] = pc[u]
    BY <1>0 DEF PlaceInv, TypeInv
  <2>2. todo[t] = <<>> /\ ~Owner(t)
    BY <1>0 DEF PlaceInv, NoCallsAtRest, Owner, HasSet
  <2>3. "main" \in Tasks \ {t}
    BY DEF Tasks
  <2>4. \A u \in Tasks \ {t} : Owner(u) => Owner(u)'
    BY <2>1 DEF Owner
  <2> QED BY <1>0, <2>1, <2>2, <2>3, <2>4, OwnerStep
<1>1. CASE SendPayload
  <2>1. EndsInSend(<<Send("SENDB")>>)
    BY DEF EndsInSend, Send
  <2>2. /\ "tx" \in Tasks /\ pc["tx"] = "idle" /\ pc' = [pc EXCEPT !["tx"] = "next"]
        /\ todo' = [todo EXCEPT !["tx"] = <<Send("SENDB")>>] /\ sendBit' = sendBit
    BY <1>1 DEF SendPayload, Go, Tasks, bits
  <2> QED BY <1>0, <2>1, <2>2
<1>2. ASSUME NEW p \in Profiles, WRITE_LORAWAN_PF(p) PROVE OwnerInv'
  <2> DEFINE saves == [i \in DOMAIN KeyOrder |-> Save(KeyOrder[i], p)]
  <2>1. /\ "bt" \in Tasks /\ pc["bt"] = "idle" /\ pc' = [pc EXCEPT !["bt"] = "next"]
        /\ todo' = [todo EXCEPT !["bt"] = saves \o lora_init] /\ sendBit' = sendBit
    BY <1>2 DEF WRITE_LORAWAN_PF, Go, Tasks, PerKey, bits
  <2>2. saves \in Seq(Calls)
    BY SavesAreCalls
  <2> HIDE DEF saves
  <2>3. /\ Len(saves \o lora_init) = Len(saves) + Len(lora_init)
        /\ \A i \in 1 .. Len(lora_init) :
              (saves \o lora_init)[Len(saves) + i] = lora_init[i]
    BY <2>2, InitIsCalls, Joined
  <2>4. Len(lora_init) \in 1 .. Len(lora_init)
    BY InitIsCalls
  <2>5. EndsInSend(saves \o lora_init)
    BY <2>3, <2>4, InitIsCalls DEF EndsInSend
  <2> QED BY <1>0, <2>1, <2>5
<1> QED BY <1>1, <1>2

(* Steps between two sendCMD() keep OwnerInv.                              *)
LEMMA OwnerBetween ==
    ASSUME PlaceInv, OwnerInv, NEW t \in Tasks,
           save_string(t) \/ get_string(t) \/ Return(t) \/ SetSendBit(t)
    PROVE  OwnerInv'
<1> USE AtAssumption DEF bits
<1>t. "main" \in Tasks /\ todo \in [Tasks -> Seq(Calls)]
  BY DEF PlaceInv, TypeInv, Tasks
<1>0. ASSUME NEW op, Doing(t, op)
      PROVE  /\ todo[t] \in Seq(Calls) /\ todo[t] # <<>> /\ EndsInSend(todo[t])
             /\ Head(todo[t]).op = op /\ Tail(todo[t]) \in Seq(Calls)
             /\ pc[t] = "next"
  BY <1>0, HeadIsCall DEF Doing, PlaceInv, TypeInv, OwnerInv, Cmd
<1>1. ASSUME NEW r \in Seq(Calls), Len(r) = Len(Tail(todo[t])),
             \A j \in 1 .. Len(r) : r[j].op = Tail(todo[t])[j].op,
             NEW op \in {"load", "save"}, Doing(t, op),
             todo' = [todo EXCEPT ![t] = r], UNCHANGED <<pc, sendBit>>
      PROVE  OwnerInv'
  <2>1. EndsInSend(r) /\ r # <<>> /\ (HasSet(todo[t]) => HasSet(r))
    BY <1>0, <1>1, Shortened
  <2>2. todo'[t] = r /\ \A u \in Tasks \ {t} : todo'[u] = todo[u]
    BY <1>t, <1>1
  <2>3. Owner(t) => Owner(t)'
    BY <1>1, <2>1, <2>2 DEF Owner
  <2>4. \A u \in Tasks \ {t} : Owner(u) => Owner(u)'
    BY <1>1, <2>2 DEF Owner
  <2>5. todo'["main"] = <<>> => todo["main"] = <<>>
    BY <1>t, <2>1, <2>2
  <2> QED BY <1>1, <2>1, <2>2, <2>3, <2>4, <2>5, OwnerStep
<1>2. CASE save_string(t)
  <2>1. Doing(t, "save") /\ Tail(todo[t]) \in Seq(Calls)
    BY <1>0, <1>2 DEF save_string
  <2>2. todo' = [todo EXCEPT ![t] = Tail(todo[t])] /\ UNCHANGED <<pc, sendBit>>
    BY <1>2 DEF save_string
  <2> QED BY <1>1, <2>1, <2>2
<1>3. CASE get_string(t)
  <2> DEFINE k == Cmd(t).arg
             rest == Tail(todo[t])
             r == [rest EXCEPT ![Carrier(rest, k)].val = nvs[k]]
  <2>1. Doing(t, "load") /\ rest \in Seq(Calls)
    BY <1>0, <1>3 DEF get_string
  <2>2. Cmd(t) \in Calls /\ Cmd(t).op = "load"
    BY <1>0, <2>1, HeadIsCall DEF Cmd
  <2>3. nvs[k] \in Profiles
    BY <2>2 DEF Calls, PlaceInv, TypeInv
  <2>4. todo' = [todo EXCEPT ![t] = r] /\ UNCHANGED <<pc, sendBit>>
    BY <1>3 DEF get_string
  <2>5. r \in Seq(Calls)
    BY <2>1, <2>3, PatchedCalls
  <2>6. Len(r) = Len(rest)
    BY <2>1, <2>3, PatchedCalls
  <2>7. \A j \in 1 .. Len(rest) : r[j].op = rest[j].op
    <3> HIDE DEF rest
    <3> QED BY <2>1, <2>3, PatchedCalls
  <2> HIDE DEF r
  <2> QED BY <1>1, <2>1, <2>4, <2>5, <2>6, <2>7
<1>4. CASE Return(t)
  <2>1. todo' = todo /\ sendBit' = sendBit
    BY <1>4 DEF Return
  <2>2. \A u \in Tasks : pc[u] \in {"write", "delay"} => pc'[u] = pc[u]
    <3>1. pc[t] = "next" /\ (t = "main" => pc["reader"] = "off")
      BY <1>4 DEF Return, PlaceInv, ReaderAfterMain
    <3> QED BY <1>4, <3>1 DEF Return
  <2>3. \A u \in Tasks : Owner(u) => Owner(u)'
    BY <2>1, <2>2 DEF Owner
  <2> QED BY <2>1, <2>3, OwnerStep DEF OwnerInv
<1>5. CASE SetSendBit(t)
  <2>1. /\ sendBit' = TRUE /\ Doing(t, "set")
        /\ todo' = [todo EXCEPT ![t] = Tail(todo[t])]
    BY <1>5 DEF SetSendBit
  <2>2. EndsInSend(Tail(todo[t]))
    BY <1>0, <2>1, Shortened
  <2>3. \A u \in Tasks : EndsInSend(todo'[u])
    BY <1>t, <2>1, <2>2 DEF OwnerInv
  <2> QED BY <2>1, <2>3 DEF OwnerInv
<1> QED BY <1>2, <1>3, <1>4, <1>5
(* Steps inside a sendCMD() keep OwnerInv.                                 *)
LEMMA OwnerSend ==
    ASSUME PlaceInv, OwnerInv, NEW t \in Tasks,
           \/ Call(t) \/ WaitRecvBit(t) \/ ClearSendBit(t) \/ Write(t)
           \/ Retry(t) \/ Accept(t) \/ Recover(t)
    PROVE  OwnerInv'
<1> USE AtAssumption DEF bits
<1>0. /\ todo[t] \in Seq(Calls) /\ EndsInSend(todo[t])
      /\ todo \in [Tasks -> Seq(Calls)]
      /\ pc \in [Tasks -> {"idle", "off", "next"} \cup SendPc \cup ReadPc]
  BY DEF PlaceInv, TypeInv, OwnerInv
<1>1. PICK x : pc' = [pc EXCEPT ![t] = x]
  BY DEF Call, WaitRecvBit, ClearSendBit, Write, Retry, Accept, Recover, Go
<1>2. pc'[t] = x /\ \A u \in Tasks \ {t} : pc'[u] = pc[u]
  BY <1>0, <1>1
<1>3. CASE Call(t) \/ WaitRecvBit(t)
  <2>1. todo' = todo /\ sendBit' = sendBit /\ pc[t] \notin {"write", "delay"}
    BY <1>3 DEF Call, WaitRecvBit, Go
  <2>2. \A u \in Tasks : Owner(u) => Owner(u)'
    BY <1>2, <2>1 DEF Owner
  <2> QED BY <1>0, <2>1, <2>2, OwnerStep
<1>4. CASE ClearSendBit(t) \/ Write(t) \/ Retry(t)
  <2>1. todo' = todo
    BY <1>4 DEF ClearSendBit, Write, Retry
  <2>2. pc'[t] \in {"write", "delay"}
    BY <1>0, <1>4 DEF ClearSendBit, Write, Retry, Go
  <2>3. Owner(t)'
    BY <2>2 DEF Owner
  <2>4. \A u \in Tasks \ {t} : Owner(u) => Owner(u)'
    BY <1>2, <2>1 DEF Owner
  <2> QED BY <1>0, <2>1, <2>3, <2>4, OwnerStep
<1>5. ASSUME NEW s, todo' = [todo EXCEPT ![t] = s], HasSet(s), EndsInSend(s)
      PROVE  OwnerInv'
  <2>1. todo'[t] = s /\ \A u \in Tasks \ {t} : todo'[u] = todo[u]
    BY <1>0, <1>5
  <2>2. Owner(t)'
    BY <1>5, <2>1 DEF Owner
  <2>3. \A u \in Tasks \ {t} : Owner(u) => Owner(u)'
    BY <1>2, <2>1 DEF Owner
  <2> QED BY <1>5, <2>1, <2>2, <2>3, OwnerStep
<1>6. CASE Accept(t) \/ Recover(t)
  <2>1. pc[t] = "delay"
    BY <1>6 DEF Accept, Recover, Go
  <2>2. todo[t] # <<>> /\ Cmd(t) \in Calls /\ Tail(todo[t]) \in Seq(Calls)
    BY <2>1, HeadIsCall DEF PlaceInv, TypeInv, SendPc, Cmd
  <2>3. EndsInSend(Tail(todo[t]))
    BY <1>0, <2>2, Shortened
  <2>4. SetSend \in Calls /\ SetSend.op = "set"
    BY SetSendIsCall DEF SetSend
  <2>5. CASE Accept(t)
    <3> DEFINE p == <<SetSend>>
    <3>1. p \in Seq(Calls) /\ 1 \in 1 .. Len(p) /\ p[1].op = "set" /\ EndsInSend(p)
      BY <2>4 DEF EndsInSend
    <3>2. todo' = [todo EXCEPT ![t] = p \o Tail(todo[t])]
      BY <2>5 DEF Accept
    <3> HIDE DEF p
    <3>3. HasSet(p \o Tail(todo[t])) /\ EndsInSend(p \o Tail(todo[t]))
      BY <2>2, <2>3, <3>1, SetAhead
    <3> QED BY <1>5, <3>2, <3>3
  <2>6. CASE Recover(t)
    <3> DEFINE q == <<Cmd(t), SetSend>>
               p == lora_init \o q
    <3>1. q \in Seq(Calls) /\ Len(q) = 2 /\ q[2].op = "set"
      BY <2>2, <2>4
    <3>2. todo' = [todo EXCEPT ![t] = p \o Tail(todo[t])]
      BY <2>6 DEF Recover
    <3> HIDE DEF q
    <3>3. /\ p \in Seq(Calls) /\ Len(p) = Len(lora_init) + Len(q)
          /\ \A i \in 1 .. Len(q) : p[Len(lora_init) + i] = q[i]
      BY <3>1, InitIsCalls, Joined
    <3> HIDE DEF p
    <3>4. Len(p) \in 1 .. Len(p) /\ p[Len(p)].op = "set"
      BY <3>1, <3>3, InitIsCalls
    <3>5. EndsInSend(p)
      BY <3>4 DEF EndsInSend
    <3>6. HasSet(p \o Tail(todo[t])) /\ EndsInSend(p \o Tail(todo[t]))
      BY <2>2, <2>3, <3>3, <3>4, <3>5, SetAhead
    <3> QED BY <1>5, <3>2, <3>6
  <2> QED BY <1>6, <2>5, <2>6
<1> QED BY <1>3, <1>4, <1>6

(* Steps of readCMD() keep OwnerInv.                                       *)
LEMMA OwnerRead ==
    ASSUME PlaceInv, OwnerInv, readCMD
    PROVE  OwnerInv'
<1> USE AtAssumption DEF bits
<1>t. /\ "reader" \in Tasks /\ "main" \in Tasks \ {"reader"}
      /\ todo \in [Tasks -> Seq(Calls)]
      /\ pc \in [Tasks -> {"idle", "off", "next"} \cup SendPc \cup ReadPc]
  BY DEF PlaceInv, TypeInv, Tasks
<1>1. pc["reader"] \in ReadPc /\ sendBit' = sendBit
  BY DEF readCMD, WaitSendBit, ClearRecvBit, PollWrite, PollAgain, PollDone,
         PollFailed, SetRecvBit, Go, ReadPc
<1>2. \A u \in Tasks \ {"reader"} : pc[u] \in {"write", "delay"} => pc'[u] = pc[u]
  <2>1. CASE SetRecvBit
    BY <1>t, <2>1 DEF SetRecvBit, Release
  <2>2. CASE ~SetRecvBit
    BY <1>t, <2>2 DEF readCMD, WaitSendBit, ClearRecvBit, PollWrite, PollAgain,
                      PollDone, PollFailed, Go
  <2> QED BY <2>1, <2>2
<1>3. todo' = todo \/ todo' = [todo EXCEPT !["reader"] = lora_init]
  BY DEF readCMD, WaitSendBit, ClearRecvBit, PollWrite, PollAgain, PollDone,
         PollFailed, SetRecvBit
<1>4. todo["reader"] = <<>> /\ ~Owner("reader")
  BY <1>t, <1>1 DEF PlaceInv, NoCallsAtRest, Owner, HasSet, ReadPc
<1>5. EndsInSend(todo'["reader"])
  BY <1>t, <1>3, <1>4, InitIsCalls DEF EndsInSend
<1>6. \A u \in Tasks \ {"reader"} : todo'[u] = todo[u] /\ (Owner(u) => Owner(u)')
  BY <1>t, <1>2, <1>3 DEF Owner
<1> QED BY <1>t, <1>1, <1>4, <1>5, <1>6, OwnerStep

(* Every step keeps OwnerInv.                                              *)
LEMMA OwnerNext == PlaceInv /\ OwnerInv /\ [Next]_vars => OwnerInv'
<1> SUFFICES ASSUME PlaceInv, OwnerInv, [Next]_vars PROVE OwnerInv'
  OBVIOUS
<1>1. CASE UNCHANGED vars \/ AnswerOk \/ NoOk
  <2>1. UNCHANGED <<pc, todo, sendBit>>
    BY <1>1 DEF vars, bits, AnswerOk, NoOk
  <2> QED BY <2>1 DEF OwnerInv, Owner
<1>2. ASSUME NEW t \in Tasks, TaskStep(t) PROVE OwnerInv'
  BY <1>2, OwnerBetween, OwnerSend DEF TaskStep, sendCMD
<1> QED BY <1>1, <1>2, OwnerCallers, OwnerRead DEF Next

(* readCMD() never waits for a SEND_BIT that nobody will set: while the    *)
(* bit is clear some task is between clearing it (murata_parser.c:408) and *)
(* setting it (:425), through any depth of recoveries.                     *)
THEOREM SendBitOwned == Spec => []SendBitHasOwner
<1>1. Init => OwnerInv
  BY AtAssumption, InitIsCalls DEF Init, OwnerInv, EndsInSend, Tasks
<1>2. PlaceInv /\ OwnerInv => SendBitHasOwner
  <2> SUFFICES ASSUME PlaceInv, OwnerInv, ~sendBit, pc["reader"] # "off"
               PROVE  \E t \in Tasks : Owner(t)
    BY DEF SendBitHasOwner, Owner, HasSet
  <2>1. pc["main"] = "idle" /\ "main" \in Tasks
    BY AtAssumption DEF PlaceInv, ReaderAfterMain, Tasks
  <2> QED BY <2>1 DEF PlaceInv, NoCallsAtRest, OwnerInv
<1> QED BY <1>1, <1>2, PlaceInit, PlaceNext, OwnerNext, PTL DEF Spec
=============================================================================
