------------------------- MODULE AtCredentialProofs -------------------------
(***************************************************************************)
(* The credentials the modem ends up with, for every set of senders, every *)
(* order of credentials, late answers, retries, losses of other commands   *)
(* and recoveries nested in lora_init().                                   *)
(***************************************************************************)
EXTENDS AtLinkProofs, WellFoundedInduction

(* The modem answers the commands that carry credentials.  Any OK counts   *)
(* for the command under way: the late OK of the command before a lost one *)
(* has sendCMD() take the lost one for accepted.                           *)
CredentialsAnswered == MayFail \cap Keys = {}

IsSend(c, k) == c.op = "send" /\ c.arg = k
IsLoad(c, k) == c.op = "load" /\ c.arg = k

NoSaves(L) == \A i \in 1 .. Len(L) : L[i].op # "save"
Pending(L, k) == \E i \in 1 .. Len(L) : IsSend(L[i], k)

(* The i-th call will be filled by a get_string() before it.               *)
Loaded(L, i, k) ==
    \E j \in 1 .. i - 1 : /\ IsLoad(L[j], k)
                          /\ \A m \in j + 1 .. i - 1 : ~IsSend(L[m], k)

(* Every credential a list sends is the stored one, or will be.            *)
Filled(L, stored) ==
    \A i \in 1 .. Len(L), k \in Keys : IsSend(L[i], k) =>
        \/ Loaded(L, i, k)
        \/ L[i].val = stored[k] /\ NoSaves(L)

(* Credentials are saved before anything else, and all are sent then.      *)
SavesFirst(L) ==
    \A j \in 1 .. Len(L) : L[j].op = "save" =>
        /\ \A m \in 1 .. j : L[m].op = "save"
        /\ \A k \in Keys : Pending(L, k)

(* Once it has read every command the modem has v for the credential k.    *)
Reaches(lines, has, k, v) ==
    \/ \E i \in 1 .. Len(lines) :
          /\ lines[i].cmd = k /\ lines[i].val = v
          /\ \A m \in i + 1 .. Len(lines) : lines[m].cmd # k
    \/ has[k] = v /\ \A i \in 1 .. Len(lines) : lines[i].cmd # k

Delivered(k) == Reaches(uart, modem, k, nvs[k])

Sole == \A t, u \in Tasks : Initialising(t) /\ Initialising(u) => t = u

CredInv ==
    ~overlapped =>
        /\ Sole
        /\ \A t \in Tasks : Filled(todo[t], nvs) /\ SavesFirst(todo[t])
        /\ \A k \in Keys : Delivered(k) \/ \E t \in Tasks : Pending(todo[t], k)
        /\ \A t \in Tasks, k \in Keys :
              pc[t] = "delay" /\ Cmd(t).arg = k => Delivered(k)

-----------------------------------------------------------------------------
(* Lists of calls *)

(* The calls of a tail are those behind the head.                          *)
LEMMA TailCalls ==
    ASSUME NEW L \in Seq(Calls), L # <<>>
    PROVE  /\ Tail(L) \in Seq(Calls) /\ Len(L) \in Nat /\ Len(L) >= 1
           /\ Len(Tail(L)) = Len(L) - 1 /\ Head(L) = L[1]
           /\ \A i \in 1 .. Len(Tail(L)) : i + 1 \in 1 .. Len(L) /\ Tail(L)[i] = L[i + 1]
OBVIOUS

(* A list without its head is filled as before, unless the head had still  *)
(* to fill or to save a credential.                                        *)
LEMMA FilledTail ==
    ASSUME NEW L \in Seq(Calls), L # <<>>, NEW stored,
           Filled(L, stored), Head(L).op \notin {"load", "save"}
    PROVE  Filled(Tail(L), stored)
<1> DEFINE M == Tail(L)
<1>1. /\ M \in Seq(Calls) /\ Len(L) \in Nat /\ Len(M) = Len(L) - 1 /\ Head(L) = L[1]
      /\ \A i \in 1 .. Len(M) : i + 1 \in 1 .. Len(L) /\ M[i] = L[i + 1]
  BY TailCalls
<1> HIDE DEF M
<1> SUFFICES ASSUME NEW i \in 1 .. Len(M), NEW k \in Keys, IsSend(M[i], k)
             PROVE  Loaded(M, i, k) \/ (M[i].val = stored[k] /\ NoSaves(M))
  BY DEF Filled, M
<1>2. IsSend(L[i + 1], k) /\ i + 1 \in 1 .. Len(L)
  BY <1>1
<1>3. CASE Loaded(L, i + 1, k)
  <2>1. PICK j \in 1 .. (i + 1) - 1 : /\ IsLoad(L[j], k)
                                      /\ \A m \in j + 1 .. (i + 1) - 1 : ~IsSend(L[m], k)
    BY <1>3 DEF Loaded
  <2>2. j # 1
    BY <1>1, <2>1 DEF IsLoad
  <2>3. /\ j - 1 \in 1 .. i - 1 /\ j - 1 \in 1 .. Len(M) /\ (j - 1) + 1 = j
        /\ \A m \in (j - 1) + 1 .. i - 1 : m \in 1 .. Len(M) /\ m + 1 \in j + 1 .. (i + 1) - 1
    BY <1>1, <2>1, <2>2
  <2>4. IsLoad(M[j - 1], k) /\ \A m \in (j - 1) + 1 .. i - 1 : ~IsSend(M[m], k)
    BY <1>1, <2>1, <2>3
  <2> QED BY <2>3, <2>4 DEF Loaded
<1>4. CASE L[i + 1].val = stored[k] /\ NoSaves(L)
  BY <1>1, <1>4 DEF NoSaves
<1> QED BY <1>2, <1>3, <1>4 DEF Filled

(* Two filled lists make a filled list when neither saves.                 *)
LEMMA FilledJoin ==
    ASSUME NEW p \in Seq(Calls), NEW q \in Seq(Calls), NEW stored,
           Filled(p, stored), Filled(q, stored), NoSaves(p), NoSaves(q)
    PROVE  Filled(p \o q, stored) /\ NoSaves(p \o q)
<1> DEFINE L == p \o q
<1>1. /\ Len(p) \in Nat /\ Len(q) \in Nat /\ Len(L) = Len(p) + Len(q)
      /\ \A i \in 1 .. Len(p) : L[i] = p[i]
      /\ \A i \in 1 .. Len(q) : L[Len(p) + i] = q[i]
  BY Joined
<1> HIDE DEF L
<1>2. \A i \in 1 .. Len(L) : i \in 1 .. Len(p) \/ (i - Len(p) \in 1 .. Len(q)
                                                   /\ i = Len(p) + (i - Len(p)))
  BY <1>1
<1>3. NoSaves(L)
  BY <1>1, <1>2 DEF NoSaves
<1>4. ASSUME NEW i \in 1 .. Len(L), NEW k \in Keys, IsSend(L[i], k)
      PROVE  Loaded(L, i, k) \/ L[i].val = stored[k]
  <2>1. CASE i \in 1 .. Len(p)
    <3>1. L[i] = p[i]
      BY <1>1, <2>1
    <3>2. CASE Loaded(p, i, k)
      <4>1. PICK j \in 1 .. i - 1 : /\ IsLoad(p[j], k)
                                    /\ \A m \in j + 1 .. i - 1 : ~IsSend(p[m], k)
        BY <3>2 DEF Loaded
      <4>2. j \in 1 .. Len(p) /\ \A m \in j + 1 .. i - 1 : m \in 1 .. Len(p)
        BY <1>1, <2>1, <4>1
      <4>3. IsLoad(L[j], k) /\ \A m \in j + 1 .. i - 1 : ~IsSend(L[m], k)
        BY <1>1, <4>1, <4>2
      <4> QED BY <4>1, <4>3 DEF Loaded
    <3> QED BY <1>4, <2>1, <3>1, <3>2 DEF Filled
  <2>2. CASE i - Len(p) \in 1 .. Len(q) /\ i = Len(p) + (i - Len(p))
    <3> DEFINE x == i - Len(p)
    <3>1. x \in 1 .. Len(q) /\ i = Len(p) + x /\ L[i] = q[x]
      BY <1>1, <2>2
    <3> HIDE DEF x
    <3>2. CASE Loaded(q, x, k)
      <4>1. PICK j \in 1 .. x - 1 : /\ IsLoad(q[j], k)
                                    /\ \A m \in j + 1 .. x - 1 : ~IsSend(q[m], k)
        BY <3>2 DEF Loaded
      <4>2. /\ j \in 1 .. Len(q) /\ Len(p) + j \in 1 .. i - 1
            /\ \A m \in (Len(p) + j) + 1 .. i - 1 :
                  /\ m - Len(p) \in j + 1 .. x - 1 /\ m - Len(p) \in 1 .. Len(q)
                  /\ m = Len(p) + (m - Len(p))
        BY <1>1, <3>1, <4>1
      <4>3. /\ IsLoad(L[Len(p) + j], k)
            /\ \A m \in (Len(p) + j) + 1 .. i - 1 : ~IsSend(L[m], k)
        BY <1>1, <4>1, <4>2
      <4> QED BY <4>2, <4>3 DEF Loaded
    <3> QED BY <1>4, <3>1, <3>2 DEF Filled
  <2> QED BY <1>2, <2>1, <2>2
<1>5. Filled(L, stored)
  BY <1>3, <1>4 DEF Filled
<1> QED BY <1>3, <1>5 DEF L

(* A call that is pending in either list is pending in both.               *)
LEMMA PendingJoin ==
    ASSUME NEW p \in Seq(Calls), NEW q \in Seq(Calls), NEW k
    PROVE  Pending(p, k) \/ Pending(q, k) => Pending(p \o q, k)
<1> DEFINE L == p \o q
<1>1. /\ Len(p) \in Nat /\ Len(q) \in Nat /\ Len(L) = Len(p) + Len(q)
      /\ \A i \in 1 .. Len(p) : L[i] = p[i]
      /\ \A i \in 1 .. Len(q) : L[Len(p) + i] = q[i]
  BY Joined
<1> HIDE DEF L
<1>2. /\ \A i \in 1 .. Len(p) : i \in 1 .. Len(L)
      /\ \A i \in 1 .. Len(q) : Len(p) + i \in 1 .. Len(L)
  BY <1>1
<1>3. Pending(p, k) \/ Pending(q, k) => Pending(L, k)
  BY <1>1, <1>2 DEF Pending
<1> QED BY <1>3 DEF L

(* The calls of lora_init(), one by one.                                   *)
LEMMA InitParts ==
    LET n == Len(KeyOrder) IN
    /\ n \in Nat
    /\ Len(lora_init) = 2 * n + 4
    /\ lora_init[1] = Send("AT") /\ lora_init[2] = Send("ATZ")
    /\ \A i \in 1 .. n : lora_init[2 + i] = Load(KeyOrder[i])
    /\ lora_init[n + 3] = Send("cfg")
    /\ \A i \in 1 .. n : lora_init[n + 3 + i] = Send(KeyOrder[i])
    /\ lora_init[2 * n + 4] = Send("cfg")
<1> DEFINE n == Len(KeyOrder)
           a == <<Send("AT"), Send("ATZ")>>
           b == PerKey(Load)
           c == PerKey(Send)
           d == <<Send("cfg")>>
           ab == a \o b
           abd == ab \o d
           abdc == abd \o c
           all == abdc \o d
<1>1. a \in Seq(Calls) /\ Len(a) = 2 /\ a[1] = Send("AT") /\ a[2] = Send("ATZ")
  <2>1. Send("AT") \in Calls /\ Send("ATZ") \in Calls
    BY SendIsCall DEF Names
  <2> QED BY <2>1
<1>2. d \in Seq(Calls) /\ Len(d) = 1 /\ d[1] = Send("cfg")
  <2>1. Send("cfg") \in Calls
    BY SendIsCall DEF Names
  <2> QED BY <2>1, Singleton
<1>3. n \in Nat /\ DOMAIN KeyOrder = 1 .. n
  BY KeyOrderIsSeq
<1>4. b \in Seq(Calls) /\ Len(b) = n /\ \A i \in 1 .. n : b[i] = Load(KeyOrder[i])
  BY <1>3, LoadsAreCalls DEF PerKey
<1>5. c \in Seq(Calls) /\ Len(c) = n /\ \A i \in 1 .. n : c[i] = Send(KeyOrder[i])
  BY <1>3, SendsAreCalls DEF PerKey
<1>6. lora_init = all
  BY DEF lora_init
<1> HIDE DEF n, a, b, c, d
<1>7. /\ ab \in Seq(Calls) /\ Len(ab) = 2 + n
      /\ \A i \in 1 .. 2 : ab[i] = a[i]
      /\ \A i \in 1 .. n : ab[2 + i] = b[i]
  <2>1. /\ ab \in Seq(Calls) /\ Len(ab) = Len(a) + Len(b)
        /\ \A i \in 1 .. Len(a) : ab[i] = a[i]
        /\ \A i \in 1 .. Len(b) : ab[Len(a) + i] = b[i]
    BY <1>1, <1>4, Joined
  <2> QED BY <1>1, <1>4, <2>1
<1> HIDE DEF ab
<1>8. /\ abd \in Seq(Calls) /\ Len(abd) = n + 3
      /\ \A i \in 1 .. 2 + n : abd[i] = ab[i]
      /\ abd[n + 3] = d[1]
  <2>1. /\ abd \in Seq(Calls) /\ Len(abd) = (2 + n) + 1
        /\ \A i \in 1 .. 2 + n : abd[i] = ab[i]
        /\ \A i \in 1 .. 1 : abd[(2 + n) + i] = d[i]
    BY <1>2, <1>7, Joined
  <2>2. (2 + n) + 1 = n + 3 /\ 1 \in 1 .. 1
    BY <1>3
  <2> QED BY <2>1, <2>2
<1> HIDE DEF abd
<1>9. /\ abdc \in Seq(Calls) /\ Len(abdc) = (n + 3) + n
      /\ \A i \in 1 .. n + 3 : abdc[i] = abd[i]
      /\ \A i \in 1 .. n : abdc[n + 3 + i] = c[i]
  <2>1. /\ abdc \in Seq(Calls) /\ Len(abdc) = Len(abd) + Len(c)
        /\ \A i \in 1 .. Len(abd) : abdc[i] = abd[i]
        /\ \A i \in 1 .. Len(c) : abdc[Len(abd) + i] = c[i]
    BY <1>5, <1>8, Joined
  <2> QED BY <1>5, <1>8, <2>1
<1> HIDE DEF abdc
<1>10. /\ Len(all) = 2 * n + 4
       /\ \A i \in 1 .. 2 * n + 3 : all[i] = abdc[i]
       /\ all[2 * n + 4] = d[1]
  <2>1. /\ Len(all) = ((n + 3) + n) + 1
        /\ \A i \in 1 .. (n + 3) + n : all[i] = abdc[i]
        /\ \A i \in 1 .. 1 : all[((n + 3) + n) + i] = d[i]
    <3>1. /\ Len(all) = Len(abdc) + Len(d)
          /\ \A i \in 1 .. Len(abdc) : all[i] = abdc[i]
          /\ \A i \in 1 .. Len(d) : all[Len(abdc) + i] = d[i]
      BY <1>2, <1>9, Joined
    <3> QED BY <1>2, <1>9, <3>1
  <2>2. ((n + 3) + n) + 1 = 2 * n + 4 /\ (n + 3) + n = 2 * n + 3 /\ 1 \in 1 .. 1
    BY <1>3
  <2> QED BY <2>1, <2>2
<1> HIDE DEF all
<1>11. /\ {1, 2} \subseteq 1 .. 2 /\ {1, 2} \subseteq 1 .. 2 + n
       /\ {1, 2} \subseteq 1 .. n + 3 /\ {1, 2} \subseteq 1 .. 2 * n + 3
       /\ n + 3 \in 1 .. n + 3 /\ n + 3 \in 1 .. 2 * n + 3
  BY <1>3
<1>12. \A i \in 1 .. n : /\ 2 + i \in 1 .. 2 + n /\ 2 + i \in 1 .. n + 3
                         /\ 2 + i \in 1 .. 2 * n + 3 /\ n + 3 + i \in 1 .. 2 * n + 3
  BY <1>3
<1>13. all[1] = Send("AT") /\ all[2] = Send("ATZ") /\ all[n + 3] = Send("cfg")
  BY <1>1, <1>2, <1>7, <1>8, <1>9, <1>10, <1>11
<1>14. \A i \in 1 .. n : all[2 + i] = Load(KeyOrder[i])
  <2> TAKE i \in 1 .. n
  <2>1. all[2 + i] = abdc[2 + i] /\ abdc[2 + i] = abd[2 + i] /\ abd[2 + i] = ab[2 + i]
    BY <1>8, <1>9, <1>10, <1>12
  <2> QED BY <1>4, <1>7, <2>1
<1>15. \A i \in 1 .. n : all[n + 3 + i] = Send(KeyOrder[i])
  BY <1>5, <1>9, <1>10, <1>12
<1> QED BY <1>2, <1>3, <1>6, <1>10, <1>13, <1>14, <1>15 DEF n

(* Each credential lora_init() sends is read from NVS before, and each is  *)
(* sent; nothing is saved.                                                 *)
LEMMA InitLoads ==
    /\ NoSaves(lora_init)
    /\ \A k \in Keys : Pending(lora_init, k)
    /\ \A i \in 1 .. Len(lora_init), k \in Keys :
          IsSend(lora_init[i], k) => Loaded(lora_init, i, k)
<1> DEFINE n == Len(KeyOrder)
           L == lora_init
<1>1. /\ n \in Nat /\ Len(L) = 2 * n + 4
      /\ L[1] = Send("AT") /\ L[2] = Send("ATZ")
      /\ \A i \in 1 .. n : L[2 + i] = Load(KeyOrder[i])
      /\ L[n + 3] = Send("cfg")
      /\ \A i \in 1 .. n : L[n + 3 + i] = Send(KeyOrder[i])
      /\ L[2 * n + 4] = Send("cfg")
  BY InitParts
<1>2. \A k \in Keys : k \notin {"AT", "ATZ", "cfg"} /\ \E i \in 1 .. n : KeyOrder[i] = k
  BY AtAssumption, KeyOrderIsSeq DEF Keys, Range
<1>3. \A i, j \in 1 .. n : KeyOrder[i] = KeyOrder[j] => i = j
  BY AtAssumption, KeyOrderIsSeq DEF IsInjective
<1> HIDE DEF n, L
<1>4. \A i \in 1 .. Len(L) : \/ i = 1 \/ i = 2 \/ i = n + 3 \/ i = 2 * n + 4
                             \/ i - 2 \in 1 .. n /\ i = 2 + (i - 2)
                             \/ i - (n + 3) \in 1 .. n /\ i = n + 3 + (i - (n + 3))
  BY <1>1
<1>5. NoSaves(L)
  <2> SUFFICES ASSUME NEW i \in 1 .. Len(L) PROVE L[i].op # "save"
    BY DEF NoSaves
  <2>1. CASE i = 1 \/ i = 2 \/ i = n + 3 \/ i = 2 * n + 4
    <3>1. L[i] \in {Send("AT"), Send("ATZ"), Send("cfg")}
      BY <1>1, <2>1
    <3> QED BY <3>1 DEF Send
  <2>2. CASE i - 2 \in 1 .. n /\ i = 2 + (i - 2)
    <3>1. L[i] = Load(KeyOrder[i - 2])
      BY <1>1, <2>2
    <3> QED BY <3>1 DEF Load
  <2>3. CASE i - (n + 3) \in 1 .. n /\ i = n + 3 + (i - (n + 3))
    <3>1. L[i] = Send(KeyOrder[i - (n + 3)])
      BY <1>1, <2>3
    <3> QED BY <3>1 DEF Send
  <2> QED BY <1>4, <2>1, <2>2, <2>3
<1>6. ASSUME NEW k \in Keys PROVE Pending(L, k)
  <2>1. PICK i \in 1 .. n : KeyOrder[i] = k
    BY <1>2
  <2>2. n + 3 + i \in 1 .. Len(L) /\ L[n + 3 + i] = Send(k)
    BY <1>1, <2>1
  <2>3. IsSend(L[n + 3 + i], k)
    BY <2>2 DEF IsSend, Send
  <2> QED BY <2>2, <2>3 DEF Pending
<1>7. ASSUME NEW i \in 1 .. Len(L), NEW k \in Keys, IsSend(L[i], k)
      PROVE  \E x \in 1 .. n : i = n + 3 + x /\ KeyOrder[x] = k
  <2>1. i # 1 /\ i # 2 /\ i # n + 3 /\ i # 2 * n + 4
    <3> SUFFICES ASSUME i = 1 \/ i = 2 \/ i = n + 3 \/ i = 2 * n + 4 PROVE FALSE
      OBVIOUS
    <3>1. L[i] \in {Send("AT"), Send("ATZ"), Send("cfg")}
      BY <1>1
    <3>2. L[i].arg \in {"AT", "ATZ", "cfg"}
      BY <3>1 DEF Send
    <3> QED BY <1>2, <1>7, <3>2 DEF IsSend
  <2>2. ~(i - 2 \in 1 .. n /\ i = 2 + (i - 2))
    <3> SUFFICES ASSUME i - 2 \in 1 .. n, i = 2 + (i - 2) PROVE FALSE
      OBVIOUS
    <3>1. L[i] = Load(KeyOrder[i - 2])
      BY <1>1
    <3> QED BY <1>7, <3>1 DEF IsSend, Load
  <2>3. i - (n + 3) \in 1 .. n /\ i = n + 3 + (i - (n + 3))
    BY <1>4, <2>1, <2>2
  <2>4. L[i] = Send(KeyOrder[i - (n + 3)])
    BY <1>1, <2>3
  <2>5. KeyOrder[i - (n + 3)] = k
    BY <1>7, <2>4 DEF IsSend, Send
  <2> QED BY <2>3, <2>5
<1>8. ASSUME NEW i \in 1 .. Len(L), NEW k \in Keys, IsSend(L[i], k)
      PROVE  Loaded(L, i, k)
  <2>1. PICK x \in 1 .. n : i = n + 3 + x /\ KeyOrder[x] = k
    BY <1>7, <1>8
  <2>2. 2 + x \in 1 .. i - 1 /\ IsLoad(L[2 + x], k)
    <3>1. 2 + x \in 1 .. i - 1
      BY <1>1, <2>1
    <3>2. L[2 + x] = Load(k)
      BY <1>1, <2>1
    <3> QED BY <3>1, <3>2 DEF IsLoad, Load
  <2>3. ASSUME NEW m \in (2 + x) + 1 .. i - 1, IsSend(L[m], k) PROVE FALSE
    <3>1. m \in 1 .. Len(L)
      BY <1>1
    <3>2. PICK y \in 1 .. n : m = n + 3 + y /\ KeyOrder[y] = k
      BY <1>7, <2>3, <3>1
    <3>3. y = x
      BY <1>3, <2>1, <3>2
    <3> QED BY <1>1, <2>1, <3>2, <3>3
  <2> QED BY <2>2, <2>3 DEF Loaded
<1> QED BY <1>5, <1>6, <1>8 DEF L

(* Without its head a list has the same pending calls but one.             *)
LEMMA PendingTail ==
    ASSUME NEW L \in Seq(Calls), L # <<>>, NEW k, Pending(L, k), ~IsSend(Head(L), k)
    PROVE  Pending(Tail(L), k)
<1>1. /\ Len(L) \in Nat /\ Len(Tail(L)) = Len(L) - 1 /\ Head(L) = L[1]
      /\ \A i \in 1 .. Len(Tail(L)) : i + 1 \in 1 .. Len(L) /\ Tail(L)[i] = L[i + 1]
  BY TailCalls
<1>2. PICK i \in 1 .. Len(L) : IsSend(L[i], k)
  BY DEF Pending
<1>3. i # 1
  BY <1>1, <1>2
<1>4. i - 1 \in 1 .. Len(Tail(L)) /\ (i - 1) + 1 = i
  BY <1>1, <1>3
<1>5. IsSend(Tail(L)[i - 1], k)
  BY <1>1, <1>2, <1>4
<1> QED BY <1>4, <1>5 DEF Pending

(* A list that does not begin with a save has none, nor has its tail.      *)
LEMMA SavesOver ==
    ASSUME NEW L \in Seq(Calls), L # <<>>, SavesFirst(L), Head(L).op # "save"
    PROVE  NoSaves(L) /\ NoSaves(Tail(L))
<1>1. /\ Len(L) \in Nat /\ Len(L) >= 1 /\ Len(Tail(L)) = Len(L) - 1 /\ Head(L) = L[1]
      /\ \A i \in 1 .. Len(Tail(L)) : i + 1 \in 1 .. Len(L) /\ Tail(L)[i] = L[i + 1]
  BY TailCalls
<1>2. \A j \in 1 .. Len(L) : 1 \in 1 .. j
  BY <1>1
<1>3. NoSaves(L)
  BY <1>1, <1>2 DEF SavesFirst, NoSaves
<1>4. NoSaves(Tail(L))
  BY <1>1, <1>3 DEF NoSaves
<1> QED BY <1>3, <1>4

(* Saves stay first.                                                       *)
LEMMA SavesTail ==
    ASSUME NEW L \in Seq(Calls), L # <<>>, SavesFirst(L)
    PROVE  SavesFirst(Tail(L))
<1>1. /\ Len(L) \in Nat /\ Len(L) >= 1 /\ Len(Tail(L)) = Len(L) - 1 /\ Head(L) = L[1]
      /\ \A i \in 1 .. Len(Tail(L)) : i + 1 \in 1 .. Len(L) /\ Tail(L)[i] = L[i + 1]
  BY TailCalls
<1> SUFFICES ASSUME NEW j \in 1 .. Len(Tail(L)), Tail(L)[j].op = "save"
             PROVE  /\ \A m \in 1 .. j : Tail(L)[m].op = "save"
                    /\ \A k \in Keys : Pending(Tail(L), k)
  BY DEF SavesFirst
<1>2. j + 1 \in 1 .. Len(L) /\ L[j + 1].op = "save"
  BY <1>1
<1>3. (\A m \in 1 .. j + 1 : L[m].op = "save") /\ \A k \in Keys : Pending(L, k)
  BY <1>2 DEF SavesFirst
<1>4. \A m \in 1 .. j : m \in 1 .. Len(Tail(L)) /\ m + 1 \in 1 .. j + 1
  BY <1>1
<1>5. Head(L).op = "save"
  BY <1>1, <1>3
<1>6. \A k \in Keys : ~IsSend(Head(L), k)
  BY <1>5 DEF IsSend
<1> QED BY <1>1, <1>3, <1>4, <1>6, PendingTail

(* Behind a save every credential is still to be read from NVS.            *)
LEMMA FilledSave ==
    ASSUME NEW L \in Seq(Calls), L # <<>>, NEW stored, NEW new,
           Filled(L, stored), Head(L).op = "save"
    PROVE  Filled(Tail(L), new)
<1> DEFINE M == Tail(L)
<1>1. /\ M \in Seq(Calls) /\ Len(L) \in Nat /\ Len(L) >= 1 /\ Len(M) = Len(L) - 1
      /\ Head(L) = L[1]
      /\ \A i \in 1 .. Len(M) : i + 1 \in 1 .. Len(L) /\ M[i] = L[i + 1]
  BY TailCalls
<1> HIDE DEF M
<1> SUFFICES ASSUME NEW i \in 1 .. Len(M), NEW k \in Keys, IsSend(M[i], k)
             PROVE  Loaded(M, i, k)
  BY DEF Filled, M
<1>2. IsSend(L[i + 1], k) /\ i + 1 \in 1 .. Len(L) /\ ~NoSaves(L)
  <2>1. 1 \in 1 .. Len(L) /\ L[1].op = "save"
    BY <1>1
  <2> QED BY <1>1, <2>1 DEF NoSaves
<1>3. Loaded(L, i + 1, k)
  BY <1>2 DEF Filled
<1>4. PICK j \in 1 .. (i + 1) - 1 : /\ IsLoad(L[j], k)
                                    /\ \A m \in j + 1 .. (i + 1) - 1 : ~IsSend(L[m], k)
  BY <1>3 DEF Loaded
<1>5. j # 1
  BY <1>1, <1>4 DEF IsLoad
<1>6. /\ j - 1 \in 1 .. i - 1 /\ j - 1 \in 1 .. Len(M) /\ (j - 1) + 1 = j
      /\ \A m \in (j - 1) + 1 .. i - 1 : m \in 1 .. Len(M) /\ m + 1 \in j + 1 .. (i + 1) - 1
  BY <1>1, <1>4, <1>5
<1>7. IsLoad(M[j - 1], k) /\ \A m \in (j - 1) + 1 .. i - 1 : ~IsSend(M[m], k)
  BY <1>1, <1>4, <1>6
<1> QED BY <1>6, <1>7 DEF Loaded

(* The least of a set of positions.                                        *)
LEMMA LeastIs ==
    ASSUME NEW S \in SUBSET Nat, NEW x \in S, \A y \in S : x <= y
    PROVE  Min(S) = x
<1>1. \A z \in S : (\A y \in S : z <= y) => z = x
  OBVIOUS
<1> QED BY <1>1 DEF Min

(* get_string() fills the first call that sends the credential.            *)
LEMMA CarrierIs ==
    ASSUME NEW L \in Seq(Calls), NEW k, NEW i \in 1 .. Len(L), IsSend(L[i], k),
           \A m \in 1 .. i - 1 : ~IsSend(L[m], k)
    PROVE  Carrier(L, k) = i
<1> DEFINE I == {j \in 1 .. Len(L) : IsSend(L[j], k)}
<1>1. i \in I /\ I \subseteq Nat /\ Len(L) \in Nat
  OBVIOUS
<1>2. \A j \in I : i <= j
  <2> SUFFICES ASSUME NEW j \in I, ~(i <= j) PROVE FALSE
    OBVIOUS
  <2>1. j \in 1 .. i - 1
    BY <1>1
  <2> QED BY <2>1
<1>3. Min(I) = i
  <2> HIDE DEF I
  <2> QED BY <1>1, <1>2, LeastIs
<1>4. Carrier(L, k) = IF I # {} THEN Min(I) ELSE 0
  BY DEF Carrier, SelectInSeq, IsSend
<1> QED BY <1>1, <1>3, <1>4

(* A set of positions has a least one.                                     *)
LEMMA LeastExists ==
    ASSUME NEW S \in SUBSET Nat, S # {}
    PROVE  \E x \in S : \A y \in S : x <= y
<1> DEFINE R == OpToRel(<, Nat)
<1>1. R = {ss \in Nat \X Nat : ss[1] < ss[2]}
  BY DEF OpToRel
<1>2. IsWellFoundedOn(R, Nat)
  BY NatLessThanWellFounded
<1> HIDE DEF R
<1>3. PICK x \in S : \A y \in S : ~(<<y, x>> \in R)
  BY <1>2, WFMin
<1>4. ASSUME NEW y \in S PROVE x <= y
  <2>1. <<y, x>> \in Nat \X Nat /\ <<y, x>>[1] = y /\ <<y, x>>[2] = x
    OBVIOUS
  <2>2. ~(y < x)
    BY <1>1, <1>3, <2>1
  <2> QED BY <2>2
<1> QED BY <1>4

(* Whatever call get_string() fills sends the credential.                  *)
LEMMA CarrierSends ==
    ASSUME NEW L \in Seq(Calls), NEW k, Carrier(L, k) \in 1 .. Len(L)
    PROVE  IsSend(L[Carrier(L, k)], k)
<1> DEFINE I == {j \in 1 .. Len(L) : IsSend(L[j], k)}
<1>1. Carrier(L, k) = IF I # {} THEN Min(I) ELSE 0
  BY DEF Carrier, SelectInSeq, IsSend
<1>2. I # {}
  BY <1>1
<1>n. I \in SUBSET Nat
  OBVIOUS
<1>3. PICK i \in I : \A y \in I : i <= y
  <2> HIDE DEF I
  <2> QED BY <1>2, <1>n, LeastExists
<1>4. Min(I) = i
  <2> HIDE DEF I
  <2> QED BY <1>3, <1>n, LeastIs
<1> QED BY <1>1, <1>2, <1>3, <1>4

(* Filling a call changes the credential it carries and nothing else.      *)
LEMMA PatchedOne ==
    ASSUME NEW s \in Seq(Calls), NEW x, NEW v \in Profiles, NEW i \in 1 .. Len(s)
    PROVE  LET r == [s EXCEPT ![x].val = v]
           IN  /\ r[i].arg = s[i].arg
               /\ i # x => r[i].val = s[i].val
               /\ i = x => r[i].val = v
<1>1. s[i] \in Calls
  OBVIOUS
<1>2. \A c \in Calls : [c EXCEPT !.val = v].arg = c.arg /\ [c EXCEPT !.val = v].val = v
  BY DEF Calls
<1>3. [s EXCEPT ![x].val = v][i] = IF i = x THEN [s[i] EXCEPT !.val = v] ELSE s[i]
  OBVIOUS
<1> QED BY <1>1, <1>2, <1>3

(* get_string() leaves a filled list.                                      *)
LEMMA FilledLoad ==
    ASSUME NEW L \in Seq(Calls), L # <<>>, NEW stored, NEW k \in Keys,
           stored[k] \in Profiles, Filled(L, stored), NoSaves(L), IsLoad(Head(L), k)
    PROVE  LET r == [Tail(L) EXCEPT ![Carrier(Tail(L), k)].val = stored[k]]
           IN  /\ r \in Seq(Calls) /\ Filled(r, stored) /\ NoSaves(r)
               /\ \A q \in Keys : Pending(L, q) => Pending(r, q)
               /\ Len(r) = Len(Tail(L))
               /\ \A i \in 1 .. Len(r) : r[i].arg = Tail(L)[i].arg
<1> DEFINE M == Tail(L)
           x == Carrier(M, k)
           r == [M EXCEPT ![x].val = stored[k]]
<1>1. /\ M \in Seq(Calls) /\ Len(L) \in Nat /\ Len(M) = Len(L) - 1 /\ Head(L) = L[1]
      /\ \A i \in 1 .. Len(M) : i + 1 \in 1 .. Len(L) /\ M[i] = L[i + 1]
  BY TailCalls
<1> DEFINE v == stored[k]
<1>2. r \in Seq(Calls) /\ Len(r) = Len(M) /\ \A i \in 1 .. Len(M) : r[i].op = M[i].op
  <2>1. v \in Profiles /\ r = [M EXCEPT ![x].val = v]
    OBVIOUS
  <2> HIDE DEF M, x, v, r
  <2>2. LET f == [M EXCEPT ![x].val = v]
        IN  f \in Seq(Calls) /\ Len(f) = Len(M) /\ \A i \in 1 .. Len(M) : f[i].op = M[i].op
    BY <1>1, <2>1, PatchedCalls
  <2> QED BY <2>1, <2>2
<1>3. \A i \in 1 .. Len(M) : /\ r[i].arg = M[i].arg
                             /\ i # x => r[i].val = M[i].val
                             /\ i = x => r[i].val = stored[k]
  <2>1. v \in Profiles /\ r = [M EXCEPT ![x].val = v] /\ v = stored[k]
    OBVIOUS
  <2> HIDE DEF M, x, v, r
  <2>2. \A i \in 1 .. Len(M) :
          LET f == [M EXCEPT ![x].val = v]
          IN  /\ f[i].arg = M[i].arg
              /\ i # x => f[i].val = M[i].val
              /\ i = x => f[i].val = v
    BY <1>1, <2>1, PatchedOne
  <2> QED BY <2>1, <2>2
<1> HIDE DEF r, x
<1>4. \A i \in 1 .. Len(M), q \in Keys : /\ IsSend(r[i], q) <=> IsSend(M[i], q)
                                         /\ IsLoad(r[i], q) <=> IsLoad(M[i], q)
  BY <1>2, <1>3 DEF IsSend, IsLoad
<1>5. NoSaves(r)
  BY <1>1, <1>2 DEF NoSaves
<1>6. ASSUME NEW q \in Keys, Pending(L, q) PROVE Pending(r, q)
  <2>1. Pending(M, q)
    BY <1>6, PendingTail DEF IsLoad, IsSend
  <2> QED BY <1>2, <1>4, <2>1 DEF Pending
<1>7. ASSUME NEW i \in 1 .. Len(r), NEW q \in Keys, IsSend(r[i], q)
      PROVE  Loaded(r, i, q) \/ r[i].val = stored[q]
  <2>1. i \in 1 .. Len(M) /\ i + 1 \in 1 .. Len(L) /\ IsSend(L[i + 1], q)
    BY <1>1, <1>2, <1>4, <1>7
  <2>2. CASE L[i + 1].val = stored[q]
    <3>1. M[i].val = stored[q] /\ M[i].arg = q
      BY <1>1, <2>1, <2>2 DEF IsSend
    <3>2. CASE i = x
      <4>1. IsSend(M[x], q) /\ r[i].val = stored[k]
        BY <1>3, <1>4, <1>7, <2>1, <3>2
      <4>2. CASE q = k
        BY <4>1, <4>2
      <4>3. CASE q # k
        (* The call that is filled sends k. *)
        <5>1. IsSend(M[x], k)
          <6> HIDE DEF M
          <6> QED BY <1>1, <2>1, <3>2, CarrierSends DEF x
        <5> QED BY <4>1, <4>3, <5>1 DEF IsSend
      <4> QED BY <4>2, <4>3
    <3>3. CASE i # x
      BY <1>3, <2>1, <3>1, <3>3
    <3> QED BY <3>2, <3>3
  <2>3. CASE Loaded(L, i + 1, q)
    <3>1. PICK j \in 1 .. (i + 1) - 1 : /\ IsLoad(L[j], q)
                                        /\ \A m \in j + 1 .. (i + 1) - 1 : ~IsSend(L[m], q)
      BY <2>3 DEF Loaded
    <3>2. CASE j = 1
      <4>1. q = k
        BY <1>1, <3>1, <3>2 DEF IsLoad
      <4>2. \A m \in 1 .. i - 1 : m \in 1 .. Len(M) /\ m + 1 \in j + 1 .. (i + 1) - 1
        BY <1>1, <2>1, <3>2
      <4>3. IsSend(M[i], k) /\ \A m \in 1 .. i - 1 : ~IsSend(M[m], k)
        BY <1>1, <2>1, <3>1, <4>1, <4>2
      <4>4. i = x
        <5> HIDE DEF M
        <5> QED BY <1>1, <2>1, <4>3, CarrierIs DEF x
      <4> QED BY <1>3, <2>1, <4>1, <4>4
    <3>3. CASE j # 1
      <4>1. /\ j - 1 \in 1 .. i - 1 /\ j - 1 \in 1 .. Len(M) /\ (j - 1) + 1 = j
            /\ \A m \in (j - 1) + 1 .. i - 1 : m \in 1 .. Len(M) /\ m + 1 \in j + 1 .. (i + 1) - 1
        BY <1>1, <2>1, <3>1, <3>3
      <4>2. IsLoad(M[j - 1], q) /\ \A m \in (j - 1) + 1 .. i - 1 : ~IsSend(M[m], q)
        BY <1>1, <3>1, <4>1
      <4>3. IsLoad(r[j - 1], q) /\ \A m \in (j - 1) + 1 .. i - 1 : ~IsSend(r[m], q)
        BY <1>4, <4>1, <4>2
      <4> QED BY <4>1, <4>3 DEF Loaded
    <3> QED BY <3>2, <3>3
  <2> QED BY <2>1, <2>2, <2>3 DEF Filled
<1>8. Filled(r, stored)
  BY <1>5, <1>7 DEF Filled
<1> QED BY <1>2, <1>3, <1>5, <1>6, <1>8 DEF r, x, M

(* What is read from NVS before it is sent stays so behind other calls.    *)
LEMMA LoadedBehind ==
    ASSUME NEW p \in Seq(Calls), NEW q \in Seq(Calls), NEW k,
           NEW x \in 1 .. Len(q), Loaded(q, x, k)
    PROVE  Loaded(p \o q, Len(p) + x, k)
<1> DEFINE L == p \o q
<1>1. /\ Len(p) \in Nat /\ Len(q) \in Nat
      /\ \A i \in 1 .. Len(q) : L[Len(p) + i] = q[i]
  BY Joined
<1>2. PICK j \in 1 .. x - 1 : /\ IsLoad(q[j], k)
                              /\ \A m \in j + 1 .. x - 1 : ~IsSend(q[m], k)
  BY DEF Loaded
<1> HIDE DEF L
<1>3. /\ j \in 1 .. Len(q) /\ Len(p) + j \in 1 .. (Len(p) + x) - 1
      /\ \A m \in (Len(p) + j) + 1 .. (Len(p) + x) - 1 :
            /\ m - Len(p) \in j + 1 .. x - 1 /\ m - Len(p) \in 1 .. Len(q)
            /\ m = Len(p) + (m - Len(p))
  BY <1>1, <1>2
<1>4. /\ IsLoad(L[Len(p) + j], k)
      /\ \A m \in (Len(p) + j) + 1 .. (Len(p) + x) - 1 : ~IsSend(L[m], k)
  BY <1>1, <1>2, <1>3
<1>5. Loaded(L, Len(p) + x, k)
  BY <1>3, <1>4 DEF Loaded
<1> QED BY <1>5 DEF L

(* WRITE_LORAWAN_PF saves every credential, reads each back and sends it.  *)
LEMMA ProfileWritten ==
    ASSUME NEW p \in Profiles, NEW stored
    PROVE  LET L == [i \in DOMAIN KeyOrder |-> Save(KeyOrder[i], p)] \o lora_init
           IN  Filled(L, stored) /\ SavesFirst(L) /\ \A k \in Keys : Pending(L, k)
<1> DEFINE S == [i \in DOMAIN KeyOrder |-> Save(KeyOrder[i], p)]
           B == lora_init
           L == S \o B
<1>1. S \in Seq(Calls) /\ B \in Seq(Calls)
  BY SavesAreCalls, InitIsCalls
<1>2. \A i \in 1 .. Len(S) : S[i].op = "save"
  BY KeyOrderIsSeq DEF Save
<1>3. /\ NoSaves(B) /\ \A k \in Keys : Pending(B, k)
      /\ \A i \in 1 .. Len(B), k \in Keys : IsSend(B[i], k) => Loaded(B, i, k)
  BY InitLoads
<1> HIDE DEF S, B
<1>4. /\ Len(S) \in Nat /\ Len(B) \in Nat /\ Len(L) = Len(S) + Len(B)
      /\ \A i \in 1 .. Len(S) : L[i] = S[i]
      /\ \A i \in 1 .. Len(B) : L[Len(S) + i] = B[i]
  BY <1>1, Joined
<1>5. \A k \in Keys : Pending(L, k)
  BY <1>1, <1>3, PendingJoin
<1>6. \A x \in 1 .. Len(B), k \in Keys : Loaded(B, x, k) => Loaded(L, Len(S) + x, k)
  BY <1>1, LoadedBehind
<1> HIDE DEF L
<1>7. \A i \in 1 .. Len(L) : i \in 1 .. Len(S) \/ (i - Len(S) \in 1 .. Len(B)
                                                   /\ i = Len(S) + (i - Len(S)))
  BY <1>4
<1>8. Filled(L, stored)
  <2> SUFFICES ASSUME NEW i \in 1 .. Len(L), NEW k \in Keys, IsSend(L[i], k)
               PROVE  Loaded(L, i, k)
    BY DEF Filled
  <2>1. i \notin 1 .. Len(S)
    BY <1>2, <1>4 DEF IsSend
  <2>2. i - Len(S) \in 1 .. Len(B) /\ i = Len(S) + (i - Len(S))
    BY <1>7, <2>1
  <2>3. IsSend(B[i - Len(S)], k)
    BY <1>4, <2>2
  <2> QED BY <1>3, <1>6, <2>2, <2>3
<1>9. SavesFirst(L)
  <2> SUFFICES ASSUME NEW j \in 1 .. Len(L), L[j].op = "save"
               PROVE  \A m \in 1 .. j : L[m].op = "save"
    BY <1>5 DEF SavesFirst
  <2>1. j \in 1 .. Len(S)
    <3> SUFFICES ASSUME j - Len(S) \in 1 .. Len(B), j = Len(S) + (j - Len(S)) PROVE FALSE
      BY <1>7
    <3>1. L[j] = B[j - Len(S)]
      BY <1>4
    <3> QED BY <1>3, <3>1 DEF NoSaves
  <2>2. \A m \in 1 .. j : m \in 1 .. Len(S)
    BY <1>4, <2>1
  <2> QED BY <1>2, <1>4, <2>2
<1> QED BY <1>5, <1>8, <1>9 DEF L, S, B

(* Without saves there is nothing to come first.                           *)
LEMMA NoSavesFirst ==
    ASSUME NEW L, NoSaves(L) PROVE SavesFirst(L)
BY DEF NoSaves, SavesFirst

-----------------------------------------------------------------------------
(* Commands on their way to the modem *)

(* A command that is written decides what the modem ends up with for its   *)
(* credential and nothing else.                                            *)
LEMMA ReachesWritten ==
    ASSUME NEW s \in Seq(Lines), NEW has, NEW k, NEW v, NEW c \in Lines,
           \/ c.cmd = k /\ c.val = v
           \/ c.cmd # k /\ Reaches(s, has, k, v)
    PROVE  Reaches(Append(s, c), has, k, v)
<1> DEFINE r == Append(s, c)
<1>1. /\ Len(s) \in Nat /\ Len(r) = Len(s) + 1 /\ r[Len(s) + 1] = c
      /\ \A i \in 1 .. Len(s) : r[i] = s[i]
  OBVIOUS
<1> HIDE DEF r
<1>2. /\ Len(s) + 1 \in 1 .. Len(r)
      /\ \A m \in (Len(s) + 1) + 1 .. Len(r) : FALSE
      /\ \A i \in 1 .. Len(s) : i \in 1 .. Len(r)
      /\ \A i \in 1 .. Len(r) : i \in 1 .. Len(s) \/ i = Len(s) + 1
      /\ \A i \in 1 .. Len(s) : \A m \in i + 1 .. Len(r) :
            m \in i + 1 .. Len(s) \/ m = Len(s) + 1
      /\ \A i \in 1 .. Len(s) : \A m \in i + 1 .. Len(s) : m \in 1 .. Len(s)
  BY <1>1
<1>3. CASE c.cmd = k /\ c.val = v
  <2>1. Reaches(r, has, k, v)
    BY <1>1, <1>2, <1>3 DEF Reaches
  <2> QED BY <2>1 DEF r
<1>4. CASE c.cmd # k /\ Reaches(s, has, k, v)
  <2>1. CASE \E i \in 1 .. Len(s) : /\ s[i].cmd = k /\ s[i].val = v
                                    /\ \A m \in i + 1 .. Len(s) : s[m].cmd # k
    <3>1. PICK i \in 1 .. Len(s) : /\ s[i].cmd = k /\ s[i].val = v
                                   /\ \A m \in i + 1 .. Len(s) : s[m].cmd # k
      BY <2>1
    <3>2. \A m \in i + 1 .. Len(r) : r[m].cmd # k
      BY <1>1, <1>2, <1>4, <3>1
    <3>3. Reaches(r, has, k, v)
      BY <1>1, <1>2, <3>1, <3>2 DEF Reaches
    <3> QED BY <3>3 DEF r
  <2>2. CASE has[k] = v /\ \A i \in 1 .. Len(s) : s[i].cmd # k
    <3>1. Reaches(r, has, k, v)
      BY <1>1, <1>2, <1>4, <2>2 DEF Reaches
    <3> QED BY <3>1 DEF r
  <2> QED BY <1>4, <2>1, <2>2 DEF Reaches
<1> QED BY <1>3, <1>4

(* An OK for a credential's command stores it; other answers change none.  *)
LEMMA ReachesAnswered ==
    ASSUME NEW s \in Seq(Lines), s # <<>>, NEW has, NEW new, NEW k, NEW v,
           Reaches(s, has, k, v),
           new[k] = IF Head(s).cmd = k THEN Head(s).val ELSE has[k]
    PROVE  Reaches(Tail(s), new, k, v)
<1> DEFINE r == Tail(s)
<1>1. /\ Len(s) \in Nat /\ Len(s) >= 1 /\ Len(r) = Len(s) - 1 /\ Head(s) = s[1]
      /\ \A i \in 1 .. Len(r) : r[i] = s[i + 1]
  OBVIOUS
<1> HIDE DEF r
<1>2. CASE \E i \in 1 .. Len(s) : /\ s[i].cmd = k /\ s[i].val = v
                                  /\ \A m \in i + 1 .. Len(s) : s[m].cmd # k
  <2>1. PICK i \in 1 .. Len(s) : /\ s[i].cmd = k /\ s[i].val = v
                                 /\ \A m \in i + 1 .. Len(s) : s[m].cmd # k
    BY <1>2
  <2>2. CASE i = 1
    <3>1. \A m \in 1 .. Len(r) : m + 1 \in i + 1 .. Len(s)
      BY <1>1, <2>2
    <3>2. new[k] = v
      BY <1>1, <2>1, <2>2
    <3> QED BY <1>1, <2>1, <3>1, <3>2 DEF Reaches, r
  <2>3. CASE i # 1
    <3>1. /\ i - 1 \in 1 .. Len(r) /\ (i - 1) + 1 = i
          /\ \A m \in (i - 1) + 1 .. Len(r) : m \in 1 .. Len(r) /\ m + 1 \in i + 1 .. Len(s)
      BY <1>1, <2>1, <2>3
    <3>2. /\ r[i - 1].cmd = k /\ r[i - 1].val = v
          /\ \A m \in (i - 1) + 1 .. Len(r) : r[m].cmd # k
      BY <1>1, <2>1, <3>1
    <3> QED BY <3>1, <3>2 DEF Reaches, r
  <2> QED BY <2>2, <2>3
<1>3. CASE has[k] = v /\ \A i \in 1 .. Len(s) : s[i].cmd # k
  <2>1. 1 \in 1 .. Len(s) /\ \A m \in 1 .. Len(r) : m + 1 \in 1 .. Len(s)
    BY <1>1
  <2>2. new[k] = v /\ \A m \in 1 .. Len(r) : r[m].cmd # k
    BY <1>1, <1>3, <2>1
  <2> QED BY <2>2 DEF Reaches, r
<1> QED BY <1>2, <1>3 DEF Reaches

-----------------------------------------------------------------------------
(* The invariant, step by step *)

(* A credential that is pending in a list makes its task Initialising.     *)
LEMMA PendingInitialises ==
    ASSUME TypeInv, NEW t \in Tasks, NEW k \in Keys
    PROVE  /\ Pending(todo[t], k) => Initialising(t)
           /\ todo[t] # <<>> /\ Cmd(t).arg = k => Initialising(t)
<1> DEFINE L == todo[t]
<1>1. L \in Seq(Calls)
  BY DEF TypeInv
<1>2. DOMAIN L = 1 .. Len(L) /\ (L # <<>> => 1 \in DOMAIN L /\ Head(L) = L[1])
  BY <1>1
<1> QED BY <1>2 DEF Pending, IsSend, Initialising, Cmd

(* The calls of a task that is not Initialising carry no credential.       *)
LEMMA OthersCarryNone ==
    ASSUME TypeInv, NEW t \in Tasks, ~Initialising(t), NEW stored
    PROVE  Filled(todo[t], stored) /\ \A k \in Keys : ~Pending(todo[t], k)
<1>1. \A k \in Keys : ~Pending(todo[t], k)
  BY PendingInitialises
<1>2. Filled(todo[t], stored)
  BY <1>1 DEF Filled, Pending
<1> QED BY <1>1, <1>2

(* A step of one task that writes neither to the modem nor to NVS: the     *)
(* task may start to initialise when no other task does, and what it no    *)
(* longer has pending is delivered.                                        *)
LEMMA CredStep ==
    ASSUME TypeInv, CredInv, NEW t \in Tasks,
           UNCHANGED <<uart, modem, nvs>>, overlapped => overlapped',
           \A u \in Tasks \ {t} : /\ todo'[u] = todo[u]
                                  /\ pc'[u] = "delay" => pc[u] = "delay",
           pc'[t] # "delay",
           ~overlapped' =>
             /\ \/ Initialising(t)' => Initialising(t)
                \/ \A u \in Tasks \ {t} : ~Initialising(u)
             /\ Filled(todo'[t], nvs) /\ SavesFirst(todo'[t])
             /\ \A k \in Keys : Pending(todo[t], k) => Pending(todo'[t], k) \/ Delivered(k)
    PROVE  CredInv'
<1> SUFFICES ASSUME ~overlapped'
             PROVE  /\ Sole'
                    /\ \A u \in Tasks : Filled(todo'[u], nvs') /\ SavesFirst(todo'[u])
                    /\ \A k \in Keys : \/ Delivered(k)'
                                       \/ \E u \in Tasks : Pending(todo'[u], k)
                    /\ \A u \in Tasks, k \in Keys :
                          pc'[u] = "delay" /\ Cmd(u)'.arg = k => Delivered(k)'
  BY DEF CredInv
<1>1. /\ Sole
      /\ \A u \in Tasks : Filled(todo[u], nvs) /\ SavesFirst(todo[u])
      /\ \A k \in Keys : Delivered(k) \/ \E u \in Tasks : Pending(todo[u], k)
      /\ \A u \in Tasks, k \in Keys :
            pc[u] = "delay" /\ Cmd(u).arg = k => Delivered(k)
  BY DEF CredInv
<1>2. \A k \in Keys : Delivered(k)' = Delivered(k)
  BY DEF Delivered
<1>3. \A u \in Tasks \ {t} : Initialising(u)' = Initialising(u) /\ Cmd(u)' = Cmd(u)
  BY DEF Initialising, Cmd
<1>4. Sole'
  BY <1>1, <1>3 DEF Sole
<1>5. \A u \in Tasks : Filled(todo'[u], nvs') /\ SavesFirst(todo'[u])
  BY <1>1
<1>6. \A k \in Keys : Delivered(k)' \/ \E u \in Tasks : Pending(todo'[u], k)
  BY <1>1, <1>2
<1>7. \A u \in Tasks, k \in Keys : pc'[u] = "delay" /\ Cmd(u)'.arg = k => Delivered(k)'
  BY <1>1, <1>2, <1>3
<1> QED BY <1>4, <1>5, <1>6, <1>7

(* A step on the line to the modem: what was delivered stays so.           *)
LEMMA CredWire ==
    ASSUME CredInv, UNCHANGED <<todo, nvs, overlapped>>,
           ~overlapped => \A k \in Keys : Delivered(k) => Delivered(k)',
           ~overlapped => \A u \in Tasks : pc'[u] = "delay" =>
               pc[u] = "delay" \/ \A k \in Keys : Cmd(u).arg = k => Delivered(k)'
    PROVE  CredInv'
<1> SUFFICES ASSUME ~overlapped
             PROVE  /\ Sole'
                    /\ \A u \in Tasks : Filled(todo'[u], nvs') /\ SavesFirst(todo'[u])
                    /\ \A k \in Keys : \/ Delivered(k)'
                                       \/ \E u \in Tasks : Pending(todo'[u], k)
                    /\ \A u \in Tasks, k \in Keys :
                          pc'[u] = "delay" /\ Cmd(u)'.arg = k => Delivered(k)'
  BY DEF CredInv
<1>1. /\ Sole
      /\ \A u \in Tasks : Filled(todo[u], nvs) /\ SavesFirst(todo[u])
      /\ \A k \in Keys : Delivered(k) \/ \E u \in Tasks : Pending(todo[u], k)
      /\ \A u \in Tasks, k \in Keys :
            pc[u] = "delay" /\ Cmd(u).arg = k => Delivered(k)
  BY DEF CredInv
<1>2. \A u \in Tasks : Initialising(u)' = Initialising(u) /\ Cmd(u)' = Cmd(u)
  BY DEF Initialising, Cmd
<1>3. Sole'
  BY <1>1, <1>2 DEF Sole
<1>4. \A u \in Tasks, k \in Keys : pc'[u] = "delay" /\ Cmd(u)'.arg = k => Delivered(k)'
  BY <1>1, <1>2
<1> QED BY <1>1, <1>3, <1>4

(* Initially app_main alone has credentials to send: all of them.          *)
LEMMA CredStart == Init => CredInv
<1> SUFFICES ASSUME Init PROVE CredInv
  OBVIOUS
<1> USE DEF Init
<1>0. "main" \in Tasks
  BY AtAssumption DEF Tasks
<1>1. /\ todo["main"] = lora_init
      /\ \A t \in Tasks : t # "main" => todo[t] = <<>>
      /\ \A t \in Tasks : pc[t] # "delay"
  BY <1>0
<1>2. Len(<<>>) = 0 /\ DOMAIN <<>> = {}
  OBVIOUS
<1>3. Sole
  BY <1>1, <1>2 DEF Sole, Initialising
<1>4. NoSaves(lora_init) /\ Filled(lora_init, nvs) /\ \A k \in Keys : Pending(lora_init, k)
  BY InitLoads DEF Filled
<1>5. \A L : L = <<>> => Filled(L, nvs) /\ NoSaves(L)
  BY <1>2 DEF Filled, NoSaves
<1>6. \A t \in Tasks : Filled(todo[t], nvs) /\ SavesFirst(todo[t])
  BY <1>1, <1>4, <1>5, NoSavesFirst
<1>7. \A k \in Keys : \E t \in Tasks : Pending(todo[t], k)
  BY <1>0, <1>1, <1>4
<1> QED BY <1>1, <1>3, <1>6, <1>7 DEF CredInv

(* A command at the head of the list carries the stored credential.        *)
LEMMA HeadFilled ==
    ASSUME NEW L \in Seq(Calls), L # <<>>, NEW stored, NEW k \in Keys,
           Filled(L, stored), IsSend(Head(L), k)
    PROVE  Head(L).val = stored[k]
<1>1. 1 \in 1 .. Len(L) /\ Head(L) = L[1]
  OBVIOUS
<1>2. ~Loaded(L, 1, k)
  BY DEF Loaded
<1> QED BY <1>1, <1>2 DEF Filled

(* A list of one or two calls, none of them unfilled.                      *)
LEMMA ShortFilled ==
    ASSUME NEW L, Len(L) \in {1, 2}, NEW stored,
           \A i \in 1 .. Len(L) : /\ L[i].op \notin {"load", "save"}
                                  /\ \A k \in Keys : IsSend(L[i], k) => L[i].val = stored[k]
    PROVE  Filled(L, stored) /\ NoSaves(L)
BY DEF Filled, NoSaves

(* A task without calls has none pending, and nothing to fill.             *)
LEMMA EmptyFilled ==
    ASSUME NEW L, L = <<>>, NEW stored
    PROVE  Filled(L, stored) /\ NoSaves(L) /\ \A k : ~Pending(L, k)
<1>1. Len(L) = 0
  OBVIOUS
<1> QED BY <1>1 DEF Filled, NoSaves, Pending

(* A task takes a new list of calls.                                       *)
LEMMA CredList ==
    ASSUME PlaceInv, CredInv, NEW t \in Tasks, NEW s \in Seq(Calls),
           todo' = [todo EXCEPT ![t] = s], pc' = [pc EXCEPT ![t] = "next"],
           UNCHANGED <<uart, modem, nvs>>, overlapped => overlapped',
           ~overlapped' =>
             /\ \/ (\E i \in DOMAIN s : s[i].arg \in Keys \cup {"AT", "ATZ", "cfg"}) =>
                       Initialising(t)
                \/ \A u \in Tasks \ {t} : ~Initialising(u)
             /\ Filled(s, nvs) /\ SavesFirst(s)
             /\ \A k \in Keys : Pending(todo[t], k) => Pending(s, k) \/ Delivered(k)
    PROVE  CredInv'
<1>1. /\ todo'[t] = s /\ pc'[t] = "next"
      /\ \A u \in Tasks \ {t} : todo'[u] = todo[u] /\ pc'[u] = pc[u]
  BY DEF PlaceInv, TypeInv
<1>2. Initialising(t)' = \E i \in DOMAIN s : s[i].arg \in Keys \cup {"AT", "ATZ", "cfg"}
  BY <1>1 DEF Initialising
<1> QED BY <1>1, <1>2, CredStep DEF PlaceInv

(* A new payload carries no credential; a new profile is saved, read back  *)
(* and sent.                                                               *)
LEMMA CredCallers ==
    ASSUME PlaceInv, CredInv,
           SendPayload \/ \E p \in Profiles : WRITE_LORAWAN_PF(p)
    PROVE  CredInv'
<1> USE DEF bits, env
<1>1. CASE SendPayload
  <2> DEFINE s == <<Send("SENDB")>>
  <2>1. Send("SENDB") \in Calls
    BY SendIsCall DEF Names
  <2>2. s \in Seq(Calls) /\ Len(s) = 1 /\ s[1] = Send("SENDB")
    BY <2>1, Singleton
  <2>3. s[1].arg = "SENDB" /\ s[1].op = "send"
    BY <2>2 DEF Send
  <2>4. "SENDB" \notin Keys \cup {"AT", "ATZ", "cfg"}
    BY AtAssumption DEF Keys, Range
  <2>5. /\ "tx" \in Tasks /\ pc["tx"] = "idle" /\ pc' = [pc EXCEPT !["tx"] = "next"]
        /\ todo' = [todo EXCEPT !["tx"] = s]
        /\ UNCHANGED <<uart, modem, nvs, overlapped>>
    BY <1>1 DEF SendPayload, Go, Tasks
  <2> HIDE DEF s
  <2>6. Filled(s, nvs) /\ NoSaves(s)
    <3>1. \A i \in 1 .. Len(s) : i = 1
      BY <2>2
    <3>2. \A i \in 1 .. Len(s) : /\ s[i].op \notin {"load", "save"}
                                 /\ \A k \in Keys : ~IsSend(s[i], k)
      BY <2>3, <2>4, <3>1 DEF IsSend
    <3> QED BY <2>2, <3>2, ShortFilled
  <2>7. ~\E i \in DOMAIN s : s[i].arg \in Keys \cup {"AT", "ATZ", "cfg"}
    BY <2>2, <2>3, <2>4
  <2>8. \A k \in Keys : ~Pending(todo["tx"], k)
    BY <2>5, EmptyFilled DEF PlaceInv, NoCallsAtRest
  <2> QED BY <2>2, <2>5, <2>6, <2>7, <2>8, NoSavesFirst, CredList
<1>2. ASSUME NEW p \in Profiles, WRITE_LORAWAN_PF(p) PROVE CredInv'
  <2> DEFINE saves == [i \in DOMAIN KeyOrder |-> Save(KeyOrder[i], p)]
             s == saves \o lora_init
  <2>1. s \in Seq(Calls)
    BY SavesAreCalls, InitIsCalls, Joined
  <2>2. /\ "bt" \in Tasks /\ pc["bt"] = "idle" /\ pc' = [pc EXCEPT !["bt"] = "next"]
        /\ todo' = [todo EXCEPT !["bt"] = s] /\ Overlap("bt")
        /\ UNCHANGED <<uart, modem, nvs>>
    BY <1>2 DEF WRITE_LORAWAN_PF, Go, Tasks, PerKey
  <2>3. Filled(s, nvs) /\ SavesFirst(s) /\ \A k \in Keys : Pending(s, k)
    BY ProfileWritten
  <2>4. /\ overlapped => overlapped'
        /\ ~overlapped' => \A u \in Tasks \ {"bt"} : ~Initialising(u)
    BY <2>2 DEF Overlap
  <2> HIDE DEF s
  <2> QED BY <2>1, <2>2, <2>3, <2>4, CredList
<1> QED BY <1>1, <1>2

(* Steps between two sendCMD().                                            *)
LEMMA CredBetween ==
    ASSUME PlaceInv, CredInv, NEW t \in Tasks,
           get_string(t) \/ Return(t) \/ SetSendBit(t)
    PROVE  CredInv'
<1> USE DEF bits, env
<1> DEFINE L == todo[t]
<1>0. ASSUME NEW op, Doing(t, op)
      PROVE  /\ pc[t] = "next" /\ pc = [pc EXCEPT ![t] = "next"]
             /\ L \in Seq(Calls) /\ L # <<>> /\ Head(L) \in Calls
             /\ Head(L).op = op /\ Tail(L) \in Seq(Calls)
  <2>1. /\ pc[t] = "next" /\ pc = [pc EXCEPT ![t] = "next"]
        /\ L \in Seq(Calls) /\ L # <<>> /\ Head(L).op = op
    BY <1>0 DEF Doing, PlaceInv, TypeInv, Cmd
  <2> HIDE DEF L
  <2> QED BY <2>1, HeadIsCall
<1>1. ~overlapped => Filled(L, nvs) /\ SavesFirst(L)
  BY DEF CredInv
<1>2. CASE get_string(t)
  <2> DEFINE k == Head(L).arg
             r == [Tail(L) EXCEPT ![Carrier(Tail(L), k)].val = nvs[k]]
  <2>1. /\ pc' = [pc EXCEPT ![t] = "next"] /\ Head(L).op = "load"
        /\ L \in Seq(Calls) /\ L # <<>> /\ Head(L) \in Calls /\ Tail(L) \in Seq(Calls)
    BY <1>0, <1>2 DEF get_string
  <2>2. k \in Keys
    BY <2>1 DEF Calls
  <2>3. IsLoad(Head(L), k) /\ nvs[k] \in Profiles
    BY <2>1, <2>2 DEF IsLoad, PlaceInv, TypeInv
  <2>4. todo' = [todo EXCEPT ![t] = r] /\ UNCHANGED <<uart, modem, nvs, overlapped>>
    BY <1>2 DEF get_string, Cmd
  <2>5. Initialising(t)
    BY <2>1, <2>2, PendingInitialises DEF PlaceInv, Cmd
  <2> HIDE DEF L, k
  <2>6. r \in Seq(Calls)
    BY <2>1, <2>3, PatchedCalls
  <2>7. ~overlapped => Filled(r, nvs) /\ SavesFirst(r)
                       /\ \A q \in Keys : Pending(L, q) => Pending(r, q)
    <3> SUFFICES ASSUME ~overlapped
                 PROVE  Filled(r, nvs) /\ SavesFirst(r)
                        /\ \A q \in Keys : Pending(L, q) => Pending(r, q)
      OBVIOUS
    <3>1. NoSaves(L)
      BY <1>1, <2>1, SavesOver
    <3>2. Filled(r, nvs) /\ NoSaves(r) /\ \A q \in Keys : Pending(L, q) => Pending(r, q)
      BY <1>1, <2>1, <2>2, <2>3, <3>1, FilledLoad
    <3> HIDE DEF r
    <3> QED BY <3>2, NoSavesFirst
  <2> HIDE DEF r
  <2> QED BY <2>1, <2>4, <2>5, <2>6, <2>7, CredList DEF L
<1>3. CASE Return(t)
  <2>1. /\ UNCHANGED <<todo, uart, modem, nvs, overlapped>>
        /\ \A u \in Tasks : pc'[u] = "delay" => pc[u] = "delay"
    BY <1>3 DEF Return
  <2>2. \A k \in Keys : Delivered(k)' = Delivered(k)
    BY <2>1 DEF Delivered
  <2> QED BY <2>1, <2>2, CredWire
<1>4. CASE SetSendBit(t)
  <2>1. /\ pc[t] = "next" /\ Head(L).op = "set"
        /\ L \in Seq(Calls) /\ L # <<>> /\ Tail(L) \in Seq(Calls)
    BY <1>0, <1>4 DEF SetSendBit
  <2>2. /\ todo' = [todo EXCEPT ![t] = Tail(L)]
        /\ UNCHANGED <<uart, modem, nvs, overlapped>>
        /\ \A u \in Tasks : pc'[u] = "delay" => pc[u] = "delay"
    BY <1>4 DEF SetSendBit, Release
  <2>3. todo'[t] = Tail(L) /\ \A u \in Tasks \ {t} : todo'[u] = todo[u]
    BY <2>2 DEF PlaceInv, TypeInv
  <2>4. Initialising(t)' => Initialising(t)
    <3>1. \A i \in DOMAIN Tail(L) : i + 1 \in DOMAIN L /\ Tail(L)[i] = L[i + 1]
      BY <2>1
    <3> QED BY <2>3, <3>1 DEF Initialising
  <2> HIDE DEF L
  <2>5. ~overlapped => Filled(Tail(L), nvs) /\ SavesFirst(Tail(L))
    BY <1>1, <2>1, FilledTail, SavesTail
  <2>6. \A k \in Keys : Pending(L, k) => Pending(Tail(L), k)
    BY <2>1, PendingTail DEF IsSend
  <2>7. pc'[t] # "delay"
    BY <2>1, <2>2
  <2> QED BY <2>2, <2>3, <2>4, <2>5, <2>6, <2>7, CredStep DEF PlaceInv, L
<1> QED BY <1>2, <1>3, <1>4

(* save_string() changes NVS while nobody else initialises, and every      *)
(* credential is still to be read back and sent.                           *)
LEMMA CredSave ==
    ASSUME PlaceInv, CredInv, NEW t \in Tasks, save_string(t)
    PROVE  CredInv'
<1> DEFINE L == todo[t]
<1>1. /\ pc[t] = "next" /\ L \in Seq(Calls) /\ L # <<>> /\ Head(L).op = "save"
      /\ UNCHANGED <<pc, overlapped>> /\ todo' = [todo EXCEPT ![t] = Tail(L)]
  BY DEF save_string, Doing, Cmd, PlaceInv, TypeInv
<1>2. todo'[t] = Tail(L) /\ \A u \in Tasks \ {t} : todo'[u] = todo[u]
  BY <1>1 DEF PlaceInv, TypeInv
<1>3. Initialising(t)
  <2>1. Head(L) \in Calls
    BY <1>1, HeadIsCall
  <2>2. Head(L).arg \in Keys
    BY <1>1, <2>1 DEF Calls
  <2> QED BY <1>1, <2>2, PendingInitialises DEF PlaceInv, Cmd
<1> HIDE DEF L
<1> SUFFICES ASSUME ~overlapped
             PROVE  /\ Sole'
                    /\ \A u \in Tasks : Filled(todo'[u], nvs') /\ SavesFirst(todo'[u])
                    /\ \A k \in Keys : \E u \in Tasks : Pending(todo'[u], k)
                    /\ \A u \in Tasks, k \in Keys :
                          ~(pc'[u] = "delay" /\ Cmd(u)'.arg = k)
  BY <1>1 DEF CredInv
<1>4. Sole /\ \A u \in Tasks : Filled(todo[u], nvs) /\ SavesFirst(todo[u])
  BY DEF CredInv
<1>5. \A u \in Tasks \ {t} : ~Initialising(u) /\ ~Initialising(u)'
  BY <1>2, <1>3, <1>4 DEF Sole, Initialising
<1>6. Filled(L, nvs) /\ SavesFirst(L)
  BY <1>4 DEF L
<1>7. Filled(Tail(L), nvs') /\ SavesFirst(Tail(L))
  BY <1>1, <1>6, FilledSave, SavesTail
<1>8. \A u \in Tasks \ {t} : Filled(todo[u], nvs')
  BY <1>5, OthersCarryNone DEF PlaceInv
<1>9. ASSUME NEW k \in Keys PROVE Pending(Tail(L), k)
  <2>1. 1 \in 1 .. Len(L) /\ L[1].op = "save"
    BY <1>1
  <2>2. Pending(L, k)
    BY <1>6, <2>1 DEF SavesFirst
  <2> QED BY <1>1, <2>2, PendingTail DEF IsSend
<1>10. ASSUME NEW u \in Tasks, NEW k \in Keys, pc'[u] = "delay", Cmd(u)'.arg = k
       PROVE  FALSE
  <2>1. u # t /\ pc[u] = "delay"
    BY <1>1, <1>10
  <2>2. Cmd(u).arg = k /\ todo[u] # <<>>
    BY <1>2, <1>10, <2>1 DEF Cmd, PlaceInv, TypeInv, SendPc
  <2> QED BY <1>5, <2>1, <2>2, PendingInitialises DEF PlaceInv
<1>11. Sole'
  BY <1>5 DEF Sole
<1>12. \A u \in Tasks : Filled(todo'[u], nvs') /\ SavesFirst(todo'[u])
  BY <1>2, <1>4, <1>7, <1>8
<1>13. \A k \in Keys : \E u \in Tasks : Pending(todo'[u], k)
  BY <1>2, <1>9
<1> QED BY <1>10, <1>11, <1>12, <1>13

(* Steps inside one sendCMD() that leave the list alone.                   *)
LEMMA CredCall ==
    ASSUME PlaceInv, CredInv, NEW t \in Tasks,
           Call(t) \/ WaitRecvBit(t) \/ ClearSendBit(t) \/ Write(t) \/ Retry(t)
    PROVE  CredInv'
<1> USE DEF bits, env
<1>1. CASE Call(t) \/ WaitRecvBit(t) \/ ClearSendBit(t) \/ Retry(t)
  <2>1. UNCHANGED <<todo, uart, modem, nvs, overlapped>>
    BY <1>1 DEF Call, WaitRecvBit, ClearSendBit, Retry
  <2>2. \A u \in Tasks : pc'[u] = "delay" => pc[u] = "delay"
    BY <1>1 DEF Call, WaitRecvBit, ClearSendBit, Retry, Go, PlaceInv, TypeInv
  <2>3. \A k \in Keys : Delivered(k)' = Delivered(k)
    BY <2>1 DEF Delivered
  <2> QED BY <2>1, <2>2, <2>3, CredWire
<1>2. CASE Write(t)
  <2> DEFINE L == todo[t]
             line == [by |-> t, cmd |-> Cmd(t).arg, val |-> Cmd(t).val]
  <2>1. /\ pc[t] = "write" /\ pc' = [pc EXCEPT ![t] = "delay"]
        /\ uart' = Append(uart, line) /\ UNCHANGED <<todo, modem, nvs, overlapped>>
    BY <1>2 DEF Write, Go
  <2>2. /\ L \in Seq(Calls) /\ L # <<>> /\ Head(L).op = "send" /\ Cmd(t) = Head(L)
        /\ uart \in Seq(Lines)
    BY <2>1 DEF PlaceInv, TypeInv, SendPc, Cmd
  <2>3. line \in Lines /\ line.cmd = Head(L).arg /\ line.val = Head(L).val
    <3>1. Head(L) \in Calls
      BY <2>2, HeadIsCall
    <3> QED BY <2>2, <3>1 DEF Calls, Lines, Names, Vals
  <2>4. \A u \in Tasks \ {t} : pc'[u] = pc[u]
    BY <2>1 DEF PlaceInv, TypeInv
  <2> HIDE DEF line
  <2>5. ASSUME ~overlapped, NEW k \in Keys, Head(L).arg = k PROVE Delivered(k)'
    <3>1. Filled(L, nvs)
      BY <2>5 DEF CredInv
    <3>2. Head(L).val = nvs[k]
      <4> HIDE DEF L
      <4> QED BY <2>2, <2>5, <3>1, HeadFilled DEF IsSend
    <3>3. Reaches(Append(uart, line), modem, k, nvs[k])
      <4> HIDE DEF L
      <4> QED BY <2>2, <2>3, <2>5, <3>2, ReachesWritten
    <3> QED BY <2>1, <3>3 DEF Delivered
  <2>6. ASSUME NEW k \in Keys, Head(L).arg # k, Delivered(k) PROVE Delivered(k)'
    <3>1. Reaches(Append(uart, line), modem, k, nvs[k])
      <4> HIDE DEF L
      <4> QED BY <2>2, <2>3, <2>6, ReachesWritten DEF Delivered
    <3> QED BY <2>1, <3>1 DEF Delivered
  <2> HIDE DEF L
  <2> QED BY <2>1, <2>2, <2>4, <2>5, <2>6, CredWire
<1> QED BY <1>1, <1>2

(* A sendCMD() that ends: its command has been written, so the credential  *)
(* it carried is delivered; or lora_init() sends all of them again.        *)
LEMMA CredEnd ==
    ASSUME PlaceInv, CredInv, NEW t \in Tasks, Accept(t) \/ Recover(t)
    PROVE  CredInv'
<1> USE DEF bits, env
<1> DEFINE L == todo[t]
<1>1. pc[t] = "delay" /\ pc' = [pc EXCEPT ![t] = "next"] /\ UNCHANGED <<uart, modem, nvs>>
  BY DEF Accept, Recover, Go
<1>2. /\ L \in Seq(Calls) /\ L # <<>> /\ Head(L).op = "send" /\ Cmd(t) = Head(L)
  BY <1>1 DEF PlaceInv, TypeInv, SendPc, Cmd
<1>3. Head(L) \in Calls /\ Tail(L) \in Seq(Calls) /\ SetSend \in Calls
  <2> HIDE DEF L
  <2> QED BY <1>2, HeadIsCall, SetSendIsCall
<1>4. ~overlapped => /\ Filled(L, nvs) /\ SavesFirst(L)
                     /\ \A k \in Keys : Head(L).arg = k => Delivered(k)
  BY <1>1, <1>2 DEF CredInv
<1>5. ~overlapped => Filled(Tail(L), nvs) /\ NoSaves(Tail(L))
  <2> HIDE DEF L
  <2> QED BY <1>2, <1>4, FilledTail, SavesOver
<1>6. SetSend.op = "set" /\ SetSend.arg = NoArg
  BY DEF SetSend
<1>7. CASE Accept(t)
  <2> DEFINE p == <<SetSend>>
             s == p \o Tail(L)
  <2>1. todo' = [todo EXCEPT ![t] = s] /\ UNCHANGED overlapped
    BY <1>7 DEF Accept
  <2>2. p \in Seq(Calls) /\ Len(p) = 1 /\ p[1] = SetSend
    BY <1>3, Singleton
  <2>3. Filled(p, nvs) /\ NoSaves(p)
    <3>1. \A i \in 1 .. Len(p) : p[i].op = "set"
      BY <1>6, <2>2
    <3> HIDE DEF p
    <3> QED BY <2>2, <3>1, ShortFilled DEF IsSend
  <2>4. (\E i \in DOMAIN s : s[i].arg \in Keys \cup {"AT", "ATZ", "cfg"}) => Initialising(t)
    <3>1. NoArg \notin Keys \cup {"AT", "ATZ", "cfg"}
      BY AtAssumption DEF Keys, Range, NoArg
    <3>2. /\ s \in Seq(Calls) /\ Len(s) = 1 + Len(Tail(L))
          /\ \A i \in 1 .. 1 : s[i] = p[i]
          /\ \A i \in 1 .. Len(Tail(L)) : s[1 + i] = Tail(L)[i]
      <4> HIDE DEF p, L
      <4>1. /\ s \in Seq(Calls) /\ Len(s) = Len(p) + Len(Tail(L))
            /\ \A i \in 1 .. Len(p) : s[i] = p[i]
            /\ \A i \in 1 .. Len(Tail(L)) : s[Len(p) + i] = Tail(L)[i]
        BY <1>3, <2>2, Joined
      <4> QED BY <2>2, <4>1
    <3>3. /\ Len(L) \in Nat /\ Len(Tail(L)) = Len(L) - 1
          /\ \A i \in 1 .. Len(Tail(L)) : i + 1 \in 1 .. Len(L) /\ Tail(L)[i] = L[i + 1]
      BY <1>2, TailCalls
    <3>4. DOMAIN L = 1 .. Len(L)
      BY <1>2
    <3> HIDE DEF s, p
    <3>5. DOMAIN s = 1 .. Len(s)
      <4>1. s \in Seq(Calls)
        BY <3>2
      <4> QED BY <4>1
    <3>6. \A i \in DOMAIN s : i = 1 \/ (i \in DOMAIN L /\ s[i] = L[i])
      <4> TAKE i \in DOMAIN s
      <4> HIDE DEF L
      <4>1. i = 1 \/ (i - 1 \in 1 .. Len(Tail(L)) /\ 1 + (i - 1) = i /\ (i - 1) + 1 = i)
        BY <3>2, <3>3, <3>5
      <4> QED BY <3>2, <3>3, <3>4, <4>1
    <3>7. s[1].arg = NoArg
      BY <1>6, <2>2, <3>2
    <3> QED BY <3>1, <3>6, <3>7 DEF Initialising
  <2> HIDE DEF p, L
  <2>5. s \in Seq(Calls)
    BY <1>3, <2>2, Joined
  <2>6. ~overlapped => Filled(s, nvs) /\ NoSaves(s)
    BY <1>3, <1>5, <2>2, <2>3, FilledJoin
  <2>7. ASSUME ~overlapped, NEW k \in Keys, Pending(L, k)
        PROVE  Pending(s, k) \/ Delivered(k)
    <3>1. CASE IsSend(Head(L), k)
      BY <1>4, <2>7, <3>1 DEF IsSend
    <3>2. CASE ~IsSend(Head(L), k)
      BY <1>2, <1>3, <2>2, <2>7, <3>2, PendingTail, PendingJoin
    <3> QED BY <3>1, <3>2
  <2> HIDE DEF s
  <2>8. ~overlapped => SavesFirst(s)
    BY <2>6, NoSavesFirst
  <2> QED BY <1>1, <2>1, <2>4, <2>5, <2>6, <2>7, <2>8, CredList DEF L
<1>8. CASE Recover(t)
  <2> DEFINE q == <<Head(L), SetSend>>
             p == lora_init \o q
             s == p \o Tail(L)
  <2>1. todo' = [todo EXCEPT ![t] = s] /\ Overlap(t)
    BY <1>2, <1>8 DEF Recover
  <2>2. q \in Seq(Calls) /\ Len(q) = 2 /\ q[1] = Head(L) /\ q[2] = SetSend
    BY <1>3
  <2>3. ~overlapped => Filled(q, nvs) /\ NoSaves(q)
    <3> SUFFICES ASSUME ~overlapped PROVE Filled(q, nvs) /\ NoSaves(q)
      OBVIOUS
    <3>1. \A k \in Keys : IsSend(Head(L), k) => Head(L).val = nvs[k]
      <4> HIDE DEF L
      <4> QED BY <1>2, <1>4, HeadFilled
    <3> HIDE DEF q, L
    <3>2. \A i \in 1 .. Len(q) : i = 1 \/ i = 2
      BY <2>2
    <3>3. \A i \in 1 .. Len(q) : /\ q[i].op \notin {"load", "save"}
                                 /\ \A k \in Keys : IsSend(q[i], k) => q[i].val = nvs[k]
      BY <1>2, <1>6, <2>2, <3>1, <3>2 DEF IsSend
    <3> QED BY <2>2, <3>3, ShortFilled
  <2>4. lora_init \in Seq(Calls) /\ NoSaves(lora_init) /\ Filled(lora_init, nvs)
        /\ \A k \in Keys : Pending(lora_init, k)
    BY InitIsCalls, InitLoads DEF Filled
  <2> HIDE DEF q, L
  <2>5. p \in Seq(Calls) /\ \A k \in Keys : Pending(p, k)
    BY <2>2, <2>4, Joined, PendingJoin
  <2>6. ~overlapped => Filled(p, nvs) /\ NoSaves(p)
    BY <2>2, <2>3, <2>4, FilledJoin
  <2> HIDE DEF p
  <2>7. s \in Seq(Calls) /\ \A k \in Keys : Pending(s, k)
    BY <1>3, <2>5, Joined, PendingJoin
  <2>8. ~overlapped => Filled(s, nvs) /\ NoSaves(s)
    BY <1>3, <1>5, <2>5, <2>6, FilledJoin
  <2>9. /\ overlapped => overlapped'
        /\ ~overlapped' => \A u \in Tasks \ {t} : ~Initialising(u)
    BY <2>1 DEF Overlap
  <2> HIDE DEF s
  <2>10. ~overlapped => SavesFirst(s)
    BY <2>8, NoSavesFirst
  <2> QED BY <1>1, <2>1, <2>7, <2>8, <2>9, <2>10, CredList
<1> QED BY <1>7, <1>8

(* readCMD() writes only its poll, or gives up and sends all credentials.  *)
LEMMA CredRead ==
    ASSUME PlaceInv, CredInv, readCMD
    PROVE  CredInv'
<1> USE DEF bits, env
<1>t. "reader" \in Tasks
  BY DEF Tasks
<1>1. CASE WaitSendBit \/ ClearRecvBit \/ PollAgain \/ PollDone \/ SetRecvBit
  <2>1. UNCHANGED <<todo, uart, modem, nvs, overlapped>>
    BY <1>1 DEF WaitSendBit, ClearRecvBit, PollAgain, PollDone, SetRecvBit
  <2>2. \A u \in Tasks : pc'[u] = "delay" => pc[u] = "delay"
    <3>1. CASE SetRecvBit
      BY <1>t, <3>1 DEF SetRecvBit, Release
    <3>2. CASE WaitSendBit \/ ClearRecvBit \/ PollAgain \/ PollDone
      BY <1>t, <3>2 DEF WaitSendBit, ClearRecvBit, PollAgain, PollDone, Go, PlaceInv, TypeInv
    <3> QED BY <1>1, <3>1, <3>2
  <2>3. \A k \in Keys : Delivered(k)' = Delivered(k)
    BY <2>1 DEF Delivered
  <2> QED BY <2>1, <2>2, <2>3, CredWire
<1>2. CASE PollWrite
  <2> DEFINE line == [by |-> "reader", cmd |-> "RECVB", val |-> NoProfile]
  <2>1. /\ pc' = [pc EXCEPT !["reader"] = "rdelay"] /\ uart' = Append(uart, line)
        /\ UNCHANGED <<todo, modem, nvs, overlapped>>
    BY <1>2 DEF PollWrite, Go
  <2>2. line \in Lines /\ line.cmd = "RECVB" /\ uart \in Seq(Lines)
    BY <1>t DEF Lines, Vals, PlaceInv, TypeInv
  <2>3. "RECVB" \notin Keys
    BY AtAssumption DEF Keys, Range
  <2>4. \A u \in Tasks : pc'[u] = "delay" => pc[u] = "delay"
    BY <1>t, <2>1 DEF PlaceInv, TypeInv
  <2> HIDE DEF line
  <2>5. ASSUME NEW k \in Keys, Delivered(k) PROVE Delivered(k)'
    <3>1. Reaches(Append(uart, line), modem, k, nvs[k])
      BY <2>2, <2>3, <2>5, ReachesWritten DEF Delivered
    <3> QED BY <2>1, <3>1 DEF Delivered
  <2> QED BY <2>1, <2>4, <2>5, CredWire
<1>3. CASE PollFailed
  <2>1. /\ pc' = [pc EXCEPT !["reader"] = "next"] /\ Overlap("reader")
        /\ todo' = [todo EXCEPT !["reader"] = lora_init]
        /\ UNCHANGED <<uart, modem, nvs>>
    BY <1>3 DEF PollFailed, Go
  <2>2. /\ lora_init \in Seq(Calls) /\ Filled(lora_init, nvs)
        /\ SavesFirst(lora_init) /\ \A k \in Keys : Pending(lora_init, k)
    BY InitIsCalls, InitLoads, NoSavesFirst DEF Filled
  <2>3. /\ overlapped => overlapped'
        /\ ~overlapped' => \A u \in Tasks \ {"reader"} : ~Initialising(u)
    BY <2>1 DEF Overlap
  <2> QED BY <1>t, <2>1, <2>2, <2>3, CredList
<1> QED BY <1>1, <1>2, <1>3 DEF readCMD

(* An OK gives the modem the credential that was sent; a command left      *)
(* without one carried none.                                               *)
LEMMA CredModem ==
    ASSUME CredentialsAnswered, PlaceInv, CredInv, AnswerOk \/ NoOk
    PROVE  CredInv'
<1> USE DEF bits, env
<1>1. /\ UNCHANGED <<pc, todo, nvs, overlapped>> /\ uart' = Tail(uart) /\ uart # <<>>
      /\ uart \in Seq(Lines) /\ modem \in [Keys -> Vals]
  BY DEF AnswerOk, NoOk, PlaceInv, TypeInv
<1>2. ASSUME NEW k \in Keys
      PROVE  modem'[k] = IF Head(uart).cmd = k THEN Head(uart).val ELSE modem[k]
  <2>1. CASE AnswerOk
    <3>1. modem' = IF Head(uart).cmd \in Keys
                   THEN [modem EXCEPT ![Head(uart).cmd] = Head(uart).val] ELSE modem
      BY <2>1 DEF AnswerOk
    <3> QED BY <1>1, <1>2, <3>1
  <2>2. CASE NoOk
    <3>1. Head(uart).cmd \notin Keys /\ modem' = modem
      BY <2>2 DEF NoOk, CredentialsAnswered
    <3> QED BY <1>2, <3>1
  <2> QED BY <2>1, <2>2
<1>3. ASSUME NEW k \in Keys, Delivered(k) PROVE Delivered(k)'
  <2>1. Reaches(Tail(uart), modem', k, nvs[k])
    BY <1>1, <1>2, <1>3, ReachesAnswered DEF Delivered
  <2> QED BY <1>1, <2>1 DEF Delivered
<1> QED BY <1>1, <1>3, CredWire

(* Every step keeps CredInv.                                               *)
LEMMA CredNext ==
    ASSUME CredentialsAnswered
    PROVE  PlaceInv /\ CredInv /\ [Next]_vars => CredInv'
<1> SUFFICES ASSUME PlaceInv, CredInv, [Next]_vars PROVE CredInv'
  OBVIOUS
<1>1. CASE UNCHANGED vars
  <2>1. UNCHANGED <<pc, todo, uart, modem, nvs, overlapped>>
    BY <1>1 DEF vars, env
  <2>2. \A k \in Keys : Delivered(k)' = Delivered(k)
    BY <2>1 DEF Delivered
  <2> QED BY <2>1, <2>2, CredWire
<1>2. ASSUME NEW t \in Tasks, TaskStep(t) PROVE CredInv'
  BY <1>2, CredSave, CredBetween, CredCall, CredEnd DEF TaskStep, sendCMD
<1> QED BY <1>1, <1>2, CredCallers, CredRead, CredModem DEF Next

(* As long as the commands that carry credentials are answered and no two  *)
(* initialisations overlap, the modem ends up with the stored credentials: *)
(* a profile that is saved is the one lora_init() reads back and sends     *)
(* (murata_parser.c:355-372), whoever runs it, through any losses of other *)
(* commands, late answers, retries and nested recoveries.                  *)
THEOREM CredentialsArrive ==
    ASSUME CredentialsAnswered
    PROVE  Spec => []ModemMatchesNvs
<1>1. PlaceInv /\ CredInv => ModemMatchesNvs
  <2> SUFFICES ASSUME PlaceInv, CredInv, ~overlapped, uart = <<>>,
                      \A t \in Tasks : todo[t] = <<>>
               PROVE  modem = nvs
    BY DEF ModemMatchesNvs
  <2>1. \A t \in Tasks, k \in Keys : ~Pending(todo[t], k)
    BY EmptyFilled
  <2>2. Len(uart) = 0
    OBVIOUS
  <2>3. ASSUME NEW k \in Keys PROVE modem[k] = nvs[k]
    <3>1. Reaches(uart, modem, k, nvs[k])
      BY <2>1 DEF CredInv, Delivered
    <3> QED BY <2>2, <3>1 DEF Reaches
  <2>4. modem \in [Keys -> Vals] /\ nvs \in [Keys -> Profiles]
    BY DEF PlaceInv, TypeInv
  <2> QED BY <2>3, <2>4
<1>2. PlaceInv /\ CredInv /\ [Next]_vars => CredInv'
  BY CredNext
<1> QED BY <1>1, <1>2, CredStart, PlaceInit, PlaceNext, PTL DEF Spec
=============================================================================
