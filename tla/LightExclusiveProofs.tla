------------------------ MODULE LightExclusiveProofs ------------------------
(***************************************************************************)
(* Proofs about the light control when a handler starts only while the     *)
(* others rest (Exclusive), which is what the code assumes and does not    *)
(* enforce: the lamp, status_led and NVS agree at rest, commands are saved *)
(* before they are multicast, none is lost, and a mesh id is stored as it  *)
(* was asked for, across restarts at any access.                           *)
(***************************************************************************)
EXTENDS LightControlProofs

(* The accesses that change status_led.                                    *)
Writers == {"status", "digit", "asked", "low_pwm", "max_pwm", "gen"}
DigitOf(id, j) == (id \div 10^(j - 1)) % 10
DigitOp(id, j) == Op("digit", [at |-> numDigits + 1 - j, digit |-> DigitOf(id, j)])
HasDigits(st) ==
    \A j \in 1 .. Digits(st.asked) : st.meshid[numDigits + 1 - j] = DigitOf(st.asked, j)

Pending(l, names) == \E i \in 1 .. Len(l) : l[i].op \in names
Later(l, i, names) == \E j \in i + 1 .. Len(l) : l[j].op \in names

(* What is true of the rest of a handler wherever it stands: what it has   *)
(* still to change it has still to save, save_led() is not split, Apply    *)
(* is not reordered, and what ends a handler comes last.                   *)
Sound(l) ==
    \A i \in 1 .. Len(l) :
        /\ l[i].op \in Writers => Later(l, i, {"copy"})
        /\ l[i].op = "copy" => i + 1 \in 1 .. Len(l) /\ l[i + 1].op = "commit"
        /\ l[i].op = "commit" /\ i > 1 => l[i - 1].op = "copy"
        /\ l[i].op = "status" /\ i > 1 => l[i - 1] = Op("bright", l[i].arg)
        /\ l[i].op = "status" /\ i > 2 => l[i - 2] = Op("color", l[i].arg)
        /\ l[i].op = "color" => Later(l, i, {"status"})
        /\ l[i].op = "bright" => Later(l, i, {"status", "return"})
        /\ l[i].op \in {"reload", "check_flag", "clear_flag", "root_write_own"} =>
               i = Len(l)
        /\ l[i].op = "clear_flag" /\ i > 1 => l[i - 1].op = "root_write_ble"
        /\ l[i].op = "root_write_own" =>
               \A j \in 1 .. i : l[j].op = "status" => l[j].arg = l[i].arg
        /\ l[i].op = "digit" => Later(l, i, {"asked"})
        /\ l[i].op = "asked" =>
               \A k \in 1 .. i - 1 :
                   \E j \in 1 .. Digits(l[i].arg.id) : l[k] = DigitOp(l[i].arg.id, j)

Alone(t) == \A u \in Tasks \ {t} : todo[u] = <<>>

(* nvs is behind status_led only until save_led() has ended.               *)
Stored(t) ==
    /\ nvs = status_led \/ Pending(todo[t], {"copy"}) \/ Doing(t, "commit")
    /\ Doing(t, "commit") => copy[t] = status_led

(* The lamp is ahead of status_led only until the assignment to it.        *)
Followed(t) ==
    /\ \/ lamp.show.color = effective_color(status_led.set.color)
       \/ Pending(todo[t], {"status"})
    /\ \/ lamp.show.bright = effective_brightness(status_led.set.bright)
       \/ Pending(todo[t], {"status", "return"})
    /\ Len(todo[t]) > 1 /\ todo[t][2].op = "status" =>
           lamp.show.color = effective_color(todo[t][2].arg.color)
    /\ Doing(t, "status") => lamp.show = Shown(Arg(t))

(* The root's own command is status_led's before it is multicast.          *)
OwnFirst(t) ==
    \A i \in 1 .. Len(todo[t]) :
        todo[t][i].op = "root_write_own" =>
            status_led.set = todo[t][i].arg \/ Pending(todo[t], {"status"})

(* The digits of the id asked for are in meshid or on their way there.     *)
Spelled(t) ==
    /\ HasDigits(status_led) \/ Pending(todo[t], {"asked"})
    /\ \A i \in 1 .. Len(todo[t]) :
           todo[t][i].op = "asked" =>
               \A j \in 1 .. Digits(todo[t][i].arg.id) :
                   \/ status_led.meshid[numDigits + 1 - j] = DigitOf(todo[t][i].arg.id, j)
                   \/ \E k \in 1 .. i - 1 : todo[t][k] = DigitOp(todo[t][i].arg.id, j)

Good(t) ==
    /\ Alone(t) /\ Sound(todo[t])
    /\ Stored(t) /\ Followed(t) /\ OwnFirst(t) /\ Spelled(t)

RangeKept == rescaled \/ (lamp.low = status_led.low /\ lamp.max = status_led.max)

ExclusiveInv ==
    /\ TypeInv /\ RangeKept
    /\ nvs.work <= status_led.work /\ HasDigits(nvs)
    /\ \E t \in Tasks : Good(t)

(* The rest of a list, element by element.                                 *)
LEMMA TailElements ==
    ASSUME NEW l \in Seq(Ops), l # <<>>
    PROVE  /\ Tail(l) \in Seq(Ops) /\ Len(l) \in Nat \ {0} /\ Len(Tail(l)) = Len(l) - 1
           /\ Head(l) = l[1]
           /\ \A i \in 1 .. Len(l) - 1 : Tail(l)[i] = l[i + 1]
           /\ Tail(l) # <<>> => Head(Tail(l)) = l[2] /\ Len(l) > 1
BY HeadTailProperties, EmptySeq

(* What is pending in the rest of a list, and what the first access was.   *)
LEMMA PendingTail ==
    ASSUME NEW l \in Seq(Ops), l # <<>>, NEW names
    PROVE  /\ Pending(Tail(l), names) => Pending(l, names)
           /\ Pending(l, names) /\ Head(l).op \notin names => Pending(Tail(l), names)
           /\ Tail(l) = <<>> => ~Pending(Tail(l), names)
<1>1. Pending(Tail(l), names) => Pending(l, names)
  BY TailElements DEF Pending
<1>2. ASSUME Pending(l, names), Head(l).op \notin names
      PROVE  Pending(Tail(l), names)
  <2>1. PICK i \in 1 .. Len(l) : l[i].op \in names
    BY <1>2 DEF Pending
  <2>2. i # 1
    BY <1>2, <2>1, TailElements
  <2>3. i - 1 \in 1 .. Len(Tail(l)) /\ Tail(l)[i - 1] = l[i]
    BY <2>2, TailElements
  <2> QED
    BY <2>1, <2>3 DEF Pending
<1>3. Tail(l) = <<>> => ~Pending(Tail(l), names)
  <2>1. Tail(l) = <<>> => Len(Tail(l)) = 0
    BY EmptySeq
  <2>2. \A r : Len(r) = 0 => ~Pending(r, names)
    BY DEF Pending
  <2> QED
    BY <2>1, <2>2, Zenon
<1> QED
  BY <1>1, <1>2, <1>3

(* The rest of a sound list is sound.                                      *)
LEMMA SoundTail ==
    ASSUME NEW l \in Seq(Ops), l # <<>>, Sound(l)
    PROVE  Sound(Tail(l))
<1> DEFINE r == Tail(l)
<1>1. /\ Len(l) \in Nat /\ Len(r) = Len(l) - 1
      /\ \A i \in 1 .. Len(r) : i + 1 \in 1 .. Len(l) /\ r[i] = l[i + 1]
  BY TailElements
<1>2. \A j \in 2 .. Len(l) : j - 1 \in 1 .. Len(r) /\ r[j - 1] = l[j]
  BY <1>1
<1> HIDE DEF r
<1> SUFFICES ASSUME NEW i \in 1 .. Len(r)
             PROVE  /\ r[i].op \in Writers => Later(r, i, {"copy"})
                    /\ r[i].op = "copy" => i + 1 \in 1 .. Len(r) /\ r[i + 1].op = "commit"
                    /\ r[i].op = "commit" /\ i > 1 => r[i - 1].op = "copy"
                    /\ r[i].op = "status" /\ i > 1 => r[i - 1] = Op("bright", r[i].arg)
                    /\ r[i].op = "status" /\ i > 2 => r[i - 2] = Op("color", r[i].arg)
                    /\ r[i].op = "color" => Later(r, i, {"status"})
                    /\ r[i].op = "bright" =>
                           Later(r, i, {"status", "return"})
                    /\ r[i].op \in {"reload", "check_flag", "clear_flag",
                                    "root_write_own"} => i = Len(r)
                    /\ r[i].op = "clear_flag" /\ i > 1 => r[i - 1].op = "root_write_ble"
                    /\ r[i].op = "root_write_own" =>
                           \A j \in 1 .. i : r[j].op = "status" => r[j].arg = r[i].arg
                    /\ r[i].op = "digit" => Later(r, i, {"asked"})
                    /\ r[i].op = "asked" =>
                           \A k \in 1 .. i - 1 : \E j \in 1 .. Digits(r[i].arg.id) :
                               r[k] = DigitOp(r[i].arg.id, j)
  BY DEF Sound, r
<1>3. i + 1 \in 1 .. Len(l) /\ r[i] = l[i + 1]
  BY <1>1
<1>4. ASSUME NEW names, Later(l, i + 1, names)
      PROVE  Later(r, i, names)
  <2> PICK j \in (i + 1) + 1 .. Len(l) : l[j].op \in names
    BY <1>4 DEF Later
  <2>1. j - 1 \in i + 1 .. Len(r) /\ r[j - 1] = l[j]
    BY <1>1, <1>2
  <2> QED
    BY <2>1 DEF Later
<1>5. r[i].op \in Writers => Later(r, i, {"copy"})
  BY <1>3, <1>4 DEF Sound
<1>6. r[i].op = "copy" => i + 1 \in 1 .. Len(r) /\ r[i + 1].op = "commit"
  BY <1>1, <1>3 DEF Sound
<1>7. r[i].op = "commit" /\ i > 1 => r[i - 1].op = "copy"
  BY <1>1, <1>3 DEF Sound
<1>8. r[i].op = "status" /\ i > 1 => r[i - 1] = Op("bright", r[i].arg)
  BY <1>1, <1>3 DEF Sound
<1>9. r[i].op = "status" /\ i > 2 => r[i - 2] = Op("color", r[i].arg)
  BY <1>1, <1>3 DEF Sound
<1>10. r[i].op = "color" => Later(r, i, {"status"})
  BY <1>3, <1>4 DEF Sound
<1>11. r[i].op = "bright" => Later(r, i, {"status", "return"})
  BY <1>3, <1>4 DEF Sound
<1>12. r[i].op \in {"reload", "check_flag", "clear_flag", "root_write_own"} =>
           i = Len(r)
  BY <1>1, <1>3 DEF Sound
<1>13. r[i].op = "clear_flag" /\ i > 1 => r[i - 1].op = "root_write_ble"
  BY <1>1, <1>3 DEF Sound
<1>14. r[i].op = "root_write_own" =>
           \A j \in 1 .. i : r[j].op = "status" => r[j].arg = r[i].arg
  BY <1>1, <1>3 DEF Sound
<1>15. r[i].op = "digit" => Later(r, i, {"asked"})
  BY <1>3, <1>4 DEF Sound
<1>16. ASSUME r[i].op = "asked", NEW k \in 1 .. i - 1
       PROVE  \E j \in 1 .. Digits(r[i].arg.id) : r[k] = DigitOp(r[i].arg.id, j)
  <2>1. k \in 1 .. Len(r) /\ k + 1 \in 1 .. (i + 1) - 1
    BY <1>1
  <2>2. r[k] = l[k + 1]
    BY <1>1, <2>1
  <2>3. \E j \in 1 .. Digits(l[i + 1].arg.id) : l[k + 1] = DigitOp(l[i + 1].arg.id, j)
    BY <1>3, <1>16, <2>1 DEF Sound
  <2> QED
    BY <1>3, <2>2, <2>3
<1> QED
  BY <1>5, <1>6, <1>7, <1>8, <1>9, <1>10, <1>11, <1>12, <1>13, <1>14, <1>15, <1>16

(* What Sound says of the access a handler makes next.                     *)
LEMMA SoundHead ==
    ASSUME NEW l \in Seq(Ops), l # <<>>, Sound(l)
    PROVE  /\ Head(l).op \in Writers => Pending(Tail(l), {"copy"})
           /\ Head(l).op = "copy" => Tail(l) # <<>> /\ Head(Tail(l)).op = "commit"
           /\ Tail(l) # <<>> /\ Head(Tail(l)).op = "commit" => Head(l).op = "copy"
           /\ Tail(l) # <<>> /\ Head(Tail(l)).op = "status" =>
                  Head(l).op = "bright" /\ Head(l).arg = Head(Tail(l)).arg
           /\ Len(Tail(l)) > 1 /\ Tail(l)[2].op = "status" =>
                  Head(l).op = "color" /\ Head(l).arg = Tail(l)[2].arg
           /\ Head(l).op = "color" => Pending(Tail(l), {"status"})
           /\ Head(l).op = "bright" => Pending(Tail(l), {"status", "return"})
           /\ Head(l).op \in {"reload", "check_flag", "clear_flag",
                              "root_write_own"} => Tail(l) = <<>>
           /\ Tail(l) # <<>> /\ Head(Tail(l)).op = "clear_flag" =>
                  Head(l).op = "root_write_ble"
           /\ \A i \in 1 .. Len(Tail(l)) :
                  Tail(l)[i].op = "root_write_own" /\ Head(l).op = "status" =>
                      Head(l).arg = Tail(l)[i].arg
           /\ Head(l).op = "digit" => Pending(Tail(l), {"asked"})
           /\ Pending(Tail(l), {"asked"}) => Head(l).op = "digit"
           /\ \A i \in 1 .. Len(Tail(l)) :
                  Tail(l)[i].op = "asked" =>
                      \E j \in 1 .. Digits(Tail(l)[i].arg.id) :
                          Head(l) = DigitOp(Tail(l)[i].arg.id, j)
<1> DEFINE r == Tail(l)
<1>1. /\ r \in Seq(Ops) /\ Len(l) \in Nat \ {0} /\ Len(r) = Len(l) - 1 /\ Head(l) = l[1]
      /\ \A i \in 1 .. Len(r) : i + 1 \in 1 .. Len(l) /\ r[i] = l[i + 1]
      /\ r # <<>> => Head(r) = l[2] /\ 2 \in 1 .. Len(l)
      /\ 1 \in 1 .. Len(l)
  BY TailElements
<1>2. \A j \in 1 + 1 .. Len(l) : j - 1 \in 1 .. Len(r) /\ r[j - 1] = l[j]
  BY <1>1
<1>3. Len(r) = 0 => r = <<>>
  BY <1>1, EmptySeq
<1> HIDE DEF r
<1>4. ASSUME NEW names, Later(l, 1, names)
      PROVE  Pending(r, names)
  BY <1>2, <1>4 DEF Pending, Later
<1>5. Head(l).op \in Writers => Pending(r, {"copy"})
  BY <1>1, <1>4 DEF Sound
<1>6. Head(l).op = "copy" => r # <<>> /\ Head(r).op = "commit"
  BY <1>1 DEF Sound
<1>7. r # <<>> /\ Head(r).op = "commit" => Head(l).op = "copy"
  BY <1>1 DEF Sound
<1>8. r # <<>> /\ Head(r).op = "status" => Head(l).op = "bright" /\ Head(l).arg = Head(r).arg
  <2>1. 2 \in 1 .. Len(l) /\ l[2].op = "status" => l[1] = Op("bright", l[2].arg)
    BY DEF Sound
  <2> QED
    BY <1>1, <2>1 DEF Op
<1>9. Len(r) > 1 /\ r[2].op = "status" => Head(l).op = "color" /\ Head(l).arg = r[2].arg
  <2>1. 3 \in 1 .. Len(l) /\ l[3].op = "status" => l[1] = Op("color", l[3].arg)
    BY DEF Sound
  <2>2. Len(r) > 1 => 3 \in 1 .. Len(l) /\ r[2] = l[3]
    BY <1>1
  <2> QED
    BY <1>1, <2>1, <2>2 DEF Op
<1>10. Head(l).op = "color" => Pending(r, {"status"})
  BY <1>1, <1>4 DEF Sound
<1>11. Head(l).op = "bright" => Pending(r, {"status", "return"})
  BY <1>1, <1>4 DEF Sound
<1>12. Head(l).op \in {"reload", "check_flag", "clear_flag", "root_write_own"} =>
           r = <<>>
  BY <1>1, <1>3 DEF Sound
<1>13. r # <<>> /\ Head(r).op = "clear_flag" => Head(l).op = "root_write_ble"
  BY <1>1 DEF Sound
<1>14. \A i \in 1 .. Len(r) :
           r[i].op = "root_write_own" /\ Head(l).op = "status" => Head(l).arg = r[i].arg
  BY <1>1 DEF Sound
<1>15. Head(l).op = "digit" => Pending(r, {"asked"})
  BY <1>1, <1>4 DEF Sound
<1>16. ASSUME NEW i \in 1 .. Len(r), r[i].op = "asked"
       PROVE  \E j \in 1 .. Digits(r[i].arg.id) : Head(l) = DigitOp(r[i].arg.id, j)
  <2>1. i + 1 \in 1 .. Len(l) /\ r[i] = l[i + 1] /\ 1 \in 1 .. (i + 1) - 1
    BY <1>1
  <2>2. \E j \in 1 .. Digits(l[i + 1].arg.id) : l[1] = DigitOp(l[i + 1].arg.id, j)
    BY <1>16, <2>1 DEF Sound
  <2> QED
    BY <1>1, <2>1, <2>2
<1>17. Pending(r, {"asked"}) => Head(l).op = "digit"
  <2>1. \A id, j : DigitOp(id, j).op = "digit"
    BY DEF DigitOp, Op
  <2> QED
    BY <1>16, <2>1 DEF Pending
<1> QED
  BY <1>5, <1>6, <1>7, <1>8, <1>9, <1>10, <1>11, <1>12, <1>13, <1>14, <1>15, <1>16,
     <1>17 DEF r

-----------------------------------------------------------------------------
(* What a handler's step keeps of Good, whichever access it makes.         *)

(* A handler that is running is the one the invariant speaks of.           *)
LEMMA ActiveTask ==
    ASSUME ExclusiveInv, NEW t \in Tasks, todo[t] # <<>>
    PROVE  Good(t) /\ todo[t] \in Seq(Ops)
BY DEF ExclusiveInv, Good, Alone, TypeInv

(* After its access it is still alone, with a sound rest.                  *)
LEMMA NextInList ==
    ASSUME ExclusiveInv, NEW t \in Tasks, todo[t] # <<>>, Done(t)
    PROVE  Alone(t)' /\ Sound(todo[t])' /\ todo'[t] = Tail(todo[t])
<1>1. Good(t) /\ todo[t] \in Seq(Ops)
  BY ActiveTask
<1>2. todo' = [todo EXCEPT ![t] = Tail(todo[t])] /\ todo \in [Tasks -> Seq(Ops)]
  BY DEF Done, ExclusiveInv, TypeInv
<1>3. todo'[t] = Tail(todo[t]) /\ \A u \in Tasks \ {t} : todo'[u] = todo[u]
  BY <1>2
<1>4. Sound(Tail(todo[t]))
  BY <1>1, SoundTail DEF Good
<1>5. Alone(t)'
  BY <1>1, <1>3 DEF Good, Alone
<1>6. Sound(todo[t])'
  BY <1>3, <1>4
<1> QED
  BY <1>3, <1>5, <1>6

(* Stored, for every access but save_led()'s two.                          *)
LEMMA StoredKept ==
    ASSUME ExclusiveInv, NEW t \in Tasks, todo[t] # <<>>, Done(t),
           Head(todo[t]).op \notin {"copy", "commit"},
           nvs' = nvs, status_led' = status_led \/ Head(todo[t]).op \in Writers
    PROVE  Stored(t)'
<1> DEFINE l == todo[t]
<1>1. Good(t) /\ l \in Seq(Ops) /\ todo'[t] = Tail(l)
  BY ActiveTask, NextInList
<1>2. ~(Doing(t, "commit"))'
  BY <1>1, SoundHead DEF Doing, Good
<1>3. CASE Head(l).op \in Writers
  <2>1. Pending(Tail(l), {"copy"})
    BY <1>1, <1>3, SoundHead DEF Good
  <2> QED
    BY <1>1, <1>2, <2>1 DEF Stored, Pending
<1>4. CASE status_led' = status_led
  <2>1. nvs = status_led \/ Pending(l, {"copy"})
    BY <1>1 DEF Good, Stored, Doing
  <2>2. nvs = status_led \/ Pending(Tail(l), {"copy"})
    BY <1>1, <2>1, PendingTail
  <2> QED
    BY <1>1, <1>2, <1>4, <2>2 DEF Stored, Pending
<1> QED
  BY <1>3, <1>4

(* Followed, for every access that leaves the lamp and the setting alone.  *)
LEMMA FollowedKept ==
    ASSUME ExclusiveInv, NEW t \in Tasks, todo[t] # <<>>, Done(t),
           Head(todo[t]).op \notin {"color", "bright", "status", "return"},
           lamp'.show = lamp.show, status_led'.set = status_led.set
    PROVE  Followed(t)'
<1> DEFINE l == todo[t]
<1>1. Good(t) /\ l \in Seq(Ops) /\ todo'[t] = Tail(l)
  BY ActiveTask, NextInList
<1>2. ~(Doing(t, "status"))'
  BY <1>1, SoundHead DEF Doing, Good
<1>3. ~(Len(Tail(l)) > 1 /\ Tail(l)[2].op = "status")
  BY <1>1, SoundHead DEF Good
<1>4. /\ \/ lamp.show.color = effective_color(status_led.set.color)
         \/ Pending(Tail(l), {"status"})
      /\ \/ lamp.show.bright = effective_brightness(status_led.set.bright)
         \/ Pending(Tail(l), {"status", "return"})
  BY <1>1, PendingTail DEF Good, Followed
<1> QED
  BY <1>1, <1>2, <1>3, <1>4 DEF Followed, Pending

(* OwnFirst, for every access that leaves the setting alone.               *)
LEMMA OwnKept ==
    ASSUME ExclusiveInv, NEW t \in Tasks, todo[t] # <<>>, Done(t),
           Head(todo[t]).op # "status", status_led'.set = status_led.set
    PROVE  OwnFirst(t)'
<1> DEFINE l == todo[t]
<1>1. Good(t) /\ l \in Seq(Ops) /\ todo'[t] = Tail(l)
  BY ActiveTask, NextInList
<1>2. Pending(l, {"status"}) => Pending(Tail(l), {"status"})
  BY <1>1, PendingTail
<1>3. \A i \in 1 .. Len(Tail(l)) :
          Tail(l)[i].op = "root_write_own" =>
              status_led.set = Tail(l)[i].arg \/ Pending(Tail(l), {"status"})
  <2> TAKE i \in 1 .. Len(Tail(l))
  <2>1. i + 1 \in 1 .. Len(l) /\ Tail(l)[i] = l[i + 1]
    BY <1>1, TailElements
  <2> QED
    BY <1>1, <1>2, <2>1 DEF Good, OwnFirst
<1> QED
  BY <1>1, <1>3 DEF OwnFirst, Pending

(* Spelled, for every access but a digit and the end of the digits.        *)
LEMMA SpelledKept ==
    ASSUME ExclusiveInv, NEW t \in Tasks, todo[t] # <<>>, Done(t),
           Head(todo[t]).op \notin {"digit", "asked"},
           status_led'.meshid = status_led.meshid, status_led'.asked = status_led.asked
    PROVE  Spelled(t)' /\ HasDigits(status_led)
<1> DEFINE l == todo[t]
<1>1. Good(t) /\ l \in Seq(Ops) /\ todo'[t] = Tail(l)
  BY ActiveTask, NextInList
<1>2. ~Pending(Tail(l), {"asked"})
  BY <1>1, SoundHead DEF Good
<1>3. HasDigits(status_led)
  BY <1>1, <1>2, PendingTail DEF Good, Spelled
<1> QED
  BY <1>1, <1>2, <1>3 DEF Spelled, Pending, HasDigits

-----------------------------------------------------------------------------
(* One lemma per access.                                                   *)

Kept(t) ==
    Good(t) /\ RangeKept /\ nvs.work <= status_led.work /\ HasDigits(nvs)

(* Set_Color() keeps the invariant.                                        *)
LEMMA SetColorKept == ASSUME ExclusiveInv, NEW t \in Tasks, SetColor(t) PROVE Kept(t)'
<1> DEFINE l == todo[t]
<1>1. l # <<>> /\ Head(l).op = "color" /\ Done(t)
  BY DEF SetColor, Doing
<1>2. Good(t) /\ l \in Seq(Ops) /\ Alone(t)' /\ Sound(todo[t])' /\ todo'[t] = Tail(l)
  BY <1>1, ActiveTask, NextInList
<1>3. /\ lamp'.show = [color |-> effective_color(Arg(t).color), bright |-> lamp.show.bright]
      /\ lamp'.low = lamp.low /\ lamp'.max = lamp.max
  BY DEF SetColor, ExclusiveInv, TypeInv
<1>4. /\ UNCHANGED <<status_led, nvs, rescaled>>
  BY DEF SetColor, ram, ghosts
<1>5. Stored(t)' /\ OwnFirst(t)' /\ Spelled(t)'
  BY <1>1, <1>4, StoredKept, OwnKept, SpelledKept
<1>6. Followed(t)'
  <2>1. Pending(Tail(l), {"status"}) /\ Pending(Tail(l), {"status", "return"})
    BY <1>1, <1>2, SoundHead DEF Good, Pending
  <2>2. ~(Doing(t, "status"))'
    BY <1>1, <1>2, SoundHead DEF Doing, Good
  <2>3. Len(Tail(l)) > 1 /\ Tail(l)[2].op = "status" => Tail(l)[2].arg = Arg(t)
    BY <1>1, <1>2, SoundHead DEF Good, Arg
  <2> QED
    BY <1>2, <1>3, <2>1, <2>2, <2>3 DEF Followed, Pending
<1> QED
  BY <1>2, <1>3, <1>4, <1>5, <1>6 DEF Kept, Good, RangeKept, HasDigits, ExclusiveInv

(* Set_Brightness(), whoever calls it, changes the lamp only.              *)
LEMMA BrightenKept ==
    ASSUME ExclusiveInv, NEW b, Brighten(b)
    PROVE  /\ lamp'.show = [color |-> lamp.show.color, bright |-> effective_brightness(b)]
           /\ UNCHANGED <<status_led, nvs>>
           /\ RangeKept' /\ (nvs.work <= status_led.work)' /\ HasDigits(nvs)'
<1>1. lamp.show \in [color : Int, bright : Int]
  BY DEF ExclusiveInv, TypeInv
<1>2. \A r \in [color : Int, bright : Int] : \A x :
          [r EXCEPT !.bright = x] = [color |-> r.color, bright |-> x]
  OBVIOUS
<1>3. lamp' = [show |-> [color |-> lamp.show.color, bright |-> effective_brightness(b)],
               low |-> status_led.low, max |-> status_led.max]
  BY <1>1, <1>2, Zenon DEF Brighten
<1>4. UNCHANGED <<status_led, nvs>>
  BY DEF Brighten, ram
<1> QED
  BY <1>3, <1>4 DEF RangeKept, HasDigits, ExclusiveInv

(* A command's Set_Brightness() keeps the invariant.                       *)
LEMMA SetBrightnessKept ==
    ASSUME ExclusiveInv, NEW t \in Tasks, SetBrightness(t)
    PROVE  Kept(t)'
<1> DEFINE l == todo[t]
<1>1. l # <<>> /\ Head(l).op = "bright" /\ Done(t) /\ Brighten(Arg(t).bright)
  BY DEF SetBrightness, Doing
<1>2. Good(t) /\ l \in Seq(Ops) /\ Alone(t)' /\ Sound(todo[t])' /\ todo'[t] = Tail(l)
  BY <1>1, ActiveTask, NextInList
<1>3. /\ lamp'.show = [color |-> lamp.show.color, bright |-> effective_brightness(Arg(t).bright)]
      /\ UNCHANGED <<status_led, nvs>>
      /\ RangeKept' /\ (nvs.work <= status_led.work)' /\ HasDigits(nvs)'
  BY <1>1, BrightenKept
<1>4. Stored(t)' /\ OwnFirst(t)' /\ Spelled(t)'
  BY <1>1, <1>3, StoredKept, OwnKept, SpelledKept
<1>5. Followed(t)'
  <2>1. Pending(Tail(l), {"status", "return"})
    BY <1>1, <1>2, SoundHead DEF Good
  <2>2. lamp.show.color = effective_color(status_led.set.color) \/ Pending(Tail(l), {"status"})
    BY <1>1, <1>2, PendingTail DEF Good, Followed
  <2>3. ~(Len(Tail(l)) > 1 /\ Tail(l)[2].op = "status")
    BY <1>1, <1>2, SoundHead DEF Good
  <2>4. (Doing(t, "status") => lamp.show = Shown(Arg(t)))'
    <3>1. SUFFICES ASSUME Tail(l) # <<>>, Head(Tail(l)).op = "status"
                   PROVE  lamp'.show = Shown(Head(Tail(l)).arg)
      BY <1>2 DEF Doing, Arg, Shown
    <3>2. Head(Tail(l)).arg = Arg(t)
      BY <1>1, <1>2, <3>1, SoundHead DEF Good, Arg
    <3>3. lamp.show.color = effective_color(Head(Tail(l)).arg.color)
      BY <1>1, <1>2, <3>1, TailElements DEF Good, Followed
    <3> QED
      BY <1>3, <3>2, <3>3 DEF Shown
  <2> QED
    BY <1>2, <1>3, <2>1, <2>2, <2>3, <2>4 DEF Followed, Pending
<1> QED
  BY <1>2, <1>3, <1>4, <1>5 DEF Kept, Good

(* SCAN_SL's return to the last status keeps the invariant.                *)
LEMMA ReturnKept == ASSUME ExclusiveInv, NEW t \in Tasks, ReturnToStatus(t) PROVE Kept(t)'
<1> DEFINE l == todo[t]
<1>1. l # <<>> /\ Head(l).op = "return" /\ Done(t) /\ Brighten(status_led.set.bright)
  BY DEF ReturnToStatus, Doing
<1>2. Good(t) /\ l \in Seq(Ops) /\ Alone(t)' /\ Sound(todo[t])' /\ todo'[t] = Tail(l)
  BY <1>1, ActiveTask, NextInList
<1>3. /\ lamp'.show = [color |-> lamp.show.color,
                       bright |-> effective_brightness(status_led.set.bright)]
      /\ UNCHANGED <<status_led, nvs>>
      /\ RangeKept' /\ (nvs.work <= status_led.work)' /\ HasDigits(nvs)'
  BY <1>1, BrightenKept
<1>4. Stored(t)' /\ OwnFirst(t)' /\ Spelled(t)'
  BY <1>1, <1>3, StoredKept, OwnKept, SpelledKept
<1>5. Followed(t)'
  <2>1. lamp.show.color = effective_color(status_led.set.color) \/ Pending(Tail(l), {"status"})
    BY <1>1, <1>2, PendingTail DEF Good, Followed
  <2>2. ~(Len(Tail(l)) > 1 /\ Tail(l)[2].op = "status") /\ ~(Doing(t, "status"))'
    BY <1>1, <1>2, SoundHead DEF Good, Doing
  <2> QED
    BY <1>2, <1>3, <2>1, <2>2 DEF Followed, Pending
<1> QED
  BY <1>2, <1>3, <1>4, <1>5 DEF Kept, Good

(* Assign with the range and the working time accounted for.               *)
LEMMA AssignKept ==
    ASSUME ExclusiveInv, NEW t \in Tasks, NEW st, Assign(t, st), st.work = status_led.work
    PROVE  /\ status_led' = st
           /\ UNCHANGED <<nvs, lamp, copy>>
           /\ RangeKept' /\ (nvs.work <= status_led.work)' /\ HasDigits(nvs)'
BY DEF Assign, ExclusiveInv, RangeKept, HasDigits

(* A command's assignment to status_led keeps the invariant.               *)
LEMMA SetStatusKept == ASSUME ExclusiveInv, NEW t \in Tasks, SetStatus(t) PROVE Kept(t)'
<1> DEFINE l == todo[t]
           st == [status_led EXCEPT !.set = Arg(t)]
<1>1. l # <<>> /\ Head(l).op = "status" /\ Done(t) /\ Assign(t, st)
  BY DEF SetStatus, Doing, Assign
<1>2. Good(t) /\ l \in Seq(Ops) /\ Alone(t)' /\ Sound(todo[t])' /\ todo'[t] = Tail(l)
  BY <1>1, ActiveTask, NextInList
<1>3. /\ st.work = status_led.work /\ st.set = Arg(t)
      /\ st.meshid = status_led.meshid /\ st.asked = status_led.asked
  <2>1. status_led \in States
    BY DEF ExclusiveInv, TypeInv, TypeOK
  <2>2. Arg(t) \in Requests
    <3>1. Head(l) \in Ops
      BY <1>1, <1>2, HeadTailProperties
    <3> QED
      BY <1>1, <3>1, OpArgs DEF Arg, Requests
  <2> QED
    BY <2>1, <2>2, StateUpdates, Zenon DEF Updated
<1> HIDE DEF st
<1>4. /\ status_led' = st
      /\ UNCHANGED <<nvs, lamp>>
      /\ RangeKept' /\ (nvs.work <= status_led.work)' /\ HasDigits(nvs)'
  BY <1>1, <1>3, AssignKept
<1>5. Stored(t)' /\ Spelled(t)'
  BY <1>1, <1>3, <1>4, StoredKept, SpelledKept DEF Writers
<1>6. Followed(t)'
  <2>1. lamp.show = Shown(Arg(t))
    BY <1>1, <1>2 DEF Good, Followed, Doing
  <2>2. ~(Len(Tail(l)) > 1 /\ Tail(l)[2].op = "status") /\ ~(Doing(t, "status"))'
    BY <1>1, <1>2, SoundHead DEF Good, Doing
  <2> QED
    BY <1>2, <1>3, <1>4, <2>1, <2>2 DEF Followed, Shown
<1>7. OwnFirst(t)'
  BY <1>1, <1>2, <1>3, <1>4, SoundHead DEF OwnFirst, Good, Arg
<1> QED
  BY <1>2, <1>4, <1>5, <1>6, <1>7 DEF Kept, Good

(* The digits, the id asked for and the profile leave the setting alone.   *)
LEMMA WriterKept ==
    ASSUME ExclusiveInv, NEW t \in Tasks, todo[t] # <<>>, NEW st, Assign(t, st),
           Head(todo[t]).op \in Writers \ {"status"},
           st.work = status_led.work, st.set = status_led.set
    PROVE  /\ Spelled(t)' => Kept(t)'
           /\ todo'[t] = Tail(todo[t]) /\ status_led' = st
<1>1. Done(t)
  BY DEF Assign
<1>2. Alone(t)' /\ Sound(todo[t])' /\ todo'[t] = Tail(todo[t])
  BY <1>1, NextInList
<1>3. /\ status_led' = st
      /\ UNCHANGED <<nvs, lamp>>
      /\ RangeKept' /\ (nvs.work <= status_led.work)' /\ HasDigits(nvs)'
  BY AssignKept
<1>4. Stored(t)'
  BY <1>1, <1>3, StoredKept DEF Writers
<1>5. Followed(t)' /\ OwnFirst(t)'
  BY <1>1, <1>3, FollowedKept, OwnKept DEF Writers
<1> QED
  BY <1>2, <1>3, <1>4, <1>5 DEF Kept, Good

(* A digit, or the end of the digits, keeps the invariant.                 *)
LEMMA SetMeshIdKept == ASSUME ExclusiveInv, NEW t \in Tasks, SetMeshId(t) PROVE Kept(t)'
<1> DEFINE l == todo[t]
<1>1. l # <<>> /\ Head(l).op \in Writers \ {"status"}
  BY DEF SetMeshId, Doing, Writers
<1>2. Head(l) \in Ops /\ status_led \in States
  BY <1>1, DoneTyped DEF ExclusiveInv, TypeInv, TypeOK
<1>3. Good(t) /\ l \in Seq(Ops)
  BY <1>1, ActiveTask
<1>4. \A i \in 1 .. Len(Tail(l)) : i + 1 \in 1 .. Len(l) /\ Tail(l)[i] = l[i + 1]
  BY <1>1, <1>3, TailElements
<1>5. CASE Doing(t, "digit") /\ Assign(t, [status_led EXCEPT !.meshid[Arg(t).at] = Arg(t).digit])
  <2> DEFINE m == [status_led.meshid EXCEPT ![Arg(t).at] = Arg(t).digit]
             st == [status_led EXCEPT !.meshid = m]
  <2>1. Head(l).op = "digit" /\ Arg(t) \in [at : 1 .. numDigits, digit : 0 .. 9]
    BY <1>2, <1>5, OpArgs DEF Arg, Doing
  <2>2. status_led.meshid \in [1 .. numDigits -> 0 .. 9]
    BY <1>2, StateFields
  <2>3. m \in [1 .. numDigits -> 0 .. 9]
    BY <2>1, <2>2
  <2>4. \A p \in 1 .. numDigits :
            m[p] = IF p = Arg(t).at THEN Arg(t).digit ELSE status_led.meshid[p]
    BY <2>1, <2>2
  <2>5. Assign(t, st)
    BY <1>5
  <2> HIDE DEF m
  <2>6. Updated(st, status_led.set, status_led.work, m, status_led.asked)
    BY <1>2, <2>3, StateUpdates, Zenon
  <2> HIDE DEF st
  <2>7. (Spelled(t)' => Kept(t)') /\ todo'[t] = Tail(l) /\ status_led' = st
    BY <1>1, <2>5, <2>6, WriterKept DEF Updated
  <2>8. Pending(Tail(l), {"asked"})
    BY <1>1, <1>3, <2>1, SoundHead DEF Good
  <2>9. ASSUME NEW i \in 1 .. Len(Tail(l)), Tail(l)[i].op = "asked",
               NEW j \in 1 .. Digits(Tail(l)[i].arg.id)
        PROVE  \/ m[numDigits + 1 - j] = DigitOf(Tail(l)[i].arg.id, j)
               \/ \E k \in 1 .. i - 1 : Tail(l)[k] = DigitOp(Tail(l)[i].arg.id, j)
    <3> DEFINE id == Tail(l)[i].arg.id
    <3>1. i + 1 \in 1 .. Len(l) /\ Tail(l)[i] = l[i + 1]
      BY <1>4
    <3>2. PICK h \in 1 .. Digits(id) : Head(l) = DigitOp(id, h)
      BY <1>1, <1>3, <2>9, SoundHead DEF Good
    <3>3. Digits(id) \in 0 .. numDigits
      <4>1. l[i + 1] \in Ops
        BY <1>3, <3>1, ElementOfSeq
      <4>2. id \in MeshIds
        BY <2>9, <3>1, <4>1, OpArgs
      <4> QED
        BY <4>2, DigitsBounded
    <3>4. numDigits + 1 - j \in 1 .. numDigits
      BY <3>3 DEF numDigits
    <3>5. Arg(t).at = numDigits + 1 - h /\ Arg(t).digit = DigitOf(id, h)
      BY <3>2 DEF Arg, DigitOp, Op
    <3>6. CASE h = j
      BY <2>4, <3>4, <3>5, <3>6
    <3>7. CASE h # j
      <4>1. numDigits + 1 - j # Arg(t).at
        BY <3>3, <3>5, <3>7 DEF numDigits
      <4>2. \/ status_led.meshid[numDigits + 1 - j] = DigitOf(id, j)
            \/ \E k \in 1 .. (i + 1) - 1 : l[k] = DigitOp(id, j)
        BY <1>3, <2>9, <3>1 DEF Good, Spelled
      <4>3. ASSUME NEW k \in 1 .. (i + 1) - 1, l[k] = DigitOp(id, j)
            PROVE  k - 1 \in 1 .. i - 1 /\ Tail(l)[k - 1] = DigitOp(id, j)
        <5>1. k # 1
          <6>1. SUFFICES ASSUME k = 1 PROVE FALSE
            OBVIOUS
          <6>2. Head(l) = DigitOp(id, j)
            BY <1>1, <1>3, <4>3, <6>1, TailElements
          <6>3. Arg(t).at = numDigits + 1 - j
            BY <6>2 DEF Arg, DigitOp, Op
          <6> QED
            BY <4>1, <6>3
        <5>2. k - 1 \in 1 .. i - 1 /\ k - 1 \in 1 .. Len(Tail(l)) /\ (k - 1) + 1 = k
          BY <5>1, <1>3, <1>1, TailElements
        <5> QED
          BY <1>4, <4>3, <5>2
      <4> QED
        BY <2>4, <3>4, <4>1, <4>2, <4>3
    <3> QED
      BY <3>6, <3>7
  <2>10. Spelled(t)'
    BY <2>6, <2>7, <2>8, <2>9 DEF Spelled, Pending, Updated
  <2> QED
    BY <2>7, <2>10
<1>6. CASE Doing(t, "asked") /\ Assign(t, [status_led EXCEPT !.asked = Arg(t).id])
  <2> DEFINE st == [status_led EXCEPT !.asked = Arg(t).id]
  <2>1. Head(l).op = "asked" /\ Arg(t).id \in MeshIds
    BY <1>2, <1>6, OpArgs DEF Arg, Doing
  <2>2. Updated(st, status_led.set, status_led.work, status_led.meshid, Arg(t).id)
    BY <1>2, <2>1, StateUpdates, Zenon
  <2>3. Assign(t, st)
    BY <1>6
  <2> HIDE DEF st
  <2>4. (Spelled(t)' => Kept(t)') /\ todo'[t] = Tail(l) /\ status_led' = st
    BY <1>1, <2>2, <2>3, WriterKept DEF Updated
  <2>5. \A j \in 1 .. Digits(Arg(t).id) :
            status_led.meshid[numDigits + 1 - j] = DigitOf(Arg(t).id, j)
    <3>1. 1 \in 1 .. Len(l) /\ l[1] = Head(l)
      BY <1>1, <1>3, TailElements
    <3>2. l[1].op = "asked" /\ l[1].arg.id = Arg(t).id
      BY <2>1, <3>1 DEF Arg
    <3> QED
      BY <1>3, <3>1, <3>2 DEF Good, Spelled
  <2>6. HasDigits(st)
    BY <2>2, <2>5 DEF HasDigits, Updated
  <2>7. ~Pending(Tail(l), {"asked"})
    BY <1>1, <1>3, <2>1, SoundHead DEF Good
  <2>8. Spelled(t)'
    BY <2>4, <2>6, <2>7 DEF Spelled, Pending, HasDigits
  <2> QED
    BY <2>4, <2>8
<1> QED
  BY <1>5, <1>6 DEF SetMeshId

(* A member of a street light profile keeps the invariant.                 *)
LEMMA SetProfileKept == ASSUME ExclusiveInv, NEW t \in Tasks, SetProfile(t) PROVE Kept(t)'
<1>1. todo[t] # <<>> /\ Head(todo[t]).op \in {"low_pwm", "max_pwm", "gen"}
  BY DEF SetProfile, Doing
<1>2. Head(todo[t]).op \in Writers \ {"status"} /\ Head(todo[t]).op \notin {"digit", "asked"}
  BY <1>1 DEF Writers
<1>3. PICK st : /\ Updated(st, status_led.set, status_led.work, status_led.meshid,
                          status_led.asked)
                /\ Assign(t, st)
  BY ProfileUpdates DEF ExclusiveInv
<1>4. Done(t) /\ status_led' = st /\ (Spelled(t)' => Kept(t)')
  BY <1>1, <1>2, <1>3, WriterKept DEF Updated, Assign
<1>5. Spelled(t)'
  BY <1>1, <1>2, <1>3, <1>4, SpelledKept DEF Updated
<1> QED
  BY <1>4, <1>5

(* save_led()'s copy of status_led keeps the invariant.                    *)
LEMMA CopyKept == ASSUME ExclusiveInv, NEW t \in Tasks, CopyStatus(t) PROVE Kept(t)'
<1> DEFINE l == todo[t]
<1>1. l # <<>> /\ Head(l).op = "copy" /\ Done(t)
  BY DEF CopyStatus, Doing
<1>2. Good(t) /\ l \in Seq(Ops) /\ Alone(t)' /\ Sound(todo[t])' /\ todo'[t] = Tail(l)
  BY <1>1, ActiveTask, NextInList
<1>3. /\ UNCHANGED <<status_led, nvs, lamp, rescaled>>
      /\ copy'[t] = status_led
  BY DEF CopyStatus, ghosts, ExclusiveInv, TypeInv, TypeOK
<1>4. Stored(t)'
  BY <1>1, <1>2, <1>3, SoundHead DEF Stored, Doing, Good
<1>5. Followed(t)' /\ OwnFirst(t)' /\ Spelled(t)'
  BY <1>1, <1>3, FollowedKept, OwnKept, SpelledKept
<1> QED
  BY <1>2, <1>3, <1>4, <1>5 DEF Kept, Good, RangeKept, HasDigits, ExclusiveInv

(* save_led()'s commit, which stores that copy, keeps the invariant.       *)
LEMMA CommitKept == ASSUME ExclusiveInv, NEW t \in Tasks, Commit(t) PROVE Kept(t)'
<1> DEFINE l == todo[t]
<1>1. l # <<>> /\ Head(l).op = "commit" /\ Done(t)
  BY DEF Commit, Doing
<1>2. Good(t) /\ l \in Seq(Ops) /\ Alone(t)' /\ Sound(todo[t])' /\ todo'[t] = Tail(l)
  BY <1>1, ActiveTask, NextInList
<1>3. /\ UNCHANGED <<status_led, lamp, rescaled>>
      /\ nvs' = status_led
  BY <1>1, <1>2 DEF Commit, ram, ghosts, Good, Stored, Doing
<1>4. Stored(t)'
  BY <1>1, <1>2, <1>3, SoundHead DEF Stored, Doing, Good
<1>5. Followed(t)' /\ OwnFirst(t)' /\ Spelled(t)'
  BY <1>1, <1>3, FollowedKept, OwnKept, SpelledKept
<1>6. (nvs.work <= status_led.work)'
  <2>1. status_led.work \in 0 .. MaxMinutes
    BY StateFields DEF ExclusiveInv, TypeInv, TypeOK
  <2> QED
    BY <1>3, <2>1, BoundsAreNat
<1>7. HasDigits(nvs)'
  BY <1>1, <1>3, SpelledKept DEF HasDigits
<1> QED
  BY <1>2, <1>3, <1>4, <1>5, <1>6, <1>7 DEF Kept, Good, RangeKept, HasDigits, ExclusiveInv

(* A reload finds what is in RAM already.                                  *)
LEMMA ReloadKept == ASSUME ExclusiveInv, NEW t \in Tasks, Reload(t) PROVE Kept(t)'
<1> DEFINE l == todo[t]
<1>1. l # <<>> /\ Head(l).op = "reload" /\ Done(t) /\ Assign(t, nvs)
  BY DEF Reload, Doing, Assign
<1>2. Good(t) /\ l \in Seq(Ops) /\ Alone(t)' /\ Sound(todo[t])' /\ todo'[t] = Tail(l)
  BY <1>1, ActiveTask, NextInList
<1>3. nvs = status_led
  <2>1. Tail(l) = <<>>
    BY <1>1, <1>2, SoundHead DEF Good
  <2>2. ~Pending(l, {"copy"})
    BY <1>1, <1>2, <2>1, PendingTail
  <2> QED
    BY <1>1, <1>2, <2>2 DEF Good, Stored, Doing
<1>4. /\ status_led' = status_led
      /\ UNCHANGED <<nvs, lamp>>
      /\ RangeKept' /\ (nvs.work <= status_led.work)' /\ HasDigits(nvs)'
  BY <1>1, <1>3, AssignKept
<1>5. Stored(t)' /\ Followed(t)' /\ OwnFirst(t)' /\ Spelled(t)'
  BY <1>1, <1>4, StoredKept, FollowedKept, OwnKept, SpelledKept
<1> QED
  BY <1>2, <1>4, <1>5 DEF Kept, Good

(* A group command left for the timer, the flag set for it and the flag    *)
(* cleared after the multicast keep the invariant.                         *)
LEMMA GroupFlagKept ==
    ASSUME ExclusiveInv, NEW t \in Tasks, ToGroup(t) \/ SetFlag(t) \/ ClearFlag(t)
    PROVE  Kept(t)'
<1>1. /\ todo[t] # <<>> /\ Done(t)
      /\ Head(todo[t]).op \in {"to_group", "set_flag", "clear_flag"}
  BY DEF ToGroup, SetFlag, ClearFlag, Doing
<1>2. Good(t) /\ Alone(t)' /\ Sound(todo[t])'
  BY <1>1, ActiveTask, NextInList
<1>3. UNCHANGED <<status_led, nvs, lamp, rescaled>>
  BY DEF ToGroup, SetFlag, ClearFlag, ghosts
<1>4. Stored(t)' /\ Followed(t)' /\ OwnFirst(t)' /\ Spelled(t)'
  BY <1>1, <1>3, StoredKept, FollowedKept, OwnKept, SpelledKept
<1> QED
  BY <1>2, <1>3, <1>4 DEF Kept, Good, RangeKept, HasDigits, ExclusiveInv

(* The wait for the mesh keeps the invariant.                              *)
LEMMA MeshWaitKept == ASSUME ExclusiveInv, NEW t \in Tasks, MeshWait(t) PROVE Kept(t)'
<1>1. todo[t] # <<>> /\ Head(todo[t]).op = "mesh_wait" /\ Done(t)
  BY DEF MeshWait, Doing
<1>2. Alone(t)' /\ Sound(todo[t])'
  BY <1>1, NextInList
<1>3. UNCHANGED <<status_led, nvs, lamp, rescaled>>
  BY DEF MeshWait, ghosts, ram
<1>4. Stored(t)' /\ Followed(t)' /\ OwnFirst(t)' /\ Spelled(t)'
  BY <1>1, <1>3, StoredKept, FollowedKept, OwnKept, SpelledKept
<1> QED
  BY <1>2, <1>3, <1>4 DEF Kept, Good, RangeKept, HasDigits, ExclusiveInv

(* A multicast keeps the invariant.                                        *)
LEMMA RootWriteKept == ASSUME ExclusiveInv, NEW t \in Tasks, RootWrite(t) PROVE Kept(t)'
<1>1. /\ todo[t] # <<>> /\ Done(t)
      /\ Head(todo[t]).op \in {"root_write", "root_write_own", "root_write_ble"}
  BY DEF RootWrite, Doing
<1>2. Good(t) /\ Alone(t)' /\ Sound(todo[t])'
  BY <1>1, ActiveTask, NextInList
<1>3. UNCHANGED <<status_led, nvs, lamp, rescaled, ble_cmd_to_gr, recvb_form_ble>>
  BY DEF RootWrite, ram
<1>4. Stored(t)' /\ Followed(t)' /\ OwnFirst(t)' /\ Spelled(t)'
  BY <1>1, <1>3, StoredKept, FollowedKept, OwnKept, SpelledKept
<1> QED
  BY <1>2, <1>3, <1>4 DEF Kept, Good, RangeKept, HasDigits, ExclusiveInv

-----------------------------------------------------------------------------
(* Handlers start.                                                         *)

(* What makes a list a beginning: no part of save_led() or of Apply is     *)
(* missing in front, and the root's own command is applied in it.          *)
Fresh(l) ==
    /\ Sound(l)
    /\ 1 \in 1 .. Len(l) => l[1].op \notin {"commit", "status", "clear_flag"}
    /\ 2 \in 1 .. Len(l) => l[2].op # "status"
    /\ \A i \in 1 .. Len(l) : l[i].op = "root_write_own" => Pending(l, {"status"})
    /\ \A i \in 1 .. Len(l) :
           l[i].op = "asked" =>
               \A j \in 1 .. Digits(l[i].arg.id) :
                   \E k \in 1 .. i - 1 : l[k] = DigitOp(l[i].arg.id, j)

(* With all handlers at rest the lamp, status_led and NVS agree.           *)
LEMMA QuietFacts ==
    ASSUME ExclusiveInv, Quiet
    PROVE  /\ nvs = status_led /\ HasDigits(status_led)
           /\ lamp.show.color = effective_color(status_led.set.color)
           /\ lamp.show.bright = effective_brightness(status_led.set.bright)
<1>1. PICK t \in Tasks : Good(t)
  BY DEF ExclusiveInv
<1>2. todo[t] = <<>>
  BY DEF Quiet, Resting
<1>3. Len(todo[t]) = 0
  BY <1>2, EmptySeq
<1>4. \A names : ~Pending(todo[t], names)
  BY <1>3 DEF Pending
<1> QED
  BY <1>1, <1>2, <1>4 DEF Good, Stored, Followed, Spelled, Doing

(* A handler that begins finds them so, and leaves the invariant true.     *)
LEMMA FreshGood ==
    ASSUME ExclusiveInv, NEW t \in Tasks, NEW ops \in Seq(Ops), Fresh(ops), Alone(t),
           nvs = status_led, HasDigits(status_led),
           lamp.show.color = effective_color(status_led.set.color),
           lamp.show.bright = effective_brightness(status_led.set.bright),
           todo' = [todo EXCEPT ![t] = ops],
           UNCHANGED <<nvs, lamp>>, status_led'.set = status_led.set,
           status_led'.meshid = status_led.meshid, status_led'.asked = status_led.asked,
           status_led' = status_led \/ Pending(ops, {"copy"})
    PROVE  Good(t)'
<1>1. todo'[t] = ops /\ \A u \in Tasks \ {t} : todo'[u] = todo[u]
  BY DEF ExclusiveInv, TypeInv
<1>2. ops # <<>> => Head(ops) = ops[1] /\ 1 \in 1 .. Len(ops)
  BY TailElements
<1>3. Len(ops) > 1 => 2 \in 1 .. Len(ops)
  OBVIOUS
<1>4. Alone(t)' /\ Sound(todo[t])'
  BY <1>1 DEF Alone, Fresh
<1>5. Stored(t)'
  BY <1>1, <1>2 DEF Stored, Doing, Fresh, Pending
<1>6. Followed(t)'
  BY <1>1, <1>2, <1>3 DEF Followed, Doing, Fresh
<1>7. OwnFirst(t)'
  BY <1>1 DEF OwnFirst, Fresh, Pending
<1>9. Spelled(t)'
  <2>1. HasDigits(status_led)'
    BY DEF HasDigits, DigitOf, Digits
  <2>2. \A i \in 1 .. Len(ops) :
            ops[i].op = "asked" =>
                \A j \in 1 .. Digits(ops[i].arg.id) :
                    \E k \in 1 .. i - 1 : ops[k] = DigitOp(ops[i].arg.id, j)
    BY DEF Fresh
  <2> QED
    BY <1>1, <2>1, <2>2 DEF Spelled
<1> QED
  BY <1>4, <1>5, <1>6, <1>7, <1>9 DEF Good

(* The timer's look at the group flag keeps the invariant.                 *)
LEMMA CheckFlagKept == ASSUME ExclusiveInv, NEW t \in Tasks, CheckFlag(t) PROVE Kept(t)'
<1> DEFINE l == todo[t]
           w == <<Op("mesh_wait", NoSetting), Op("root_write_ble", NoSetting),
                  Op("clear_flag", NoSetting)>>
           ops == IF ble_cmd_to_gr THEN w ELSE <<>>
<1>1. l # <<>> /\ Head(l).op = "check_flag" /\ todo' = [todo EXCEPT ![t] = ops]
  BY DEF CheckFlag, Doing
<1>2. Good(t) /\ l \in Seq(Ops)
  BY <1>1, ActiveTask
<1>3. Tail(l) = <<>>
  BY <1>1, <1>2, SoundHead DEF Good
<1>4. \A names : "check_flag" \notin names => ~Pending(l, names)
  BY <1>1, <1>2, <1>3, PendingTail
<1>5. /\ nvs = status_led /\ HasDigits(status_led)
      /\ lamp.show.color = effective_color(status_led.set.color)
      /\ lamp.show.bright = effective_brightness(status_led.set.bright)
  BY <1>1, <1>2, <1>4 DEF Good, Stored, Followed, Spelled, Doing
<1>6. w \in Seq(Ops) /\ Fresh(w)
  <2>1. /\ Op("mesh_wait", NoSetting) \in Ops /\ Op("root_write_ble", NoSetting) \in Ops
        /\ Op("clear_flag", NoSetting) \in Ops
    BY PlainOps DEF PlainNames
  <2>2. w \in Seq(Ops)
    BY <2>1
  <2>3. /\ Len(w) = 3 /\ w[1].op = "mesh_wait" /\ w[2].op = "root_write_ble"
        /\ w[3].op = "clear_flag"
    BY DEF Op
  <2> HIDE DEF w
  <2>4. Sound(w)
    BY <2>3 DEF Sound, Writers
  <2> QED
    BY <2>2, <2>3, <2>4 DEF Fresh
<1>7. <<>> \in Seq(Ops) /\ Fresh(<<>>)
  <2>1. <<>> \in Seq(Ops) /\ Len(<<>>) = 0
    BY EmptySeq
  <2> QED
    BY <2>1 DEF Fresh, Sound
<1>8. UNCHANGED <<status_led, nvs, lamp, rescaled>>
  BY DEF CheckFlag, ram, ghosts
<1> HIDE DEF w
<1>9. ops \in Seq(Ops) /\ Fresh(ops)
  BY <1>6, <1>7
<1> HIDE DEF ops
<1>10. Good(t)'
  BY <1>1, <1>2, <1>5, <1>8, <1>9, FreshGood DEF Good
<1> QED
  BY <1>8, <1>10 DEF Kept, RangeKept, HasDigits, ExclusiveInv

(* A handler that starts keeps the invariant.                              *)
LEMMA StartKept ==
    ASSUME ExclusiveInv, Exclusive, NEW t \in Tasks, NEW ops \in Seq(Ops), Fresh(ops),
           Start(t, ops)
    PROVE  Kept(t)'
<1>1. Quiet
  BY DEF Start, MayStart, Quiet
<1>2. Alone(t)
  BY <1>1 DEF Quiet, Resting, Alone
<1>3. /\ UNCHANGED <<status_led, nvs, lamp, rescaled>>
      /\ todo' = [todo EXCEPT ![t] = ops]
  BY DEF Start, ram, ghosts
<1>4. Good(t)'
  BY <1>1, <1>2, <1>3, QuietFacts, FreshGood
<1> QED
  BY <1>3, <1>4 DEF Kept, RangeKept, HasDigits, ExclusiveInv

(* Every light command, alone or with what follows it.                     *)
LEMMA ApplyElements ==
    ASSUME NEW s
    PROVE  /\ Len(Apply(s)) = 5
           /\ Apply(s)[1] = Op("color", s) /\ Apply(s)[2] = Op("bright", s)
           /\ Apply(s)[3] = Op("status", s)
           /\ Apply(s)[4] = Op("copy", NoSetting) /\ Apply(s)[5] = Op("commit", NoSetting)
BY DEF Apply, save_led

(* A light command, with at most a multicast or a group flag after it, is  *)
(* fresh.                                                                  *)
LEMMA FreshApply ==
    ASSUME NEW s, NEW l \in Seq(Ops), Len(l) >= 5,
           l[1] = Op("color", s), l[2] = Op("bright", s), l[3] = Op("status", s),
           l[4] = Op("copy", NoSetting), l[5] = Op("commit", NoSetting),
           \A i \in 6 .. Len(l) :
               \/ l[i].op \in {"mesh_wait", "to_group", "set_flag"}
               \/ l[i].op = "root_write_own" /\ i = Len(l) /\ l[i].arg = s
    PROVE  Fresh(l)
<1>1. /\ l[1].op = "color" /\ l[2].op = "bright" /\ l[3].op = "status"
      /\ l[4].op = "copy" /\ l[5].op = "commit" /\ l[3].arg = s
      /\ l[1] = Op("color", l[3].arg) /\ l[2] = Op("bright", l[3].arg)
  BY DEF Op
<1>2. Pending(l, {"status"}) /\ Later(l, 1, {"status"}) /\ Later(l, 2, {"status", "return"})
  BY <1>1 DEF Pending, Later
<1>3. Later(l, 3, {"copy"})
  BY <1>1 DEF Later
<1>4. \A i \in 1 .. Len(l) : i \in {1, 2, 3, 4, 5} \/ i \in 6 .. Len(l)
  OBVIOUS
<1>5. Sound(l)
  <2> SUFFICES ASSUME NEW i \in 1 .. Len(l)
               PROVE  /\ l[i].op \in Writers => Later(l, i, {"copy"})
                      /\ l[i].op = "copy" => i + 1 \in 1 .. Len(l) /\ l[i + 1].op = "commit"
                      /\ l[i].op = "commit" /\ i > 1 => l[i - 1].op = "copy"
                      /\ l[i].op = "status" /\ i > 1 => l[i - 1] = Op("bright", l[i].arg)
                      /\ l[i].op = "status" /\ i > 2 => l[i - 2] = Op("color", l[i].arg)
                      /\ l[i].op = "color" => Later(l, i, {"status"})
                      /\ l[i].op = "bright" => Later(l, i, {"status", "return"})
                      /\ l[i].op \in {"reload", "check_flag", "clear_flag",
                                      "root_write_own"} => i = Len(l)
                      /\ l[i].op = "clear_flag" /\ i > 1 => l[i - 1].op = "root_write_ble"
                      /\ l[i].op = "root_write_own" =>
                             \A j \in 1 .. i : l[j].op = "status" => l[j].arg = l[i].arg
                      /\ l[i].op \notin {"digit", "asked"}
    BY DEF Sound
  <2>1. CASE i \in {1, 2, 3, 4, 5}
    BY <1>1, <1>2, <1>3, <2>1 DEF Writers
  <2>2. CASE i \in 6 .. Len(l)
    <3>1. \A j \in 1 .. i : l[j].op = "status" => j = 3
      BY <1>1, <1>4
    <3> QED
      BY <1>1, <2>2, <3>1 DEF Writers
  <2> QED
    BY <1>4, <2>1, <2>2
<1>6. \A i \in 1 .. Len(l) : l[i].op # "asked"
  BY <1>1, <1>4
<1> QED
  BY <1>1, <1>2, <1>5, <1>6 DEF Fresh

(* A concatenation, element by element.                                    *)
LEMMA ConcatElements ==
    ASSUME NEW l \in Seq(Ops), NEW m \in Seq(Ops)
    PROVE  /\ l \o m \in Seq(Ops) /\ Len(l) \in Nat /\ Len(m) \in Nat
           /\ Len(l \o m) = Len(l) + Len(m)
           /\ \A i \in 1 .. Len(l) : (l \o m)[i] = l[i]
           /\ \A i \in 1 .. Len(m) : (l \o m)[Len(l) + i] = m[i]
OBVIOUS

(* The light commands of the downlinks and of Bluetooth.                   *)
LEMMA FreshCommands ==
    ASSUME NEW s \in Settings
    PROVE  /\ Fresh(Apply(s))
           /\ Fresh(Apply(s) \o root_write_own(s))
           /\ Fresh(Apply(s) \o <<Op("to_group", s), Op("set_flag", NoSetting)>>)
<1>1. Apply(s) \in Seq(Ops) /\ root_write_own(s) \in Seq(Ops)
  BY ApplyTyped, WritesTyped
<1>2. <<Op("to_group", s), Op("set_flag", NoSetting)>> \in Seq(Ops)
  BY GroupCallTyped
<1>3. Fresh(Apply(s))
  BY <1>1, ApplyElements, FreshApply
<1>4. Fresh(Apply(s) \o root_write_own(s))
  <2> DEFINE l == Apply(s) \o root_write_own(s)
  <2>1. /\ l \in Seq(Ops) /\ Len(l) = Len(Apply(s)) + Len(root_write_own(s))
        /\ \A i \in 1 .. Len(Apply(s)) : l[i] = Apply(s)[i]
        /\ \A i \in 1 .. Len(root_write_own(s)) : l[Len(Apply(s)) + i] = root_write_own(s)[i]
    BY <1>1, ConcatElements
  <2> HIDE DEF l
  <2>2. /\ Len(root_write_own(s)) = 2 /\ root_write_own(s)[1].op = "mesh_wait"
        /\ root_write_own(s)[2].op = "root_write_own" /\ root_write_own(s)[2].arg = s
    BY DEF root_write_own, Op
  <2>3. /\ Len(l) = 7 /\ l[6].op = "mesh_wait" /\ l[7].op = "root_write_own" /\ l[7].arg = s
        /\ \A i \in 1 .. 5 : l[i] = Apply(s)[i]
    <3>1. Len(Apply(s)) = 5 /\ 1 \in 1 .. 2 /\ 2 \in 1 .. 2 /\ 5 + 1 = 6 /\ 5 + 2 = 7
      BY ApplyElements
    <3> QED
      BY <2>1, <2>2, <3>1
  <2>4. \A i \in 6 .. Len(l) : i = 6 \/ i = 7
    BY <2>3
  <2>5. Fresh(l)
    BY <2>1, <2>3, <2>4, ApplyElements, FreshApply
  <2> QED
    BY <2>5 DEF l
<1>5. Fresh(Apply(s) \o <<Op("to_group", s), Op("set_flag", NoSetting)>>)
  <2> DEFINE g == <<Op("to_group", s), Op("set_flag", NoSetting)>>
             l == Apply(s) \o g
  <2>1. g \in Seq(Ops) /\ Len(g) = 2 /\ g[1].op = "to_group" /\ g[2].op = "set_flag"
    BY <1>2 DEF Op
  <2> HIDE DEF g
  <2>2. /\ l \in Seq(Ops) /\ Len(l) = Len(Apply(s)) + Len(g)
        /\ \A i \in 1 .. Len(Apply(s)) : l[i] = Apply(s)[i]
        /\ \A i \in 1 .. Len(g) : l[Len(Apply(s)) + i] = g[i]
    BY <1>1, <2>1, ConcatElements
  <2> HIDE DEF l
  <2>3. /\ Len(l) = 7 /\ l[6].op = "to_group" /\ l[7].op = "set_flag"
        /\ \A i \in 1 .. 5 : l[i] = Apply(s)[i]
    <3>1. Len(Apply(s)) = 5 /\ 1 \in 1 .. 2 /\ 2 \in 1 .. 2 /\ 5 + 1 = 6 /\ 5 + 2 = 7
      BY ApplyElements
    <3> QED
      BY <2>1, <2>2, <3>1
  <2>4. \A i \in 6 .. Len(l) : i = 6 \/ i = 7
    BY <2>3
  <2>5. Fresh(l)
    BY <2>2, <2>3, <2>4, ApplyElements, FreshApply
  <2> QED
    BY <2>5 DEF l, g
<1> QED
  BY <1>3, <1>4, <1>5

(* The lists without an assignment.                                        *)
LEMMA FreshWrites ==
    ASSUME NEW s
    PROVE  Fresh(root_write_msg(s)) /\ Fresh(<<>>) /\ Fresh(read_led)
<1>1. /\ Len(root_write_msg(s)) = 2 /\ root_write_msg(s)[1].op = "mesh_wait"
      /\ root_write_msg(s)[2].op = "root_write"
  BY DEF root_write_msg, Op
<1>2. Len(<<>>) = 0 /\ Len(read_led) = 1 /\ read_led[1].op = "reload"
  BY EmptySeq DEF read_led, Op
<1>3. Fresh(root_write_msg(s))
  BY <1>1 DEF Fresh, Sound, Writers
<1>4. Fresh(<<>>)
  BY <1>2 DEF Fresh, Sound
<1>5. Fresh(read_led)
  BY <1>2 DEF Fresh, Sound, Writers
<1> QED
  BY <1>3, <1>4, <1>5

(* Whatever a downlink says.                                               *)
LEMMA FreshDownlink ==
    ASSUME NEW s \in Settings, NEW node \in Nodes \cup {""}, NEW type \in {0, 1, 2}
    PROVE  Fresh(Downlink(type, node, s)) /\ Fresh(ReadGps(node, s))
<1>1. Downlink(type, node, s) \in {Apply(s), Apply(s) \o root_write_own(s),
                                  root_write_msg(s), <<>>}
  BY Zenon DEF Downlink
<1>2. ReadGps(node, s) \in {root_write_msg(s), <<>>}
  BY Zenon DEF ReadGps
<1> QED
  BY <1>1, <1>2, FreshCommands, FreshWrites, Zenon

(* The writers of a profile: nothing but writes, then save_led().          *)
LEMMA FreshSaves ==
    ASSUME NEW l \in Seq(Ops), NEW n \in Nat, Len(l) = n + 2,
           \A i \in 1 .. n : l[i].op \in Writers \ {"status"},
           l[n + 1].op = "copy", l[n + 2].op = "commit",
           \A i \in 1 .. n : l[i].op = "digit" => Later(l, i, {"asked"}),
           \A i \in 1 .. n :
               l[i].op = "asked" =>
                   /\ \A k \in 1 .. i - 1 :
                          \E j \in 1 .. Digits(l[i].arg.id) : l[k] = DigitOp(l[i].arg.id, j)
                   /\ \A j \in 1 .. Digits(l[i].arg.id) :
                          \E k \in 1 .. i - 1 : l[k] = DigitOp(l[i].arg.id, j)
    PROVE  Fresh(l)
<1>1. \A i \in 1 .. Len(l) : i \in 1 .. n \/ i = n + 1 \/ i = n + 2
  OBVIOUS
<1>2. \A i \in 1 .. n : Later(l, i, {"copy"})
  <2> TAKE i \in 1 .. n
  <2>1. n + 1 \in i + 1 .. Len(l)
    OBVIOUS
  <2> QED
    BY <2>1 DEF Later
<1>3. \A i \in 1 .. n : l[i].op \in {"digit", "asked", "low_pwm", "max_pwm", "gen"}
  BY DEF Writers
<1>4. ASSUME NEW i \in 1 .. Len(l), l[i].op = "asked" PROVE i \in 1 .. n
  BY <1>1, <1>4
<1>5. ASSUME NEW i \in 1 .. Len(l), l[i].op = "digit" PROVE i \in 1 .. n
  BY <1>1, <1>5
<1>6. Sound(l)
  <2> SUFFICES ASSUME NEW i \in 1 .. Len(l)
               PROVE  /\ l[i].op \in Writers => Later(l, i, {"copy"})
                      /\ l[i].op = "copy" => i + 1 \in 1 .. Len(l) /\ l[i + 1].op = "commit"
                      /\ l[i].op = "commit" /\ i > 1 => l[i - 1].op = "copy"
                      /\ l[i].op \notin {"status", "color", "bright", "reload", "check_flag",
                                         "clear_flag", "root_write_own"}
                      /\ l[i].op = "digit" => Later(l, i, {"asked"})
                      /\ l[i].op = "asked" =>
                             \A k \in 1 .. i - 1 : \E j \in 1 .. Digits(l[i].arg.id) :
                                 l[k] = DigitOp(l[i].arg.id, j)
    BY DEF Sound
  <2>1. l[i].op = "digit" => Later(l, i, {"asked"})
    BY <1>5
  <2>2. l[i].op = "asked" =>
            \A k \in 1 .. i - 1 : \E j \in 1 .. Digits(l[i].arg.id) :
                l[k] = DigitOp(l[i].arg.id, j)
    BY <1>4
  <2>3. CASE i \in 1 .. n
    BY <1>2, <1>3, <2>1, <2>2, <2>3
  <2>4. CASE i = n + 1 \/ i = n + 2
    BY <2>4, <2>1, <2>2 DEF Writers
  <2> QED
    BY <1>1, <2>3, <2>4
<1>7. \A i \in 1 .. Len(l) :
          l[i].op = "asked" =>
              \A j \in 1 .. Digits(l[i].arg.id) :
                  \E k \in 1 .. i - 1 : l[k] = DigitOp(l[i].arg.id, j)
  BY <1>4
<1>8. /\ 1 \in 1 .. Len(l) => l[1].op \notin {"commit", "status", "clear_flag"}
      /\ 2 \in 1 .. Len(l) => l[2].op # "status"
      /\ \A i \in 1 .. Len(l) : l[i].op # "root_write_own"
  BY <1>1, <1>3
<1> QED
  BY <1>6, <1>7, <1>8 DEF Fresh

(* The two writers of a profile; the digits of a mesh id all precede its   *)
(* end.                                                                    *)
LEMMA FreshProfiles ==
    /\ \A p \in Profiles :
           Fresh(<<Op("low_pwm", p), Op("max_pwm", p), Op("gen", p)>> \o save_led)
    /\ \A id \in MeshIds :
           Fresh(DigitWrites(id) \o <<Op("asked", [id |-> id])>> \o save_led)
<1>1. ASSUME NEW p \in Profiles
      PROVE  Fresh(<<Op("low_pwm", p), Op("max_pwm", p), Op("gen", p)>> \o save_led)
  <2> DEFINE l == <<Op("low_pwm", p), Op("max_pwm", p), Op("gen", p)>> \o save_led
  <2>1. l \in Seq(Ops)
    BY ProfileTyped
  <2>2. /\ Len(l) = 3 + 2 /\ l[1].op = "low_pwm" /\ l[2].op = "max_pwm" /\ l[3].op = "gen"
        /\ l[3 + 1].op = "copy" /\ l[3 + 2].op = "commit"
    BY DEF save_led, Op
  <2> HIDE DEF l
  <2>3. \A i \in 1 .. 3 : l[i].op \in Writers \ {"status"}
    BY <2>2 DEF Writers
  <2>4. \A i \in 1 .. 3 : l[i].op \notin {"digit", "asked"}
    BY <2>2
  <2>5. Fresh(l)
    BY <2>1, <2>2, <2>3, <2>4, FreshSaves
  <2> QED
    BY <2>5 DEF l
<1>2. ASSUME NEW id \in MeshIds
      PROVE  Fresh(DigitWrites(id) \o <<Op("asked", [id |-> id])>> \o save_led)
  <2> DEFINE d == DigitWrites(id)
             a == <<Op("asked", [id |-> id])>>
             l == d \o a \o save_led
             n == Digits(id) + 1
  <2>1. l \in Seq(Ops) /\ d \in Seq(Ops) /\ a \in Seq(Ops) /\ save_led \in Seq(Ops)
    BY MeshWriteTyped, SaveTyped
  <2>2. Digits(id) \in Nat
    BY DigitsBounded DEF numDigits
  <2>3. /\ Len(d) = Digits(id) /\ \A i \in 1 .. Len(d) : d[i].op = "digit"
        /\ \A i \in 1 .. Digits(id) : d[i] = DigitOp(id, i)
    BY <2>2 DEF DigitWrites, DigitOp, DigitOf, Op
  <2>4. Len(a) = 1 /\ a[1].op = "asked" /\ a[1].arg.id = id
    BY DEF Op
  <2>5. Len(save_led) = 2 /\ save_led[1].op = "copy" /\ save_led[2].op = "commit"
    BY DEF save_led, Op
  <2> HIDE DEF d, a
  <2> DEFINE da == d \o a
  <2>6. /\ da \in Seq(Ops) /\ Len(da) = Len(d) + Len(a)
        /\ \A i \in 1 .. Len(d) : da[i] = d[i]
        /\ \A i \in 1 .. Len(a) : da[Len(d) + i] = a[i]
    BY <2>1, ConcatElements
  <2> HIDE DEF da
  <2>7. \A i \in 1 .. n : da[i].op \in Writers \ {"status"}
    <3> TAKE i \in 1 .. n
    <3>1. CASE i \in 1 .. Len(d)
      BY <2>3, <2>6, <3>1 DEF Writers
    <3>2. CASE i = Len(d) + 1
      BY <2>4, <2>6, <3>2 DEF Writers
    <3> QED
      BY <2>2, <2>3, <3>1, <3>2
  <2>8. /\ Len(l) = Len(da) + Len(save_led)
        /\ \A i \in 1 .. Len(da) : l[i] = da[i]
        /\ \A i \in 1 .. Len(save_led) : l[Len(da) + i] = save_led[i]
    BY <2>1, <2>6, ConcatElements DEF da
  <2> HIDE DEF l
  <2>9. Len(da) = n /\ n \in Nat
    BY <2>2, <2>3, <2>4, <2>6
  <2> HIDE DEF n
  <2>10. /\ Len(l) = n + 2 /\ l[n + 1].op = "copy" /\ l[n + 2].op = "commit"
         /\ \A i \in 1 .. n : l[i].op \in Writers \ {"status"}
    BY <2>5, <2>7, <2>8, <2>9
  <2>11. /\ n = Digits(id) + 1 /\ l[n].op = "asked" /\ l[n].arg.id = id
         /\ \A i \in 1 .. Digits(id) : l[i].op = "digit" /\ l[i] = DigitOp(id, i)
    <3>1. n = Len(d) + 1 /\ n \in 1 .. Len(da) /\ \A i \in 1 .. Digits(id) : i \in 1 .. Len(da)
      BY <2>2, <2>3, <2>9 DEF n
    <3>2. l[n] = a[1]
      BY <2>4, <2>6, <2>8, <3>1
    <3>3. \A i \in 1 .. Digits(id) : l[i] = d[i]
      BY <2>3, <2>6, <2>8, <3>1
    <3> QED
      BY <2>3, <2>4, <3>1, <3>2, <3>3
  <2>12. \A i \in 1 .. n : i \in 1 .. Digits(id) \/ i = n
    BY <2>2, <2>11
  <2>13. \A i \in 1 .. n : l[i].op = "digit" => Later(l, i, {"asked"})
    <3> SUFFICES ASSUME NEW i \in 1 .. n, l[i].op = "digit" PROVE Later(l, i, {"asked"})
      OBVIOUS
    <3>1. n \in i + 1 .. Len(l)
      BY <2>2, <2>9, <2>10, <2>11, <2>12
    <3> QED
      BY <2>11, <3>1 DEF Later
  <2>14. \A i \in 1 .. n :
             l[i].op = "asked" =>
                 /\ \A k \in 1 .. i - 1 :
                        \E j \in 1 .. Digits(l[i].arg.id) : l[k] = DigitOp(l[i].arg.id, j)
                 /\ \A j \in 1 .. Digits(l[i].arg.id) :
                        \E k \in 1 .. i - 1 : l[k] = DigitOp(l[i].arg.id, j)
    <3> SUFFICES ASSUME NEW i \in 1 .. n, l[i].op = "asked"
                 PROVE  /\ \A k \in 1 .. i - 1 :
                               \E j \in 1 .. Digits(id) : l[k] = DigitOp(id, j)
                        /\ \A j \in 1 .. Digits(id) :
                               \E k \in 1 .. i - 1 : l[k] = DigitOp(id, j)
                        /\ l[i].arg.id = id
      OBVIOUS
    <3>1. i = n /\ i - 1 = Digits(id)
      BY <2>2, <2>11, <2>12
    <3> QED
      BY <2>11, <3>1
  <2>15. Fresh(l)
    BY <2>1, <2>9, <2>10, <2>13, <2>14, FreshSaves
  <2> QED
    BY <2>15 DEF l, d, a
<1> QED
  BY <1>1, <1>2

(* SCAN_SL ends by returning to the last status.                           *)
LEMMA FreshScan == Fresh(<<Blink(10), Blink(100), Op("return", NoSetting)>>)
<1> DEFINE l == <<Blink(10), Blink(100), Op("return", NoSetting)>>
<1>1. Len(l) = 3 /\ l[1].op = "bright" /\ l[2].op = "bright" /\ l[3].op = "return"
  BY DEF Blink, Op
<1> HIDE DEF l
<1>2. Later(l, 1, {"status", "return"}) /\ Later(l, 2, {"status", "return"})
  BY <1>1 DEF Later
<1>3. Fresh(l)
  BY <1>1, <1>2 DEF Fresh, Sound, Writers
<1> QED
  BY <1>3 DEF l

(* Whichever command starts a handler.                                     *)
LEMMA StartsKept ==
    ASSUME ExclusiveInv, Exclusive,
           \/ LORAWAN_UPDATE \/ TEST_CONTROL_SL \/ TEST_CONTROL_SL_GR
           \/ READ_PF \/ WRITE_MESH_NETWORK_PF \/ WRITE_STREET_LIGHT_PF \/ SCAN_SL
    PROVE  \E t \in Tasks : Kept(t)'
<1>0. "parser" \in Tasks /\ "bt" \in Tasks
  BY DEF Tasks
<1> SUFFICES \E t \in Tasks, ops \in Seq(Ops) : Fresh(ops) /\ Start(t, ops)
  BY StartKept
<1>1. CASE LORAWAN_UPDATE
  <2> PICK s \in Settings, node \in Nodes \cup {""} :
          \/ \E type \in {0, 1, 2} : Start("parser", Downlink(type, node, s))
          \/ node # "" /\ Start("parser", ReadGps(node, s))
    BY <1>1 DEF LORAWAN_UPDATE
  <2>1. CASE \E type \in {0, 1, 2} : Start("parser", Downlink(type, node, s))
    BY <1>0, <2>1, DownlinkTyped, FreshDownlink, Zenon
  <2>2. CASE Start("parser", ReadGps(node, s))
    <3>1. 0 \in {0, 1, 2}
      OBVIOUS
    <3>2. ReadGps(node, s) \in Seq(Ops) /\ Fresh(ReadGps(node, s))
      BY <3>1, DownlinkTyped, FreshDownlink, Zenon
    <3> QED
      BY <1>0, <2>2, <3>2, Zenon
  <2> QED
    BY <2>1, <2>2
<1>2. CASE TEST_CONTROL_SL
  BY <1>0, <1>2, ApplyTyped, FreshCommands, Zenon DEF TEST_CONTROL_SL
<1>3. CASE TEST_CONTROL_SL_GR
  <2> PICK s \in Settings :
          Start("bt", Apply(s) \o <<Op("to_group", s), Op("set_flag", NoSetting)>>)
    BY <1>3 DEF TEST_CONTROL_SL_GR
  <2> QED
    BY <1>0, GroupCallTyped, FreshCommands, Zenon
<1>4. CASE READ_PF
  <2>1. Op("reload", NoSetting) \in Ops
    BY PlainOps DEF PlainNames
  <2>2. read_led \in Seq(Ops)
    BY <2>1 DEF read_led
  <2> QED
    BY <1>0, <1>4, <2>2, FreshWrites, Zenon DEF READ_PF
<1>5. CASE WRITE_MESH_NETWORK_PF
  BY <1>0, <1>5, MeshWriteTyped, FreshProfiles, Zenon DEF WRITE_MESH_NETWORK_PF
<1>6. CASE WRITE_STREET_LIGHT_PF
  BY <1>0, <1>6, ProfileTyped, FreshProfiles, Zenon DEF WRITE_STREET_LIGHT_PF
<1>7. CASE SCAN_SL
  BY <1>0, <1>7, ScanTyped, FreshScan, Zenon DEF SCAN_SL
<1> QED
  BY <1>1, <1>2, <1>3, <1>4, <1>5, <1>6, <1>7

(* The timer, on the 60th second and on the others.                        *)
LEMMA TimerKept ==
    ASSUME ExclusiveInv, Exclusive, Minute \/ Tick
    PROVE  Kept("timer")'
<1>0. "timer" \in Tasks
  BY DEF Tasks
<1>1. Quiet /\ Alone("timer")
  BY DEF Minute, Tick, MayStart, Quiet, Alone, Resting
<1>2. Op("check_flag", NoSetting) \in Ops
  BY PlainOps DEF PlainNames
<1>3. CASE Minute
  <2> DEFINE c == <<Op("check_flag", NoSetting)>>
             l == save_led \o c
  <2>1. c \in Seq(Ops) /\ Len(c) = 1 /\ c[1].op = "check_flag"
    BY <1>2 DEF Op
  <2>2. /\ save_led \in Seq(Ops) /\ Len(save_led) = 2
        /\ save_led[1].op = "copy" /\ save_led[2].op = "commit"
    BY SaveTyped DEF save_led, Op
  <2>3. todo' = [todo EXCEPT !["timer"] = l]
    BY <1>3 DEF Minute
  <2> HIDE DEF c
  <2>4. /\ l \in Seq(Ops) /\ Len(l) = Len(save_led) + Len(c)
        /\ \A i \in 1 .. Len(save_led) : l[i] = save_led[i]
        /\ \A i \in 1 .. Len(c) : l[Len(save_led) + i] = c[i]
    BY <2>1, <2>2, ConcatElements
  <2> HIDE DEF l
  <2>5. Len(l) = 3 /\ l[1].op = "copy" /\ l[2].op = "commit" /\ l[3].op = "check_flag"
    <3>1. 1 \in 1 .. 2 /\ 2 \in 1 .. 2 /\ 1 \in 1 .. 1 /\ 2 + 1 = 3
      OBVIOUS
    <3> QED
      BY <2>1, <2>2, <2>4, <3>1
  <2>6. Fresh(l) /\ Pending(l, {"copy"})
    BY <2>5 DEF Fresh, Sound, Writers, Pending
  <2>7. status_led' = [status_led EXCEPT !.work = status_led.work + 1]
    BY <1>3 DEF Minute
  <2>8. UNCHANGED <<nvs, lamp, rescaled>>
    BY <1>3 DEF Minute, ghosts
  <2>9. /\ status_led'.set = status_led.set /\ status_led'.work = status_led.work + 1
        /\ status_led'.low = status_led.low /\ status_led'.max = status_led.max
        /\ status_led'.meshid = status_led.meshid /\ status_led'.asked = status_led.asked
    <3>1. status_led \in States
      BY DEF ExclusiveInv, TypeInv, TypeOK
    <3> QED
      BY <2>7, <3>1, StateWork
  <2>10. Good("timer")'
    BY <1>0, <1>1, <2>3, <2>4, <2>6, <2>8, <2>9, QuietFacts, FreshGood
  <2>11. (nvs.work <= status_led.work)'
    <3>1. status_led.work \in 0 .. MaxMinutes /\ nvs.work \in 0 .. MaxMinutes
      BY StateFields DEF ExclusiveInv, TypeInv, TypeOK
    <3> QED
      BY <2>8, <2>9, <3>1, BoundsAreNat DEF ExclusiveInv
  <2> QED
    BY <2>8, <2>9, <2>10, <2>11 DEF Kept, RangeKept, HasDigits, ExclusiveInv
<1>4. CASE Tick
  <2> DEFINE l == <<Op("check_flag", NoSetting)>>
  <2>1. l \in Seq(Ops) /\ Len(l) = 1 /\ l[1].op = "check_flag"
    BY <1>2 DEF Op
  <2>2. todo' = [todo EXCEPT !["timer"] = l]
    BY <1>4 DEF Tick
  <2> HIDE DEF l
  <2>3. Fresh(l)
    BY <2>1 DEF Fresh, Sound, Writers
  <2>4. UNCHANGED <<status_led, nvs, lamp, rescaled>>
    BY <1>4 DEF Tick, ram, ghosts
  <2>5. Good("timer")'
    BY <1>0, <1>1, <2>1, <2>2, <2>3, <2>4, QuietFacts, FreshGood
  <2> QED
    BY <2>4, <2>5 DEF Kept, RangeKept, HasDigits, ExclusiveInv
<1> QED
  BY <1>3, <1>4

(* Digits(id) is the number of decimal digits of id, and 0 has none.       *)
LEMMA DigitCount ==
    ASSUME NEW id \in Nat, id < 10^numDigits
    PROVE  \/ Digits(id) = 0 /\ id = 0
           \/ Digits(id) = 1 /\ id < 10
           \/ Digits(id) = 2 /\ id < 100
           \/ Digits(id) = 3 /\ id < 1000
           \/ Digits(id) = 4 /\ id < 10000
           \/ Digits(id) = 5 /\ id < 100000
           \/ Digits(id) = 6
<1> DEFINE P(k) == 10^k
           D == {k \in 0 .. numDigits - 1 : id \div P(k) > 0}
<1>1. /\ P(0) = 1 /\ P(1) = 10 /\ P(2) = 100 /\ P(3) = 1000 /\ P(4) = 10000 /\ P(5) = 100000
  BY SMT
<1>2. Digits(id) = Cardinality(D)
  BY DEF Digits
<1> HIDE DEF P
<1>3. \A n \in -1 .. 5 : Cardinality(0 .. n) = n + 1
  <2> TAKE n \in -1 .. 5
  <2>1. 0 \in Int /\ n \in Int
    OBVIOUS
  <2>2. Cardinality(0 .. n) = IF 0 > n THEN 0 ELSE n - 0 + 1
    BY <2>1, FS_Interval, Zenon
  <2> QED
    BY <2>2
<1>4. \A k \in 0 .. 5 : k = 0 \/ k = 1 \/ k = 2 \/ k = 3 \/ k = 4 \/ k = 5
  OBVIOUS
<1>5. \A k : k \in D <=> k \in 0 .. 5 /\ id \div P(k) > 0
  BY DEF numDigits
<1> HIDE DEF D
<1>6. CASE id = 0
  <2>1. D = 0 .. -1
    BY <1>1, <1>4, <1>5, <1>6, SMT
  <2> QED
    BY <1>2, <1>3, <1>6, <2>1, SMT
<1>7. CASE 1 <= id /\ id < 10
  <2>1. D = 0 .. 0
    BY <1>1, <1>4, <1>5, <1>7, SMT
  <2> QED
    BY <1>2, <1>3, <1>7, <2>1, SMT
<1>8. CASE 10 <= id /\ id < 100
  <2>1. D = 0 .. 1
    BY <1>1, <1>4, <1>5, <1>8, SMT
  <2> QED
    BY <1>2, <1>3, <1>8, <2>1, SMT
<1>9. CASE 100 <= id /\ id < 1000
  <2>1. D = 0 .. 2
    BY <1>1, <1>4, <1>5, <1>9, SMT
  <2> QED
    BY <1>2, <1>3, <1>9, <2>1, SMT
<1>10. CASE 1000 <= id /\ id < 10000
  <2>1. D = 0 .. 3
    BY <1>1, <1>4, <1>5, <1>10, SMT
  <2> QED
    BY <1>2, <1>3, <1>10, <2>1, SMT
<1>11. CASE 10000 <= id /\ id < 100000
  <2>1. D = 0 .. 4
    BY <1>1, <1>4, <1>5, <1>11, SMT
  <2> QED
    BY <1>2, <1>3, <1>11, <2>1, SMT
<1>12. CASE 100000 <= id /\ id < 1000000
  <2>1. D = 0 .. 5
    BY <1>1, <1>4, <1>5, <1>12, SMT
  <2> QED
    BY <1>2, <1>3, <1>12, <2>1, SMT
<1>13. id < 1000000
  BY SMT DEF numDigits
<1> QED
  BY <1>13, <1>6, <1>7, <1>8, <1>9, <1>10, <1>11, <1>12, SMT

(* array_to_num() reads back, in as many digits, the id whose digits were  *)
(* written.                                                                *)
LEMMA DigitsSpellId ==
    ASSUME NEW m \in [1 .. numDigits -> 0 .. 9], NEW id \in Nat, id < 10^numDigits,
           \A j \in 1 .. Digits(id) : m[numDigits + 1 - j] = DigitOf(id, j)
    PROVE  array_to_num(m) % 10^Digits(id) = id
<1> DEFINE P(k) == 10^k
<1>1. /\ P(0) = 1 /\ P(1) = 10 /\ P(2) = 100 /\ P(3) = 1000 /\ P(4) = 10000 /\ P(5) = 100000
      /\ P(6) = 1000000
  BY SMT
<1>2. \A j \in 1 .. Digits(id) : m[7 - j] = (id \div P(j - 1)) % 10
  <2>1. \A j \in 1 .. Digits(id) : m[numDigits + 1 - j] = (id \div P(j - 1)) % 10
    BY Zenon DEF DigitOf
  <2>2. \A j \in Int : numDigits + 1 - j = 7 - j
    BY SMT DEF numDigits
  <2>3. Digits(id) \in Nat
    BY DigitCount, SMT
  <2> HIDE DEF P
  <2> QED
    BY <2>1, <2>2, <2>3, SMT
<1> HIDE DEF P
<1> DEFINE a == m[1]
           b == m[2]
           c == m[3]
           d == m[4]
           e == m[5]
           f == m[6]
<1>3. /\ a \in Int /\ 0 <= a /\ a <= 9 /\ b \in Int /\ 0 <= b /\ b <= 9
      /\ c \in Int /\ 0 <= c /\ c <= 9 /\ d \in Int /\ 0 <= d /\ d <= 9
      /\ e \in Int /\ 0 <= e /\ e <= 9 /\ f \in Int /\ 0 <= f /\ f <= 9
  BY SMT DEF numDigits
<1>4. array_to_num(m) = 100000 * a + 10000 * b + 1000 * c + 100 * d + 10 * e + f
  BY SMT DEF array_to_num
<1>5. id < 1000000
  BY SMT DEF numDigits
<1>6. /\ 1 <= Digits(id) => f = id % 10
      /\ 2 <= Digits(id) => e = (id \div 10) % 10
      /\ 3 <= Digits(id) => d = (id \div 100) % 10
      /\ 4 <= Digits(id) => c = (id \div 1000) % 10
      /\ 5 <= Digits(id) => b = (id \div 10000) % 10
      /\ 6 <= Digits(id) => a = (id \div 100000) % 10
  <2>1. Digits(id) \in Nat
    BY DigitCount, SMT
  <2>2. /\ 1 \in 1 .. Digits(id) => m[7 - 1] = (id \div P(1 - 1)) % 10
        /\ 2 \in 1 .. Digits(id) => m[7 - 2] = (id \div P(2 - 1)) % 10
        /\ 3 \in 1 .. Digits(id) => m[7 - 3] = (id \div P(3 - 1)) % 10
        /\ 4 \in 1 .. Digits(id) => m[7 - 4] = (id \div P(4 - 1)) % 10
        /\ 5 \in 1 .. Digits(id) => m[7 - 5] = (id \div P(5 - 1)) % 10
        /\ 6 \in 1 .. Digits(id) => m[7 - 6] = (id \div P(6 - 1)) % 10
    BY <1>2, Zenon
  <2>3. id \div 1 = id
    BY SMT
  <2>4. 1 <= Digits(id) => f = id % 10
    <3>1. 1 <= Digits(id) => 1 \in 1 .. Digits(id)
      BY <2>1
    <3>2. P(1 - 1) = 1 /\ m[7 - 1] = f /\ id \div 1 = id
      BY <1>1, <2>3, SMT
    <3>3. 1 \in 1 .. Digits(id) => m[7 - 1] = (id \div P(1 - 1)) % 10
      BY <2>2, Zenon
    <3> HIDE DEF f
    <3> QED
      BY <3>1, <3>2, <3>3, SMT
  <2>5. 2 <= Digits(id) => e = (id \div 10) % 10
    <3>1. 2 <= Digits(id) => 2 \in 1 .. Digits(id)
      BY <2>1
    <3>2. P(2 - 1) = 10 /\ m[7 - 2] = e
      BY <1>1, SMT
    <3>3. 2 \in 1 .. Digits(id) => m[7 - 2] = (id \div P(2 - 1)) % 10
      BY <2>2, Zenon
    <3> HIDE DEF e
    <3> QED
      BY <3>1, <3>2, <3>3, SMT
  <2>6. 3 <= Digits(id) => d = (id \div 100) % 10
    <3>1. 3 <= Digits(id) => 3 \in 1 .. Digits(id)
      BY <2>1
    <3>2. P(3 - 1) = 100 /\ m[7 - 3] = d
      BY <1>1, SMT
    <3>3. 3 \in 1 .. Digits(id) => m[7 - 3] = (id \div P(3 - 1)) % 10
      BY <2>2, Zenon
    <3> HIDE DEF d
    <3> QED
      BY <3>1, <3>2, <3>3, SMT
  <2>7. 4 <= Digits(id) => c = (id \div 1000) % 10
    <3>1. 4 <= Digits(id) => 4 \in 1 .. Digits(id)
      BY <2>1
    <3>2. P(4 - 1) = 1000 /\ m[7 - 4] = c
      BY <1>1, SMT
    <3>3. 4 \in 1 .. Digits(id) => m[7 - 4] = (id \div P(4 - 1)) % 10
      BY <2>2, Zenon
    <3> HIDE DEF c
    <3> QED
      BY <3>1, <3>2, <3>3, SMT
  <2>8. 5 <= Digits(id) => b = (id \div 10000) % 10
    <3>1. 5 <= Digits(id) => 5 \in 1 .. Digits(id)
      BY <2>1
    <3>2. P(5 - 1) = 10000 /\ m[7 - 5] = b
      BY <1>1, SMT
    <3>3. 5 \in 1 .. Digits(id) => m[7 - 5] = (id \div P(5 - 1)) % 10
      BY <2>2, Zenon
    <3> HIDE DEF b
    <3> QED
      BY <3>1, <3>2, <3>3, SMT
  <2>9. 6 <= Digits(id) => a = (id \div 100000) % 10
    <3>1. 6 <= Digits(id) => 6 \in 1 .. Digits(id)
      BY <2>1
    <3>2. P(6 - 1) = 100000 /\ m[7 - 6] = a
      BY <1>1, SMT
    <3>3. 6 \in 1 .. Digits(id) => m[7 - 6] = (id \div P(6 - 1)) % 10
      BY <2>2, Zenon
    <3> HIDE DEF a
    <3> QED
      BY <3>1, <3>2, <3>3, SMT
  <2> QED
    BY <2>4, <2>5, <2>6, <2>7, <2>8, <2>9, SMT
<1> DEFINE q1 == id \div 10
           q2 == id \div 100
           q3 == id \div 1000
           q4 == id \div 10000
           q5 == id \div 100000
<1>q. /\ q1 \in Nat /\ q2 \in Nat /\ q3 \in Nat /\ q4 \in Nat /\ q5 \in Nat
      /\ id = 10 * q1 + (id % 10)
      /\ q1 = 10 * q2 + (q1 % 10) /\ q2 = 10 * q3 + (q2 % 10) /\ q3 = 10 * q4 + (q3 % 10)
      /\ q4 = 10 * q5 + (q4 % 10) /\ q5 <= 9
      /\ id < 100000 => q5 = 0
  <2>1. q1 \in Nat /\ q2 \in Nat /\ q3 \in Nat /\ q4 \in Nat /\ q5 \in Nat
    BY SMT
  <2>2. id = 10 * q1 + (id % 10) /\ q1 = 10 * q2 + (q1 % 10)
    BY SMT
  <2>3. q2 = 10 * q3 + (q2 % 10) /\ q3 = 10 * q4 + (q3 % 10)
    BY SMT
  <2>4. q4 = 10 * q5 + (q4 % 10)
    BY SMT
  <2>5. q5 <= 9 /\ (id < 100000 => q5 = 0)
    BY <1>5, SMT
  <2> QED
    BY <2>1, <2>2, <2>3, <2>4, <2>5, SMT
<1> HIDE DEF a, b, c, d, e, f
<1> DEFINE N == array_to_num(m)
<1>7. CASE Digits(id) = 0 /\ id = 0
  <2>1. N % P(Digits(id)) = 0
    BY <1>1, <1>3, <1>4, <1>7, SMT
  <2> QED
    BY <1>7, <2>1, SMT DEF P
<1>8. CASE Digits(id) = 1 /\ id < 10
  <2>1. N % 10 = id
    BY <1>3, <1>4, <1>6, <1>8, SMT
  <2> QED
    BY <1>1, <1>8, <2>1, SMT DEF P
<1>9. CASE Digits(id) = 2 /\ id < 100
  <2>1. N % 100 = id
    BY <1>3, <1>4, <1>6, <1>9, SMT
  <2> QED
    BY <1>1, <1>9, <2>1, SMT DEF P
<1>10. CASE Digits(id) = 3 /\ id < 1000
  <2>1. N % 1000 = id
    BY <1>3, <1>4, <1>6, <1>10, SMT
  <2> QED
    BY <1>1, <1>10, <2>1, SMT DEF P
<1>11. CASE Digits(id) = 4 /\ id < 10000
  <2>1. N % 10000 = id
    BY <1>3, <1>4, <1>6, <1>11, SMT
  <2> QED
    BY <1>1, <1>11, <2>1, SMT DEF P
<1>12. CASE Digits(id) = 5 /\ id < 100000
  <2>1. /\ f = id % 10 /\ e = q1 % 10 /\ d = q2 % 10 /\ c = q3 % 10 /\ b = q4 % 10
    BY <1>6, <1>12, SMT
  <2> HIDE DEF q1, q2, q3, q4, q5, N
  <2>2. id = 10000 * b + 1000 * c + 100 * d + 10 * e + f
    BY <1>q, <1>12, <2>1, SMT
  <2>3. N = 100000 * a + id
    BY <1>3, <1>4, <2>2, SMT DEF N
  <2>4. N % 100000 = id
    BY <1>3, <1>12, <2>3, SMT
  <2> QED
    BY <1>1, <1>12, <2>4, SMT DEF P, N
<1>13. CASE Digits(id) = 6
  <2>1. /\ f = id % 10 /\ e = q1 % 10 /\ d = q2 % 10 /\ c = q3 % 10 /\ b = q4 % 10
        /\ a = q5 % 10
    BY <1>6, <1>13, SMT
  <2> HIDE DEF q1, q2, q3, q4, q5, N
  <2>2. N = id
    BY <1>q, <1>3, <1>4, <2>1, SMT DEF N
  <2>3. N % 1000000 = id
    BY <1>5, <2>2, SMT
  <2> QED
    BY <1>1, <1>13, <2>3, SMT DEF P, N
<1> QED
  BY <1>7, <1>8, <1>9, <1>10, <1>11, <1>12, <1>13, DigitCount, SMT

(* app_main's default mesh id is spelled out.                              *)
LEMMA FirstDigits == HasDigits(FirstBoot)
<1> DEFINE P(k) == 10^k
           m == <<1, 2, 3, 4, 5, 6>>
           n == 123456
<1>1. /\ P(0) = 1 /\ P(1) = 10 /\ P(2) = 100 /\ P(3) = 1000 /\ P(4) = 10000 /\ P(5) = 100000
  BY SMT
<1>2. n \in Nat /\ n < 10^numDigits
  BY SMT DEF numDigits
<1>3. Digits(n) = 6
  BY <1>2, DigitCount, SMT
<1>4. FirstBoot.meshid = m /\ FirstBoot.asked = n
  BY SMT DEF FirstBoot
<1> HIDE DEF P
<1> HIDE DEF m, n
<1> SUFFICES ASSUME NEW j \in 1 .. 6 PROVE m[7 - j] = (n \div P(j - 1)) % 10
  <2>1. ASSUME NEW j \in 1 .. 6 PROVE DigitOf(n, j) = (n \div P(j - 1)) % 10
    BY Zenon DEF DigitOf, P
  <2>2. ASSUME NEW j \in 1 .. 6 PROVE numDigits + 1 - j = 7 - j
    BY SMT DEF numDigits
  <2> QED
    BY <1>3, <1>4, <2>1, <2>2 DEF HasDigits
<1>5. j = 1 \/ j = 2 \/ j = 3 \/ j = 4 \/ j = 5 \/ j = 6
  BY SMT
<1> QED
  BY <1>1, <1>5, SMT DEF m, n

(* Nobody runs, and everything agrees: the first boot and every restart.   *)
LEMMA BootedGood ==
    ASSUME todo = [t \in Tasks |-> <<>>], nvs = status_led, lamp = Lit(status_led),
           HasDigits(status_led)
    PROVE  Good("bt") /\ RangeKept
<1>1. todo["bt"] = <<>> /\ \A u \in Tasks : todo[u] = <<>>
  BY DEF Tasks
<1>2. Len(todo["bt"]) = 0
  BY <1>1, EmptySeq
<1>3. /\ lamp.show.color = effective_color(status_led.set.color)
      /\ lamp.show.bright = effective_brightness(status_led.set.bright)
      /\ lamp.low = status_led.low /\ lamp.max = status_led.max
  BY DEF Lit, Shown
<1> QED
  BY <1>1, <1>2, <1>3 DEF Good, Alone, Sound, Stored, Followed, OwnFirst, Spelled,
                          Doing, RangeKept

(* The first boot.                                                         *)
LEMMA InitExclusive == Init => ExclusiveInv
<1> SUFFICES ASSUME Init PROVE ExclusiveInv
  OBVIOUS
<1>1. TypeInv
  BY InitTyped
<1>2. HasDigits(status_led) /\ HasDigits(nvs)
  BY FirstDigits DEF Init
<1>3. Good("bt") /\ RangeKept /\ "bt" \in Tasks
  BY <1>2, BootedGood DEF Init, Tasks
<1>4. nvs.work <= status_led.work
  BY DEF Init, FirstBoot
<1> QED
  BY <1>1, <1>2, <1>3, <1>4 DEF ExclusiveInv, Init

(* A restart, at whichever access it strikes.                              *)
LEMMA RestartExclusive == ASSUME ExclusiveInv, Restart, TypeInv' PROVE ExclusiveInv'
<1>1. /\ todo' = [t \in Tasks |-> <<>>] /\ nvs' = status_led' /\ lamp' = Lit(status_led')
      /\ nvs' = nvs /\ status_led' = nvs
  BY DEF Restart, Boot
<1>2. (Good("bt") /\ RangeKept)' /\ "bt" \in Tasks
  <2>1. todo' = [t \in Tasks |-> <<>>] /\ nvs' = status_led' /\ lamp' = Lit(status_led)'
    BY <1>1 DEF Lit, Shown
  <2>2. todo'["bt"] = <<>> /\ \A u \in Tasks : todo'[u] = <<>>
    BY <2>1 DEF Tasks
  <2>3. Len(todo'["bt"]) = 0
    BY <2>2, EmptySeq
  <2>4. /\ lamp'.show.color = effective_color(status_led'.set.color)
        /\ lamp'.show.bright = effective_brightness(status_led'.set.bright)
        /\ lamp'.low = status_led'.low /\ lamp'.max = status_led'.max
    BY <1>1 DEF Lit, Shown
  <2>5. HasDigits(status_led)'
    BY <1>1 DEF ExclusiveInv, HasDigits, DigitOf, Digits
  <2> QED
    BY <1>1, <2>2, <2>3, <2>4, <2>5 DEF Good, Alone, Sound, Stored, Followed, OwnFirst,
           Spelled, Doing, RangeKept, Tasks
<1>3. (nvs.work <= status_led.work)'
  <2>1. nvs.work \in 0 .. MaxMinutes
    BY StateFields DEF ExclusiveInv, TypeInv, TypeOK
  <2> QED
    BY <1>1, <2>1, BoundsAreNat
<1>4. HasDigits(nvs)'
  BY <1>1 DEF ExclusiveInv, HasDigits, DigitOf, Digits
<1> QED
  BY <1>1, <1>2, <1>3, <1>4 DEF ExclusiveInv

(* Whichever access a handler makes.                                       *)
LEMMA TaskStepKept == ASSUME ExclusiveInv, NEW t \in Tasks, TaskStep(t) PROVE Kept(t)'
BY SetColorKept, SetBrightnessKept, ReturnKept, SetStatusKept, SetMeshIdKept,
   SetProfileKept, CopyKept, CommitKept, ReloadKept, GroupFlagKept, CheckFlagKept,
   MeshWaitKept, RootWriteKept, Zenon DEF TaskStep

(* ExclusiveInv is inductive when handlers do not overlap.                 *)
LEMMA StepExclusive == Exclusive /\ ExclusiveInv /\ [Next]_vars => ExclusiveInv'
<1> SUFFICES ASSUME Exclusive, ExclusiveInv, [Next]_vars PROVE ExclusiveInv'
  OBVIOUS
<1>0. TypeInv'
  BY StepTyped DEF ExclusiveInv
<1>1. ASSUME \E t \in Tasks : Kept(t)' PROVE ExclusiveInv'
  BY <1>0, <1>1 DEF Kept, ExclusiveInv
<1>2. CASE \/ LORAWAN_UPDATE \/ TEST_CONTROL_SL \/ TEST_CONTROL_SL_GR
           \/ READ_PF \/ WRITE_MESH_NETWORK_PF \/ WRITE_STREET_LIGHT_PF \/ SCAN_SL
  BY <1>1, <1>2, StartsKept
<1>3. CASE Minute \/ Tick
  BY <1>1, <1>3, TimerKept DEF Tasks
<1>4. CASE \E t \in Tasks : TaskStep(t)
  BY <1>1, <1>4, TaskStepKept
<1>5. CASE MeshStarted \/ UNCHANGED vars
  <2>1. UNCHANGED <<ram, nvs, lamp, todo, ghosts>>
    BY <1>5 DEF MeshStarted, vars
  <2> QED
    BY <1>0, <2>1 DEF ram, ghosts, ExclusiveInv, Good, Alone, Stored, Followed, OwnFirst,
        Spelled, Doing, Arg, RangeKept
<1>6. CASE Restart
  BY <1>0, <1>6, RestartExclusive
<1> QED
  BY <1>2, <1>3, <1>4, <1>5, <1>6, Zenon DEF Next

(* Without overlap every behaviour satisfies ExclusiveInv.                 *)
THEOREM ExclusiveInvariant == ASSUME Exclusive PROVE Spec => []ExclusiveInv
<1>1. ExclusiveInv /\ [Next]_vars => ExclusiveInv'
  BY StepExclusive
<1> QED
  BY <1>1, InitExclusive, PTL DEF Spec

(* Handlers that do not overlap leave the lamp, status_led and NVS in      *)
(* agreement whenever they rest, across every restart.                     *)
THEOREM SettledWhenExclusive == ASSUME Exclusive PROVE Spec => []Settled
<1>1. ExclusiveInv => Settled
  <2> SUFFICES ASSUME ExclusiveInv, Quiet
               PROVE  /\ lamp.show = Shown(status_led.set) /\ nvs = status_led
                      /\ rescaled \/ lamp = Lit(status_led)
    BY DEF Settled
  <2>1. /\ nvs = status_led
        /\ lamp.show.color = effective_color(status_led.set.color)
        /\ lamp.show.bright = effective_brightness(status_led.set.bright)
    BY QuietFacts
  <2>2. lamp.show = Shown(status_led.set)
    <3>1. lamp.show \in [color : Int, bright : Int]
      BY DEF ExclusiveInv, TypeInv
    <3> QED
      BY <2>1, <3>1 DEF Shown
  <2>3. rescaled \/ lamp = Lit(status_led)
    <3>1. lamp = [show |-> lamp.show, low |-> lamp.low, max |-> lamp.max]
      BY DEF ExclusiveInv, TypeInv
    <3> QED
      BY <2>2, <3>1 DEF ExclusiveInv, RangeKept, Lit
  <2> QED
    BY <2>1, <2>2, <2>3
<1> QED
  BY <1>1, ExclusiveInvariant, PTL

(* The root multicasts its own group's command only after it shows and has *)
(* saved that command itself.                                              *)
THEOREM MulticastIsSaved == ASSUME Exclusive PROVE Spec => []SavedBeforeMulticast
<1>1. ExclusiveInv => SavedBeforeMulticast
  <2> DEFINE l == todo["parser"]
  <2> SUFFICES ASSUME ExclusiveInv, l # <<>>, Head(l).op = "root_write_own"
               PROVE  nvs.set = Head(l).arg /\ lamp.show = Shown(Head(l).arg)
    BY DEF SavedBeforeMulticast, Doing, Arg
  <2>1. Good("parser") /\ l \in Seq(Ops)
    BY ActiveTask DEF Tasks
  <2>2. Tail(l) = <<>>
    BY <2>1, SoundHead DEF Good
  <2>3. \A names : "root_write_own" \notin names => ~Pending(l, names)
    BY <2>1, <2>2, PendingTail
  <2>4. /\ nvs = status_led
        /\ lamp.show.color = effective_color(status_led.set.color)
        /\ lamp.show.bright = effective_brightness(status_led.set.bright)
    BY <2>1, <2>3 DEF Good, Stored, Followed, Doing
  <2>5. status_led.set = Head(l).arg
    <3>1. 1 \in 1 .. Len(l) /\ Head(l) = l[1]
      BY <2>1, TailElements
    <3> QED
      BY <2>1, <2>3, <3>1 DEF Good, OwnFirst
  <2>6. lamp.show \in [color : Int, bright : Int]
    BY DEF ExclusiveInv, TypeInv
  <2> QED
    BY <2>4, <2>5, <2>6 DEF Shown
<1> QED
  BY <1>1, ExclusiveInvariant, PTL

(* No save, reload or restart takes the stored working time back.          *)
THEOREM WorkingTimeKept == ASSUME Exclusive PROVE Spec => WorkingTimeGrows
<1>1. ExclusiveInv /\ [Next]_vars => [nvs'.work >= nvs.work]_nvs
  <2> SUFFICES ASSUME ExclusiveInv, [Next]_vars, nvs' # nvs PROVE nvs'.work >= nvs.work
    OBVIOUS
  <2>1. PICK t \in Tasks : Commit(t)
    BY DEF Next, TaskStep, vars, ram, counts, ghosts, LORAWAN_UPDATE, TEST_CONTROL_SL,
       TEST_CONTROL_SL_GR, READ_PF, WRITE_MESH_NETWORK_PF, WRITE_STREET_LIGHT_PF, SCAN_SL,
       Start, Minute, Tick, MeshStarted, Restart, Boot, SetColor, SetBrightness,
       ReturnToStatus, Brighten, SetStatus, SetMeshId, SetProfile, Assign, CopyStatus,
       Reload, ToGroup, SetFlag, CheckFlag, ClearFlag, MeshWait, RootWrite
  <2>2. todo[t] # <<>> /\ Doing(t, "commit") /\ nvs' = copy[t]
    BY <2>1 DEF Commit, Doing
  <2>3. nvs' = status_led
    BY <2>2, ActiveTask DEF Good, Stored
  <2>4. status_led.work \in 0 .. MaxMinutes /\ nvs.work \in 0 .. MaxMinutes
    BY StateFields DEF ExclusiveInv, TypeInv, TypeOK
  <2> QED
    BY <2>3, <2>4, BoundsAreNat DEF ExclusiveInv
<1> QED
  BY <1>1, ExclusiveInvariant, PTL DEF Spec, WorkingTimeGrows

(* A mesh id written over Bluetooth is the one stored, in its own digits,  *)
(* whenever the handlers rest: DigitWrites writes every digit array_to_num *)
(* reads back, and no save, reload or restart separates them.              *)
THEOREM MeshIdKept == ASSUME Exclusive PROVE Spec => []MeshIdAsAsked
<1>1. ExclusiveInv => MeshIdAsAsked
  <2> SUFFICES ASSUME ExclusiveInv
               PROVE  array_to_num(nvs.meshid) % 10^Digits(nvs.asked) = nvs.asked
    BY DEF MeshIdAsAsked
  <2>1. nvs.meshid \in [1 .. numDigits -> 0 .. 9]
    BY StateFields DEF ExclusiveInv, TypeInv, TypeOK
  <2>2. nvs.asked \in Nat /\ nvs.asked < 10^numDigits
    <3>0. nvs.asked \in MeshIds \cup {123456}
      BY StateFields DEF ExclusiveInv, TypeInv, TypeOK
    <3>1. CASE nvs.asked \in MeshIds
      BY <3>1, LightAssumption, Zenon DEF LightAssumption
    <3>2. CASE nvs.asked = 123456
      BY <3>2, SMT DEF numDigits
    <3> QED
      BY <3>0, <3>1, <3>2, SMT
  <2>3. \A j \in 1 .. Digits(nvs.asked) :
            nvs.meshid[numDigits + 1 - j] = DigitOf(nvs.asked, j)
    BY Zenon DEF ExclusiveInv, HasDigits
  <2> DEFINE m == nvs.meshid
             id == nvs.asked
  <2>4. /\ m \in [1 .. numDigits -> 0 .. 9] /\ id \in Nat /\ id < 10^numDigits
        /\ \A j \in 1 .. Digits(id) : m[numDigits + 1 - j] = DigitOf(id, j)
    BY <2>1, <2>2, <2>3, Zenon
  <2> HIDE DEF m, id
  <2>5. array_to_num(m) % 10^Digits(id) = id
    BY <2>4, DigitsSpellId
  <2> QED
    BY <2>5 DEF m, id
<1> QED
  BY <1>1, ExclusiveInvariant, PTL
=============================================================================
