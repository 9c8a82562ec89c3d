--------------------------- MODULE MsgQueueProofs ---------------------------
(***************************************************************************)
(* Proofs about the uplink queue.  TypeCorrect and NeverFaults hold for    *)
(* every set of producers and every preemption relation; SizeStaysBounded  *)
(* holds when producers neither preempt each other nor are preempted by    *)
(* the consumer.  The second part: the queue implements BoundedFifo when   *)
(* its calls do not overlap.  For every capacity and every number of       *)
(* producers, the ring of queue.c with its front, rear and size is a       *)
(* bounded first-in first-out buffer, on its first turn, at every wrap and *)
(* when it is full.                                                        *)
(***************************************************************************)
EXTENDS MsgQueue, SequenceTheorems, FiniteSetTheorems, TLAPS

(* Stepping an index of the ring stays inside the array (queue.c:61, :82). *)
LEMMA NextSlot ==
    ASSUME NEW i \in 0 .. Cap - 1
    PROVE  Next1(i) \in 0 .. Cap - 1
BY QueueAssumption DEF Next1

(* It is the next slot, or slot 0 behind the last one.                     *)
LEMMA NextSlotIs ==
    ASSUME NEW i \in 0 .. Cap - 1
    PROVE  Next1(i) = IF i = Cap - 1 THEN 0 ELSE i + 1
<1>1. CASE i = Cap - 1
  BY <1>1, QueueAssumption DEF Next1
<1>2. CASE i # Cap - 1
  <2>1. i + 1 \in 0 .. Cap - 1
    BY <1>2, QueueAssumption
  <2> QED BY <1>2, <2>1, QueueAssumption DEF Next1
<1> QED BY <1>1, <1>2

(* Producers hold ring indices in their register while they work on rear.  *)
SlotInReg ==
    \A t \in Producers :
        pc[t] \in {"rearStore", "clear", "copy"} => reg[t] \in 0 .. Cap - 1

TypeInv == TypeOK /\ SlotInReg

(* createQueue() leaves a well-typed ring.                                 *)
LEMMA TypeInit == Init => TypeInv
BY QueueAssumption
   DEF Init, InitWith, TypeInv, TypeOK, SlotInReg, Tasks, Msgs, NoMsg, Raw, Torn,
       EnqPc, TxPc, DeqPc, CopyPc

(* A step of enqueue() by any producer keeps the types.                    *)
LEMMA TypeEnqueue ==
    ASSUME TypeInv, NEW t \in Producers, Enqueue(t)
    PROVE  TypeInv'
<1> USE QueueAssumption
    DEF TypeInv, TypeOK, SlotInReg, Tasks, Msgs, NoMsg, Raw, Torn, EnqPc, TxPc,
        DeqPc, CopyPc, Go, ring, locals, history
<1>1. CASE EnqCheck(t)
  <2>1. posted + 1 \in 1 .. MaxPosts
    BY <1>1 DEF EnqCheck
  <2>2. CASE dropped' = dropped \cup {posted + 1} /\ msg' = msg /\ pc' = pc
    BY <1>1, <2>1, <2>2 DEF EnqCheck
  <2>3. CASE /\ dropped' = dropped
             /\ msg' = [msg EXCEPT ![t] = posted + 1]
             /\ pc' = [pc EXCEPT ![t] = "rearLoad"]
    BY <1>1, <2>1, <2>3 DEF EnqCheck
  <2> QED BY <1>1, <2>2, <2>3 DEF EnqCheck
<1>2. CASE EnqRearLoad(t)
  BY <1>2 DEF EnqRearLoad
<1>3. CASE EnqRearStore(t)
  <2>1. Next1(reg[t]) \in 0 .. Cap - 1
    BY <1>3, NextSlot DEF EnqRearStore
  <2> QED BY <1>3, <2>1 DEF EnqRearStore
<1>4. CASE EnqClear(t)
  BY <1>4 DEF EnqClear
<1>5. CASE EnqCopy(t)
  BY <1>5 DEF EnqCopy
<1>6. CASE EnqSizeLoad(t)
  BY <1>6 DEF EnqSizeLoad
<1>7. CASE EnqSizeStore(t)
  BY <1>7 DEF EnqSizeStore
<1> QED BY <1>1, <1>2, <1>3, <1>4, <1>5, <1>6, <1>7 DEF Enqueue

(* A step of Brideg_LORAWAN_TX keeps the types.                            *)
LEMMA TypeTransmit ==
    ASSUME TypeInv, Transmit
    PROVE  TypeInv'
<1> USE QueueAssumption
    DEF TypeInv, TypeOK, SlotInReg, Tasks, Msgs, NoMsg, Raw, Torn, EnqPc, TxPc,
        DeqPc, CopyPc, Go, ring, locals, history
<1>1. CASE TxCheck
  BY <1>1 DEF TxCheck
<1>2. CASE TxPrint
  BY <1>2 DEF TxPrint
<1>3. CASE DeqCheck
  BY <1>3 DEF DeqCheck
<1>4. CASE DeqFront
  <2>1. Next1(front) \in 0 .. Cap - 1
    BY NextSlot
  <2> QED BY <1>4, <2>1 DEF DeqFront
<1>5. CASE DeqSizeLoad
  BY <1>5 DEF DeqSizeLoad
<1>6. CASE DeqSizeStore
  BY <1>6 DEF DeqSizeStore
<1>7. CASE TxCopyFirst
  BY <1>7 DEF TxCopyFirst
<1>8. CASE TxCopyRest
  BY <1>8 DEF TxCopyRest
<1> QED
  BY <1>1, <1>2, <1>3, <1>4, <1>5, <1>6, <1>7, <1>8 DEF Transmit

(* Every step keeps the types.                                             *)
LEMMA TypeStep == TypeInv /\ [Next]_vars => TypeInv'
<1> SUFFICES ASSUME TypeInv, [Next]_vars PROVE TypeInv'
  OBVIOUS
<1>1. CASE UNCHANGED vars
  BY <1>1 DEF TypeInv, TypeOK, SlotInReg, vars, ring, locals, history
<1>2. CASE Next
  BY <1>2, TypeEnqueue, TypeTransmit DEF Next
<1> QED BY <1>1, <1>2

(* Every index, slot and register of the queue keeps its type in every     *)
(* behaviour, however the calls are interleaved: no ring index ever leaves *)
(* the array.                                                              *)
THEOREM TypeCorrect == Spec => []TypeOK
<1>1. TypeInv => TypeOK
  BY DEF TypeInv
<1> QED BY <1>1, TypeInit, TypeStep, PTL DEF Spec

-----------------------------------------------------------------------------
(* From the isEmpty() that Brideg_LORAWAN_TX checks until dequeue() has    *)
(* loaded size, size is at least 1: producers only ever store a successor. *)
NonEmptyInv ==
    /\ size \in Nat
    /\ \A t \in Producers : pc[t] = "sizeStore" => reg[t] \in Nat
    /\ pc[Tx] \in {"print", "deqCheck", "deqFront", "deqSizeLoad"} => size >= 1
    /\ pc[Tx] = "deqSizeStore" => reg[Tx] \in Nat /\ reg[Tx] >= 1
    /\ NoFault

(* Initially the transmitter is not past isEmpty().                        *)
LEMMA NonEmptyInit == Init => NonEmptyInv
BY QueueAssumption DEF Init, InitWith, NonEmptyInv, NoFault, Tasks

(* Every step keeps the non-emptiness the transmitter relies on.           *)
LEMMA NonEmptyStep ==
    ASSUME TypeInv, NonEmptyInv, [Next]_vars
    PROVE  NonEmptyInv'
<1> USE QueueAssumption
    DEF TypeInv, TypeOK, Tasks, NonEmptyInv, NoFault, Go, ring, locals, history
<1>1. ASSUME NEW t \in Producers, Enqueue(t)
      PROVE  NonEmptyInv'
  <2>1. CASE EnqCheck(t)
    BY <2>1 DEF EnqCheck
  <2>2. CASE EnqRearLoad(t)
    BY <2>2 DEF EnqRearLoad
  <2>3. CASE EnqRearStore(t)
    BY <2>3 DEF EnqRearStore
  <2>4. CASE EnqClear(t)
    BY <2>4 DEF EnqClear
  <2>5. CASE EnqCopy(t)
    BY <2>5 DEF EnqCopy
  <2>6. CASE EnqSizeLoad(t)
    BY <2>6 DEF EnqSizeLoad
  <2>7. CASE EnqSizeStore(t)
    BY <2>7 DEF EnqSizeStore
  <2> QED BY <1>1, <2>1, <2>2, <2>3, <2>4, <2>5, <2>6, <2>7 DEF Enqueue
<1>2. CASE Transmit
  <2>1. CASE TxCheck
    BY <2>1 DEF TxCheck, isEmpty
  <2>2. CASE TxPrint
    BY <2>2 DEF TxPrint
  <2>3. CASE DeqCheck
    BY <2>3 DEF DeqCheck, isEmpty
  <2>4. CASE DeqFront
    BY <2>4 DEF DeqFront
  <2>5. CASE DeqSizeLoad
    BY <2>5 DEF DeqSizeLoad
  <2>6. CASE DeqSizeStore
    BY <2>6 DEF DeqSizeStore
  <2>7. CASE TxCopyFirst
    BY <2>7 DEF TxCopyFirst
  <2>8. CASE TxCopyRest
    BY <2>8 DEF TxCopyRest
  <2> QED
    BY <1>2, <2>1, <2>2, <2>3, <2>4, <2>5, <2>6, <2>7, <2>8 DEF Transmit
<1>3. CASE UNCHANGED vars
  BY <1>3 DEF vars
<1> QED BY <1>1, <1>2, <1>3 DEF Next

(* For every number of producers and every assignment of priorities,       *)
(* Brideg_LORAWAN_TX never hands dequeue()'s INT_MIN to sprintf().         *)
THEOREM NeverFaults == Spec => []NoFault
<1>1. NonEmptyInv => NoFault
  BY DEF NonEmptyInv
<1> QED
  BY <1>1, TypeInit, TypeStep, NonEmptyInit, NonEmptyStep, PTL DEF Spec

-----------------------------------------------------------------------------
(* Producers may interrupt the consumer, and nothing else may overlap: the *)
(* case of a root whose only producer runs above Brideg_LORAWAN_TX.        *)
ProducersOnTop == Preempts \subseteq Producers \X {Tx}

(* A producer past isFull() works on a size it alone can raise, and what   *)
(* the consumer is about to store is below the capacity.                   *)
SizeInv ==
    /\ size \in 0 .. Cap
    /\ \A t \in Producers :
          /\ pc[t] # "idle" => size < Cap
          /\ pc[t] = "sizeStore" => reg[t] = size
          /\ \A u \in Producers : pc[t] # "idle" /\ pc[u] # "idle" => t = u
    /\ pc[Tx] = "deqSizeStore" => reg[Tx] \in 0 .. Cap

(* A producer that steps is the only one inside a call.                    *)
LEMMA LoneProducer ==
    ASSUME ProducersOnTop, TypeInv, NEW t \in Producers, Enqueue(t),
           NEW u \in Producers, u # t
    PROVE  pc[u] = "idle"
<1> SUFFICES ASSUME pc[u] # "idle" PROVE FALSE
  OBVIOUS
<1>1. pc[u] # "print" /\ CanStep(t)
  BY DEF TypeInv, TypeOK, Go, Enqueue, EnqCheck, EnqRearLoad, EnqRearStore, EnqClear,
         EnqCopy, EnqSizeLoad, EnqSizeStore, EnqPc
<1>2. <<t, u>> \in Preempts
  BY <1>1 DEF CanStep, Busy, Tasks
<1>3. <<t, u>> \in Producers \X {Tx}
  BY <1>2 DEF ProducersOnTop
<1> QED BY <1>3, QueueAssumption

(* Initially size is 0.                                                    *)
LEMMA SizeInit == Init => SizeInv
BY QueueAssumption DEF Init, InitWith, SizeInv, Tasks

(* Every step keeps size, and what tasks have loaded of it, in bounds.     *)
LEMMA SizeStep ==
    ASSUME ProducersOnTop, TypeInv, NonEmptyInv, SizeInv, [Next]_vars
    PROVE  SizeInv'
<1> USE QueueAssumption
    DEF TypeInv, TypeOK, Tasks, SizeInv, Go, ring, locals, history
<1>1. ASSUME NEW t \in Producers, Enqueue(t)
      PROVE  SizeInv'
  <2>1. \A u \in Producers : u # t => pc[u] = "idle"
    BY <1>1, LoneProducer
  <2> USE <2>1
  <2>2. CASE EnqCheck(t)
    BY <2>2 DEF EnqCheck, isFull
  <2>3. CASE EnqRearLoad(t)
    BY <2>3 DEF EnqRearLoad
  <2>4. CASE EnqRearStore(t)
    BY <2>4 DEF EnqRearStore
  <2>5. CASE EnqClear(t)
    BY <2>5 DEF EnqClear
  <2>6. CASE EnqCopy(t)
    BY <2>6 DEF EnqCopy
  <2>7. CASE EnqSizeLoad(t)
    BY <2>7 DEF EnqSizeLoad
  <2>8. CASE EnqSizeStore(t)
    BY <2>8 DEF EnqSizeStore
  <2> QED BY <1>1, <2>2, <2>3, <2>4, <2>5, <2>6, <2>7, <2>8 DEF Enqueue
<1>2. CASE Transmit
  <2>1. CASE TxCheck
    BY <2>1 DEF TxCheck
  <2>2. CASE TxPrint
    BY <2>2 DEF TxPrint
  <2>3. CASE DeqCheck
    BY <2>3 DEF DeqCheck
  <2>4. CASE DeqFront
    BY <2>4 DEF DeqFront
  <2>5. CASE DeqSizeLoad
    BY <2>5 DEF DeqSizeLoad
  <2>6. CASE DeqSizeStore
    <3>1. \A u \in Producers : pc[u] = "idle"
      <4> SUFFICES ASSUME NEW u \in Producers, pc[u] # "idle" PROVE FALSE
        OBVIOUS
      <4>1. <<Tx, u>> \in Preempts
        BY <2>6 DEF DeqSizeStore, CanStep, Busy, EnqPc
      <4>2. <<Tx, u>> \in Producers \X {Tx}
        BY <4>1 DEF ProducersOnTop
      <4> QED BY <4>2
    <3>2. size' \in 0 .. Cap
      BY <2>6 DEF DeqSizeStore, NonEmptyInv
    <3> QED BY <2>6, <3>1, <3>2 DEF DeqSizeStore
  <2>7. CASE TxCopyFirst
    BY <2>7 DEF TxCopyFirst
  <2>8. CASE TxCopyRest
    BY <2>8 DEF TxCopyRest
  <2> QED
    BY <1>2, <2>1, <2>2, <2>3, <2>4, <2>5, <2>6, <2>7, <2>8 DEF Transmit
<1>3. CASE UNCHANGED vars
  BY <1>3 DEF vars
<1> QED BY <1>1, <1>2, <1>3 DEF Next

(* On a root whose producers only ever interrupt the consumer, size never  *)
(* leaves 0 .. Cap, for every capacity, although increments may be lost.   *)
THEOREM SizeStaysBounded ==
    ASSUME ProducersOnTop
    PROVE  Spec => []SizeBounded
<1>1. SizeInv => SizeBounded
  BY DEF SizeInv, SizeBounded
<1>2. ProducersOnTop
  OBVIOUS
<1> QED
  BY <1>1, <1>2, TypeInit, TypeStep, NonEmptyInit, NonEmptyStep, SizeInit,
     SizeStep, PTL DEF Spec
-----------------------------------------------------------------------------
AllWritten == \A q \in 0 .. Cap - 1 : array[q] # Raw

(* A producer has advanced rear and not yet counted the message.           *)
Advanced == {"clear", "copy", "sizeLoad", "sizeStore"}
Uncounted == \E t \in Producers : pc[t] \in Advanced

(* Until the ring wraps the slots are written in order: how many of them   *)
(* are both written and counted.                                           *)
Filled == IF Uncounted THEN rear ELSE IF rear = Cap - 1 THEN 0 ELSE rear + 1

Covered(n) == AllWritten \/ (n <= Filled /\ \A q \in 0 .. Filled - 1 : array[q] # Raw)

(* size, and the size dequeue() has loaded, count written slots only.      *)
WrittenInv ==
    /\ Covered(size)
    /\ pc[Tx] = "deqSizeStore" => Covered(reg[Tx])
    /\ \A t \in Producers :
          /\ pc[t] = "rearStore" => reg[t] = rear
          /\ pc[t] \in {"clear", "copy"} => reg[t] = rear
          /\ pc[t] \in {"sizeLoad", "sizeStore"} => array[rear] # Raw

(* createQueue() places rear before slot 0, and nothing is counted.        *)
LEMMA WrittenInit == Init => WrittenInv
BY QueueAssumption
   DEF Init, InitWith, WrittenInv, Covered, Filled, Uncounted, Advanced, Tasks

(* Every step keeps the counted slots written.                             *)
LEMMA WrittenStep ==
    ASSUME ProducersOnTop, TypeInv, NonEmptyInv, SizeInv, WrittenInv, [Next]_vars
    PROVE  WrittenInv'
<1> USE QueueAssumption
    DEF TypeInv, TypeOK, Tasks, Go, ring, locals, history, WrittenInv, Covered,
        AllWritten, Advanced
<1>1. ASSUME NEW t \in Producers, Enqueue(t)
      PROVE  WrittenInv'
  <2>1. \A u \in Producers : u # t => pc[u] = "idle" /\ pc'[u] = "idle"
    <3>1. \A u \in Producers : u # t => pc[u] = "idle"
      BY <1>1, LoneProducer
    <3> QED BY <1>1, <3>1 DEF Enqueue, EnqCheck, EnqRearLoad, EnqRearStore, EnqClear,
                              EnqCopy, EnqSizeLoad, EnqSizeStore
  <2>2. (Uncounted <=> pc[t] \in Advanced) /\ (Uncounted' <=> pc'[t] \in Advanced)
    <3>1. Uncounted <=> pc[t] \in Advanced
      BY <2>1 DEF Uncounted
    <3>2. Uncounted' <=> pc'[t] \in Advanced
      BY <2>1 DEF Uncounted
    <3> QED BY <3>1, <3>2
  <2>3. pc'[Tx] = pc[Tx] /\ reg'[Tx] = reg[Tx]
    BY <1>1 DEF Enqueue, EnqCheck, EnqRearLoad, EnqRearStore, EnqClear, EnqCopy,
                EnqSizeLoad, EnqSizeStore
  <2> USE <2>1, <2>2, <2>3
  <2>4. CASE EnqCheck(t)
    <3>1. Filled' = Filled
      BY <2>4 DEF EnqCheck, Filled
    <3> QED BY <2>4, <3>1 DEF EnqCheck
  <2>5. CASE EnqRearLoad(t)
    <3>1. Filled' = Filled
      BY <2>5 DEF EnqRearLoad, Filled
    <3> QED BY <2>5, <3>1 DEF EnqRearLoad
  <2>6. CASE EnqRearStore(t)
    <3>1. Filled' = Filled
      BY <2>6, NextSlotIs DEF EnqRearStore, Filled
    <3>2. reg'[t] = rear' /\ pc'[t] = "clear"
      BY <2>6 DEF EnqRearStore
    <3> QED BY <2>6, <3>1, <3>2 DEF EnqRearStore
  <2>7. CASE EnqClear(t)
    <3>1. Filled' = Filled /\ array' = [array EXCEPT ![rear] = NoMsg]
      BY <2>7 DEF EnqClear, Filled
    <3>2. \A q \in 0 .. Cap - 1 : array[q] # Raw => array'[q] # Raw
      BY <3>1 DEF NoMsg, Raw
    <3> QED BY <2>7, <3>1, <3>2 DEF EnqClear, Filled
  <2>8. CASE EnqCopy(t)
    <3>1. Filled' = Filled /\ array' = [array EXCEPT ![rear] = msg[t]]
      BY <2>8 DEF EnqCopy, Filled
    <3>2. msg[t] # Raw
      BY DEF Msgs, NoMsg, Raw
    <3>3. array'[rear'] # Raw /\ \A q \in 0 .. Cap - 1 : array[q] # Raw => array'[q] # Raw
      BY <2>8, <3>1, <3>2 DEF EnqCopy
    <3> QED BY <2>8, <3>1, <3>3 DEF EnqCopy, Filled
  <2>9. CASE EnqSizeLoad(t)
    <3>1. Filled' = Filled
      BY <2>9 DEF EnqSizeLoad, Filled
    <3> QED BY <2>9, <3>1 DEF EnqSizeLoad
  <2>10. CASE EnqSizeStore(t)
    <3>1. size' = size + 1 /\ array' = array /\ rear' = rear /\ array[rear] # Raw
      BY <2>10 DEF EnqSizeStore, SizeInv
    <3>2. Filled = rear
      BY <2>10 DEF EnqSizeStore, Filled
    <3>3. CASE rear = Cap - 1 /\ ~AllWritten
      BY <3>1, <3>2, <3>3
    <3>4. CASE rear # Cap - 1
      <4>1. Filled' = rear + 1
        BY <2>10, <3>1, <3>4 DEF EnqSizeStore, Filled
      <4> QED BY <2>10, <3>1, <3>2, <4>1 DEF EnqSizeStore
    <3>5. CASE AllWritten
      BY <2>10, <3>1, <3>5 DEF EnqSizeStore
    <3> QED BY <3>3, <3>4, <3>5
  <2> QED
    BY <1>1, <2>4, <2>5, <2>6, <2>7, <2>8, <2>9, <2>10 DEF Enqueue
<1>2. CASE Transmit
  <2>1. /\ rear' = rear /\ array' = array
        /\ \A u \in Producers : pc'[u] = pc[u] /\ reg'[u] = reg[u]
    BY <1>2 DEF Transmit, TxCheck, TxPrint, DeqCheck, DeqFront, DeqSizeLoad,
                DeqSizeStore, TxCopyFirst, TxCopyRest
  <2>2. Filled' = Filled
    BY <2>1 DEF Filled, Uncounted
  <2>3. CASE DeqSizeLoad
    BY <2>1, <2>2, <2>3 DEF DeqSizeLoad
  <2>4. CASE DeqSizeStore
    <3>1. Filled \in Int /\ reg[Tx] \in Int /\ size' = reg[Tx] - 1
      BY <2>4 DEF DeqSizeStore, Filled
    <3>2. Covered(reg[Tx]) => Covered(size')
      BY <3>1
    <3>3. pc'[Tx] = "sprintf1" /\ Covered(reg[Tx])
      BY <2>4 DEF DeqSizeStore
    <3> QED BY <2>1, <2>2, <3>2, <3>3
  <2>5. CASE UNCHANGED size /\ pc'[Tx] # "deqSizeStore"
    BY <2>1, <2>2, <2>5
  <2> QED
    BY <1>2, <2>3, <2>4, <2>5
    DEF Transmit, TxCheck, TxPrint, DeqCheck, DeqFront, TxCopyFirst, TxCopyRest
<1>3. CASE UNCHANGED vars
  BY <1>3 DEF vars, Filled, Uncounted
<1> QED BY <1>1, <1>2, <1>3 DEF Next

(* On the same root print_queue() only ever reads slots that were written, *)
(* also on the first turn of the ring and at its capacity.                 *)
THEOREM PrintsWrittenSlots ==
    ASSUME ProducersOnTop
    PROVE  Spec => []PrintReadsWritten
<1>1. TypeInv /\ SizeInv /\ WrittenInv => PrintReadsWritten
  <2> SUFFICES ASSUME TypeInv, SizeInv, WrittenInv, NEW q \in 0 .. size - 1
               PROVE  q < Cap /\ array[q] # Raw
    BY DEF PrintReadsWritten
  <2>1. q \in 0 .. Cap - 1
    BY QueueAssumption DEF SizeInv
  <2>2. Covered(size)
    BY DEF WrittenInv
  <2> QED BY <2>1, <2>2, QueueAssumption
          DEF Covered, AllWritten, Filled, TypeInv, TypeOK, SizeInv
<1>2. ProducersOnTop
  OBVIOUS
<1> QED
  BY <1>1, <1>2, TypeInit, TypeStep, NonEmptyInit, NonEmptyStep, SizeInit,
     SizeStep, WrittenInit, WrittenStep, PTL DEF Spec

-----------------------------------------------------------------------------
(* First in, first out *)

Slot(f, k) == (f + k) % Cap

(* The slot k places behind f, without the remainder.                      *)
LEMMA SlotIs ==
    ASSUME NEW f \in 0 .. Cap - 1, NEW k \in 0 .. Cap
    PROVE  /\ Slot(f, k) = IF f + k < Cap THEN f + k ELSE f + k - Cap
           /\ Slot(f, k) \in 0 .. Cap - 1
<1>1. Cap \in Nat /\ Cap > 0
  BY QueueAssumption
<1>2. CASE f + k < Cap
  BY <1>1, <1>2 DEF Slot
<1>3. CASE f + k >= Cap
  <2> DEFINE x == f + k - Cap
  <2>1. x \in 0 .. Cap - 1 /\ f + k = x + Cap
    BY <1>1, <1>3
  <2>2. (x + Cap) % Cap = x % Cap
    BY <1>1, <2>1
  <2>3. x % Cap = x
    BY <1>1, <2>1
  <2> QED
    BY <1>1, <1>3, <2>1, <2>2, <2>3 DEF Slot
<1> QED
  BY <1>1, <1>2, <1>3

(* Moving front by one, or the count by one, reaches the same slot.        *)
LEMMA SlotNext ==
    ASSUME NEW f \in 0 .. Cap - 1, NEW k \in 0 .. Cap - 1
    PROVE  /\ Slot(Next1(f), k) = Slot(f, k + 1)
           /\ Next1(Slot(f, k)) = Slot(f, k + 1)
           /\ Slot(f, 0) = f
<1>1. Cap \in Nat /\ Cap > 0
  BY QueueAssumption
<1> DEFINE n == Next1(f)  s == Slot(f, k)
<1>2. n \in 0 .. Cap - 1 /\ n = IF f = Cap - 1 THEN 0 ELSE f + 1
  BY NextSlot, NextSlotIs
<1>3. k \in 0 .. Cap /\ k + 1 \in 0 .. Cap /\ 0 \in 0 .. Cap
  BY <1>1
<1>4. s \in 0 .. Cap - 1 /\ s = IF f + k < Cap THEN f + k ELSE f + k - Cap
  BY <1>3, SlotIs
<1>5. Slot(f, k + 1) = IF f + (k + 1) < Cap THEN f + (k + 1) ELSE f + (k + 1) - Cap
  BY <1>3, SlotIs
<1>6. Slot(n, k) = IF n + k < Cap THEN n + k ELSE n + k - Cap
  BY <1>2, <1>3, SlotIs
<1>7. Next1(s) = IF s = Cap - 1 THEN 0 ELSE s + 1
  BY <1>4, NextSlotIs
<1>8. Slot(f, 0) = IF f + 0 < Cap THEN f + 0 ELSE f + 0 - Cap
  BY <1>3, SlotIs
<1>9. Slot(n, k) = Slot(f, k + 1)
  <2> HIDE DEF n, s
  <2> QED BY <1>1, <1>2, <1>5, <1>6
<1>10. Next1(s) = Slot(f, k + 1)
  <2> HIDE DEF n, s
  <2> QED BY <1>1, <1>4, <1>5, <1>7
<1> QED
  BY <1>1, <1>8, <1>9, <1>10

(* Two counts below the capacity are two slots.                            *)
LEMMA SlotsApart ==
    ASSUME NEW f \in 0 .. Cap - 1, NEW j \in 0 .. Cap - 1, NEW k \in 0 .. Cap - 1, j # k
    PROVE  Slot(f, j) # Slot(f, k)
<1>1. Cap \in Nat /\ Cap > 0 /\ j \in 0 .. Cap /\ k \in 0 .. Cap
  BY QueueAssumption
<1>2. Slot(f, j) = IF f + j < Cap THEN f + j ELSE f + j - Cap
  BY <1>1, SlotIs
<1>3. Slot(f, k) = IF f + k < Cap THEN f + k ELSE f + k - Cap
  BY <1>1, SlotIs
<1> QED
  BY <1>1, <1>2, <1>3

-----------------------------------------------------------------------------
(* The n messages from slot f on: what queue.c counts as the contents.     *)
Ring(a, f, n) == [k \in 1 .. n |-> a[Slot(f, k - 1)]]
Occupied(a, f, n) == \A k \in 0 .. n - 1 : a[Slot(f, k)] \in Msgs

Slots == [0 .. Cap - 1 -> Msgs \cup {NoMsg, Raw}]

(* The contents are a sequence of messages as long as the count.           *)
LEMMA RingSeq ==
    ASSUME NEW a \in Slots, NEW f \in 0 .. Cap - 1, NEW n \in 0 .. Cap, Occupied(a, f, n)
    PROVE  Ring(a, f, n) \in Seq(Msgs) /\ Len(Ring(a, f, n)) = n
<1>1. Cap \in Nat /\ n \in Nat
  BY QueueAssumption
<1>2. \A k \in 1 .. n : k - 1 \in 0 .. n - 1 /\ a[Slot(f, k - 1)] \in Msgs
  BY <1>1 DEF Occupied
<1>3. Ring(a, f, n) \in [1 .. n -> Msgs]
  BY <1>2 DEF Ring
<1> QED
  BY <1>1, <1>3

(* Counting one slot more appends what it holds.                           *)
LEMMA RingAppend ==
    ASSUME NEW a \in Slots, NEW f \in 0 .. Cap - 1, NEW n \in 0 .. Cap - 1,
           Occupied(a, f, n), a[Slot(f, n)] \in Msgs
    PROVE  /\ Occupied(a, f, n + 1)
           /\ Ring(a, f, n + 1) = Append(Ring(a, f, n), a[Slot(f, n)])
<1>1. Cap \in Nat /\ n \in 0 .. Cap /\ n + 1 \in 0 .. Cap /\ n \in Nat
  BY QueueAssumption
<1>2. Occupied(a, f, n + 1)
  <2>1. \A k \in 0 .. (n + 1) - 1 : k \in 0 .. n - 1 \/ k = n
    BY <1>1
  <2> QED BY <2>1 DEF Occupied
<1> DEFINE r == Ring(a, f, n)  s == Ring(a, f, n + 1)  m == a[Slot(f, n)]
<1>3. r \in Seq(Msgs) /\ Len(r) = n /\ s \in Seq(Msgs) /\ Len(s) = n + 1
  BY <1>1, <1>2, RingSeq
<1>4. \A k \in 1 .. n : r[k] = s[k]
  BY <1>1 DEF Ring
<1>5. s[n + 1] = m
  <2>1. n + 1 \in 1 .. n + 1 /\ (n + 1) - 1 = n
    BY <1>1
  <2> QED BY <2>1 DEF Ring
<1>6. Append(r, m) \in Seq(Msgs) /\ Len(Append(r, m)) = n + 1
  BY <1>3
<1>7. \A k \in 1 .. n + 1 : Append(r, m)[k] = s[k]
  <2> HIDE DEF r, s, m
  <2> QED BY <1>1, <1>3, <1>4, <1>5
<1>8. Append(r, m) = s
  <2> HIDE DEF r, s, m
  <2> QED BY <1>3, <1>6, <1>7, SeqEqual
<1> QED BY <1>2, <1>8

(* Moving front one slot on takes the head and leaves the tail.            *)
LEMMA RingTail ==
    ASSUME NEW a \in Slots, NEW f \in 0 .. Cap - 1, NEW n \in 1 .. Cap, Occupied(a, f, n)
    PROVE  /\ Occupied(a, Next1(f), n - 1)
           /\ a[f] \in Msgs
           /\ Ring(a, f, n) # <<>>
           /\ Head(Ring(a, f, n)) = a[f]
           /\ Ring(a, Next1(f), n - 1) = Tail(Ring(a, f, n))
<1>1. Cap \in Nat /\ n \in 0 .. Cap /\ n - 1 \in 0 .. Cap /\ Next1(f) \in 0 .. Cap - 1
  BY QueueAssumption, NextSlot
<1>2. \A k \in 0 .. (n - 1) - 1 :
        /\ k \in 0 .. Cap - 1 /\ k + 1 \in 0 .. n - 1
        /\ Slot(Next1(f), k) = Slot(f, k + 1)
  <2> TAKE k \in 0 .. (n - 1) - 1
  <2>1. k \in 0 .. Cap - 1 /\ k + 1 \in 0 .. n - 1
    BY <1>1
  <2> QED BY <2>1, SlotNext
<1>3. Occupied(a, Next1(f), n - 1)
  BY <1>2 DEF Occupied
<1>4. Slot(f, 0) = f /\ 0 \in 0 .. n - 1
  BY <1>1, QueueAssumption, SlotNext
<1>5. a[f] \in Msgs
  BY <1>4 DEF Occupied
<1> DEFINE r == Ring(a, f, n)  s == Ring(a, Next1(f), n - 1)
<1>6. r \in Seq(Msgs) /\ Len(r) = n /\ s \in Seq(Msgs) /\ Len(s) = n - 1
  BY <1>1, <1>3, RingSeq
<1>7. r[1] = a[f]
  <2>1. 1 \in 1 .. n /\ 1 - 1 = 0
    BY <1>1
  <2> QED BY <1>4, <2>1 DEF Ring
<1>8. \A k \in 1 .. n - 1 : s[k] = r[k + 1]
  <2> TAKE k \in 1 .. n - 1
  <2>1. k - 1 \in 0 .. (n - 1) - 1 /\ k + 1 \in 1 .. n /\ (k - 1) + 1 = k /\ (k + 1) - 1 = k
    BY <1>1
  <2>2. Slot(Next1(f), k - 1) = Slot(f, k)
    BY <1>2, <2>1
  <2> QED BY <2>1, <2>2 DEF Ring
<1>9. r # <<>> /\ Head(r) = r[1] /\ Tail(r) \in Seq(Msgs) /\ Len(Tail(r)) = n - 1
  <2> HIDE DEF r
  <2> QED BY <1>1, <1>6
<1>10. \A k \in 1 .. n - 1 : Tail(r)[k] = r[k + 1]
  <2> HIDE DEF r
  <2> QED BY <1>1, <1>6, <1>9
<1>11. s = Tail(r)
  <2> HIDE DEF r, s
  <2> QED BY <1>6, <1>8, <1>9, <1>10, SeqEqual
<1> QED BY <1>3, <1>5, <1>7, <1>9, <1>11

(* Writing the first slot that is not counted leaves the contents alone.   *)
LEMMA RingFrame ==
    ASSUME NEW a \in Slots, NEW f \in 0 .. Cap - 1, NEW n \in 0 .. Cap - 1, NEW x,
           Occupied(a, f, n)
    PROVE  /\ Occupied([a EXCEPT ![Slot(f, n)] = x], f, n)
           /\ Ring([a EXCEPT ![Slot(f, n)] = x], f, n) = Ring(a, f, n)
<1> DEFINE b == [a EXCEPT ![Slot(f, n)] = x]
<1>1. Cap \in Nat /\ n \in Nat
  BY QueueAssumption
<1>2. \A k \in 0 .. n - 1 : b[Slot(f, k)] = a[Slot(f, k)]
  <2> TAKE k \in 0 .. n - 1
  <2>1. k \in 0 .. Cap - 1 /\ k \in 0 .. Cap /\ k # n
    BY <1>1
  <2>2. Slot(f, k) # Slot(f, n) /\ Slot(f, k) \in 0 .. Cap - 1
    BY <2>1, SlotsApart, SlotIs
  <2> QED BY <2>2 DEF Slots
<1>3. \A k \in 1 .. n : k - 1 \in 0 .. n - 1
  BY <1>1
<1> HIDE DEF b
<1>4. Occupied(b, f, n) /\ Ring(b, f, n) = Ring(a, f, n)
  BY <1>2, <1>3 DEF Occupied, Ring
<1> QED BY <1>4 DEF b

-----------------------------------------------------------------------------
(* Every queue call runs to its end before another begins.                 *)
Serial == Preempts = {}

(* At most one task is inside a call.                                      *)
Alone == \A t, u \in Tasks : Busy(t) /\ Busy(u) => t = u

(* The counted slots hold messages, and rear is the last of them.          *)
RingInv ==
    /\ Occupied(array, front, Counted)
    /\ ~Uncounted => Next1(rear) = Slot(front, Counted)

(* A producer writes its message to the first slot that is not counted.    *)
EnqueueAt(t) ==
    /\ pc[t] # "idle" => msg[t] \in Msgs
    /\ pc[t] \in Advanced => rear = Slot(front, size)
    /\ pc[t] \in {"sizeLoad", "sizeStore"} => array[rear] = msg[t]

(* The consumer copies the message it took out.                            *)
DequeueAt ==
    /\ pc[Tx] = "deqFront" => item = front
    /\ InFlight => array[item] \in Msgs
    /\ pc[Tx] = "deqSizeStore" => reg[Tx] = size
    /\ pc[Tx] = "sprintf2" => half = array[item]

FifoInv == Alone /\ RingInv /\ DequeueAt /\ \A t \in Producers : EnqueueAt(t)

(* What the theorems of MsgQueueProofs give for serial calls.              *)
Known == TypeInv /\ NonEmptyInv /\ SizeInv /\ WrittenInv

(* createQueue() leaves an empty ring with rear behind slot 0.             *)
LEMMA FifoInit == Init => FifoInv
<1> SUFFICES ASSUME Init PROVE FifoInv
  OBVIOUS
<1> USE DEF Init, InitWith
<1>1. Cap \in Nat /\ 0 \in 0 .. Cap - 1 /\ Cap - 1 \in 0 .. Cap - 1
  BY QueueAssumption
<1>2. Tx \in Tasks /\ pc[Tx] = "idle" /\ \A t \in Tasks : pc[t] = "idle"
  BY DEF Tasks
<1>3. Counted = 0 /\ ~InFlight
  BY <1>2 DEF Counted, InFlight, CopyPc
<1>4. Next1(Cap - 1) = 0 /\ Slot(0, 0) = 0
  BY <1>1, NextSlotIs, SlotNext
<1>5. RingInv
  BY <1>3, <1>4 DEF RingInv, Occupied
<1> QED
  BY <1>2, <1>3, <1>5 DEF FifoInv, Alone, Busy, DequeueAt, EnqueueAt, Tasks, Advanced

(* The count and the room are in range.                                    *)
LEMMA CountedRange ==
    ASSUME Known, DequeueAt
    PROVE  Counted \in 0 .. Cap /\ array \in Slots /\ front \in 0 .. Cap - 1
                                 /\ rear \in 0 .. Cap - 1
BY QueueAssumption
   DEF Known, TypeInv, TypeOK, NonEmptyInv, SizeInv, DequeueAt, Counted, Slots

(* When a producer steps, every other task is between two calls.           *)
LEMMA EnqueueAlone ==
    ASSUME Serial, Known, NEW t \in Producers, Enqueue(t)
    PROVE  /\ \A u \in Tasks : u # t => ~Busy(u) /\ pc'[u] = pc[u]
           /\ pc[Tx] \in {"idle", "print"} /\ pc'[Tx] = pc[Tx]
           /\ \A u \in Producers : u # t => pc[u] = "idle" /\ pc'[u] = "idle"
           /\ Counted = size /\ Counted' = size' /\ ~InFlight /\ ~InFlight'
           /\ Uncounted <=> pc[t] \in Advanced
           /\ Uncounted' <=> pc'[t] \in Advanced
<1>1. CanStep(t) /\ \A u \in Tasks : u # t => pc'[u] = pc[u]
  BY DEF Known, TypeInv, TypeOK, Go, Enqueue, EnqCheck, EnqRearLoad, EnqRearStore,
         EnqClear, EnqCopy, EnqSizeLoad, EnqSizeStore
<1>2. \A u \in Tasks : u # t => ~Busy(u)
  BY <1>1 DEF CanStep, Serial
<1>3. Tx \in Tasks /\ Tx # t /\ Producers \subseteq Tasks
  BY QueueAssumption DEF Tasks
<1>4. pc[Tx] \in {"idle", "print"} /\ pc'[Tx] = pc[Tx]
  BY <1>1, <1>2, <1>3 DEF Busy
<1>5. \A u \in Producers : u # t => pc[u] = "idle" /\ pc'[u] = "idle"
  BY <1>1, <1>2, <1>3 DEF Busy, Known, TypeInv, TypeOK, EnqPc
<1>6. Counted = size /\ Counted' = size' /\ ~InFlight /\ ~InFlight'
  BY <1>4 DEF Counted, InFlight, CopyPc
<1>7. Uncounted <=> pc[t] \in Advanced
  BY <1>5 DEF Uncounted, Advanced
<1>8. Uncounted' <=> pc'[t] \in Advanced
  BY <1>5 DEF Uncounted, Advanced
<1> QED
  BY <1>1, <1>2, <1>4, <1>5, <1>6, <1>7, <1>8

(* When the consumer steps, no producer is inside enqueue().               *)
LEMMA TransmitAlone ==
    ASSUME Serial, Known, Transmit
    PROVE  /\ \A u \in Producers : pc[u] = "idle" /\ pc'[u] = "idle"
           /\ ~Uncounted /\ ~Uncounted'
           /\ rear' = rear /\ array' = array /\ msg' = msg
<1>1. /\ CanStep(Tx) /\ rear' = rear /\ array' = array /\ msg' = msg
      /\ \A u \in Producers : pc'[u] = pc[u]
  BY QueueAssumption
     DEF Known, TypeInv, TypeOK, Go, Transmit, TxCheck, TxPrint, DeqCheck, DeqFront,
         DeqSizeLoad, DeqSizeStore, TxCopyFirst, TxCopyRest, ring, locals, Tasks
<1>2. \A u \in Producers : u \in Tasks \ {Tx}
  BY QueueAssumption DEF Tasks
<1>3. \A u \in Producers : ~Busy(u)
  BY <1>1, <1>2 DEF CanStep, Serial
<1>4. \A u \in Producers : pc[u] = "idle"
  BY <1>3 DEF Busy, Known, TypeInv, TypeOK, EnqPc
<1>5. ~Uncounted /\ ~Uncounted'
  BY <1>1, <1>4 DEF Uncounted, Advanced
<1> QED
  BY <1>1, <1>4, <1>5

(* A step of enqueue() keeps the ring in order.                            *)
LEMMA FifoEnqueue ==
    ASSUME Serial, Known, FifoInv, NEW t \in Producers, Enqueue(t)
    PROVE  FifoInv'
<1>1. /\ \A u \in Tasks : u # t => ~Busy(u) /\ pc'[u] = pc[u]
      /\ pc[Tx] \in {"idle", "print"} /\ pc'[Tx] = pc[Tx]
      /\ \A u \in Producers : u # t => pc[u] = "idle" /\ pc'[u] = "idle"
      /\ Counted = size /\ Counted' = size' /\ ~InFlight /\ ~InFlight'
      /\ Uncounted <=> pc[t] \in Advanced
      /\ Uncounted' <=> pc'[t] \in Advanced
  BY EnqueueAlone
<1>2. Alone'
  BY <1>1 DEF Alone, Busy
<1>3. DequeueAt'
  BY <1>1 DEF DequeueAt
<1>4. \A u \in Producers : u # t => EnqueueAt(u)'
  BY <1>1 DEF EnqueueAt, Advanced
<1>5. /\ Cap \in Nat /\ array \in Slots /\ front \in 0 .. Cap - 1 /\ rear \in 0 .. Cap - 1
      /\ size \in 0 .. Cap /\ (pc[t] # "idle" => size \in 0 .. Cap - 1)
      /\ t \in Tasks /\ pc \in [Tasks -> {"idle"} \cup EnqPc \cup TxPc]
      /\ reg \in [Tasks -> Int] /\ msg \in [Tasks -> Msgs \cup {NoMsg}]
  BY QueueAssumption DEF Known, TypeInv, TypeOK, SizeInv, Slots, Tasks
<1>6. Occupied(array, front, size) /\ (pc[t] \notin Advanced => Next1(rear) = Slot(front, size))
  BY <1>1 DEF FifoInv, RingInv
<1>7. EnqueueAt(t)
  BY DEF FifoInv
<1>8. RingInv' /\ EnqueueAt(t)'
  <2> USE DEF Go, ring, locals, history
  <2>1. CASE EnqCheck(t)
    <3>1. posted + 1 \in Msgs /\ pc'[t] \in {"idle", "rearLoad"} /\ pc[t] = "idle"
      BY <1>5, <2>1, QueueAssumption DEF EnqCheck, Msgs, Known, TypeInv, TypeOK
    <3>2. UNCHANGED <<front, rear, size, array>>
      BY <2>1 DEF EnqCheck
    <3>3. RingInv'
      BY <1>1, <1>6, <3>1, <3>2 DEF RingInv, Advanced, Occupied
    <3>4. pc'[t] # "idle" => msg'[t] = posted + 1
      BY <1>5, <2>1, <3>1 DEF EnqCheck
    <3> QED BY <3>1, <3>3, <3>4 DEF EnqueueAt, Advanced
  <2>2. CASE EnqRearLoad(t)
    <3>1. pc[t] = "rearLoad" /\ pc'[t] = "rearStore"
      BY <1>5, <2>2 DEF EnqRearLoad
    <3>2. UNCHANGED <<front, rear, size, array, msg>>
      BY <2>2 DEF EnqRearLoad
    <3> QED BY <1>1, <1>6, <1>7, <3>1, <3>2 DEF RingInv, Advanced, Occupied, EnqueueAt
  <2>3. CASE EnqRearStore(t)
    <3>1. pc[t] = "rearStore" /\ pc'[t] = "clear" /\ rear' = Next1(rear)
      BY <1>5, <2>3 DEF EnqRearStore, Known, WrittenInv
    <3>2. UNCHANGED <<front, size, array, msg>>
      BY <2>3 DEF EnqRearStore
    <3>3. rear' = Slot(front', size')
      BY <1>6, <3>1, <3>2 DEF Advanced
    <3> QED BY <1>1, <1>6, <1>7, <3>1, <3>2, <3>3 DEF RingInv, Advanced, Occupied, EnqueueAt
  <2>4. CASE EnqClear(t)
    <3>1. pc[t] = "clear" /\ pc'[t] = "copy" /\ array' = [array EXCEPT ![rear] = NoMsg]
      BY <1>5, <2>4 DEF EnqClear, Known, WrittenInv
    <3>2. UNCHANGED <<front, rear, size, msg>>
      BY <2>4 DEF EnqClear
    <3>3. rear = Slot(front, size)
      BY <1>7, <3>1 DEF EnqueueAt, Advanced
    <3>4. Occupied(array', front, size)
      BY <1>5, <1>6, <3>1, <3>3, RingFrame
    <3> QED BY <1>1, <1>7, <3>1, <3>2, <3>3, <3>4 DEF RingInv, Advanced, EnqueueAt
  <2>5. CASE EnqCopy(t)
    <3>1. pc[t] = "copy" /\ pc'[t] = "sizeLoad" /\ array' = [array EXCEPT ![rear] = msg[t]]
      BY <1>5, <2>5 DEF EnqCopy, Known, WrittenInv
    <3>2. UNCHANGED <<front, rear, size, msg>>
      BY <2>5 DEF EnqCopy
    <3>3. rear = Slot(front, size)
      BY <1>7, <3>1 DEF EnqueueAt, Advanced
    <3>4. Occupied(array', front, size)
      BY <1>5, <1>6, <3>1, <3>3, RingFrame
    <3>5. array'[rear] = msg[t]
      BY <1>5, <3>1 DEF Slots
    <3> QED BY <1>1, <1>7, <3>1, <3>2, <3>3, <3>4, <3>5 DEF RingInv, Advanced, EnqueueAt
  <2>6. CASE EnqSizeLoad(t)
    <3>1. pc[t] = "sizeLoad" /\ pc'[t] = "sizeStore"
      BY <1>5, <2>6 DEF EnqSizeLoad
    <3>2. UNCHANGED <<front, rear, size, array, msg>>
      BY <2>6 DEF EnqSizeLoad
    <3> QED BY <1>1, <1>6, <1>7, <3>1, <3>2 DEF RingInv, Advanced, Occupied, EnqueueAt
  <2>7. CASE EnqSizeStore(t)
    <3>1. pc[t] = "sizeStore" /\ pc'[t] = "idle" /\ size' = size + 1
      BY <1>5, <2>7 DEF EnqSizeStore, Known, SizeInv
    <3>2. UNCHANGED <<front, rear, array>>
      BY <2>7 DEF EnqSizeStore
    <3>3. rear = Slot(front, size) /\ array[rear] \in Msgs
      BY <1>7, <3>1 DEF EnqueueAt, Advanced
    <3>4. Occupied(array, front, size + 1)
      BY <1>5, <1>6, <3>1, <3>3, RingAppend
    <3>5. Next1(rear) = Slot(front, size + 1)
      BY <1>5, <3>1, <3>3, SlotNext
    <3> QED BY <1>1, <3>1, <3>2, <3>4, <3>5 DEF RingInv, Advanced, EnqueueAt
  <2> QED BY <2>1, <2>2, <2>3, <2>4, <2>5, <2>6, <2>7 DEF Enqueue
<1> QED
  BY <1>2, <1>3, <1>4, <1>8 DEF FifoInv

(* A step of Brideg_LORAWAN_TX keeps the ring in order.                    *)
LEMMA FifoTransmit ==
    ASSUME Serial, Known, FifoInv, Transmit
    PROVE  FifoInv'
<1>1. /\ \A u \in Producers : pc[u] = "idle" /\ pc'[u] = "idle"
      /\ ~Uncounted /\ ~Uncounted'
      /\ rear' = rear /\ array' = array /\ msg' = msg
  BY TransmitAlone
<1>2. Alone'
  BY <1>1 DEF Alone, Busy, Tasks
<1>3. \A u \in Producers : EnqueueAt(u)'
  BY <1>1 DEF EnqueueAt, Advanced
<1>4. /\ Cap \in Nat /\ array \in Slots /\ front \in 0 .. Cap - 1
      /\ Tx \in Tasks /\ size \in 0 .. Cap /\ pc \in [Tasks -> {"idle"} \cup EnqPc \cup TxPc]
      /\ reg \in [Tasks -> Int]
  BY QueueAssumption DEF Known, TypeInv, TypeOK, SizeInv, Slots, Tasks
<1>5. DequeueAt /\ Occupied(array, front, Counted) /\ Next1(rear) = Slot(front, Counted)
  BY <1>1 DEF FifoInv, RingInv
<1>6. RingInv' /\ DequeueAt'
  <2> USE DEF Go, ring, locals, history
  <2>1. CASE UNCHANGED <<front, size, reg>> /\ Counted' = Counted
             /\ pc'[Tx] \notin {"deqFront", "deqSizeLoad", "deqSizeStore", "sprintf1", "sprintf2"}
    <3>1. RingInv'
      BY <1>1, <1>5, <2>1 DEF RingInv, Occupied
    <3>2. DequeueAt'
      BY <2>1 DEF DequeueAt, InFlight, CopyPc
    <3> QED BY <3>1, <3>2
  <2>2. CASE TxCheck
    BY <1>4, <2>1, <2>2 DEF TxCheck, Counted
  <2>3. CASE TxPrint
    BY <1>4, <2>1, <2>3 DEF TxPrint, Counted
  <2>4. CASE DeqCheck
    <3>1. pc'[Tx] = "deqFront" /\ item' = front /\ Counted' = Counted
      BY <1>4, <2>4 DEF DeqCheck, Known, NonEmptyInv, isEmpty, Counted
    <3>2. UNCHANGED <<front, size>>
      BY <2>4 DEF DeqCheck
    <3>3. RingInv'
      BY <1>1, <1>5, <3>1, <3>2 DEF RingInv, Occupied
    <3> QED BY <3>1, <3>2, <3>3 DEF DequeueAt, InFlight, CopyPc
  <2>5. CASE DeqFront
    <3>1. pc[Tx] = "deqFront" /\ pc'[Tx] = "deqSizeLoad" /\ front' = Next1(front)
      BY <1>4, <2>5 DEF DeqFront
    <3>2. UNCHANGED <<size, item>>
      BY <2>5 DEF DeqFront
    <3>3. size \in 1 .. Cap /\ Counted = size /\ Counted' = size - 1 /\ item = front
      BY <1>4, <1>5, <3>1, <3>2 DEF Known, NonEmptyInv, Counted, DequeueAt
    <3>4. Occupied(array, Next1(front), size - 1) /\ array[front] \in Msgs
      BY <1>4, <1>5, <3>3, RingTail
    <3>5. Next1(rear) = Slot(Next1(front), size - 1)
      <4>1. size - 1 \in 0 .. Cap - 1 /\ (size - 1) + 1 = size
        BY <1>4, <3>3
      <4> QED BY <1>4, <1>5, <3>3, <4>1, SlotNext
    <3>6. RingInv'
      BY <1>1, <3>1, <3>3, <3>4, <3>5 DEF RingInv
    <3> QED BY <1>1, <3>1, <3>2, <3>3, <3>4, <3>6 DEF DequeueAt
  <2>6. CASE DeqSizeLoad
    <3>1. pc[Tx] = "deqSizeLoad" /\ pc'[Tx] = "deqSizeStore" /\ reg'[Tx] = size
      BY <1>4, <2>6 DEF DeqSizeLoad
    <3>2. UNCHANGED <<front, size, item>>
      BY <2>6 DEF DeqSizeLoad
    <3>3. Counted' = Counted
      BY <3>1, <3>2 DEF Counted
    <3> QED BY <1>1, <1>5, <3>1, <3>2, <3>3 DEF RingInv, Occupied, DequeueAt, InFlight, CopyPc
  <2>7. CASE DeqSizeStore
    <3>1. pc[Tx] = "deqSizeStore" /\ pc'[Tx] = "sprintf1" /\ size' = size - 1
      BY <1>4, <1>5, <2>7 DEF DeqSizeStore, DequeueAt
    <3>2. UNCHANGED <<front, item>>
      BY <2>7 DEF DeqSizeStore
    <3>3. Counted' = Counted
      BY <3>1, <3>2 DEF Counted
    <3> QED BY <1>1, <1>5, <3>1, <3>2, <3>3 DEF RingInv, Occupied, DequeueAt, InFlight, CopyPc
  <2>8. CASE TxCopyFirst
    <3>1. pc[Tx] = "sprintf1" /\ pc'[Tx] = "sprintf2" /\ half' = array[item]
      BY <1>4, <2>8 DEF TxCopyFirst
    <3>2. UNCHANGED <<front, size, item>>
      BY <2>8 DEF TxCopyFirst
    <3>3. Counted' = Counted
      BY <3>1, <3>2 DEF Counted
    <3> QED BY <1>1, <1>5, <3>1, <3>2, <3>3 DEF RingInv, Occupied, DequeueAt, InFlight, CopyPc
  <2>9. CASE TxCopyRest
    BY <1>4, <2>1, <2>9 DEF TxCopyRest, Counted
  <2> QED
    BY <2>2, <2>3, <2>4, <2>5, <2>6, <2>7, <2>8, <2>9 DEF Transmit
<1> QED
  BY <1>2, <1>3, <1>6 DEF FifoInv

(* Every step keeps the ring in order.                                     *)
LEMMA FifoStep ==
    ASSUME Serial, Known, FifoInv, [Next]_vars
    PROVE  FifoInv'
<1>1. CASE UNCHANGED vars
  <2>1. /\ Counted' = Counted /\ (InFlight' <=> InFlight) /\ (Uncounted' <=> Uncounted)
        /\ \A t \in Tasks : Busy(t)' <=> Busy(t)
    BY <1>1 DEF vars, ring, locals, history, Counted, InFlight, Uncounted, Busy
  <2>2. UNCHANGED <<front, rear, size, array, pc, reg, msg, item, half>>
    BY <1>1 DEF vars, ring, locals
  <2> QED
    BY <2>1, <2>2 DEF FifoInv, Alone, RingInv, Occupied, DequeueAt, EnqueueAt
<1>2. CASE Next
  BY <1>2, FifoEnqueue, FifoTransmit DEF Next
<1> QED BY <1>1, <1>2

-----------------------------------------------------------------------------
(* The refinement mapping is the counted part of the ring.                 *)
LEMMA RingIs ==
    ASSUME NEW a, NEW f \in 0 .. Cap - 1, NEW n
    PROVE  [k \in 1 .. n |-> a[(f + k - 1) % Cap]] = Ring(a, f, n)
<1>1. \A k \in 1 .. n : (f + k - 1) % Cap = Slot(f, k - 1)
  <2> TAKE k \in 1 .. n
  <2>1. f + k - 1 = f + (k - 1)
    OBVIOUS
  <2> QED BY <2>1 DEF Slot
<1> QED BY <1>1 DEF Ring

(* It maps a state and its successor alike.                                *)
LEMMA WaitingIs ==
    ASSUME TypeInv, TypeInv'
    PROVE  /\ Waiting = Ring(array, front, Counted)
           /\ Waiting' = Ring(array', front', Counted')
<1>1. front \in 0 .. Cap - 1 /\ front' \in 0 .. Cap - 1
  BY DEF TypeInv, TypeOK
<1>2. Waiting = Ring(array, front, Counted)
  BY <1>1, RingIs DEF Waiting
<1>3. Waiting' = Ring(array', front', Counted')
  BY <1>1, RingIs DEF Waiting
<1> QED BY <1>2, <1>3

(* createQueue() makes an empty buffer.                                    *)
LEMMA RefinesInit == Init => Fifo!Init
<1> SUFFICES ASSUME Init PROVE Fifo!Init
  OBVIOUS
<1>1. Tx \in Tasks /\ pc[Tx] = "idle" /\ size = 0
  BY DEF Init, InitWith, Tasks
<1>2. Counted = 0 /\ ~InFlight
  BY <1>1 DEF Counted, InFlight, CopyPc
<1>3. Waiting = <<>>
  BY <1>2 DEF Waiting
<1> QED
  BY <1>2, <1>3 DEF Fifo!Init, Held, Init, InitWith

(* enqueue() refuses a message when it finds the buffer full, posts it     *)
(* when it stores size, and does nothing the buffer shows in between.      *)
LEMMA RefinesEnqueue ==
    ASSUME Serial, Known, TypeInv', FifoInv, NEW t \in Producers, Enqueue(t)
    PROVE  Fifo!Next \/ UNCHANGED Fifo!vars
<1>1. /\ Counted = size /\ Counted' = size' /\ ~InFlight /\ ~InFlight'
      /\ Uncounted <=> pc[t] \in Advanced
  BY EnqueueAlone
<1>2. Held = NoMsg /\ Held' = NoMsg
  BY <1>1 DEF Held
<1>3. Waiting = Ring(array, front, size) /\ Waiting' = Ring(array', front', size')
  BY <1>1, WaitingIs DEF Known
<1>4. /\ Cap \in Nat /\ array \in Slots /\ front \in 0 .. Cap - 1 /\ rear \in 0 .. Cap - 1
      /\ size \in 0 .. Cap /\ (pc[t] # "idle" => size \in 0 .. Cap - 1)
      /\ t \in Tasks /\ pc \in [Tasks -> {"idle"} \cup EnqPc \cup TxPc]
  BY QueueAssumption DEF Known, TypeInv, TypeOK, SizeInv, Slots, Tasks
<1>5. Occupied(array, front, size) /\ EnqueueAt(t)
  BY <1>1 DEF FifoInv, RingInv
<1>6. Waiting \in Seq(Msgs) /\ Len(Waiting) = size
  BY <1>3, <1>4, <1>5, RingSeq
<1> USE DEF Go, ring, locals, history
<1>7. CASE EnqCheck(t)
  <2>1. Waiting' = Waiting /\ sent' = sent
    BY <1>3, <1>7 DEF EnqCheck
  <2>2. CASE isFull
    <3>1. posted + 1 \in Msgs /\ dropped' = dropped \cup {posted + 1}
      BY <1>7, <2>2, QueueAssumption DEF EnqCheck, Msgs, Known, TypeInv, TypeOK
    <3>2. Fifo!Refuse(posted + 1)
      BY <1>2, <1>6, <2>1, <2>2, <3>1 DEF Fifo!Refuse, isFull
    <3> QED BY <3>1, <3>2 DEF Fifo!Next
  <2>3. CASE ~isFull
    <3>1. dropped' = dropped
      BY <1>7, <2>3 DEF EnqCheck
    <3> QED BY <1>2, <2>1, <3>1 DEF Fifo!vars
  <2> QED BY <2>2, <2>3
<1>8. CASE EnqRearLoad(t) \/ EnqRearStore(t) \/ EnqSizeLoad(t)
  <2>1. UNCHANGED <<front, size, array, sent, dropped>>
    BY <1>8 DEF EnqRearLoad, EnqRearStore, EnqSizeLoad
  <2> QED BY <1>2, <1>3, <2>1 DEF Fifo!vars
<1>9. CASE EnqClear(t) \/ EnqCopy(t)
  <2>1. UNCHANGED <<front, size, sent, dropped>>
    BY <1>9 DEF EnqClear, EnqCopy
  <2>2. pc[t] \in {"clear", "copy"}
    BY <1>9 DEF EnqClear, EnqCopy
  <2>3. rear = Slot(front, size) /\ reg[t] = rear
    BY <1>5, <2>2 DEF EnqueueAt, Advanced, Known, WrittenInv
  <2>4. \/ array' = [array EXCEPT ![Slot(front, size)] = NoMsg]
        \/ array' = [array EXCEPT ![Slot(front, size)] = msg[t]]
    BY <1>9, <2>3 DEF EnqClear, EnqCopy
  <2>5. Ring(array', front, size) = Ring(array, front, size)
    BY <1>4, <1>5, <2>2, <2>4, RingFrame
  <2> QED BY <1>2, <1>3, <2>1, <2>5 DEF Fifo!vars
<1>10. CASE EnqSizeStore(t)
  <2>1. pc[t] = "sizeStore" /\ size' = size + 1
    BY <1>4, <1>10 DEF EnqSizeStore, Known, SizeInv
  <2>2. UNCHANGED <<front, array, sent, dropped>>
    BY <1>10 DEF EnqSizeStore
  <2>3. msg[t] \in Msgs /\ array[Slot(front, size)] = msg[t] /\ size \in 0 .. Cap - 1
    BY <1>4, <1>5, <2>1 DEF EnqueueAt, Advanced
  <2>4. Waiting' = Append(Waiting, msg[t])
    BY <1>3, <1>4, <1>5, <2>1, <2>2, <2>3, RingAppend
  <2>5. Fifo!Post(msg[t])
    BY <1>2, <1>4, <1>6, <2>2, <2>3, <2>4 DEF Fifo!Post
  <2> QED BY <2>3, <2>5 DEF Fifo!Next
<1> QED
  BY <1>7, <1>8, <1>9, <1>10 DEF Enqueue

(* dequeue() takes the oldest message when it moves front, the transmitter *)
(* hands it over when sprintf() is done, and nothing else shows.           *)
LEMMA RefinesTransmit ==
    ASSUME Serial, Known, TypeInv', FifoInv, Transmit
    PROVE  Fifo!Next \/ UNCHANGED Fifo!vars
<1>1. array' = array
  BY TransmitAlone
<1>2. Waiting = Ring(array, front, Counted) /\ Waiting' = Ring(array, front', Counted')
  BY <1>1, WaitingIs DEF Known
<1>3. /\ Cap \in Nat /\ array \in Slots /\ front \in 0 .. Cap - 1 /\ Tx \in Tasks
      /\ size \in 0 .. Cap /\ pc \in [Tasks -> {"idle"} \cup EnqPc \cup TxPc]
  BY QueueAssumption DEF Known, TypeInv, TypeOK, SizeInv, Slots, Tasks
<1>4. DequeueAt /\ Occupied(array, front, Counted)
  BY DEF FifoInv, RingInv
<1> USE DEF Go, ring, locals, history
<1>5. CASE UNCHANGED <<front, item, sent, dropped>> /\ Counted' = Counted
           /\ (InFlight' <=> InFlight)
  BY <1>1, <1>2, <1>5 DEF Fifo!vars, Held
<1>6. CASE TxCheck \/ TxPrint
  BY <1>3, <1>5, <1>6 DEF TxCheck, TxPrint, Counted, InFlight, CopyPc
<1>7. CASE DeqCheck
  <2>1. ~InFlight /\ ~InFlight' /\ Counted' = Counted
    BY <1>3, <1>7 DEF DeqCheck, Counted, InFlight, CopyPc
  <2>2. UNCHANGED <<front, sent, dropped>>
    BY <1>7 DEF DeqCheck
  <2> QED BY <1>2, <2>1, <2>2 DEF Fifo!vars, Held
<1>8. CASE DeqFront
  <2>1. pc[Tx] = "deqFront" /\ pc'[Tx] = "deqSizeLoad" /\ front' = Next1(front)
    BY <1>3, <1>8 DEF DeqFront
  <2>2. UNCHANGED <<size, item, sent, dropped>>
    BY <1>8 DEF DeqFront
  <2>3. size \in 1 .. Cap /\ Counted = size /\ Counted' = size - 1 /\ item = front
    BY <1>3, <1>4, <2>1, <2>2 DEF Known, NonEmptyInv, Counted, DequeueAt
  <2>4. Held = NoMsg /\ Held' = array[front]
    BY <1>1, <2>1, <2>2, <2>3 DEF Held, InFlight, CopyPc
  <2>5. /\ Waiting # <<>> /\ Head(Waiting) = array[front] /\ Waiting' = Tail(Waiting)
    BY <1>2, <1>3, <1>4, <2>1, <2>3, RingTail
  <2>6. Fifo!Take
    BY <2>2, <2>4, <2>5 DEF Fifo!Take
  <2> QED BY <2>6 DEF Fifo!Next
<1>9. CASE DeqSizeLoad \/ TxCopyFirst
  BY <1>3, <1>5, <1>9 DEF DeqSizeLoad, TxCopyFirst, Counted, InFlight, CopyPc
<1>10. CASE DeqSizeStore
  <2>1. pc[Tx] = "deqSizeStore" /\ pc'[Tx] = "sprintf1" /\ size' = size - 1
    BY <1>3, <1>4, <1>10 DEF DeqSizeStore, DequeueAt
  <2> QED BY <1>5, <1>10, <2>1 DEF DeqSizeStore, Counted, InFlight, CopyPc
<1>11. CASE TxCopyRest
  <2>1. pc[Tx] = "sprintf2" /\ pc'[Tx] = "idle"
    BY <1>3, <1>11 DEF TxCopyRest
  <2>2. UNCHANGED <<front, size, dropped>>
    BY <1>11 DEF TxCopyRest
  <2>3. Held = array[item] /\ Held \in Msgs /\ Held' = NoMsg /\ half = array[item]
    BY <1>4, <2>1 DEF Held, InFlight, CopyPc, DequeueAt
  <2>4. Counted' = Counted
    BY <2>1, <2>2 DEF Counted
  <2>5. sent' = Append(sent, Held) /\ Held # NoMsg
    BY <1>11, <2>3 DEF TxCopyRest, Msgs, NoMsg
  <2>6. Fifo!HandOver
    BY <1>2, <2>2, <2>3, <2>4, <2>5 DEF Fifo!HandOver
  <2> QED BY <2>6 DEF Fifo!Next
<1> QED
  BY <1>6, <1>7, <1>8, <1>9, <1>10, <1>11 DEF Transmit

(* Every step is a step of the buffer or leaves it alone.                  *)
LEMMA RefinesStep ==
    ASSUME Serial, Known, TypeInv', FifoInv, [Next]_vars
    PROVE  [Fifo!Next]_(Fifo!vars)
<1>1. CASE UNCHANGED vars
  <2>1. UNCHANGED <<Waiting, Held, sent, dropped>>
    BY <1>1 DEF vars, ring, locals, history, Waiting, Held, Counted, InFlight
  <2> QED BY <2>1 DEF Fifo!vars
<1>2. CASE Next
  BY <1>2, RefinesEnqueue, RefinesTransmit DEF Next
<1> QED BY <1>1, <1>2

(* For every capacity, every number of producers and every number of       *)
(* messages: when queue calls do not overlap, queue.c hands every message  *)
(* it accepted to sendCMD() once, whole and in the order of acceptance,    *)
(* and refuses a message only when it holds as many as its capacity.       *)
THEOREM QueueIsFifo ==
    ASSUME Serial
    PROVE  Spec => ImplementsFifo
<1>1. Serial /\ ProducersOnTop
  BY DEF Serial, ProducersOnTop
<1>2. Init => Known /\ FifoInv
  BY TypeInit, NonEmptyInit, SizeInit, WrittenInit, FifoInit DEF Known
<1>3. Known /\ FifoInv /\ [Next]_vars => Known' /\ FifoInv'
  BY <1>1, TypeStep, NonEmptyStep, SizeStep, WrittenStep, FifoStep DEF Known
<1>4. Known /\ Known' /\ FifoInv /\ [Next]_vars => [Fifo!Next]_(Fifo!vars)
  BY <1>1, RefinesStep DEF Known
<1> QED
  BY <1>2, <1>3, <1>4, RefinesInit, PTL DEF Spec, ImplementsFifo, Fifo!Spec

-----------------------------------------------------------------------------
InHand == IF InFlight THEN 1 ELSE 0
Offering == IF \E t \in Producers : pc[t] # "idle" THEN 1 ELSE 0

(* Every message offered is refused, handed over, counted in the ring, in  *)
(* the consumer's hand or in a producer's.                                 *)
Balance ==
    /\ IsFiniteSet(dropped) /\ dropped \subseteq 1 .. posted
    /\ posted = Cardinality(dropped) + Len(sent) + Counted + InHand + Offering

(* Nothing was offered to a new queue.                                     *)
LEMMA BalanceInit == Init => Balance
<1> SUFFICES ASSUME Init PROVE Balance
  OBVIOUS
<1> USE DEF Init, InitWith
<1>1. Tx \in Tasks /\ pc[Tx] = "idle" /\ \A t \in Producers : pc[t] = "idle"
  BY DEF Tasks
<1>2. Counted = 0 /\ InHand = 0 /\ Offering = 0
  BY <1>1 DEF Counted, InHand, InFlight, CopyPc, Offering
<1>3. IsFiniteSet(dropped) /\ Cardinality(dropped) = 0
  BY FS_EmptySet
<1> QED BY <1>2, <1>3 DEF Balance

(* A step of enqueue() moves one message from one account to the next.     *)
LEMMA BalanceEnqueue ==
    ASSUME Serial, Known, FifoInv, Balance, NEW t \in Producers, Enqueue(t)
    PROVE  Balance'
<1>1. /\ \A u \in Producers : u # t => pc[u] = "idle" /\ pc'[u] = "idle"
      /\ Counted = size /\ Counted' = size' /\ ~InFlight /\ ~InFlight'
  BY EnqueueAlone
<1>2. InHand = 0 /\ InHand' = 0
  BY <1>1 DEF InHand
<1>3. Offering = IF pc[t] # "idle" THEN 1 ELSE 0
  BY <1>1 DEF Offering
<1>4. Offering' = IF pc'[t] # "idle" THEN 1 ELSE 0
  BY <1>1 DEF Offering
<1>5. /\ size \in 0 .. Cap /\ t \in Tasks /\ pc \in [Tasks -> {"idle"} \cup EnqPc \cup TxPc]
      /\ posted \in Nat /\ Cap \in Nat /\ Len(sent) \in Nat
  BY QueueAssumption DEF Known, TypeInv, TypeOK, SizeInv, Tasks
<1>6. Cardinality(dropped) \in Nat
  BY FS_CardinalityType DEF Balance
<1> USE DEF Go, ring, locals, history
<1>7. CASE EnqCheck(t)
  <2>1. UNCHANGED <<size, sent>> /\ posted' = posted + 1 /\ pc[t] = "idle"
    BY <1>7 DEF EnqCheck
  <2>2. dropped \subseteq 1 .. posted'  /\ posted + 1 \notin dropped
    BY <1>5, <2>1 DEF Balance
  <2>3. CASE isFull
    <3>1. dropped' = dropped \cup {posted + 1} /\ pc'[t] = "idle"
      BY <1>5, <1>7, <2>3 DEF EnqCheck
    <3>2. IsFiniteSet(dropped') /\ Cardinality(dropped') = Cardinality(dropped) + 1
      BY <2>2, <3>1, FS_AddElement DEF Balance
    <3>3. dropped' \subseteq 1 .. posted'
      BY <1>5, <2>1, <2>2, <3>1
    <3> QED BY <1>1, <1>2, <1>3, <1>4, <1>5, <1>6, <2>1, <3>1, <3>2, <3>3 DEF Balance
  <2>4. CASE ~isFull
    <3>1. dropped' = dropped /\ pc'[t] = "rearLoad"
      BY <1>5, <1>7, <2>4 DEF EnqCheck
    <3> QED BY <1>1, <1>2, <1>3, <1>4, <1>5, <1>6, <2>1, <2>2, <3>1 DEF Balance
  <2> QED BY <2>3, <2>4
<1>8. CASE \/ EnqRearLoad(t) \/ EnqRearStore(t) \/ EnqClear(t)
           \/ EnqCopy(t) \/ EnqSizeLoad(t)
  <2>1. UNCHANGED <<size, posted, dropped, sent>> /\ pc[t] # "idle" /\ pc'[t] # "idle"
    BY <1>5, <1>8 DEF EnqRearLoad, EnqRearStore, EnqClear, EnqCopy, EnqSizeLoad
  <2> QED BY <1>1, <1>2, <1>3, <1>4, <2>1 DEF Balance
<1>9. CASE EnqSizeStore(t)
  <2>1. UNCHANGED <<posted, dropped, sent>> /\ pc[t] = "sizeStore" /\ pc'[t] = "idle"
        /\ size' = size + 1
    BY <1>5, <1>9 DEF EnqSizeStore, Known, SizeInv
  <2> QED BY <1>1, <1>2, <1>3, <1>4, <1>5, <1>6, <2>1 DEF Balance
<1> QED
  BY <1>7, <1>8, <1>9 DEF Enqueue

(* So does a step of Brideg_LORAWAN_TX.                                    *)
LEMMA BalanceTransmit ==
    ASSUME Serial, Known, FifoInv, Balance, Transmit
    PROVE  Balance'
<1>1. \A u \in Producers : pc[u] = "idle" /\ pc'[u] = "idle"
  BY TransmitAlone
<1>2. Offering = 0 /\ Offering' = 0
  BY <1>1 DEF Offering
<1>3. /\ size \in 0 .. Cap /\ Tx \in Tasks /\ pc \in [Tasks -> {"idle"} \cup EnqPc \cup TxPc]
      /\ Cap \in Nat /\ Len(sent) \in Nat
  BY QueueAssumption DEF Known, TypeInv, TypeOK, SizeInv, Tasks
<1>4. Cardinality(dropped) \in Nat /\ Counted \in Int
  BY <1>3, FS_CardinalityType DEF Balance, Counted
<1>5. UNCHANGED <<posted, dropped>>
  BY DEF Transmit, TxCheck, TxPrint, DeqCheck, DeqFront, DeqSizeLoad, DeqSizeStore,
         TxCopyFirst, TxCopyRest, history
<1> USE DEF Go, ring, locals, history
<1>6. CASE TxCheck \/ TxPrint \/ DeqCheck \/ DeqSizeLoad \/ TxCopyFirst
  <2>1. UNCHANGED <<size, sent>> /\ Counted' = Counted /\ InHand' = InHand
    BY <1>3, <1>6 DEF TxCheck, TxPrint, DeqCheck, DeqSizeLoad, TxCopyFirst, Counted,
                      InHand, InFlight, CopyPc
  <2> QED BY <1>2, <1>5, <2>1 DEF Balance
<1>7. CASE DeqFront
  <2>1. sent' = sent /\ Counted' = Counted - 1 /\ InHand = 0 /\ InHand' = 1
    BY <1>3, <1>7 DEF DeqFront, Counted, InHand, InFlight, CopyPc
  <2> QED BY <1>2, <1>3, <1>4, <1>5, <2>1 DEF Balance
<1>8. CASE DeqSizeStore
  <2>1. size' = size - 1
    BY <1>8 DEF DeqSizeStore, FifoInv, DequeueAt
  <2>2. sent' = sent /\ Counted' = Counted /\ InHand' = InHand
    BY <1>3, <1>8, <2>1 DEF DeqSizeStore, Counted, InHand, InFlight, CopyPc
  <2> QED BY <1>2, <1>5, <2>2 DEF Balance
<1>9. CASE TxCopyRest
  <2>1. Counted' = Counted /\ InHand = 1 /\ InHand' = 0
    BY <1>3, <1>9 DEF TxCopyRest, Counted, InHand, InFlight, CopyPc
  <2>2. Len(sent') = Len(sent) + 1
    <3>1. (IF array[item] = half THEN half ELSE Torn) \in Msgs \cup {NoMsg, Raw, Torn}
      BY DEF Known, TypeInv, TypeOK
    <3> QED BY <1>9, <3>1 DEF TxCopyRest, Known, TypeInv, TypeOK
  <2> QED BY <1>2, <1>3, <1>4, <1>5, <2>1, <2>2 DEF Balance
<1> QED
  BY <1>6, <1>7, <1>8, <1>9 DEF Transmit

(* Every step keeps the accounts.                                          *)
LEMMA BalanceStep ==
    ASSUME Serial, Known, FifoInv, Balance, [Next]_vars
    PROVE  Balance'
<1>1. CASE UNCHANGED vars
  BY <1>1 DEF vars, ring, locals, history, Balance, Counted, InHand, InFlight, Offering
<1>2. CASE Next
  BY <1>2, BalanceEnqueue, BalanceTransmit DEF Next
<1> QED BY <1>1, <1>2

(* What isEmpty() of queue.c:46 promises its callers does hold while calls *)
(* do not overlap: a size of 0 between two calls means that every message  *)
(* accepted was handed over.  Messages are stranded by preemption alone.   *)
THEOREM DrainedWhenSerial ==
    ASSUME Serial
    PROVE  Spec => []EmptyMeansDrained
<1>1. Serial /\ ProducersOnTop
  BY DEF Serial, ProducersOnTop
<1>2. Init => Known /\ FifoInv /\ Balance
  BY TypeInit, NonEmptyInit, SizeInit, WrittenInit, FifoInit, BalanceInit DEF Known
<1>3. Known /\ FifoInv /\ Balance /\ [Next]_vars => Known' /\ FifoInv' /\ Balance'
  BY <1>1, TypeStep, NonEmptyStep, SizeStep, WrittenStep, FifoStep, BalanceStep DEF Known
<1>4. Known /\ Balance => EmptyMeansDrained
  <2> SUFFICES ASSUME Known, Balance, size = 0, \A t \in Tasks : pc[t] = "idle"
               PROVE  posted = Cardinality(dropped) + Len(sent)
    BY DEF EmptyMeansDrained
  <2>1. Counted = 0 /\ InHand = 0 /\ Offering = 0
    BY DEF Counted, InHand, InFlight, CopyPc, Offering, Tasks
  <2>2. Cardinality(dropped) \in Nat /\ Len(sent) \in Nat
    BY FS_CardinalityType DEF Balance, Known, TypeInv, TypeOK
  <2> QED BY <2>1, <2>2 DEF Balance
<1> QED
  BY <1>2, <1>3, <1>4, PTL DEF Spec
==============================================================================
