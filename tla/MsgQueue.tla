------------------------------ MODULE MsgQueue ------------------------------
(***************************************************************************)
(* The uplink queue of components/CM-QUEUE/queue.c as its callers use it:  *)
(* several tasks call enqueue(), Brideg_LORAWAN_TX of main/main.c is the   *)
(* only caller of dequeue().  There is no lock, so one step here is one    *)
(* access to the shared queue structure and a task may be preempted        *)
(* between any two of them.  The firmware runs on one core                 *)
(* (CONFIG_FREERTOS_UNICORE): while a task is in the middle of a call, a   *)
(* task may only step if it may preempt it.                                *)
(***************************************************************************)
EXTENDS Integers, Sequences, FiniteSets

CONSTANTS Cap,        \* capacity given to createQueue()
          Producers,  \* the tasks that call enqueue()
          Tx,         \* the task Brideg_LORAWAN_TX
          Preempts,   \* <<t, u>> : t may run while u is inside a queue call
          MaxPosts    \* bound: number of messages offered in a behaviour

Tasks == Producers \cup {Tx}

ASSUME QueueAssumption ==
    /\ Cap \in Nat \ {0}
    /\ MaxPosts \in Nat
    /\ Tx \notin Producers
    /\ Preempts \subseteq Tasks \X Tasks

Msgs   == 1 .. MaxPosts
NoMsg  == 0      \* no message; also a slot that memset() has just cleared
Raw    == -1     \* malloc()ed memory that nothing was written to
Torn   == -2     \* sprintf() read two different messages from one slot

VARIABLES front, rear, size,   \* struct Queue
          array,               \* queue->array
          pc,                  \* where each task is
          reg,                 \* the value a task loaded and has not stored yet
          msg,                 \* the argument of the enqueue() under way
          item,                \* the slot dequeue() returned a pointer to
          half,                \* what sprintf() has copied of it so far
          posted,              \* number of messages offered (bound and name)
          dropped,             \* messages enqueue() returned from at :59
          sent                 \* payloads given to sendCMD()

ring == <<front, rear, size, array>>
locals == <<reg, msg, item, half>>
history == <<posted, dropped, sent>>
vars == <<ring, pc, locals, history>>

EnqPc == {"rearLoad", "rearStore", "clear", "copy", "sizeLoad", "sizeStore"}
DeqPc == {"deqCheck", "deqFront", "deqSizeLoad", "deqSizeStore"}
CopyPc == {"sprintf1", "sprintf2"}
TxPc == {"print"} \cup DeqPc \cup CopyPc \cup {"fault"}

(* createQueue() *)
InitWith(r) ==
    /\ front = 0 /\ size = 0 /\ rear = r
    /\ array = [i \in 0 .. Cap - 1 |-> Raw]
    /\ pc = [t \in Tasks |-> "idle"]
    /\ reg = [t \in Tasks |-> 0]
    /\ msg = [t \in Tasks |-> NoMsg]
    /\ item = 0 /\ half = NoMsg
    /\ posted = 0 /\ dropped = {} /\ sent = <<>>

InitRearZero == InitWith(0)
Init == InitWith(Cap - 1)

isFullLate == size = Cap + 1
isFull == size = Cap
isEmpty == size = 0
Next1Unwrapped(i) == i + 1
Next1(i) == (i + 1) % Cap

(* A task in the middle of an access sequence.  While Brideg_LORAWAN_TX    *)
(* prints, it may block on the console and let every task run.             *)
Busy(t) == pc[t] \notin {"idle", "print"}

CanStep(t) == \A u \in Tasks \ {t} : Busy(u) => <<t, u>> \in Preempts

Go(t, from, to) ==
    /\ CanStep(t)
    /\ pc[t] = from
    /\ pc' = [pc EXCEPT ![t] = to]

-----------------------------------------------------------------------------
(* enqueue() *)

EnqCheck(t) ==
    /\ posted < MaxPosts
    /\ posted' = posted + 1
    /\ \/ /\ isFull
          /\ Go(t, "idle", "idle")
          /\ dropped' = dropped \cup {posted + 1}
          /\ msg' = msg
       \/ /\ ~isFull
          /\ Go(t, "idle", "rearLoad")
          /\ msg' = [msg EXCEPT ![t] = posted + 1]
          /\ dropped' = dropped
    /\ UNCHANGED <<ring, reg, item, half, sent>>

EnqRearLoad(t) ==
    /\ Go(t, "rearLoad", "rearStore")
    /\ reg' = [reg EXCEPT ![t] = rear]
    /\ UNCHANGED <<ring, msg, item, half, history>>

EnqRearStore(t) ==
    /\ Go(t, "rearStore", "clear")
    /\ rear' = Next1(reg[t])
    /\ reg' = [reg EXCEPT ![t] = Next1(reg[t])]
    /\ UNCHANGED <<front, size, array, msg, item, half, history>>

(* queue->rear is read again for memset() and for strncpy(); nothing       *)
(* orders the reads, so the build may also reuse the value it stored.      *)
EnqClear(t) ==
    /\ Go(t, "clear", "copy")
    /\ \E i \in {rear, reg[t]} : array' = [array EXCEPT ![i] = NoMsg]
    /\ UNCHANGED <<front, rear, size, locals, history>>

EnqCopy(t) ==
    /\ Go(t, "copy", "sizeLoad")
    /\ \E i \in {rear, reg[t]} : array' = [array EXCEPT ![i] = msg[t]]
    /\ UNCHANGED <<front, rear, size, locals, history>>

EnqSizeLoad(t) ==
    /\ Go(t, "sizeLoad", "sizeStore")
    /\ reg' = [reg EXCEPT ![t] = size]
    /\ UNCHANGED <<ring, msg, item, half, history>>

EnqSizeStore(t) ==
    /\ Go(t, "sizeStore", "idle")
    /\ size' = reg[t] + 1
    /\ UNCHANGED <<front, rear, array, locals, history>>

-----------------------------------------------------------------------------
(* Brideg_LORAWAN_TX and dequeue() *)

TxCheckUnguarded ==
    /\ Go(Tx, "idle", "print")
    /\ UNCHANGED <<ring, locals, history>>

TxCheckKeepsLast ==
    /\ size > 1
    /\ TxCheckUnguarded

TxCheck ==
    /\ ~isEmpty
    /\ Go(Tx, "idle", "print")
    /\ UNCHANGED <<ring, locals, history>>

TxPrint ==
    /\ Go(Tx, "print", "deqCheck")
    /\ UNCHANGED <<ring, locals, history>>

(* An empty queue makes dequeue() return INT_MIN, which sprintf() would    *)
(* dereference.                                                            *)
DeqCheckNewest ==
    /\ Go(Tx, "deqCheck", IF isEmpty THEN "fault" ELSE "deqFront")
    /\ item' = IF isEmpty THEN item ELSE rear
    /\ UNCHANGED <<ring, reg, msg, half, history>>

DeqCheck ==
    /\ Go(Tx, "deqCheck", IF isEmpty THEN "fault" ELSE "deqFront")
    /\ item' = IF isEmpty THEN item ELSE front
    /\ UNCHANGED <<ring, reg, msg, half, history>>

DeqFront ==
    /\ Go(Tx, "deqFront", "deqSizeLoad")
    /\ front' = Next1(front)
    /\ UNCHANGED <<rear, size, array, locals, history>>

DeqSizeLoad ==
    /\ Go(Tx, "deqSizeLoad", "deqSizeStore")
    /\ reg' = [reg EXCEPT ![Tx] = size]
    /\ UNCHANGED <<ring, msg, item, half, history>>

DeqSizeStore ==
    /\ Go(Tx, "deqSizeStore", "sprintf1")
    /\ size' = reg[Tx] - 1
    /\ UNCHANGED <<front, rear, array, locals, history>>

(* sprintf() reads the slot after dequeue() has released it.               *)
TxCopyFirst ==
    /\ Go(Tx, "sprintf1", "sprintf2")
    /\ half' = array[item]
    /\ UNCHANGED <<ring, reg, msg, item, history>>

TxCopyRest ==
    /\ Go(Tx, "sprintf2", "idle")
    /\ sent' = Append(sent, IF array[item] = half THEN half ELSE Torn)
    /\ half' = NoMsg
    /\ UNCHANGED <<ring, reg, msg, item, posted, dropped>>

-----------------------------------------------------------------------------
Enqueue(t) ==
    \/ EnqCheck(t) \/ EnqRearLoad(t) \/ EnqRearStore(t) \/ EnqClear(t)
    \/ EnqCopy(t) \/ EnqSizeLoad(t) \/ EnqSizeStore(t)

Transmit ==
    \/ TxCheck \/ TxPrint \/ DeqCheck \/ DeqFront
    \/ DeqSizeLoad \/ DeqSizeStore \/ TxCopyFirst \/ TxCopyRest

Next == (\E t \in Producers : Enqueue(t)) \/ Transmit

(* Every task is started once and never deleted; Brideg_LORAWAN_TX polls   *)
(* for ever, and a task inside a call is eventually scheduled again.       *)
Fairness ==
    /\ WF_vars(Transmit)
    /\ \A t \in Producers : WF_vars(Enqueue(t) /\ pc[t] # "idle")

Spec == Init /\ [][Next]_vars
FairSpec == Spec /\ Fairness
-----------------------------------------------------------------------------
(* The structure fields and the locals have the types of queue.c.          *)
TypeOK ==
    /\ front \in 0 .. Cap - 1
    /\ rear \in 0 .. Cap - 1
    /\ size \in Int
    /\ array \in [0 .. Cap - 1 -> Msgs \cup {NoMsg, Raw}]
    /\ pc \in [Tasks -> {"idle"} \cup EnqPc \cup TxPc]
    /\ \A t \in Producers : pc[t] \in {"idle"} \cup EnqPc
    /\ pc[Tx] \in {"idle"} \cup TxPc
    /\ reg \in [Tasks -> Int]
    /\ msg \in [Tasks -> Msgs \cup {NoMsg}]
    /\ item \in 0 .. Cap - 1
    /\ half \in Msgs \cup {NoMsg, Raw}
    /\ posted \in 0 .. MaxPosts
    /\ dropped \subseteq Msgs
    /\ sent \in Seq(Msgs \cup {NoMsg, Raw, Torn})

(* Brideg_LORAWAN_TX never passes dequeue()'s INT_MIN to sprintf(): the    *)
(* isEmpty() it checked before printing is still false when dequeue()      *)
(* checks again, whatever ran in between.                                  *)
NoFault == pc[Tx] # "fault"

(* queue.c:40: the queue is full when size equals the capacity; enqueue()  *)
(* relies on size never passing it, because isFull() tests for equality.   *)
SizeBounded == size \in 0 .. Cap

(* print_queue() prints the slots 0 .. size-1: while it does, each of them *)
(* is inside the array and holds what some enqueue() wrote.                *)
PrintReadsWritten ==
    pc[Tx] = "print" => \A q \in 0 .. size - 1 : q < Cap /\ array[q] # Raw

(* queue.c:46: the queue is empty when size is 0.  Once no call is under   *)
(* way, a size of 0 means that every message accepted was handed over.     *)
EmptyMeansDrained ==
    (size = 0 /\ \A t \in Tasks : pc[t] = "idle")
        => posted = Cardinality(dropped) + Len(sent)

(* Every message enqueue() accepted is handed over once, whole and in the  *)
(* order of acceptance, and only a full queue refuses one.                 *)
InFlight == pc[Tx] \in {"deqSizeLoad", "deqSizeStore"} \cup CopyPc
Counted == IF pc[Tx] \in {"deqSizeLoad", "deqSizeStore"} THEN size - 1 ELSE size

Waiting == [k \in 1 .. Counted |-> array[(front + k - 1) % Cap]]
Held == IF InFlight THEN array[item] ELSE NoMsg

Fifo == INSTANCE BoundedFifo WITH fifo <- Waiting, held <- Held

ImplementsFifo == Fifo!Spec

(* Every message offered is eventually refused by enqueue() or handed to   *)
(* sendCMD() by Brideg_LORAWAN_TX.                                         *)
EveryMessageSettled ==
    \A m \in Msgs :
        posted >= m ~> (m \in dropped \/ \E i \in 1 .. Len(sent) : sent[i] = m)
=============================================================================
