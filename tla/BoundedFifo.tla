---------------------------- MODULE BoundedFifo ----------------------------
(***************************************************************************)
(* What the uplink queue promises: a first-in first-out buffer of Cap      *)
(* messages.  A message offered to a full buffer is dropped, any other is  *)
(* handed to the LoRaWAN link once, whole and in order.                    *)
(***************************************************************************)
EXTENDS Naturals, Sequences

CONSTANTS Cap,        \* capacity of the buffer
          Msgs,       \* the messages that may be offered
          NoMsg       \* stands for "no message in hand"

VARIABLES fifo,       \* the messages waiting, oldest first
          held,       \* the message taken out and not yet handed over
          sent,       \* the messages handed over, in order
          dropped     \* the messages refused because the buffer was full

vars == <<fifo, held, sent, dropped>>

Init ==
    /\ fifo = <<>>
    /\ held = NoMsg
    /\ sent = <<>>
    /\ dropped = {}

Post(m) ==
    /\ Len(fifo) < Cap
    /\ fifo' = Append(fifo, m)
    /\ UNCHANGED <<held, sent, dropped>>

Refuse(m) ==
    /\ Len(fifo) = Cap
    /\ dropped' = dropped \cup {m}
    /\ UNCHANGED <<fifo, held, sent>>

Take ==
    /\ fifo # <<>>
    /\ held = NoMsg
    /\ held' = Head(fifo)
    /\ fifo' = Tail(fifo)
    /\ UNCHANGED <<sent, dropped>>

HandOver ==
    /\ held # NoMsg
    /\ sent' = Append(sent, held)
    /\ held' = NoMsg
    /\ UNCHANGED <<fifo, dropped>>

Next ==
    \/ \E m \in Msgs : Post(m) \/ Refuse(m)
    \/ Take
    \/ HandOver

Spec == Init /\ [][Next]_vars
=============================================================================
