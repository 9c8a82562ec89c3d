----------------------------- MODULE MCMsgQueue -----------------------------
(***************************************************************************)
(* Instances of MsgQueue.  The tasks are those of main/main.c with their   *)
(* FreeRTOS priorities: the esp_timer task (streetlight_working), a        *)
(* root_read_task, Brideg_LORAWAN_TX and the murata_parser task (which     *)
(* runs cm_lorawan_event_handler).                                         *)
(***************************************************************************)
EXTENDS MsgQueue

Prio == [timer |-> 22, rootRead |-> 6, tx |-> 5, parser |-> 3]

(* A task preempts every task of a lower priority.                         *)
PriorityPreempts ==
    {<<t, u>> \in Tasks \X Tasks : Prio[t] > Prio[u]}

(* Calls of queue.c that never overlap.                                    *)
NoOverlap == {}
=============================================================================
