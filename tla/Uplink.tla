------------------------------- MODULE Uplink -------------------------------
(***************************************************************************)
(* Where the uplink messages of the root come from (main/main.c): the      *)
(* reports of the mesh nodes, read by root_read_task and filtered by       *)
(* add_queue_lpp_node(); the root's own report, once a minute from the     *)
(* periodic timer; the answer to a GPS query of the network server.        *)
(* Brideg_LORAWAN_TX takes them out.  The queue calls are single steps     *)
(* here (MsgQueue looks inside them); the steps of root_read_task are its  *)
(* accesses to the static data it shares with other instances of itself,   *)
(* one of which is created on every PARENT_CONNECTED event.                *)
(***************************************************************************)
EXTENDS Integers, Sequences, FiniteSets

CONSTANTS Nodes,        \* node ids of the mesh
          Readers,      \* the instances of root_read_task there may be
          Cap,          \* capacity of the uplink queue
          MinuteTicks,  \* timer ticks per report of the root
          MaxReports,   \* bound: mesh packets in a behaviour
          MaxTicks,     \* bound: timer ticks in a behaviour
          MaxQueries,   \* bound: GPS queries in a behaviour
          MaxConnects   \* bound: PARENT_CONNECTED events in a behaviour

NoNode == ""    \* an empty node id

ASSUME UplinkAssumption ==
    /\ Cap \in Nat \ {0} /\ MinuteTicks \in Nat \ {0}
    /\ MaxReports \in Nat /\ MaxTicks \in Nat /\ MaxQueries \in Nat
    /\ MaxConnects \in Nat
    /\ NoNode \notin Nodes /\ "root" \notin Nodes /\ "junk" \notin Nodes

(* A message is known by its sender and a serial number; "junk" is a mesh  *)
(* packet from which ParseCMLPP() gets no node id.                         *)
NoReport == [node |-> NoNode, id |-> 0]
UINT8 == 256

VARIABLES connected,        \* mwifi_is_connected()
          pc, node_id,      \* of each root_read_task: place, parsed node id
          data_form_node,   \* static buffer
          node_id_compare,  \* static, in add_queue_lpp_node()
          retry_,           \* uint8_t
          queue,            \* the uplink queue
          counter_sec,      \* seconds since the root's last report
          packets, ticks, queries, connects,  \* counted for the bounds
          seen,             \* ghost: node reports read from the mesh, in order
          offered,          \* ghost: node reports passed to enqueue(), in order
          rootReports       \* ghost: reports of the root passed to enqueue()

reader == <<pc, node_id, data_form_node, node_id_compare, retry_>>
counts == <<packets, ticks, queries, connects>>
ghosts == <<seen, offered>>
vars == <<connected, reader, queue, counter_sec, counts, ghosts, rootReports>>

Init ==
    /\ connected = FALSE
    /\ pc = [r \in Readers |-> "none"]
    /\ node_id = [r \in Readers |-> NoNode]
    /\ data_form_node = NoReport
    /\ node_id_compare = NoNode
    /\ retry_ = 0
    /\ queue = <<>>
    /\ counter_sec = 0
    /\ packets = 0 /\ ticks = 0 /\ queries = 0 /\ connects = 0
    /\ seen = <<>> /\ offered = <<>>
    /\ rootReports = 0

(* enqueue(): a full queue drops the message.                              *)
Enqueued(m) == IF Len(queue) = Cap THEN queue ELSE Append(queue, m)

Go(r, from, to) == pc[r] = from /\ pc' = [pc EXCEPT ![r] = to]

-----------------------------------------------------------------------------
(* Mesh events *)

(* MDF_EVENT_MWIFI_PARENT_CONNECTED creates a root_read_task, whether or   *)
(* not an earlier one is still blocked in mwifi_root_read().               *)
ParentConnected(r) ==
    /\ ~connected /\ connects < MaxConnects
    /\ Go(r, "none", "read")
    /\ connected' = TRUE
    /\ connects' = connects + 1
    /\ UNCHANGED <<node_id, data_form_node, node_id_compare, retry_, queue,
                   counter_sec, packets, ticks, queries, ghosts, rootReports>>

ParentDisconnected ==
    /\ connected
    /\ connected' = FALSE
    /\ UNCHANGED <<reader, queue, counter_sec, counts, ghosts, rootReports>>

-----------------------------------------------------------------------------
(* root_read_task and add_queue_lpp_node() *)

(* A packet arrives and is copied to the shared buffer.  A read error      *)
(* while connected, and a firmware package, change nothing here.           *)
Read(r, n) ==
    /\ packets < MaxReports
    /\ Go(r, "read", "parse")
    /\ packets' = packets + 1
    /\ data_form_node' = [node |-> n, id |-> packets + 1]
    /\ seen' = IF n = "junk" THEN seen ELSE Append(seen, data_form_node')
    /\ UNCHANGED <<connected, node_id, node_id_compare, retry_, queue, counter_sec,
                   ticks, queries, connects, offered, rootReports>>

(* mwifi_root_read() returns with an error and the loop condition fails;   *)
(* until then the task stays blocked in it, across a reconnection too.     *)
Exit(r) ==
    /\ ~connected
    /\ Go(r, "read", "none")
    /\ UNCHANGED <<connected, node_id, data_form_node, node_id_compare, retry_,
                   queue, counter_sec, counts, ghosts, rootReports>>

(* ParseCMLPP(): no node id, no further effect.                            *)
Parse(r) ==
    /\ LET n == data_form_node.node IN
         /\ Go(r, "parse", IF n \in Nodes THEN "compare" ELSE "clear")
         /\ node_id' = [node_id EXCEPT ![r] = n]
    /\ UNCHANGED <<connected, data_form_node, node_id_compare, retry_, queue,
                   counter_sec, counts, ghosts, rootReports>>

Duplicate(r) ==
    /\ node_id[r] = node_id_compare
    /\ Go(r, "compare", "clear")
    /\ retry_' = (retry_ + 1) % UINT8
    /\ UNCHANGED <<connected, node_id, data_form_node, node_id_compare, queue,
                   counter_sec, counts, ghosts, rootReports>>

(* The branches "retry_ > 10" and "not matched" do the same.               *)
NotDuplicate(r) ==
    /\ node_id[r] # node_id_compare
    /\ Go(r, "compare", "store")
    /\ UNCHANGED <<connected, node_id, data_form_node, node_id_compare, retry_,
                   queue, counter_sec, counts, ghosts, rootReports>>

StoreSkipped(r) ==
    /\ Go(r, "store", "enqueue")
    /\ retry_' = 0
    /\ UNCHANGED <<connected, node_id, data_form_node, node_id_compare, queue,
                   counter_sec, counts, ghosts, rootReports>>

Store(r) ==
    /\ Go(r, "store", "enqueue")
    /\ retry_' = 0
    /\ node_id_compare' = node_id[r]
    /\ UNCHANGED <<connected, node_id, data_form_node, queue,
                   counter_sec, counts, ghosts, rootReports>>

(* enqueue(node_info): the message is what the shared buffer holds by now. *)
EnqueueNode(r) ==
    /\ Go(r, "enqueue", "clear")
    /\ queue' = Enqueued(data_form_node)
    /\ offered' = Append(offered, data_form_node)
    /\ UNCHANGED <<connected, node_id, data_form_node, node_id_compare, retry_,
                   counter_sec, counts, seen, rootReports>>

(* Clearing the first byte ends the loop, and the string.                  *)
Clear(r) ==
    /\ Go(r, "clear", IF connected THEN "read" ELSE "none")
    /\ data_form_node' = NoReport
    /\ node_id' = [node_id EXCEPT ![r] = NoNode]
    /\ UNCHANGED <<connected, node_id_compare, retry_, queue, counter_sec, counts,
                   ghosts, rootReports>>

root_read_task(r) ==
    \/ \E n \in Nodes \cup {"junk"} : Read(r, n)
    \/ Exit(r) \/ Parse(r) \/ Duplicate(r) \/ NotDuplicate(r)
    \/ Store(r) \/ EnqueueNode(r) \/ Clear(r)

-----------------------------------------------------------------------------
(* The root's own messages *)

(* streetlight_working() *)
LateReset ==
    /\ ticks < MaxTicks
    /\ ticks' = ticks + 1
    /\ counter_sec' = counter_sec + 1
    /\ IF counter_sec = MinuteTicks - 1
         THEN /\ queue' = Enqueued([node |-> "root", id |-> 0])
              /\ rootReports' = rootReports + 1
         ELSE UNCHANGED <<queue, rootReports>>
    /\ UNCHANGED <<connected, reader, packets, queries, connects, ghosts>>

streetlight_working ==
    /\ ticks < MaxTicks
    /\ ticks' = ticks + 1
    /\ IF counter_sec = MinuteTicks - 1
         THEN /\ counter_sec' = 0
              /\ queue' = Enqueued([node |-> "root", id |-> 0])
              /\ rootReports' = rootReports + 1
         ELSE /\ counter_sec' = counter_sec + 1
              /\ UNCHANGED <<queue, rootReports>>
    /\ UNCHANGED <<connected, reader, packets, queries, connects, ghosts>>

(* read_gps for the root: add_queue_infomation().                          *)
add_queue_infomation ==
    /\ queries < MaxQueries
    /\ queries' = queries + 1
    /\ queue' = Enqueued([node |-> "info", id |-> 0])
    /\ UNCHANGED <<connected, reader, counter_sec, packets, ticks, connects, ghosts,
                   rootReports>>

(* Brideg_LORAWAN_TX takes the oldest message and sends it.                *)
Brideg_LORAWAN_TX ==
    /\ queue # <<>>
    /\ queue' = Tail(queue)
    /\ UNCHANGED <<connected, reader, counter_sec, counts, ghosts, rootReports>>

-----------------------------------------------------------------------------
Next ==
    \/ ParentDisconnected
    \/ \E r \in Readers : ParentConnected(r) \/ root_read_task(r)
    \/ streetlight_working \/ add_queue_infomation \/ Brideg_LORAWAN_TX

Spec == Init /\ [][Next]_vars
-----------------------------------------------------------------------------
Reports == [node : Nodes \cup {NoNode, "junk"}, id : 0 .. MaxReports]

(* The static variables have the types of main.c; retry_ is a uint8_t and  *)
(* counter_sec stays below a minute.                                       *)
TypeOK ==
    /\ connected \in BOOLEAN
    /\ pc \in [Readers -> {"none", "read", "parse", "compare", "store", "enqueue", "clear"}]
    /\ node_id \in [Readers -> Nodes \cup {NoNode, "junk"}]
    /\ data_form_node \in Reports
    /\ node_id_compare \in Nodes \cup {NoNode}
    /\ retry_ \in 0 .. UINT8 - 1
    /\ Len(queue) <= Cap
    /\ counter_sec \in 0 .. MinuteTicks - 1

(* The places of s whose report does not repeat the sender of the one      *)
(* before it, and how many of them there are up to place i.                *)
Firsts(s) == {i \in 1 .. Len(s) : i = 1 \/ s[i].node # s[i - 1].node}
Place(s, i) == Cardinality({j \in Firsts(s) : j <= i})

(* o is s, in order, less the reports that repeat the sender before them.  *)
WithoutRepeats(o, s) ==
    /\ Len(o) = Cardinality(Firsts(s))
    /\ \A i \in Firsts(s) : o[Place(s, i)] = s[i]

Quiet == \A r \in Readers : pc[r] \in {"none", "read"}

(* main.c:380, "check node id ... if not duplicate Add queue": the reports *)
(* passed to enqueue() are, unaltered and in order, those read from the    *)
(* mesh less the ones that repeat the sender of the report before.         *)
OfferedWithoutRepeats == Quiet => WithoutRepeats(offered, seen)

(* main.c:872, "add queue root any 1 min": the root has offered one report *)
(* for each full minute of ticks.                                          *)
OneRootReportPerMinute == ticks = MinuteTicks * rootReports + counter_sec
=============================================================================
