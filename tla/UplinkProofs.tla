---------------------------- MODULE UplinkProofs ----------------------------
(***************************************************************************)
(* Proofs about the uplink reports.  The types and the root's report once  *)
(* a minute hold for any number of root_read_task instances; that exactly  *)
(* the reports without repeated sender are offered to the queue holds for  *)
(* one instance, and the run uplink_reconnect shows that it fails for two. *)
(***************************************************************************)
EXTENDS Uplink, TLAPS, FiniteSetTheorems, SequenceTheorems

Messages ==
    Reports \cup {[node |-> "root", id |-> 0], [node |-> "info", id |-> 0]}
NodeReports == [node : Nodes, id : 0 .. MaxReports]

TypeInv ==
    /\ TypeOK
    /\ queue \in Seq(Messages)
    /\ packets \in 0 .. MaxReports
    /\ ticks \in Nat /\ rootReports \in Nat
    /\ seen \in Seq(NodeReports) /\ offered \in Seq(Reports)
    /\ \A r \in Readers : pc[r] \in {"compare", "store"} => node_id[r] \in Nodes

(* A queue that is not full grows by one, a full one stays.                *)
LEMMA EnqueuedTyped ==
    ASSUME NEW m \in Messages, queue \in Seq(Messages), Len(queue) <= Cap
    PROVE  Enqueued(m) \in Seq(Messages) /\ Len(Enqueued(m)) <= Cap
<1>1. Cap \in Nat /\ Len(queue) \in Nat
  BY UplinkAssumption, LenProperties DEF UplinkAssumption
<1>2. Append(queue, m) \in Seq(Messages) /\ Len(Append(queue, m)) = Len(queue) + 1
  BY AppendProperties
<1> QED
  BY <1>1, <1>2 DEF Enqueued

(* What the steps of root_read_task keep of the types: nobody but the task *)
(* itself moves it or changes its node id.                                 *)
LEMMA GoTyped ==
    ASSUME TypeInv, NEW r \in Readers, NEW from, NEW to, Go(r, from, to)
    PROVE  /\ pc[r] = from /\ pc'[r] = to
           /\ \A q \in Readers \ {r} : pc'[q] = pc[q]
           /\ DOMAIN pc' = Readers /\ pc' = [pc EXCEPT ![r] = to]
           /\ to \in {"none", "read", "parse", "compare", "store", "enqueue", "clear"} =>
                 pc' \in [Readers -> {"none", "read", "parse", "compare", "store", "enqueue", "clear"}]
BY DEF Go, TypeInv, TypeOK

(* The first boot has the types.                                           *)
LEMMA InitTyped == Init => TypeInv
<1> SUFFICES ASSUME Init PROVE TypeInv
  OBVIOUS
<1>1. /\ Cap \in Nat \ {0} /\ MinuteTicks \in Nat \ {0} /\ MaxReports \in Nat
  BY UplinkAssumption DEF UplinkAssumption
<1>2. <<>> \in Seq(Messages) /\ <<>> \in Seq(NodeReports) /\ <<>> \in Seq(Reports)
      /\ Len(<<>>) = 0
  BY EmptySeq
<1>3. NoReport \in Reports /\ 0 \in 0 .. UINT8 - 1
  BY <1>1 DEF NoReport, Reports, UINT8
<1>4. TypeOK
  <2>1. /\ pc \in [Readers -> {"none", "read", "parse", "compare", "store", "enqueue", "clear"}]
        /\ node_id \in [Readers -> Nodes \cup {NoNode, "junk"}]
    BY DEF Init
  <2>2. data_form_node \in Reports /\ node_id_compare \in Nodes \cup {NoNode}
    BY <1>3 DEF Init
  <2>3. /\ connected = FALSE /\ retry_ = 0 /\ queue = <<>> /\ counter_sec = 0
    BY DEF Init
  <2>4. connected \in BOOLEAN /\ retry_ \in 0 .. UINT8 - 1 /\ Len(queue) = 0
    BY <1>2, <1>3, <2>3, Zenon
  <2>5. Len(queue) <= Cap /\ counter_sec \in 0 .. MinuteTicks - 1
    BY <1>1, <2>3, <2>4
  <2> QED
    BY <2>1, <2>2, <2>4, <2>5 DEF TypeOK
<1> QED
  BY <1>1, <1>2, <1>4 DEF Init, TypeInv

(* TypeInv is inductive, for any number of readers.                        *)
LEMMA StepTyped == TypeInv /\ [Next]_vars => TypeInv'
<1> SUFFICES ASSUME TypeInv, [Next]_vars PROVE TypeInv'
  OBVIOUS
<1>0. /\ Cap \in Nat \ {0} /\ MinuteTicks \in Nat \ {0} /\ MaxReports \in Nat
  BY UplinkAssumption DEF UplinkAssumption
<1>1. CASE ParentDisconnected
  BY <1>1 DEF ParentDisconnected, TypeInv, TypeOK, reader, counts, ghosts
<1>2. ASSUME NEW r \in Readers, ParentConnected(r) PROVE TypeInv'
  <2>1. Go(r, "none", "read") /\ connected' = TRUE
    BY <1>2 DEF ParentConnected
  <2>2. UNCHANGED <<node_id, data_form_node, node_id_compare, retry_, queue, counter_sec,
                    packets, ticks, ghosts, rootReports>>
    BY <1>2 DEF ParentConnected
  <2>3. /\ pc' \in [Readers -> {"none", "read", "parse", "compare", "store", "enqueue", "clear"}]
        /\ \A q \in Readers : pc'[q] \in {"compare", "store"} => pc'[q] = pc[q]
    BY <2>1, GoTyped
  <2>4. TypeOK'
    BY <2>1, <2>2, <2>3 DEF TypeInv, TypeOK
  <2> QED
    BY <2>2, <2>3, <2>4 DEF TypeInv, ghosts
<1>3. ASSUME NEW r \in Readers, root_read_task(r) PROVE TypeInv'
  <2>1. ASSUME NEW n \in Nodes \cup {"junk"}, Read(r, n) PROVE TypeInv'
    <3>1. packets + 1 \in 0 .. MaxReports
      BY <1>0, <2>1 DEF Read, TypeInv
    <3>2. /\ data_form_node' = [node |-> n, id |-> packets + 1] /\ data_form_node' \in Reports
          /\ n # "junk" => data_form_node' \in NodeReports
      BY <2>1, <3>1 DEF Read, Reports, NodeReports
    <3>3. seen' \in Seq(NodeReports)
      BY <2>1, <3>2, AppendProperties DEF Read, TypeInv
    <3> QED
      BY <2>1, <3>1, <3>2, <3>3, GoTyped DEF Read, TypeInv, TypeOK
  <2>2. CASE Exit(r)
    BY <1>3, <2>2, GoTyped DEF Exit, TypeInv, TypeOK, counts, ghosts
  <2>3. CASE Parse(r)
    <3> DEFINE n == data_form_node.node
               to == IF n \in Nodes THEN "compare" ELSE "clear"
    <3>1. n \in Nodes \cup {NoNode, "junk"}
      BY DEF TypeInv, TypeOK, Reports
    <3>2. Go(r, "parse", to) /\ node_id' = [node_id EXCEPT ![r] = n]
      BY <2>3 DEF Parse
    <3>3. UNCHANGED <<connected, data_form_node, node_id_compare, retry_, queue,
                      counter_sec, counts, ghosts, rootReports>>
      BY <2>3 DEF Parse
    <3>4. to \in {"compare", "clear"} /\ (to = "compare" => n \in Nodes)
      OBVIOUS
    <3> HIDE DEF n, to
    <3>5. /\ pc' \in [Readers -> {"none", "read", "parse", "compare", "store", "enqueue", "clear"}]
          /\ pc'[r] = to /\ \A q \in Readers \ {r} : pc'[q] = pc[q]
      BY <1>3, <3>2, <3>4, GoTyped
    <3>6. /\ node_id' \in [Readers -> Nodes \cup {NoNode, "junk"}]
          /\ node_id'[r] = n /\ \A q \in Readers \ {r} : node_id'[q] = node_id[q]
      BY <3>1, <3>2 DEF TypeInv, TypeOK
    <3>7. TypeOK'
      BY <3>3, <3>5, <3>6 DEF TypeInv, TypeOK
    <3> QED
      BY <3>3, <3>4, <3>5, <3>6, <3>7 DEF TypeInv, counts, ghosts
  <2>4. CASE Duplicate(r)
    <3>1. (retry_ + 1) % UINT8 \in 0 .. UINT8 - 1
      BY DEF TypeInv, TypeOK, UINT8
    <3> QED
      BY <1>3, <2>4, <3>1, GoTyped DEF Duplicate, TypeInv, TypeOK, counts, ghosts
  <2>5. CASE NotDuplicate(r)
    BY <1>3, <2>5, GoTyped DEF NotDuplicate, TypeInv, TypeOK, counts, ghosts
  <2>6. CASE Store(r)
    <3>1. 0 \in 0 .. UINT8 - 1
      BY DEF UINT8
    <3>2. node_id[r] \in Nodes
      BY <2>6, GoTyped DEF Store, TypeInv
    <3>3. TypeOK'
      BY <2>6, <3>1, <3>2, GoTyped DEF Store, TypeInv, TypeOK
    <3> QED
      BY <2>6, <3>3, GoTyped DEF Store, TypeInv, counts, ghosts
  <2>7. CASE EnqueueNode(r)
    <3>1. queue' \in Seq(Messages) /\ Len(queue') <= Cap
      BY <2>7, EnqueuedTyped DEF EnqueueNode, TypeInv, TypeOK, Messages
    <3>2. offered' \in Seq(Reports)
      BY <2>7, AppendProperties DEF EnqueueNode, TypeInv, TypeOK
    <3>3. /\ pc' \in [Readers -> {"none", "read", "parse", "compare", "store", "enqueue", "clear"}]
          /\ \A q \in Readers : pc'[q] \in {"compare", "store"} => pc'[q] = pc[q]
      BY <1>3, <2>7, GoTyped DEF EnqueueNode
    <3>4. TypeOK'
      BY <2>7, <3>1, <3>3 DEF EnqueueNode, TypeInv, TypeOK
    <3> QED
      BY <2>7, <3>1, <3>2, <3>3, <3>4 DEF EnqueueNode, TypeInv, counts
  <2>8. CASE Clear(r)
    <3>1. NoReport \in Reports
      BY <1>0 DEF NoReport, Reports
    <3>2. /\ pc' \in [Readers -> {"none", "read", "parse", "compare", "store", "enqueue", "clear"}]
          /\ pc'[r] \notin {"compare", "store"}
          /\ \A q \in Readers \ {r} : pc'[q] = pc[q]
      BY <1>3, <2>8, GoTyped DEF Clear
    <3>3. TypeOK'
      BY <2>8, <3>1, <3>2 DEF Clear, TypeInv, TypeOK
    <3>4. \A q \in Readers \ {r} : node_id'[q] = node_id[q]
      BY <2>8 DEF Clear, TypeInv, TypeOK
    <3>5. UNCHANGED <<queue, counts, ghosts, rootReports>>
      BY <2>8 DEF Clear
    <3> QED
      BY <3>2, <3>3, <3>4, <3>5 DEF TypeInv, counts, ghosts
  <2> QED
    BY <1>3, <2>1, <2>2, <2>3, <2>4, <2>5, <2>6, <2>7, <2>8 DEF root_read_task
<1>4. CASE streetlight_working
  <2>1. counter_sec' \in 0 .. MinuteTicks - 1 /\ ticks' \in Nat /\ rootReports' \in Nat
    BY <1>0, <1>4 DEF streetlight_working, TypeInv, TypeOK
  <2>2. [node |-> "root", id |-> 0] \in Messages
    BY DEF Messages
  <2>3. queue' \in Seq(Messages) /\ Len(queue') <= Cap
    BY <1>4, <2>2, EnqueuedTyped DEF streetlight_working, TypeInv, TypeOK
  <2> QED
    BY <1>4, <2>1, <2>3 DEF streetlight_working, TypeInv, TypeOK, reader, ghosts
<1>5. CASE add_queue_infomation
  <2>1. [node |-> "info", id |-> 0] \in Messages
    BY DEF Messages
  <2>2. queue' \in Seq(Messages) /\ Len(queue') <= Cap
    BY <1>5, <2>1, EnqueuedTyped DEF add_queue_infomation, TypeInv, TypeOK
  <2> QED
    BY <1>5, <2>2 DEF add_queue_infomation, TypeInv, TypeOK, reader, ghosts
<1>6. CASE Brideg_LORAWAN_TX
  <2>1. queue' \in Seq(Messages) /\ Len(queue') <= Cap
    BY <1>0, <1>6, HeadTailProperties DEF Brideg_LORAWAN_TX, TypeInv, TypeOK
  <2> QED
    BY <1>6, <2>1 DEF Brideg_LORAWAN_TX, TypeInv, TypeOK, reader, counts, ghosts
<1>7. CASE UNCHANGED vars
  BY <1>7 DEF vars, TypeInv, TypeOK, reader, counts, ghosts
<1> QED
  BY <1>1, <1>2, <1>3, <1>4, <1>5, <1>6, <1>7 DEF Next

(* TypeInv holds in every behaviour.                                       *)
THEOREM TypeInvariant == Spec => []TypeInv
BY InitTyped, StepTyped, PTL DEF Spec

(* The static variables keep their types and the queue its capacity, with  *)
(* any number of readers, and the second counter stays below a minute.     *)
THEOREM TypeCorrect == Spec => []TypeOK
<1>1. TypeInv => TypeOK
  BY DEF TypeInv
<1> QED
  BY <1>1, TypeInvariant, PTL

(* streetlight_working() offers one report of the root per full minute of  *)
(* ticks: none is skipped or doubled when counter_sec wraps.               *)
THEOREM RootReportsEveryMinute == Spec => []OneRootReportPerMinute
<1>0. MinuteTicks \in Nat \ {0}
  BY UplinkAssumption DEF UplinkAssumption
<1>1. Init => OneRootReportPerMinute
  BY <1>0 DEF Init, OneRootReportPerMinute
<1>2. TypeInv /\ OneRootReportPerMinute /\ [Next]_vars => OneRootReportPerMinute'
  <2> SUFFICES ASSUME TypeInv, OneRootReportPerMinute, [Next]_vars
               PROVE  OneRootReportPerMinute'
    OBVIOUS
  <2>1. CASE streetlight_working
    <3>1. /\ ticks \in Nat /\ rootReports \in Nat /\ counter_sec \in Nat
      BY <1>0 DEF TypeInv, TypeOK
    <3>2. MinuteTicks * (rootReports + 1) = MinuteTicks * rootReports + MinuteTicks
      BY <1>0, <3>1
    <3>3. MinuteTicks * rootReports \in Nat
      BY <1>0, <3>1
    <3>4. CASE counter_sec = MinuteTicks - 1
      BY <1>0, <2>1, <3>1, <3>2, <3>3, <3>4 DEF streetlight_working, OneRootReportPerMinute
    <3>5. CASE counter_sec # MinuteTicks - 1
      BY <1>0, <2>1, <3>1, <3>3, <3>5 DEF streetlight_working, OneRootReportPerMinute
    <3> QED
      BY <3>4, <3>5
  <2>2. CASE ~streetlight_working
    <3>1. UNCHANGED <<ticks, rootReports, counter_sec>>
      BY <2>2 DEF Next, ParentDisconnected, ParentConnected, root_read_task, Read, Exit,
         Parse, Duplicate, NotDuplicate, Store, EnqueueNode, Clear, add_queue_infomation,
         Brideg_LORAWAN_TX, vars, counts
    <3> QED
      BY <3>1 DEF OneRootReportPerMinute
  <2> QED
    BY <2>1, <2>2
<1> QED
  BY <1>1, <1>2, TypeInvariant, PTL DEF Spec
-----------------------------------------------------------------------------
(* One reader: what is offered.                                            *)

OneReader == \A q, r \in Readers : q = r

(* A report of a node is in the buffer and has not been dealt with yet.    *)
Pending(r) ==
    /\ pc[r] \in {"parse", "compare", "store", "enqueue"}
    /\ data_form_node.node # "junk"

(* The sender of report n, and how many reports have been dealt with.      *)
Sender(n) == IF n = 0 THEN NoNode ELSE seen[n].node
Handled == IF \E r \in Readers : Pending(r) THEN Len(seen) - 1 ELSE Len(seen)

(* Of the first n reports those without repeated sender were offered.      *)
Offers(n) ==
    /\ Len(offered) = Place(seen, n)
    /\ \A i \in Firsts(seen) : i <= n => offered[Place(seen, i)] = seen[i]

ReaderAt(r) ==
    /\ pc[r] \in {"parse", "compare", "store", "enqueue"} =>
           data_form_node.node \in Nodes \cup {"junk"}
    /\ pc[r] \in {"compare", "store", "enqueue"} => data_form_node.node \in Nodes
    /\ pc[r] \in {"compare", "store"} => node_id[r] = data_form_node.node
    /\ Pending(r) => Len(seen) > 0 /\ data_form_node = seen[Len(seen)]
    /\ pc[r] \in {"store", "enqueue"} => Len(seen) \in Firsts(seen)
    /\ node_id_compare =
           Sender(IF Pending(r) /\ pc[r] # "enqueue" THEN Len(seen) - 1 ELSE Len(seen))

ReaderInv == TypeInv /\ Offers(Handled) /\ \A r \in Readers : ReaderAt(r)

(* Place counts the places in Firsts, one by one.                          *)
LEMMA Counting ==
    ASSUME NEW s \in Seq(NodeReports)
    PROVE  /\ \A n \in Nat : Place(s, n) \in Nat
           /\ Place(s, 0) = 0
           /\ \A n \in 1 .. Len(s) :
                  Place(s, n) = IF n \in Firsts(s) THEN Place(s, n - 1) + 1 ELSE Place(s, n - 1)
           /\ \A m, n \in Nat : m <= n => Place(s, m) <= Place(s, n)
           /\ Place(s, Len(s)) = Cardinality(Firsts(s))
<1> DEFINE Upto(n) == {j \in Firsts(s) : j <= n}
<1>1. Firsts(s) \subseteq 1 .. Len(s) /\ Len(s) \in Nat
  BY DEF Firsts
<1>2. \A n \in Nat : IsFiniteSet(Upto(n)) /\ Cardinality(Upto(n)) \in Nat
  <2> TAKE n \in Nat
  <2>1. Upto(n) \in SUBSET Nat /\ \A j \in Upto(n) : j <= n
    BY <1>1
  <2> HIDE DEF Upto
  <2>2. IsFiniteSet(Upto(n))
    BY <2>1, FS_BoundedSetOfNaturals
  <2> QED
    BY <2>2, FS_CardinalityType
<1>3. Upto(0) = {}
  BY <1>1
<1>4. ASSUME NEW n \in 1 .. Len(s)
      PROVE  Cardinality(Upto(n)) = IF n \in Firsts(s) THEN Cardinality(Upto(n - 1)) + 1
                                                       ELSE Cardinality(Upto(n - 1))
  <2>1. n - 1 \in Nat
    OBVIOUS
  <2>2. CASE n \in Firsts(s)
    <3>1. Upto(n) = Upto(n - 1) \cup {n} /\ n \notin Upto(n - 1)
      BY <1>1, <2>2
    <3> HIDE DEF Upto
    <3> QED
      BY <1>2, <2>1, <2>2, <3>1, FS_AddElement
  <2>3. CASE n \notin Firsts(s)
    <3>1. Upto(n) = Upto(n - 1)
      BY <1>1, <2>3
    <3> QED
      BY <2>3, <3>1
  <2> QED
    BY <2>2, <2>3
<1>5. ASSUME NEW m \in Nat, NEW n \in Nat, m <= n
      PROVE  Cardinality(Upto(m)) <= Cardinality(Upto(n))
  <2>1. Upto(m) \in SUBSET Upto(n)
    BY <1>1, <1>5
  <2> HIDE DEF Upto
  <2> QED
    BY <1>2, <2>1, FS_Subset
<1>6. Upto(Len(s)) = Firsts(s)
  BY <1>1
<1>7. \A n : Place(s, n) = Cardinality(Upto(n))
  BY DEF Place
<1> HIDE DEF Upto
<1>8. Place(s, 0) = 0
  BY <1>3, <1>7, FS_EmptySet
<1>9. \A n \in 1 .. Len(s) :
          Place(s, n) = IF n \in Firsts(s) THEN Place(s, n - 1) + 1 ELSE Place(s, n - 1)
  BY <1>4, <1>7
<1>10. \A m, n \in Nat : m <= n => Place(s, m) <= Place(s, n)
  BY <1>5, <1>7
<1> QED
  BY <1>2, <1>6, <1>7, <1>8, <1>9, <1>10, Zenon

(* A new report changes nothing about the ones before it.                  *)
LEMMA AppendCounts ==
    ASSUME NEW s \in Seq(NodeReports), NEW m \in NodeReports
    PROVE  LET t == Append(s, m) IN
           /\ t \in Seq(NodeReports) /\ Len(t) = Len(s) + 1 /\ t[Len(t)] = m
           /\ \A i \in 1 .. Len(s) : t[i] = s[i] /\ (i \in Firsts(t) <=> i \in Firsts(s))
           /\ \A n \in 0 .. Len(s) : Place(t, n) = Place(s, n)
<1> DEFINE t == Append(s, m)
<1>1. /\ t \in Seq(NodeReports) /\ Len(t) = Len(s) + 1 /\ t[Len(t)] = m /\ Len(s) \in Nat
      /\ \A i \in 1 .. Len(s) : t[i] = s[i]
  OBVIOUS
<1> HIDE DEF t
<1>2. ASSUME NEW i \in 1 .. Len(s) PROVE i \in Firsts(t) <=> i \in Firsts(s)
  <2>1. i # 1 => i - 1 \in 1 .. Len(s)
    BY <1>1
  <2> QED
    BY <1>1, <2>1 DEF Firsts
<1>3. ASSUME NEW n \in 0 .. Len(s) PROVE Place(t, n) = Place(s, n)
  <2>1. Firsts(t) \subseteq 1 .. Len(t) /\ Firsts(s) \subseteq 1 .. Len(s)
    BY DEF Firsts
  <2>2. {j \in Firsts(t) : j <= n} = {j \in Firsts(s) : j <= n}
    BY <1>1, <1>2, <2>1
  <2> QED
    BY <2>2 DEF Place
<1> QED
  BY <1>1, <1>2, <1>3 DEF t

(* With one reader its report is the only one not yet dealt with.          *)
LEMMA HandledByOne ==
    ASSUME OneReader, NEW r \in Readers
    PROVE  /\ Handled = IF Pending(r) THEN Len(seen) - 1 ELSE Len(seen)
           /\ Handled' = IF Pending(r)' THEN Len(seen') - 1 ELSE Len(seen')
BY DEF OneReader, Handled, Pending

(* A report read from the mesh has a node id, which is not the empty one.  *)
LEMMA SenderTyped ==
    ASSUME TypeInv, NEW n \in 1 .. Len(seen)
    PROVE  Sender(n) = seen[n].node /\ seen[n].node \in Nodes /\ NoNode \notin Nodes
<1>1. seen[n] \in NodeReports
  BY DEF TypeInv
<1>2. NoNode \notin Nodes
  BY UplinkAssumption DEF UplinkAssumption
<1> QED
  BY <1>1, <1>2 DEF Sender, NodeReports

(* What a step does outside root_read_task keeps the invariant.            *)
LEMMA OthersKeep ==
    ASSUME ReaderInv, TypeInv', UNCHANGED <<reader, seen, offered>>
    PROVE  ReaderInv'
BY DEF ReaderInv, ReaderAt, reader, Offers, Handled, Pending, Sender

(* Every step of the one root_read_task keeps it.                          *)
LEMMA ReaderKeeps ==
    ASSUME OneReader, ReaderInv, TypeInv', NEW r \in Readers,
           ParentConnected(r) \/ root_read_task(r)
    PROVE  ReaderInv'
<1> DEFINE n == Len(seen)
<1>1. /\ seen \in Seq(NodeReports) /\ n \in Nat /\ offered \in Seq(Reports)
      /\ ReaderAt(r) /\ TypeInv
  BY DEF ReaderInv, TypeInv
<1>2. Offers(IF Pending(r) THEN n - 1 ELSE n)
  BY HandledByOne DEF ReaderInv
<1> SUFFICES /\ ReaderAt(r)'
             /\ Pending(r)' => Offers(Len(seen) - 1)'
             /\ ~Pending(r)' => Offers(Len(seen))'
  <2>1. \A q \in Readers : q = r
    BY DEF OneReader
  <2>2. \A q \in Readers : ReaderAt(q)'
    BY <2>1
  <2>3. Offers(Handled)'
    BY HandledByOne DEF Offers
  <2> QED
    BY <2>2, <2>3 DEF ReaderInv
<1>3. CASE ParentConnected(r) \/ Exit(r)
  <2>1. /\ pc[r] \in {"none", "read"} /\ pc'[r] \in {"none", "read"}
        /\ UNCHANGED <<node_id, data_form_node, node_id_compare, seen, offered>>
    BY <1>1, <1>3, GoTyped DEF ParentConnected, Exit, ghosts
  <2> QED
    BY <1>1, <1>2, <2>1 DEF ReaderAt, Pending, Sender, Offers
<1>4. ASSUME NEW m \in Nodes \cup {"junk"}, Read(r, m)
      PROVE  /\ ReaderAt(r)'
             /\ Pending(r)' => Offers(Len(seen) - 1)'
             /\ ~Pending(r)' => Offers(Len(seen))'
  <2>1. /\ pc[r] = "read" /\ pc'[r] = "parse" /\ data_form_node'.node = m
        /\ UNCHANGED <<node_id, node_id_compare, offered>>
    BY <1>1, <1>4, GoTyped DEF Read
  <2>2. ~Pending(r) /\ Offers(n) /\ node_id_compare = Sender(n)
    BY <1>1, <1>2, <2>1 DEF Pending, ReaderAt
  <2>3. CASE m = "junk"
    <3>1. seen' = seen /\ ~Pending(r)'
      BY <1>4, <2>1, <2>3 DEF Read, Pending
    <3> QED
      BY <2>1, <2>2, <2>3, <3>1 DEF ReaderAt, Sender, Offers
  <2>4. CASE m # "junk"
    <3> DEFINE b == [node |-> m, id |-> packets + 1]
    <3>1. b \in NodeReports /\ data_form_node' = b /\ seen' = Append(seen, b)
      <4>1. packets + 1 \in 0 .. MaxReports
        BY <1>1, <1>4, UplinkAssumption DEF Read, TypeInv, UplinkAssumption
      <4> QED
        BY <1>4, <2>4, <4>1 DEF Read, NodeReports
    <3> HIDE DEF b
    <3>2. /\ Len(seen') = n + 1 /\ seen'[n + 1] = b
          /\ \A i \in 1 .. n : seen'[i] = seen[i] /\ (i \in Firsts(seen') <=> i \in Firsts(seen))
          /\ \A k \in 0 .. n : Place(seen', k) = Place(seen, k)
      BY <1>1, <3>1, AppendCounts
    <3>3. Pending(r)'
      BY <2>1, <2>4 DEF Pending
    <3>4. (IF n = 0 THEN NoNode ELSE seen'[n].node) = Sender(n)
      BY <1>1, <3>2 DEF Sender
    <3>5. ReaderAt(r)'
      <4>1. node_id_compare' = Sender(Len(seen) - 1)'
        BY <1>1, <2>1, <2>2, <3>2, <3>4 DEF Sender
      <4> QED
        BY <1>1, <2>1, <3>1, <3>2, <3>3, <4>1 DEF ReaderAt
    <3>6. Offers(Len(seen) - 1)'
      <4>1. Len(seen') - 1 = n /\ Place(seen', n) = Place(seen, n)
        BY <1>1, <3>2
      <4>2. \A i \in Firsts(seen') : i \in Nat /\ i >= 1
        BY DEF Firsts
      <4>3. ASSUME NEW i \in Firsts(seen'), i <= n
            PROVE  offered[Place(seen', i)] = seen'[i]
        <5>1. i \in 1 .. n /\ i \in 0 .. n
          BY <1>1, <4>2, <4>3
        <5> QED
          BY <2>2, <3>2, <5>1 DEF Offers
      <4> QED
        BY <2>1, <2>2, <4>1, <4>3 DEF Offers
    <3> QED
      BY <3>3, <3>5, <3>6
  <2> QED
    BY <2>3, <2>4
<1>5. CASE Parse(r)
  <2>1. /\ pc[r] = "parse" /\ UNCHANGED <<data_form_node, node_id_compare, seen, offered>>
        /\ pc'[r] = IF data_form_node.node \in Nodes THEN "compare" ELSE "clear"
        /\ node_id'[r] = data_form_node.node
    BY <1>1, <1>5, GoTyped DEF Parse, ghosts, TypeInv, TypeOK
  <2>2. data_form_node.node \in Nodes \cup {"junk"}
    BY <1>1, <2>1 DEF ReaderAt
  <2>3. "junk" \notin Nodes
    BY UplinkAssumption DEF UplinkAssumption
  <2>4. Pending(r)' <=> Pending(r)
    BY <2>1, <2>2, <2>3 DEF Pending
  <2> QED
    BY <1>1, <1>2, <2>1, <2>2, <2>3, <2>4 DEF ReaderAt, Sender, Offers
<1>6. CASE Duplicate(r)
  <2>1. /\ pc[r] = "compare" /\ pc'[r] = "clear" /\ node_id[r] = node_id_compare
        /\ UNCHANGED <<node_id, data_form_node, node_id_compare, seen, offered>>
    BY <1>1, <1>6, GoTyped DEF Duplicate, ghosts
  <2>2. Pending(r) /\ ~Pending(r)'
    BY <1>1, <2>1, UplinkAssumption DEF Pending, ReaderAt, UplinkAssumption
  <2>3. /\ n > 0 /\ data_form_node = seen[n] /\ node_id_compare = Sender(n - 1)
        /\ node_id_compare = seen[n].node
    BY <1>1, <2>1, <2>2 DEF ReaderAt
  <2>4. n \in 1 .. n /\ Sender(n) = seen[n].node /\ seen[n].node \in Nodes /\ NoNode \notin Nodes
    BY <1>1, <2>3, SenderTyped
  <2>5. n # 1
    BY <2>3, <2>4 DEF Sender
  <2>6. n \notin Firsts(seen)
    BY <1>1, <2>3, <2>5 DEF Sender, Firsts
  <2>7. Place(seen, n) = Place(seen, n - 1)
    BY <1>1, <2>4, <2>6, Counting
  <2>8. \A i \in Firsts(seen) : i <= n => i <= n - 1
    <3>1. Firsts(seen) \subseteq 1 .. n
      BY DEF Firsts
    <3> QED
      BY <1>1, <2>6, <3>1
  <2>9. Offers(n)
    BY <1>2, <2>2, <2>7, <2>8 DEF Offers
  <2> QED
    BY <2>1, <2>2, <2>3, <2>4, <2>9 DEF ReaderAt, Sender, Offers
<1>7. CASE NotDuplicate(r)
  <2>1. /\ pc[r] = "compare" /\ pc'[r] = "store" /\ node_id[r] # node_id_compare
        /\ UNCHANGED <<node_id, data_form_node, node_id_compare, seen, offered>>
    BY <1>1, <1>7, GoTyped DEF NotDuplicate, ghosts
  <2>2. Pending(r) /\ Pending(r)'
    BY <1>1, <2>1, UplinkAssumption DEF Pending, ReaderAt, UplinkAssumption
  <2>3. n > 0 /\ data_form_node = seen[n] /\ seen[n].node # Sender(n - 1)
    BY <1>1, <2>1, <2>2 DEF ReaderAt
  <2>4. n \in Firsts(seen)
    BY <1>1, <2>3 DEF Sender, Firsts
  <2> QED
    BY <1>1, <1>2, <2>1, <2>2, <2>4 DEF ReaderAt, Sender, Offers
<1>8. CASE Store(r)
  <2>1. /\ pc[r] = "store" /\ pc'[r] = "enqueue" /\ node_id_compare' = node_id[r]
        /\ UNCHANGED <<node_id, data_form_node, seen, offered>>
    BY <1>1, <1>8, GoTyped DEF Store, ghosts
  <2>2. Pending(r) /\ Pending(r)'
    BY <1>1, <2>1, UplinkAssumption DEF Pending, ReaderAt, UplinkAssumption
  <2>3. n > 0 /\ data_form_node = seen[n] /\ node_id[r] = seen[n].node
    BY <1>1, <2>1, <2>2 DEF ReaderAt
  <2>4. node_id_compare' = Sender(Len(seen))'
    BY <1>1, <2>1, <2>3 DEF Sender
  <2> QED
    BY <1>1, <1>2, <2>1, <2>2, <2>4 DEF ReaderAt, Offers
<1>9. CASE EnqueueNode(r)
  <2>1. /\ pc[r] = "enqueue" /\ pc'[r] = "clear" /\ offered' = Append(offered, data_form_node)
        /\ UNCHANGED <<node_id, data_form_node, node_id_compare, seen>>
    BY <1>1, <1>9, GoTyped DEF EnqueueNode
  <2>2. Pending(r) /\ ~Pending(r)'
    BY <1>1, <2>1, UplinkAssumption DEF Pending, ReaderAt, UplinkAssumption
  <2>3. /\ n > 0 /\ n - 1 \in Nat /\ data_form_node = seen[n] /\ n \in Firsts(seen)
        /\ node_id_compare = Sender(n)
    BY <1>1, <2>1, <2>2 DEF ReaderAt
  <2>4. /\ Place(seen, n) = Place(seen, n - 1) + 1 /\ Len(offered) = Place(seen, n - 1)
        /\ Place(seen, n - 1) \in Nat
    BY <1>1, <1>2, <2>2, <2>3, Counting DEF Offers
  <2>5. /\ Len(offered') = Place(seen, n) /\ offered'[Place(seen, n)] = seen[n]
        /\ \A k \in 1 .. Place(seen, n - 1) : offered'[k] = offered[k]
    <3>1. data_form_node \in Reports
      BY <1>1 DEF TypeInv, TypeOK
    <3> QED
      BY <1>1, <2>1, <2>3, <2>4, <3>1
  <2>6. ASSUME NEW i \in Firsts(seen), i <= n PROVE offered'[Place(seen, i)] = seen[i]
    <3>1. i \in 1 .. n
      BY DEF Firsts
    <3>2. CASE i = n
      BY <2>5, <3>2
    <3>3. CASE i # n
      <4>1. i <= n - 1 /\ i \in Nat /\ i - 1 \in Nat
        BY <1>1, <3>1, <3>3
      <4>2. /\ Place(seen, i) = Place(seen, i - 1) + 1 /\ Place(seen, i - 1) \in Nat
            /\ Place(seen, i) <= Place(seen, n - 1)
        BY <1>1, <2>3, <3>1, <4>1, Counting
      <4>3. Place(seen, i) \in 1 .. Place(seen, n - 1)
        BY <2>4, <4>2
      <4>4. offered[Place(seen, i)] = seen[i]
        BY <1>2, <2>2, <4>1 DEF Offers
      <4> QED
        BY <2>5, <4>3, <4>4
    <3> QED
      BY <3>2, <3>3
  <2>7. Offers(Len(seen))'
    BY <2>1, <2>5, <2>6 DEF Offers
  <2> QED
    BY <2>1, <2>2, <2>3, <2>7 DEF ReaderAt, Sender
<1>10. CASE Clear(r)
  <2>1. /\ pc[r] = "clear" /\ pc'[r] \in {"none", "read"}
        /\ UNCHANGED <<node_id_compare, seen, offered>>
    BY <1>1, <1>10, GoTyped DEF Clear, ghosts
  <2> QED
    BY <1>1, <1>2, <2>1 DEF ReaderAt, Pending, Sender, Offers
<1> QED
  BY <1>3, <1>4, <1>5, <1>6, <1>7, <1>8, <1>9, <1>10 DEF root_read_task

(* The first boot: nothing seen, nothing offered.                          *)
LEMMA InitReader == Init => ReaderInv
<1> SUFFICES ASSUME Init PROVE ReaderInv
  OBVIOUS
<1>1. TypeInv
  BY InitTyped
<1>2. seen = <<>> /\ offered = <<>> /\ Len(<<>>) = 0
  BY EmptySeq DEF Init
<1>3. \A r \in Readers : pc[r] = "none" /\ ~Pending(r)
  BY DEF Init, Pending
<1>4. Firsts(seen) = {}
  BY <1>2 DEF Firsts
<1>5. Place(seen, 0) = 0
  BY <1>1, Counting DEF TypeInv
<1>6. Handled = 0
  BY <1>2, <1>3 DEF Handled
<1>7. Offers(Handled)
  BY <1>2, <1>4, <1>5, <1>6 DEF Offers
<1>8. \A r \in Readers : ReaderAt(r)
  BY <1>2, <1>3 DEF ReaderAt, Sender, Init
<1> QED
  BY <1>1, <1>7, <1>8 DEF ReaderInv

(* ReaderInv is inductive for one reader.                                  *)
LEMMA StepReader == OneReader /\ ReaderInv /\ [Next]_vars => ReaderInv'
<1> SUFFICES ASSUME OneReader, ReaderInv, [Next]_vars PROVE ReaderInv'
  OBVIOUS
<1>1. TypeInv'
  BY StepTyped DEF ReaderInv
<1>2. CASE \E r \in Readers : ParentConnected(r) \/ root_read_task(r)
  BY <1>1, <1>2, ReaderKeeps
<1>3. CASE \/ ParentDisconnected \/ streetlight_working \/ add_queue_infomation
           \/ Brideg_LORAWAN_TX \/ UNCHANGED vars
  <2>1. UNCHANGED <<reader, seen, offered>>
    BY <1>3 DEF ParentDisconnected, streetlight_working, add_queue_infomation,
       Brideg_LORAWAN_TX, vars, ghosts
  <2> QED
    BY <1>1, <2>1, OthersKeep
<1> QED
  BY <1>2, <1>3 DEF Next

(* With one root_read_task every behaviour satisfies ReaderInv.            *)
THEOREM ReaderInvariant == ASSUME OneReader PROVE Spec => []ReaderInv
<1>1. ReaderInv /\ [Next]_vars => ReaderInv'
  BY StepReader
<1> QED
  BY <1>1, InitReader, PTL DEF Spec

(* One root_read_task offers the queue, unaltered and in order, exactly    *)
(* the reports whose sender add_queue_lpp_node() has not just seen, for    *)
(* any nodes and any number of reports, disconnections and reconnections.  *)
THEOREM OfferedOnce == ASSUME OneReader PROVE Spec => []OfferedWithoutRepeats
<1>1. ReaderInv => OfferedWithoutRepeats
  <2> SUFFICES ASSUME ReaderInv, Quiet PROVE WithoutRepeats(offered, seen)
    BY DEF OfferedWithoutRepeats
  <2>1. Handled = Len(seen)
    BY DEF Quiet, Handled, Pending
  <2>2. seen \in Seq(NodeReports) /\ Len(seen) \in Nat
    BY DEF ReaderInv, TypeInv
  <2>3. Place(seen, Len(seen)) = Cardinality(Firsts(seen))
    BY <2>2, Counting
  <2>4. \A i \in Firsts(seen) : i <= Len(seen)
    BY <2>2 DEF Firsts
  <2> QED
    BY <2>1, <2>3, <2>4 DEF ReaderInv, Offers, WithoutRepeats
<1> QED
  BY <1>1, ReaderInvariant, PTL
=============================================================================
