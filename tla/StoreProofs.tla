---------------------------- MODULE StoreProofs ----------------------------
(***************************************************************************)
(* Core's persistence, for any calls, pods, resource events, restarts and  *)
(* expiring rows: types, that no row is stored again while the table holds *)
(* its key, and that events stay attached to the nodes of the graph.       *)
(***************************************************************************)
EXTENDS Store, TopologyProofs, FiniteSetTheorems

-----------------------------------------------------------------------------
(* Bags, as sets of their elements                                         *)

\* The union of two bags.
LEMMA BagUnionFacts ==
    ASSUME NEW B, IsABag(B), NEW C, IsABag(C)
    PROVE  /\ IsABag(B (+) C)
           /\ BagToSet(B (+) C) = BagToSet(B) \cup BagToSet(C)
           /\ \A x \in BagToSet(B) \ BagToSet(C) : (B (+) C)[x] = B[x]
  BY DEF IsABag, BagToSet, (+)

\* Adding an element yields a bag with the elements of the old one and it.
LEMMA BagAddFacts ==
    ASSUME NEW B, IsABag(B), NEW x
    PROVE  /\ IsABag(B (+) SetToBag({x}))
           /\ BagToSet(B (+) SetToBag({x})) = BagToSet(B) \cup {x}
  BY DEF IsABag, BagToSet, SetToBag, (+)

\* Removing an element yields a bag and adds no element.
LEMMA BagRemoveFacts ==
    ASSUME NEW B, IsABag(B), NEW x
    PROVE  /\ IsABag(B (-) SetToBag({x}))
           /\ BagToSet(B (-) SetToBag({x})) \subseteq BagToSet(B)
           /\ \A y \in BagToSet(B (-) SetToBag({x})) : (B (-) SetToBag({x}))[y] <= B[y]
  BY DEF IsABag, BagToSet, SetToBag, (-)

\* The empty bag is one, and has no elements.
LEMMA EmptyBagFacts == IsABag(EmptyBag) /\ BagToSet(EmptyBag) = {}
  BY DEF IsABag, BagToSet, EmptyBag, SetToBag

-----------------------------------------------------------------------------
(* The invariant                                                           *)

\* The timer's task may be between its query and its insert; what it is about
\* to insert is then new to the table, since nobody else writes rows.
BatchIsNew ==
    flush.pc = "insert" => \A r \in BagToSet(flush.batch) : RowKey(r) \notin StoredKeys

IInv == TypeOK /\ WellFormed(topology) /\ BatchIsNew

-----------------------------------------------------------------------------
(* The snapshot                                                            *)

\* In a well-formed graph the snapshot is a bag of flows: each flow that is
\* listed occurs under its source.
LEMMA SnapshotFacts ==
    ASSUME topology \in Graph, WellFormed(topology)
    PROVE  IsABag(Snapshot) /\ BagToSet(Snapshot) \subseteq Flow
<1> DEFINE All == UNION {Range(topology.downstream[n]) : n \in NodeId}
<1>1. \A n \in NodeId : topology.downstream[n] \in Seq(Flow)
  BY DEF Graph, FlowMap
<1>2. ASSUME NEW f \in All
      PROVE  f \in Flow /\ Occurrences(f) \in Nat /\ Occurrences(f) > 0
  <2>1. PICK n \in NodeId : f \in Range(topology.downstream[n])
    OBVIOUS
  <2>2. f.source_node = n
    BY <2>1 DEF WellFormed, KeyedByEndpoint
  <2> DEFINE q == topology.downstream[n]
             I == {i \in DOMAIN q : q[i] = f}
  <2>3. q \in Seq(Flow) /\ DOMAIN q = 1 .. Len(q) /\ Len(q) \in Nat
    BY <1>1
  <2>4. PICK i \in DOMAIN q : q[i] = f
    BY <2>1 DEF Range
  <2>5. Occurrences(f) = Cardinality(I)
    BY <2>2 DEF Occurrences
  <2>6. I \subseteq 1 .. Len(q) /\ I # {}
    BY <2>3, <2>4
  <2>7. f \in Flow
    BY <2>3, <2>4
  <2> HIDE DEF I, q
  <2>8. IsFiniteSet(1 .. Len(q))
    BY <2>3, FS_Interval
  <2>9. IsFiniteSet(I)
    BY <2>6, <2>8, FS_Subset
  <2>10. Cardinality(I) \in Nat /\ Cardinality(I) # 0
    BY <2>6, <2>9, FS_CardinalityType, FS_EmptySet
  <2> QED
    BY <2>5, <2>7, <2>10
<1>3. Snapshot = [f \in All |-> Occurrences(f)]
  BY DEF Snapshot
<1> HIDE DEF All
<1>4. /\ DOMAIN Snapshot = All
      /\ \A f \in All : Snapshot[f] \in {n \in Nat : n > 0}
  BY <1>2, <1>3
<1>5. IsABag(Snapshot)
  BY <1>3, <1>4 DEF IsABag
<1> QED
  BY <1>2, <1>4, <1>5 DEF BagToSet

\* What the query leaves of a batch.
LEMMA UnstoredFacts ==
    ASSUME NEW batch, IsABag(batch)
    PROVE  /\ IsABag(Unstored(batch))
           /\ BagToSet(Unstored(batch)) \subseteq BagToSet(batch)
           /\ \A r \in BagToSet(Unstored(batch)) : RowKey(r) \notin StoredKeys
  BY DEF IsABag, BagToSet, Unstored

-----------------------------------------------------------------------------
(* Types                                                                   *)

LEMMA EmptyBatch ==
    ASSUME NEW B, IsABag(B)
    PROVE  B = EmptyBag <=> BagToSet(B) = {}
  BY DEF IsABag, BagToSet, EmptyBag, SetToBag

\* The part of the type invariant that is about the timer's task.
FlushType(f) ==
    /\ f.pc \in {"waiting", "select", "insert"}
    /\ IsABag(f.batch) /\ BagToSet(f.batch) \subseteq Row
    /\ (f.pc = "waiting") <=> (f.batch = EmptyBag)

\* The timer's task between two ticks.
LEMMA WaitingType == FlushType(Waiting)
  BY EmptyBagFacts DEF FlushType, Waiting

\* Ingest changes the graph, and nothing else the types speak of.
LEMMA GraphTypes ==
    ASSUME IInv, RecordFlow \/ ResolveAddress
    PROVE  TypeOK' /\ WellFormed(topology')
<1>1. topology \in Graph /\ WellFormed(topology)
  BY DEF IInv, TypeOK
<1>2. topology' \in Graph /\ WellFormed(topology')
  <2>1. CASE RecordFlow
    <3>1. PICK f \in Calls \ seenEdges : topology' = RecordCall(topology, f, SomeIp, SomeIp)
      BY <2>1 DEF RecordFlow
    <3>2. f \in Flow /\ SomeIp \in Ips
      BY StoreAssumption
    <3> QED
      BY <1>1, <3>1, <3>2, RecordCallFacts
  <2>2. CASE ResolveAddress
    <3>1. PICK p \in Pods : topology' = resolve_unknown_node(topology, p[1], p[2])
      BY <2>2 DEF ResolveAddress
    <3>2. p[1] \in Ips /\ p[2] \in NodeId
      BY StoreAssumption
    <3> QED
      BY <1>1, <3>1, <3>2, ResolveWellFormed
  <2> QED
    BY <2>1, <2>2
<1>3. seenEdges' \subseteq Calls
  BY DEF RecordFlow, ResolveAddress, IInv, TypeOK
<1>4. UNCHANGED <<rows, k8sRows, flush, writers, expired, received, restarts>>
  BY DEF RecordFlow, ResolveAddress
<1> QED
  BY <1>2, <1>3, <1>4 DEF IInv, TypeOK, Stored

\* The steps of the timer's task, its failures, and restarts: what they do to
\* the rows.
Inserts ==
    /\ flush.pc = "insert"
    /\ rows' = rows (+) flush.batch

\* Only rows are inserted.
LEMMA RowsTypes ==
    ASSUME TypeOK, UNCHANGED rows \/ Inserts
    PROVE  IsABag(rows') /\ BagToSet(rows') \subseteq Row
<1>1. IsABag(rows) /\ BagToSet(rows) \subseteq Row
  BY DEF TypeOK, Stored
<1>2. IsABag(flush.batch) /\ BagToSet(flush.batch) \subseteq Row
  BY DEF TypeOK
<1>3. CASE UNCHANGED rows
  BY <1>1, <1>3
<1>4. CASE Inserts
  <2>1. rows' = rows (+) flush.batch
    BY <1>4 DEF Inserts
  <2>2. /\ IsABag(rows (+) flush.batch)
        /\ BagToSet(rows (+) flush.batch) = BagToSet(rows) \cup BagToSet(flush.batch)
    BY <1>1, <1>2, BagUnionFacts
  <2> QED
    BY <1>1, <1>2, <2>1, <2>2
<1> QED
  BY <1>3, <1>4

\* The steps of the timer's task.
LEMMA FlushTypes ==
    ASSUME IInv, TakeSnapshot \/ SelectExisting \/ InsertBatch \/ FlushFails
    PROVE  /\ TypeOK' /\ WellFormed(topology')
           /\ UNCHANGED rows \/ Inserts
<1>1. UNCHANGED rows \/ Inserts
  BY DEF TakeSnapshot, SelectExisting, InsertBatch, FlushFails, Inserts
<1>2. IsABag(rows') /\ BagToSet(rows') \subseteq Row
  BY <1>1, RowsTypes DEF IInv
<1>3. FlushType(flush')
  <2>1. CASE TakeSnapshot
    <3>1. flush' = [pc |-> "select", batch |-> Snapshot] /\ Snapshot # EmptyBag
      BY <2>1 DEF TakeSnapshot
    <3>2. IsABag(Snapshot) /\ BagToSet(Snapshot) \subseteq Row
      BY SnapshotFacts DEF IInv, TypeOK, Row
    <3> QED
      BY <3>1, <3>2 DEF FlushType
  <2>2. CASE SelectExisting
    <3> DEFINE new == Unstored(flush.batch)
    <3>1. flush' = IF new = EmptyBag THEN Waiting ELSE [pc |-> "insert", batch |-> new]
      BY <2>2 DEF SelectExisting
    <3>2. IsABag(flush.batch) /\ BagToSet(flush.batch) \subseteq Row
      BY DEF IInv, TypeOK
    <3>3. IsABag(new) /\ BagToSet(new) \subseteq Row
      BY <3>2, UnstoredFacts
    <3> HIDE DEF new
    <3> QED
      BY <3>1, <3>3, WaitingType DEF FlushType
  <2>3. CASE InsertBatch \/ FlushFails
    BY <2>3, WaitingType DEF InsertBatch, FlushFails
  <2> QED
    BY <2>1, <2>2, <2>3
<1>4. UNCHANGED <<topology, seenEdges, k8sRows, writers, expired, received, restarts>>
  BY DEF TakeSnapshot, SelectExisting, InsertBatch, FlushFails
<1> QED
  BY <1>1, <1>2, <1>3, <1>4 DEF IInv, TypeOK, FlushType, Stored

\* Expiry takes a row away.
LEMMA ExpireTypes ==
    ASSUME IInv, ExpireRow
    PROVE  /\ TypeOK' /\ WellFormed(topology')
           /\ Stored' \subseteq Stored
           /\ \A r \in Stored' : rows'[r] <= rows[r]
<1>1. PICK r \in Stored : rows' = rows (-) SetToBag({r})
  BY DEF ExpireRow
<1>2. IsABag(rows) /\ BagToSet(rows) \subseteq Row
  BY DEF IInv, TypeOK, Stored
<1>3. /\ IsABag(rows') /\ BagToSet(rows') \subseteq BagToSet(rows)
      /\ \A x \in BagToSet(rows') : rows'[x] <= rows[x]
  BY <1>1, <1>2, BagRemoveFacts
<1>4. expired' \in 0 .. MaxExpired
  BY StoreAssumption DEF ExpireRow, IInv, TypeOK
<1> QED
  BY <1>2, <1>3, <1>4 DEF ExpireRow, IInv, TypeOK, Stored

\* Resource events and their tasks.
LEMMA EventTypes ==
    ASSUME IInv, RecordK8sResourceEvent \/ WriteK8sResourceEvent
    PROVE  TypeOK' /\ WellFormed(topology')
<1>1. /\ IsABag(writers) /\ BagToSet(writers) \subseteq ResourceEvents
      /\ IsABag(k8sRows) /\ BagToSet(k8sRows) \subseteq ResourceEvents
      /\ topology \in Graph /\ WellFormed(topology)
  BY DEF IInv, TypeOK
<1>2. CASE RecordK8sResourceEvent
  <2>1. PICK e \in ResourceEvents : /\ writers' = writers (+) SetToBag({e})
                                    /\ topology' = add_k8s_event(topology, e[1], e[2])
    BY <1>2 DEF RecordK8sResourceEvent
  <2>2. e[1] \in NodeId /\ e[2] \in K8sEvents
    BY StoreAssumption
  <2>3. topology' \in Graph /\ WellFormed(topology')
    BY <1>1, <2>1, <2>2, AddK8sEventWellFormed
  <2>4. IsABag(writers') /\ BagToSet(writers') = BagToSet(writers) \cup {e}
    BY <1>1, <2>1, BagAddFacts
  <2>5. received' \in 0 .. MaxResourceEvents
    BY <1>2, StoreAssumption DEF RecordK8sResourceEvent, IInv, TypeOK
  <2>6. BagToSet(writers') \subseteq ResourceEvents
    BY <1>1, <2>4
  <2> QED
    BY <1>2, <2>3, <2>4, <2>5, <2>6 DEF RecordK8sResourceEvent, IInv, TypeOK, Stored
<1>3. CASE WriteK8sResourceEvent
  <2>1. PICK e \in BagToSet(writers) : /\ writers' = writers (-) SetToBag({e})
                                       /\ k8sRows' \in {k8sRows, k8sRows (+) SetToBag({e})}
    BY <1>3 DEF WriteK8sResourceEvent
  <2>2. IsABag(writers') /\ BagToSet(writers') \subseteq ResourceEvents
    BY <1>1, <2>1, BagRemoveFacts
  <2>3. IsABag(k8sRows') /\ BagToSet(k8sRows') \subseteq ResourceEvents
    <3>1. /\ IsABag(k8sRows (+) SetToBag({e}))
          /\ BagToSet(k8sRows (+) SetToBag({e})) = BagToSet(k8sRows) \cup {e}
      BY <1>1, BagAddFacts
    <3> QED
      BY <1>1, <2>1, <3>1
  <2> QED
    BY <1>3, <2>2, <2>3 DEF WriteK8sResourceEvent, IInv, TypeOK, Stored
<1> QED
  BY <1>2, <1>3

\* A restart forgets all but the table.
LEMMA RestartTypes ==
    ASSUME IInv, Restart
    PROVE  /\ TypeOK' /\ WellFormed(topology')
           /\ UNCHANGED rows \/ Inserts
<1>1. UNCHANGED rows \/ Inserts
  BY DEF Restart, Inserts
<1>2. IsABag(rows') /\ BagToSet(rows') \subseteq Row
  BY <1>1, RowsTypes DEF IInv
<1>3. FlushType(flush')
  BY WaitingType DEF Restart
<1>4. restarts' \in 0 .. MaxRestarts
  BY StoreAssumption DEF Restart, IInv, TypeOK
<1>5. topology' \in Graph /\ WellFormed(topology')
  BY NewTopologyWellFormed DEF Restart
<1> QED
  BY <1>1, <1>2, <1>3, <1>4, <1>5, EmptyBagFacts
     DEF Restart, IInv, TypeOK, FlushType, Stored

-----------------------------------------------------------------------------
(* No key is stored again                                                  *)

\* What a step may do to the table: add rows of the batch, which is new to it,
\* or take rows away.
StoresOnlyNew ==
    \A r \in BagToSet(rows') :
        (r \notin Stored \/ rows'[r] > rows[r]) => RowKey(r) \notin StoredKeys

\* An insert stores new keys only.
LEMMA InsertsOnlyNew ==
    ASSUME IInv, UNCHANGED rows \/ Inserts
    PROVE  StoresOnlyNew
<1>1. IsABag(rows) /\ \A r \in Stored : rows[r] \in Nat
  BY DEF IInv, TypeOK, Stored, IsABag, BagToSet
<1>2. CASE UNCHANGED rows
  BY <1>1, <1>2 DEF StoresOnlyNew, Stored
<1>3. CASE Inserts
  <2>1. IsABag(flush.batch) /\ \A r \in BagToSet(flush.batch) : RowKey(r) \notin StoredKeys
    BY <1>3 DEF IInv, TypeOK, BatchIsNew, Inserts
  <2>2. rows' = rows (+) flush.batch
    BY <1>3 DEF Inserts
  <2>3. /\ BagToSet(rows') = BagToSet(rows) \cup BagToSet(flush.batch)
        /\ \A r \in BagToSet(rows) \ BagToSet(flush.batch) : rows'[r] = rows[r]
    BY <1>1, <2>1, <2>2, BagUnionFacts
  <2> QED
    BY <1>1, <2>1, <2>3 DEF StoresOnlyNew, Stored
<1> QED
  BY <1>2, <1>3

\* Every step keeps the invariant.
LEMMA NextKeeps ==
    ASSUME IInv, [Next]_vars
    PROVE  IInv' /\ StoresOnlyNew
<1>1. CASE UNCHANGED vars
  <2>1. StoresOnlyNew
    BY <1>1, InsertsOnlyNew DEF vars
  <2> QED
    BY <1>1, <2>1 DEF vars, IInv, TypeOK, BatchIsNew, Stored, StoredKeys
<1>2. CASE RecordFlow \/ ResolveAddress
  <2>1. UNCHANGED <<rows, flush>>
    BY <1>2 DEF RecordFlow, ResolveAddress
  <2>2. BatchIsNew'
    BY <2>1 DEF IInv, BatchIsNew, StoredKeys, Stored
  <2> QED
    BY <1>2, <2>1, <2>2, GraphTypes, InsertsOnlyNew DEF IInv
<1>3. CASE TakeSnapshot \/ SelectExisting \/ InsertBatch \/ FlushFails
  <2>1. BatchIsNew'
    <3>1. CASE SelectExisting
      <4> DEFINE new == Unstored(flush.batch)
      <4>1. /\ flush' = IF new = EmptyBag THEN Waiting ELSE [pc |-> "insert", batch |-> new]
            /\ UNCHANGED rows
        BY <3>1 DEF SelectExisting
      <4>2. IsABag(flush.batch)
        BY DEF IInv, TypeOK
      <4>3. \A r \in BagToSet(new) : RowKey(r) \notin StoredKeys
        BY <4>2, UnstoredFacts
      <4> HIDE DEF new
      <4> QED
        BY <4>1, <4>3 DEF BatchIsNew, Waiting, StoredKeys, Stored
    <3>2. CASE TakeSnapshot \/ InsertBatch \/ FlushFails
      BY <3>2 DEF TakeSnapshot, InsertBatch, FlushFails, BatchIsNew, Waiting
    <3> QED
      BY <1>3, <3>1, <3>2
  <2> QED
    BY <1>3, <2>1, FlushTypes, InsertsOnlyNew DEF IInv
<1>4. CASE ExpireRow
  <2>1. UNCHANGED flush
    BY <1>4 DEF ExpireRow
  <2>2. Stored' \subseteq Stored /\ \A r \in Stored' : rows'[r] <= rows[r]
    BY <1>4, ExpireTypes
  <2>3. BatchIsNew'
    BY <2>1, <2>2 DEF IInv, BatchIsNew, StoredKeys
  <2>4. \A r \in Stored' : rows'[r] \in Nat /\ rows[r] \in Nat
    BY <1>4, <2>2, ExpireTypes DEF IInv, TypeOK, Stored, IsABag, BagToSet
  <2>5. StoresOnlyNew
    BY <2>2, <2>4 DEF StoresOnlyNew, Stored
  <2> QED
    BY <1>4, <2>3, <2>5, ExpireTypes DEF IInv
<1>5. CASE RecordK8sResourceEvent \/ WriteK8sResourceEvent
  <2>1. UNCHANGED <<rows, flush>>
    BY <1>5 DEF RecordK8sResourceEvent, WriteK8sResourceEvent
  <2>2. BatchIsNew'
    BY <2>1 DEF IInv, BatchIsNew, StoredKeys, Stored
  <2> QED
    BY <1>5, <2>1, <2>2, EventTypes, InsertsOnlyNew DEF IInv
<1>6. CASE Restart
  <2>1. BatchIsNew'
    BY <1>6 DEF Restart, BatchIsNew, Waiting
  <2> QED
    BY <1>6, <2>1, RestartTypes, InsertsOnlyNew DEF IInv
<1> QED
  BY <1>1, <1>2, <1>3, <1>4, <1>5, <1>6 DEF Next

\* At first there is no batch.
LEMMA InitKeeps == Init => IInv
<1> SUFFICES ASSUME Init PROVE IInv
  OBVIOUS
<1>1. topology \in Graph /\ WellFormed(topology)
  BY NewTopologyWellFormed DEF Init
<1>2. FlushType(flush) /\ BatchIsNew
  BY WaitingType DEF Init, BatchIsNew, Waiting
<1> QED
  BY <1>1, <1>2, EmptyBagFacts, StoreAssumption DEF Init, IInv, TypeOK, FlushType, Stored

\* All state of the persistence has its type; in particular the batch that a
\* tick takes is a bag of flows, and the task waits exactly when it holds none.
THEOREM TypeCorrect == Spec => []TypeOK
<1>1. IInv /\ [Next]_vars => IInv'
  BY NextKeeps
<1>2. IInv => TypeOK
  BY DEF IInv
<1> QED
  BY <1>1, <1>2, InitKeeps, PTL DEF Spec

\* No row is ever inserted for a key that the table holds, whatever fails
\* before or after it took effect, and however often Core is restarted.
THEOREM NoKeyStoredAgain == Spec => NeverStoredAgain
<1>1. IInv /\ [Next]_vars => IInv'
  BY NextKeeps
<1>2. IInv /\ [Next]_vars =>
         [\A r \in BagToSet(rows') :
            (r \notin Stored \/ rows'[r] > rows[r]) => RowKey(r) \notin StoredKeys]_vars
  BY NextKeeps DEF StoresOnlyNew
<1> QED
  BY <1>1, <1>2, InitKeeps, PTL DEF Spec, NeverStoredAgain

-----------------------------------------------------------------------------
(* Events stay attached                                                    *)

LEMMA PrefixOfSelf ==
    ASSUME NEW S, NEW s \in Seq(S)
    PROVE  IsPrefixOf(s, s)
  BY DEF IsPrefixOf

\* Appending extends a sequence.
LEMMA PrefixOfAppend ==
    ASSUME NEW S, NEW s \in Seq(S), NEW x \in S
    PROVE  IsPrefixOf(s, Append(s, x))
<1> DEFINE t == Append(s, x)
           u == SubSeq(t, 1, Len(s))
<1>1. /\ t \in Seq(S) /\ Len(t) = Len(s) + 1 /\ Len(s) \in Nat
      /\ \A i \in 1 .. Len(s) : t[i] = s[i] /\ t[i] \in S
  OBVIOUS
<1> HIDE DEF t
<1>2. /\ u \in Seq(S)
      /\ Len(u) = IF 1 <= Len(s) THEN Len(s) - 1 + 1 ELSE 0
      /\ \A i \in 1 .. Len(s) - 1 + 1 : u[i] = t[1 + i - 1]
  BY <1>1, SubSeqProperties
<1>3. Len(u) = Len(s) /\ \A i \in 1 .. Len(s) : u[i] = s[i]
  BY <1>1, <1>2
<1>4. u = s
  BY <1>2, <1>3, SeqEqual
<1> QED
  BY <1>1, <1>4 DEF IsPrefixOf, t

\* A node of graph t is in u as well, with at least its events.
Attached(t, u, n) ==
    HasNode(u, n) /\ IsPrefixOf(t.nodes[n].k8s_events, u.nodes[n].k8s_events)

\* A graph with the same events keeps them attached.
LEMMA AttachedSame ==
    ASSUME NEW t \in Graph, NEW u, NEW n \in NodeId, HasNode(t, n), u.nodes[n] = t.nodes[n]
    PROVE  Attached(t, u, n)
<1>1. t.nodes[n] \in NodeData
  BY DEF Graph, HasNode
<1>2. t.nodes[n].k8s_events \in Seq(K8sEvents)
  BY <1>1 DEF NodeData
<1> QED
  BY <1>2, PrefixOfSelf DEF Attached, HasNode

\* Traffic changes no node that exists.
LEMMA CallAttached ==
    ASSUME NEW t \in Graph, NEW f \in Flow, NEW ip \in Ips,
           NEW n \in NodeId, HasNode(t, n)
    PROVE  Attached(t, RecordCall(t, f, ip, ip), n)
<1>1. ASSUME NEW g \in Graph, NEW m \in NodeId, g.nodes[n] = t.nodes[n]
      PROVE  /\ add_node(g, m, NewNode(ip)) \in Graph
             /\ add_node(g, m, NewNode(ip)).nodes[n] = t.nodes[n]
  <2>1. NewNode(ip) \in NodeData
    BY DEF NewNode, NodeData
  <2>2. add_node(g, m, NewNode(ip)) \in Graph
    BY <2>1, AddNodeFacts
  <2> QED
    BY <1>1, <2>2 DEF add_node, HasNode, Graph
<1>2. f.source_node \in NodeId /\ f.destination_node \in NodeId
  BY DEF Flow
<1> DEFINE g1 == add_node(t, f.source_node, NewNode(ip))
           g2 == add_node(g1, f.destination_node, NewNode(ip))
<1>3. g1 \in Graph /\ g1.nodes[n] = t.nodes[n]
  BY <1>1, <1>2
<1>4. g2 \in Graph /\ g2.nodes[n] = t.nodes[n]
  <2> HIDE DEF g1
  <2> QED
    BY <1>1, <1>2, <1>3
<1>5. RecordCall(t, f, ip, ip).nodes[n] = t.nodes[n]
  BY <1>4 DEF RecordCall, add_flow
<1> QED
  BY <1>5, AttachedSame

\* Healing moves the stale node and no other; the resolved node keeps its data.
LEMMA ResolveAttached ==
    ASSUME NEW t \in Graph, NEW ip \in Ips, NEW resolved \in NodeId,
           NEW n \in NodeId, HasNode(t, n), n # StaleId(ip)
    PROVE  Attached(t, resolve_unknown_node(t, ip, resolved), n)
<1>1. CASE ~ HasNode(t, StaleId(ip))
  BY <1>1, AttachedSame DEF resolve_unknown_node
<1>2. CASE HasNode(t, StaleId(ip))
  <2>1. MoveNode(t.nodes, StaleId(ip), resolved)[n] = t.nodes[n]
    BY StaleIdType DEF MoveNode, HasNode, Graph
  <2>2. resolve_unknown_node(t, ip, resolved).nodes[n] = t.nodes[n]
    BY <1>2, <2>1 DEF resolve_unknown_node
  <2> QED
    BY <2>2, AttachedSame
<1> QED
  BY <1>1, <1>2

\* A resource event goes to the end of its node's list.
LEMMA EventAttached ==
    ASSUME NEW t \in Graph, NEW m \in NodeId, NEW event \in K8sEvents,
           NEW n \in NodeId, HasNode(t, n)
    PROVE  Attached(t, add_k8s_event(t, m, event), n)
<1>1. CASE ~ HasNode(t, m) \/ m # n
  <2>1. add_k8s_event(t, m, event).nodes[n] = t.nodes[n]
    BY <1>1 DEF add_k8s_event, Graph
  <2> QED
    BY <2>1, AttachedSame
<1>2. CASE m = n
  <2> DEFINE events == t.nodes[n].k8s_events
             u == add_k8s_event(t, n, event)
  <2>1. t.nodes[n] \in NodeData /\ t.nodes \in [NodeId -> NodeData \cup {NoNode}]
    BY DEF Graph, HasNode
  <2>2. events \in Seq(K8sEvents)
    BY <2>1 DEF NodeData
  <2>3. u.nodes[n] = [t.nodes[n] EXCEPT !.k8s_events = Append(events, event)]
    BY <2>1 DEF add_k8s_event, Graph
  <2>4. u.nodes[n].k8s_events = Append(events, event)
    BY <2>1, <2>3 DEF NodeData
  <2>5. u \in Graph /\ u.nodes[n] \in NodeData
    <3>1. Append(events, event) \in Seq(K8sEvents)
      BY <2>2
    <3> QED
      BY <2>1, <2>3, <3>1 DEF add_k8s_event, Graph, NodeData
  <2>6. HasNode(u, n)
    BY <2>5, TopologyAssumption DEF HasNode
  <2> QED
    BY <1>2, <2>2, <2>4, <2>6, PrefixOfAppend DEF Attached
<1> QED
  BY <1>1, <1>2

\* Every step but a restart keeps events attached.
LEMMA StepAttached ==
    ASSUME IInv, [Next]_vars, restarts' = restarts,
           NEW n \in NodeId, HasNode(topology, n), \A ip \in Ips : n # StaleId(ip)
    PROVE  Attached(topology, topology', n)
<1>1. topology \in Graph
  BY DEF IInv, TypeOK
<1>2. CASE UNCHANGED topology
  BY <1>1, <1>2, AttachedSame
<1>3. CASE RecordFlow
  <2>1. PICK f \in Calls : topology' = RecordCall(topology, f, SomeIp, SomeIp)
    BY <1>3 DEF RecordFlow
  <2>2. f \in Flow /\ SomeIp \in Ips
    BY StoreAssumption
  <2> QED
    BY <1>1, <2>1, <2>2, CallAttached
<1>4. CASE ResolveAddress
  <2>1. PICK p \in Pods : topology' = resolve_unknown_node(topology, p[1], p[2])
    BY <1>4 DEF ResolveAddress
  <2>2. p[1] \in Ips /\ p[2] \in NodeId
    BY StoreAssumption
  <2> QED
    BY <1>1, <2>1, <2>2, ResolveAttached
<1>5. CASE RecordK8sResourceEvent
  <2>1. PICK e \in ResourceEvents : topology' = add_k8s_event(topology, e[1], e[2])
    BY <1>5 DEF RecordK8sResourceEvent
  <2>2. e[1] \in NodeId /\ e[2] \in K8sEvents
    BY StoreAssumption
  <2> QED
    BY <1>1, <2>1, <2>2, EventAttached
<1>6. ~ Restart
  BY StoreAssumption DEF Restart, IInv, TypeOK
<1> QED
  BY <1>2, <1>3, <1>4, <1>5, <1>6
     DEF Next, vars, TakeSnapshot, SelectExisting, InsertBatch, FlushFails, ExpireRow,
         WriteK8sResourceEvent

\* Events attached to a node stay attached, in order, as long as Core runs:
\* through traffic, healing of any address, flushes and further events.
THEOREM AttachedForGood == Spec => EventsStayAttached
<1>1. IInv /\ [Next]_vars => IInv'
  BY NextKeeps
<1>2. IInv /\ [Next]_vars =>
         [restarts' = restarts =>
            \A n \in NodeId :
               (HasNode(topology, n) /\ \A ip \in Ips : n # StaleId(ip)) =>
                   /\ HasNode(topology', n)
                   /\ IsPrefixOf(topology.nodes[n].k8s_events,
                                 topology'.nodes[n].k8s_events)]_vars
  BY StepAttached DEF Attached
<1> QED
  BY <1>1, <1>2, InitKeeps, PTL DEF Spec, EventsStayAttached

=============================================================================
