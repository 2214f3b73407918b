-------------------------------- MODULE Store --------------------------------
(***************************************************************************)
(* Core's persistence: the flush timer that copies the service graph into  *)
(* ClickHouse (EbpfAggregator::start_flush_timer, DAO::add_events) and the *)
(* Kubernetes resource events, each attached to the graph at once and      *)
(* written to the database by a task of its own                            *)
(* (K8sAggregator::record_k8s_resource_event).                             *)
(*                                                                         *)
(* Each await on the database is a step boundary: the graph, which ingest  *)
(* keeps changing, and the table, whose rows expire, may change in         *)
(* between, a request may fail before or after it took effect, and Core    *)
(* may be restarted.  RecordFlow and ResolveAddress are the two lock       *)
(* sections by which ingest changes the graph; module Ingest says when     *)
(* they happen, here they may happen at any time, once per edge key.       *)
(***************************************************************************)
EXTENDS Topology, FiniteSets, Bags

CONSTANTS
    Calls,        \* the flows that ingest may record
    Pods,         \* <<ip, NodeId>>: mappings that may heal the graph
    SomeIp,       \* the address new nodes are created with
    ResourceEvents, \* <<NodeId, K8sEvent>>: resource events the agent may send
    MaxResourceEvents, \* bound on the resource events received
    MaxExpired,   \* bound on the rows that expire
    MaxRestarts   \* bound on the restarts of Core

ASSUME StoreAssumption ==
    /\ Calls \subseteq Flow
    /\ Pods \subseteq Ips \X NodeId
    /\ SomeIp \in Ips
    /\ ResourceEvents \subseteq NodeId \X K8sEvents
    /\ MaxResourceEvents \in Nat
    /\ MaxExpired \in Nat
    /\ MaxRestarts \in Nat

VARIABLES
    topology,   \* the graph behind the RwLock
    seenEdges,  \* the calls recorded since the start, one per edge key
    rows,       \* the bag of rows of the table ebpf_network_events
    k8sRows,    \* the bag of rows of the table k8s_resource_events
    flush,      \* the flush timer's task: its pc and the batch it holds
    writers,    \* the bag of resource events whose database task is running
    expired,    \* how many rows expired
    received,   \* how many resource events were received
    restarts    \* how often Core was restarted

vars == <<topology, seenEdges, rows, k8sRows, flush, writers,
          expired, received, restarts>>

\* A row holds the flow: timestamp, ports (always 0) and the columns that
\* repeat a name are left out.
Row == Flow

\* DISTINCT src_application, dst_application, path (and the constant port).
RowKey(row) ==
    <<row.source_node.app, row.destination_node.app, row.path>>

Stored == BagToSet(rows)
StoredKeys == {RowKey(r) : r \in Stored}

Waiting == [pc |-> "waiting", batch |-> EmptyBag]

TypeOK ==
    /\ topology \in Graph
    /\ seenEdges \subseteq Calls
    /\ IsABag(rows) /\ Stored \subseteq Row
    /\ IsABag(k8sRows) /\ BagToSet(k8sRows) \subseteq ResourceEvents
    /\ flush.pc \in {"waiting", "select", "insert"}
    /\ IsABag(flush.batch) /\ BagToSet(flush.batch) \subseteq Row
    /\ (flush.pc = "waiting") <=> (flush.batch = EmptyBag)
    /\ IsABag(writers) /\ BagToSet(writers) \subseteq ResourceEvents
    /\ expired \in 0 .. MaxExpired
    /\ received \in 0 .. MaxResourceEvents
    /\ restarts \in 0 .. MaxRestarts

Init ==
    /\ topology = NewTopology
    /\ seenEdges = {}
    /\ rows = EmptyBag
    /\ k8sRows = EmptyBag
    /\ flush = Waiting
    /\ writers = EmptyBag
    /\ expired = 0
    /\ received = 0
    /\ restarts = 0

-----------------------------------------------------------------------------
(* The graph                                                               *)

\* The first event of an edge key; every later one is discarded.
RecordFlow ==
    /\ \E f \in Calls \ seenEdges :
          /\ topology' = RecordCall(topology, f, SomeIp, SomeIp)
          /\ seenEdges' = seenEdges \cup {f}
    /\ UNCHANGED <<rows, k8sRows, flush, writers, expired, received, restarts>>

ResolveAddress ==
    /\ \E p \in Pods : topology' = resolve_unknown_node(topology, p[1], p[2])
    /\ UNCHANGED <<seenEdges, rows, k8sRows, flush, writers,
                   expired, received, restarts>>

-----------------------------------------------------------------------------
(* The flush timer                                                         *)

Occurrences(f) ==
    Cardinality({i \in DOMAIN topology.downstream[f.source_node] :
                    topology.downstream[f.source_node][i] = f})

\* topo.downstream.values().flatten(), copied under the read lock.
Snapshot == [f \in UNION {Range(topology.downstream[n]) : n \in NodeId} |->
                Occurrences(f)]

\* Mutant: a tick is skipped when the table already holds rows.
TakeSnapshot_Once ==
    /\ flush.pc = "waiting"
    /\ Snapshot # EmptyBag
    /\ rows = EmptyBag
    /\ flush' = [pc |-> "select", batch |-> Snapshot]
    /\ UNCHANGED <<topology, seenEdges, rows, k8sRows, writers,
                   expired, received, restarts>>

\* A tick.  With nothing to write the loop goes back to wait.
TakeSnapshot ==
    /\ flush.pc = "waiting"
    /\ Snapshot # EmptyBag
    /\ flush' = [pc |-> "select", batch |-> Snapshot]
    /\ UNCHANGED <<topology, seenEdges, rows, k8sRows, writers,
                   expired, received, restarts>>

\* The rows of the batch whose key the table does not hold.
Unstored(batch) ==
    [r \in {x \in DOMAIN batch : RowKey(x) \notin StoredKeys} |-> batch[r]]

\* Mutant: the early return for an empty list of new rows is missing.
SelectExisting_NoReturn ==
    /\ flush.pc = "select"
    /\ flush' = [pc |-> "insert", batch |-> Unstored(flush.batch)]
    /\ UNCHANGED <<topology, seenEdges, rows, k8sRows, writers,
                   expired, received, restarts>>

\* add_events: SELECT DISTINCT, then filter.  Duplicates within the batch are
\* not looked for.
SelectExisting ==
    /\ flush.pc = "select"
    /\ LET new == Unstored(flush.batch)
       IN  flush' = IF new = EmptyBag THEN Waiting
                    ELSE [pc |-> "insert", batch |-> new]
    /\ UNCHANGED <<topology, seenEdges, rows, k8sRows, writers,
                   expired, received, restarts>>

\* insert.end() succeeds: ClickHouse commits the batch as one block.
InsertBatch ==
    /\ flush.pc = "insert"
    /\ rows' = rows (+) flush.batch
    /\ flush' = Waiting
    /\ UNCHANGED <<topology, seenEdges, k8sRows, writers,
                   expired, received, restarts>>

\* Mutant: after an error the same batch is inserted again.
FlushFails_Retry ==
    /\ flush.pc \in {"select", "insert"}
    /\ \/ UNCHANGED rows
       \/ flush.pc = "insert" /\ rows' = rows (+) flush.batch
    /\ UNCHANGED flush
    /\ UNCHANGED <<topology, seenEdges, k8sRows, writers,
                   expired, received, restarts>>

\* The query or the insert fails: logged, and the timer waits for its next
\* tick.  An insert whose answer is lost may have been committed.
FlushFails ==
    /\ flush.pc \in {"select", "insert"}
    /\ \/ UNCHANGED rows
       \/ flush.pc = "insert" /\ rows' = rows (+) flush.batch
    /\ flush' = Waiting
    /\ UNCHANGED <<topology, seenEdges, k8sRows, writers,
                   expired, received, restarts>>

\* TTL ... + INTERVAL 7 DAY: ClickHouse drops old rows in background merges.
ExpireRow ==
    /\ expired < MaxExpired
    /\ expired' = expired + 1
    /\ \E r \in Stored : rows' = rows (-) SetToBag({r})
    /\ UNCHANGED <<topology, seenEdges, k8sRows, flush, writers, received, restarts>>

-----------------------------------------------------------------------------
(* Resource events                                                         *)

\* record_k8s_resource_event: spawn the database write, then attach.
RecordK8sResourceEvent ==
    /\ received < MaxResourceEvents
    /\ received' = received + 1
    /\ \E e \in ResourceEvents :
          /\ writers' = writers (+) SetToBag({e})
          /\ topology' = add_k8s_event(topology, e[1], e[2])
    /\ UNCHANGED <<seenEdges, rows, k8sRows, flush, expired, restarts>>

\* add_k8s_resource_event; an error is logged and the event not retried.
WriteK8sResourceEvent ==
    /\ \E e \in BagToSet(writers) :
          /\ writers' = writers (-) SetToBag({e})
          /\ k8sRows' \in {k8sRows, k8sRows (+) SetToBag({e})}
    /\ UNCHANGED <<topology, seenEdges, rows, flush,
                   expired, received, restarts>>

-----------------------------------------------------------------------------
\* The process is gone, the tables stay.  An insert that is on its way is
\* committed or lost.
Restart ==
    /\ restarts < MaxRestarts
    /\ restarts' = restarts + 1
    /\ \/ UNCHANGED rows
       \/ flush.pc = "insert" /\ rows' = rows (+) flush.batch
    /\ topology' = NewTopology
    /\ seenEdges' = {}
    /\ flush' = Waiting
    /\ writers' = EmptyBag
    /\ UNCHANGED <<k8sRows, expired, received>>

Next ==
    \/ RecordFlow \/ ResolveAddress
    \/ TakeSnapshot \/ SelectExisting \/ InsertBatch \/ FlushFails
    \/ ExpireRow
    \/ RecordK8sResourceEvent \/ WriteK8sResourceEvent
    \/ Restart

Spec == Init /\ [][Next]_vars

\* The timer ticks for ever, and a database that is asked again and again
\* sometimes answers: neither the query nor the insert fails every time.
FairSpec ==
    /\ Spec
    /\ WF_vars(TakeSnapshot)
    /\ SF_vars(SelectExisting)
    /\ SF_vars(InsertBatch)

-----------------------------------------------------------------------------
(* Properties                                                              *)

\* A failed flush is retried by the next tick, maybe after it was committed
\* in fact, and a restarted Core flushes the same calls again; still no row is
\* ever inserted for a key that the table holds.
NeverStoredAgain ==
    [][\A r \in BagToSet(rows') :
          (r \notin Stored \/ rows'[r] > rows[r]) => RowKey(r) \notin StoredKeys]_vars

\* A call that the graph shows reaches the table, under its key, unless Core
\* forgets the call first: failures, restarts and expiry only delay it.
EventuallyStored ==
    \A f \in Calls :
        InDownstream(topology, f) ~>
            \/ RowKey(f) \in StoredKeys
            \/ ~ InDownstream(topology, f)

\* Events attached to a node of the graph stay attached, in order, when an
\* address that shares the node is resolved and when traffic reaches it again.
IsPrefixOf(s, t) == Len(s) <= Len(t) /\ SubSeq(t, 1, Len(s)) = s

EventsStayAttached ==
    [][restarts' = restarts =>
         \A n \in NodeId :
            (HasNode(topology, n) /\ \A ip \in Ips : n # StaleId(ip)) =>
                /\ HasNode(topology', n)
                /\ IsPrefixOf(topology.nodes[n].k8s_events,
                              topology'.nodes[n].k8s_events)]_vars

\* The flush timer "syncs all current flows to ClickHouse".
AllFlowsStored ==
    \A f \in Calls :
        InDownstream(topology, f) ~> (f \in Stored \/ ~ InDownstream(topology, f))
=============================================================================
