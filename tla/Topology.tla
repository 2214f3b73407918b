------------------------------ MODULE Topology ------------------------------
(***************************************************************************)
(* The in-memory service graph of Core (core/src/topology/topology.rs):    *)
(* its data types and the operations that change it, as operators on the   *)
(* value that the RwLock protects.  Every caller holds the write lock for  *)
(* a whole group of calls, so a caller's action composes these operators   *)
(* into one step.                                                          *)
(*                                                                         *)
(* A HashMap is a total function here: a node that is not a key of `nodes` *)
(* is mapped to NoNode, and a node without an entry in `upstream` or       *)
(* `downstream` is mapped to the empty sequence (the code never stores an  *)
(* empty Vec: an entry is created only to be pushed to or extended by a    *)
(* non-empty Vec).                                                         *)
(***************************************************************************)
EXTENDS Naturals, Sequences, Functions

CONSTANTS
    Names,       \* application, service and host names (strings)
    Ips,         \* IPv4 addresses, in the dotted form pods are keyed by
    Namespaces,  \* Kubernetes namespaces and the pseudo-namespaces below
    Unknown,     \* the literal "unknown": namespace of an unresolved name
    Paths,       \* HTTP paths
    Methods,     \* HTTP methods
    K8sEvents,   \* Kubernetes resource events that can be attached to a node
    NoNode       \* absence of a node

\* application_name holds a raw IP while the address is not resolved.
NodeId == [app: Names \cup Ips, ns: Namespaces]

Flow == [source_node: NodeId, destination_node: NodeId,
         path: Paths, method: Methods]

NodeData == [ip: Ips, k8s_events: Seq(K8sEvents)]

FlowMap == [NodeId -> Seq(Flow)]

Graph == [nodes: [NodeId -> NodeData \cup {NoNode}],
          upstream: FlowMap,     \* keyed by destination: who calls it?
          downstream: FlowMap]   \* keyed by source: what does it call?

ASSUME TopologyAssumption ==
    /\ Unknown \in Namespaces
    /\ NoNode \notin NodeData

-----------------------------------------------------------------------------
\* Topology::new
NewTopology == [nodes      |-> [n \in NodeId |-> NoNode],
                upstream   |-> [n \in NodeId |-> << >>],
                downstream |-> [n \in NodeId |-> << >>]]

HasNode(t, n) == t.nodes[n] # NoNode

\* The first NodeData inserted under a key is kept.
add_node(t, n, data) ==
    IF HasNode(t, n) THEN t ELSE [t EXCEPT !.nodes[n] = data]

\* Vec::contains
Contains(flows, f) == f \in Range(flows)

\* "if !flows.contains(&flow) { flows.push(flow) }"
PushNew(flows, f) == IF Contains(flows, f) THEN flows ELSE Append(flows, f)

\* Each of the two indexes checks for the flow on its own.
add_flow(t, f) ==
    [nodes      |-> t.nodes,
     upstream   |-> [t.upstream EXCEPT ![f.destination_node] = PushNew(@, f)],
     downstream |-> [t.downstream EXCEPT ![f.source_node] = PushNew(@, f)]]

\* What record_ebpf_event does to the graph while it holds the write lock.
NewNode(ip) == [ip |-> ip, k8s_events |-> << >>]

RecordCall(t, f, src_ip, dst_ip) ==
    add_flow(add_node(add_node(t, f.source_node, NewNode(src_ip)),
                      f.destination_node, NewNode(dst_ip)),
             f)

\* An event about a node that is not in the graph is not attached.
add_k8s_event(t, n, event) ==
    IF HasNode(t, n)
    THEN [t EXCEPT !.nodes[n].k8s_events = Append(@, event)]
    ELSE t

-----------------------------------------------------------------------------
\* The node an event creates for an address that no pod mapping resolves.
StaleId(ip) == [app |-> ip, ns |-> Unknown]

Renamed(n, stale, resolved) == IF n = stale THEN resolved ELSE n

\* Mutant: only the caller's end of a flow is rewritten.
Rewired_SourceOnly(f, stale, resolved) ==
    [f EXCEPT !.source_node = Renamed(@, stale, resolved)]

Rewired(f, stale, resolved) ==
    [f EXCEPT !.source_node = Renamed(@, stale, resolved),
              !.destination_node = Renamed(@, stale, resolved)]

\* Mutant: the stale node's data replaces the resolved node's.
MoveNode_Overwrite(nodes, stale, resolved) ==
    [nodes EXCEPT ![stale] = NoNode, ![resolved] = nodes[stale]]

\* Mutant: the stale node is copied and not removed.
MoveNode_Keep(nodes, stale, resolved) ==
    [nodes EXCEPT ![resolved] = IF @ = NoNode THEN nodes[stale] ELSE @]

\* Node data moves to the resolved key unless that key already has data.
MoveNode(nodes, stale, resolved) ==
    LET removed == [nodes EXCEPT ![stale] = NoNode]
    IN  [removed EXCEPT ![resolved] = IF @ = NoNode THEN nodes[stale] ELSE @]

\* Mutant: insert(resolved, flows) replaces the flows of the resolved node.
Rekey_Overwrite(index, stale, resolved) ==
    IF index[stale] = << >> THEN index
    ELSE [index EXCEPT ![stale] = << >>, ![resolved] = index[stale]]

\* remove(stale), then entry(resolved).or_default().extend(flows).
Rekey(index, stale, resolved) ==
    LET removed == [index EXCEPT ![stale] = << >>]
    IN  [removed EXCEPT ![resolved] = @ \o index[stale]]

RewireAll(index, stale, resolved) ==
    [n \in NodeId |-> [i \in DOMAIN index[n] |->
                          Rewired(index[n][i], stale, resolved)]]

Heal(index, stale, resolved) ==
    RewireAll(Rekey(index, stale, resolved), stale, resolved)

\* Nothing to fix if no stale node exists for this IP.
resolve_unknown_node(t, ip, resolved) ==
    IF HasNode(t, StaleId(ip))
    THEN [nodes      |-> MoveNode(t.nodes, StaleId(ip), resolved),
          upstream   |-> Heal(t.upstream, StaleId(ip), resolved),
          downstream |-> Heal(t.downstream, StaleId(ip), resolved)]
    ELSE t

-----------------------------------------------------------------------------
(* What makes a value of type Graph a well-formed service graph.           *)

\* upstream lists under a node exactly calls to it, downstream calls from it.
KeyedByEndpoint(t) == \A n \in NodeId :
    /\ \A f \in Range(t.upstream[n]) : f.destination_node = n
    /\ \A f \in Range(t.downstream[n]) : f.source_node = n

InUpstream(t, f) == Contains(t.upstream[f.destination_node], f)
InDownstream(t, f) == Contains(t.downstream[f.source_node], f)

\* The two indexes hold the same flows.
Mirrored(t) == \A n \in NodeId :
    /\ \A f \in Range(t.upstream[n]) : InDownstream(t, f)
    /\ \A f \in Range(t.downstream[n]) : InUpstream(t, f)

\* No dangling edge: both ends of every flow are nodes of the graph.
EndpointsKnown(t) == \A n \in NodeId : \A f \in Range(t.downstream[n]) :
    HasNode(t, f.source_node) /\ HasNode(t, f.destination_node)

WellFormed(t) == KeyedByEndpoint(t) /\ Mirrored(t) /\ EndpointsKnown(t)

=============================================================================
