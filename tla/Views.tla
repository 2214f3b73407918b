-------------------------------- MODULE Views --------------------------------
(***************************************************************************)
(* The topology view of the UI (ui/src/views/TopologyView.tsx) in front of *)
(* a graph that grows and is healed.  The view fetches the full topology   *)
(* now and then, and the subgraph of the selected service whenever the     *)
(* selection or the depth changes.  Requests overlap, may fail, and their  *)
(* answers are applied in the order in which they happen to arrive.        *)
(*                                                                         *)
(* React runs the effects of a state change before the next event, so an   *)
(* event and the fetches it causes are one action.                         *)
(***************************************************************************)
EXTENDS Subgraph, FiniteSets

CONSTANTS
    None,       \* null, undefined, an answer that is not there yet
    CallSet,    \* the flows that record_ebpf_event may add
    Resolved,   \* the name an address gets when its pod becomes known
    Depths,     \* the depths the view offers, Infinity as a large one
    MaxSteps,   \* bound on the calls recorded plus the requests sent
    MaxFaults   \* bound on failed and overtaking answers

\* What a request asks for: the whole topology, or a root and a depth.
Full == << >>
Query == NodeId \X Depths

FlowDtoType == [source: Names \cup Ips, destination: Names \cup Ips,
                method: Methods, path: Paths]

FlowDtoMap == [NodeId -> Seq(FlowDtoType)]

NodeDtoMap == UNION {[ids -> Ips] : ids \in SUBSET NodeId}

Response == [nodes: NodeDtoMap, upstream: FlowDtoMap, downstream: FlowDtoMap]

ASSUME ViewsAssumption ==
    /\ CallSet \subseteq Flow
    /\ Resolved \in [Ips -> NodeId]
    /\ Depths \subseteq Nat \ {0}
    /\ 1 \in Depths
    /\ MaxSteps \in Nat
    /\ MaxFaults \in Nat
    /\ None \notin [of: Query, data: Response]

VARIABLES
    topology,      \* Core's graph
    raw,           \* the last answer to /api/topology
    subgraphData,  \* the last answer to /api/topology/subgraph and its query
    selected,      \* selectedNodeId
    depth,         \* the depth chosen in the view
    requests,      \* requests in flight, oldest first
    steps,         \* counts calls and requests, see MaxSteps
    faults         \* counts failed and overtaking answers

vars == <<topology, raw, subgraphData, selected, depth, requests, steps, faults>>

IsResponse(r) ==
    /\ DOMAIN r.nodes \subseteq NodeId
    /\ \A n \in DOMAIN r.nodes : r.nodes[n] \in Ips
    /\ r.upstream \in FlowDtoMap
    /\ r.downstream \in FlowDtoMap

\* Flows of an answer whose ends are not both among its nodes cannot be
\* drawn: transformTopologyData skips them.
AppNames(r) == {n.app : n \in DOMAIN r.nodes}
Drawable(r) == \A n \in NodeId : \A f \in Range(r.upstream[n]) \cup Range(r.downstream[n]) :
                  {f.source, f.destination} \subseteq AppNames(r)

TypeOK ==
    /\ topology \in Graph
    /\ raw # None => IsResponse(raw)
    /\ subgraphData # None => /\ subgraphData.of \in Query
                              /\ IsResponse(subgraphData.data)
    /\ selected \in NodeId \cup {None}
    /\ depth \in Depths
    /\ \A i \in DOMAIN requests :
          /\ requests[i].query \in Query \cup {Full}
          /\ requests[i].answer # None => IsResponse(requests[i].answer)
    /\ steps \in 0 .. MaxSteps
    /\ faults \in 0 .. MaxFaults

\* On mount the view fetches the topology.
Init ==
    /\ topology = NewTopology
    /\ raw = None
    /\ subgraphData = None
    /\ selected = None
    /\ depth = 1
    /\ requests = <<[query |-> Full, answer |-> None]>>
    /\ steps = 0
    /\ faults = 0

ui == <<raw, subgraphData, selected, depth>>

-----------------------------------------------------------------------------
(* Core                                                                    *)

AddCall ==
    /\ steps < MaxSteps
    /\ steps' = steps + 1
    /\ \E f \in CallSet, src, dst \in Ips :
          topology' = RecordCall(topology, f, src, dst)
    /\ UNCHANGED <<ui, requests, faults>>

HealNode ==
    /\ \E ip \in Ips :
          /\ HasNode(topology, StaleId(ip))
          /\ topology' = resolve_unknown_node(topology, ip, Resolved[ip])
    /\ UNCHANGED <<ui, requests, steps, faults>>

\* The handler of one request reads the graph as it is now.
Serve(i) ==
    /\ requests[i].answer = None
    /\ requests' = [requests EXCEPT ![i].answer =
                      IF requests[i].query = Full THEN topology_handler(topology)
                      ELSE topology_subgraph(topology, requests[i].query[1],
                                                       requests[i].query[2])]
    /\ UNCHANGED <<topology, ui, steps, faults>>

-----------------------------------------------------------------------------
(* transformTopologyData                                                   *)

\* nameToId: of several nodes with one application name the last one wins,
\* in the unspecified order of the answer's map.
NameToId(r) ==
    {ids \in [AppNames(r) -> DOMAIN r.nodes] : \A a \in AppNames(r) : ids[a].app = a}

\* The "downstream" connections drawn.
Connections(r, ids) ==
    {<<ids[f.source], ids[f.destination]>> :
        f \in {g \in UNION {Range(r.downstream[n]) : n \in NodeId} :
                  {g.source, g.destination} \subseteq AppNames(r)}}

OutDegree(conns, n) == Cardinality({c \in conns : c[1] = n})

\* The services with the most outgoing connections; which of them comes
\* first, and which name sorts first if there is no connection, is left open.
RootServices(r) ==
    UNION {LET conns == Connections(r, ids)
           IN  {n \in DOMAIN r.nodes : \A m \in DOMAIN r.nodes :
                   OutDegree(conns, m) <= OutDegree(conns, n)} :
           ids \in NameToId(r)}

-----------------------------------------------------------------------------
(* The view                                                                *)

displayData == IF selected # None /\ subgraphData # None THEN subgraphData.data
               ELSE raw

\* Sends a request for q after the ones in rest.
Send(rest, q) ==
    /\ steps < MaxSteps
    /\ steps' = steps + 1
    /\ requests' = Append(rest, [query |-> q, answer |-> None])

\* The refresh button and the 30-second timer.
FetchTopology ==
    /\ Send(requests, Full)
    /\ UNCHANGED <<topology, ui, faults>>

\* A click on a node, or a choice from the list of the services shown.
SelectNode(n) ==
    /\ displayData # None
    /\ n \in DOMAIN displayData.nodes \ {selected}
    /\ selected' = n
    /\ Send(requests, <<n, depth>>)
    /\ UNCHANGED <<topology, raw, subgraphData, depth, faults>>

\* Mutant: the absence of a root is not checked.
AutoSelect_Unguarded(r, rest) ==
    \E n \in IF r = None \/ DOMAIN r.nodes = {} THEN {None} ELSE RootServices(r) :
        selected' = n /\ Send(rest, <<n, depth>>)

\* Without a selection the root of the full topology is selected at once.
AutoSelect(r, rest) ==
    IF r = None \/ DOMAIN r.nodes = {}
    THEN selected' = None /\ requests' = rest /\ UNCHANGED steps
    ELSE \E n \in RootServices(r) : selected' = n /\ Send(rest, <<n, depth>>)

ClearSelection ==
    /\ selected # None
    /\ subgraphData' = None
    /\ AutoSelect(raw, requests)
    /\ UNCHANGED <<topology, raw, depth, faults>>

\* Mutant: the fetch depends on the selected node alone.
SetDepth_NoFetch(d) ==
    /\ d # depth
    /\ depth' = d
    /\ UNCHANGED <<topology, raw, subgraphData, selected, requests, steps, faults>>

SetDepth(d) ==
    /\ d # depth
    /\ depth' = d
    /\ IF selected # None THEN Send(requests, <<selected, d>>)
                          ELSE UNCHANGED <<requests, steps>>
    /\ UNCHANGED <<topology, raw, subgraphData, selected, faults>>

Overtakes(i) == \E j \in 1 .. i - 1 : requests[j].query # Full

RawArrives(i) ==
    /\ requests[i].answer # None
    /\ requests[i].query = Full
    /\ raw' = requests[i].answer
    /\ LET rest == SX!RemoveAt(requests, i)
       IN  IF selected = None THEN AutoSelect(raw', rest)
           ELSE requests' = rest /\ UNCHANGED <<selected, steps>>
    /\ UNCHANGED <<topology, subgraphData, depth, faults>>

\* No answer is compared with what is selected when it arrives.
SubgraphArrives(i) ==
    /\ requests[i].answer # None
    /\ requests[i].query # Full
    /\ faults' = faults + IF Overtakes(i) THEN 1 ELSE 0
    /\ faults' <= MaxFaults
    /\ subgraphData' = [of |-> requests[i].query, data |-> requests[i].answer]
    /\ requests' = SX!RemoveAt(requests, i)
    /\ UNCHANGED <<topology, raw, selected, depth, steps>>

\* An error leaves the data of the view as it is.
FetchFails(i) ==
    /\ faults < MaxFaults
    /\ faults' = faults + 1
    /\ requests' = SX!RemoveAt(requests, i)
    /\ UNCHANGED <<topology, ui, steps>>

Next ==
    \/ AddCall \/ HealNode
    \/ FetchTopology \/ ClearSelection
    \/ \E n \in NodeId : SelectNode(n)
    \/ \E d \in Depths : SetDepth(d)
    \/ \E i \in DOMAIN requests :
          Serve(i) \/ RawArrives(i) \/ SubgraphArrives(i) \/ FetchFails(i)

Spec == Init /\ [][Next]_vars

-----------------------------------------------------------------------------
(* Properties                                                              *)

\* get_subgraph, through the endpoint's filter on known nodes, answers with
\* exactly the services within `depth` calls of the root and the root's
\* callers, whatever cycles, parallel calls and healed addresses the graph has.
SubgraphExact ==
    \A root \in NodeId, d \in Depths \cup {0} : ExactNodes(topology, root, d)

\* "only the single BFS-tree edge": every other service within reach hangs on
\* one caller, one call closer to the root, and its calls are shown at both
\* their ends or at none.  "Root node: all incoming + all outgoing edges": the
\* root alone shows calls whose caller does not, and it shows the same calls as
\* the MCP tool.  Cycles, parallel calls and merged lists make the two differ.
SubgraphIsTree ==
    \A root \in NodeId, d \in Depths :
        HasNode(topology, root) => IsTree(topology, root, d)

\* Everything the view receives can be drawn: no flow of an answer, at most
\* as old as the request, refers to a service that the answer does not hold.
AnswersDrawable ==
    /\ \A i \in DOMAIN requests :
          requests[i].answer # None => Drawable(requests[i].answer)
    /\ displayData # None => Drawable(displayData)

\* As long as no answer failed or overtook an older one, the view shows the
\* selected service at the chosen depth or is waiting for exactly that.
SelectionShown ==
    (faults = 0 /\ selected # None) =>
        \/ subgraphData # None /\ subgraphData.of = <<selected, depth>>
        \/ \E i \in DOMAIN requests : requests[i].query = <<selected, depth>>

=============================================================================
