------------------------------ MODULE Subgraph ------------------------------
(***************************************************************************)
(* The read side of the service graph: the breadth-first query             *)
(* Topology::get_subgraph, the answers of the HTTP endpoints built from    *)
(* it, and the MCP tool that lists a service's neighbours.  All of them    *)
(* read the graph under one read lock, so each is a function of its value. *)
(*                                                                         *)
(* A map key "namespace/application" stands for its NodeId: a namespace    *)
(* holds no slash, so the two determine each other.                        *)
(***************************************************************************)
EXTENDS Topology

SX == INSTANCE SequencesExt

-----------------------------------------------------------------------------
(* get_subgraph                                                            *)

\* Mutant: the visited set is not consulted.
Visit_Again(s, n, f) ==
    [visited |-> s.visited \cup {f.destination_node},
     edges   |-> s.edges \cup {<<n, f.destination_node>>},
     next    |-> Append(s.next, f.destination_node)]

\* The first flow that leads to a node makes its source the node's parent.
Visit(s, n, f) ==
    IF f.destination_node \in s.visited THEN s
    ELSE [visited |-> s.visited \cup {f.destination_node},
          edges   |-> s.edges \cup {<<n, f.destination_node>>},
          next    |-> Append(s.next, f.destination_node)]

Expand(t, s, n) ==
    LET flows == t.downstream[n]
        after[k \in 0 .. Len(flows)] ==
            IF k = 0 THEN s ELSE Visit(after[k - 1], n, flows[k])
    IN  after[Len(flows)]

\* One round: every node of the frontier in turn.
Hop(t, s) ==
    LET after[k \in 0 .. Len(s.next)] ==
            IF k = 0 THEN [s EXCEPT !.next = << >>]
            ELSE Expand(t, after[k - 1], s.next[k])
    IN  after[Len(s.next)]

FromRoot(root) == [visited |-> {root}, edges |-> {}, next |-> <<root>>]

\* Mutant: "0..=depth".
Bfs_OneMore(t, root, depth) ==
    LET after[k \in Nat] == IF k = 0 THEN FromRoot(root) ELSE Hop(t, after[k - 1])
    IN  after[depth + 1]

\* A round with an empty frontier changes nothing, like the code's break.
Bfs(t, root, depth) ==
    LET after[k \in Nat] == IF k = 0 THEN FromRoot(root) ELSE Hop(t, after[k - 1])
    IN  after[depth]

SubgraphOf(nodes, up, down) ==
    [nodes |-> nodes, upstream |-> up, downstream |-> down]

NoFlows == [n \in NodeId |-> << >>]

\* Mutant: root's callers are not added to the nodes.
AllNodes_NoCallers(t, root, visited) == visited

\* Root's callers are nodes of the answer, but are not expanded.
AllNodes(t, root, visited) ==
    visited \cup {f.source_node : f \in Range(t.upstream[root])}

\* iter().filter(): the flows that are in `keep`, in their order.
Filter(flows, keep) ==
    LET kept[k \in 0 .. Len(flows)] ==
            IF k = 0 THEN << >>
            ELSE IF flows[k] \in keep THEN Append(kept[k - 1], flows[k])
            ELSE kept[k - 1]
    IN  kept[Len(flows)]

\* Root keeps all its flows, the other visited nodes those on the tree.
Visible(index, root, visited, tree) ==
    [n \in NodeId |-> CASE n = root -> index[n]
                        [] n \in visited \ {root} -> Filter(index[n], tree[n])
                        [] OTHER -> << >>]

\* The flows into and out of each node along edges of the tree.
TreeIn(t, edges) ==
    [n \in NodeId |-> {f \in Range(t.upstream[n]) : <<f.source_node, n>> \in edges}]
TreeOut(t, edges) ==
    [n \in NodeId |-> {f \in Range(t.downstream[n]) : <<n, f.destination_node>> \in edges}]

get_subgraph(t, root, depth) ==
    LET s == Bfs(t, root, depth)
    IN  IF ~ HasNode(t, root) THEN SubgraphOf({}, NoFlows, NoFlows)
        ELSE SubgraphOf(AllNodes(t, root, s.visited),
                        Visible(t.upstream, root, s.visited, TreeIn(t, s.edges)),
                        Visible(t.downstream, root, s.visited, TreeOut(t, s.edges)))

-----------------------------------------------------------------------------
(* The answers of /api/topology and /api/topology/subgraph                 *)

\* A flow of an HTTP answer names applications without their namespaces.
FlowDto(f) == [source |-> f.source_node.app, destination |-> f.destination_node.app,
               method |-> f.method, path |-> f.path]

FlowLists(index) ==
    [n \in NodeId |-> [i \in DOMAIN index[n] |-> FlowDto(index[n][i])]]

\* Nodes of the subgraph that the graph does not know are left out.
NodeDtos(t, ids) ==
    [n \in {m \in ids : HasNode(t, m)} |-> t.nodes[n].ip]

TopologyResponse(t, sg) ==
    [nodes |-> NodeDtos(t, sg.nodes), upstream |-> FlowLists(sg.upstream),
     downstream |-> FlowLists(sg.downstream)]

topology_handler(t) ==
    TopologyResponse(t, SubgraphOf(NodeId, t.upstream, t.downstream))

topology_subgraph(t, root, depth) ==
    TopologyResponse(t, get_subgraph(t, root, depth))

-----------------------------------------------------------------------------
(* The gRPC answer, and the MCP tool get_service_dependencies on top of it *)

\* A TopologyEdge keeps the namespaces of both ends.
TopologyEdge(f) == [source |-> f.source_node, destination |-> f.destination_node,
                    method |-> f.method, path |-> f.path]

to_flow_list(flows) == [i \in DOMAIN flows |-> TopologyEdge(flows[i])]

get_topology(t) ==
    [nodes      |-> NodeDtos(t, NodeId),
     upstream   |-> [n \in NodeId |-> to_flow_list(t.upstream[n])],
     downstream |-> [n \in NodeId |-> to_flow_list(t.downstream[n])]]

\* The lines printed for a service: the other end and the request.
CallerLine(e) == [service |-> e.source, method |-> e.method, path |-> e.path]
CalleeLine(e) == [service |-> e.destination, method |-> e.method, path |-> e.path]

\* "not found in topology" has no lines at all.
get_service_dependencies(t, n) ==
    LET topo == get_topology(t)
    IN  IF n \in DOMAIN topo.nodes
        THEN [callers |-> {CallerLine(e) : e \in Range(topo.upstream[n])},
              callees |-> {CalleeLine(e) : e \in Range(topo.downstream[n])}]
        ELSE [callers |-> {}, callees |-> {}]

-----------------------------------------------------------------------------
(* What the queries promise, for one value of the graph                    *)

CallPairs(t) == {<<f.source_node, f.destination_node>> :
                    f \in UNION {Range(t.downstream[n]) : n \in NodeId}}

\* The nodes at the end of a chain of at most k calls from root.
Within(t, root, k) ==
    LET calls == CallPairs(t)
        reach[j \in Nat] ==
            IF j = 0 THEN {root}
            ELSE reach[j - 1] \cup {n \in NodeId : \E m \in reach[j - 1] :
                                                      <<m, n>> \in calls}
    IN  reach[k]

Callers(t, root) == {n \in NodeId : <<n, root>> \in CallPairs(t)}

\* The answer holds exactly the services within `depth` calls of the root
\* and its callers, each with its data.
ExactNodes(t, root, depth) ==
    DOMAIN topology_subgraph(t, root, depth).nodes =
        IF HasNode(t, root) THEN Within(t, root, depth) \cup Callers(t, root)
        ELSE {}

Parents(sg, n) == {f.source_node : f \in Range(sg.upstream[n])}

\* Every service within reach hangs on one caller, which is one call closer to
\* the root.
HangsByLevel(t, root, depth, sg) ==
    LET level[k \in 0 .. depth] == Within(t, root, k)
    IN  \A k \in 1 .. depth : \A n \in level[k] \ level[k - 1] :
           \E p \in level[k - 1] :
              /\ Parents(sg, n) = {p}
              /\ k > 1 => p \notin level[k - 2]

\* A call is shown at its caller exactly if it is shown at its callee.  The
\* calls to the root are the exception: the root shows them whoever makes them.
ShownAtBothEnds(root, sg) ==
    \A n \in NodeId :
       /\ \A f \in Range(sg.downstream[n]) : f \in Range(sg.upstream[f.destination_node])
       /\ n # root =>
             \A f \in Range(sg.upstream[n]) : f \in Range(sg.downstream[f.source_node])

\* Services out of reach show no calls, the root's callers among them.
NothingBeyond(t, root, depth, sg) ==
    \A n \in NodeId \ Within(t, root, depth) :
       Range(sg.upstream[n]) \cup Range(sg.downstream[n]) = {}

\* The root shows the calls that the MCP tool lists for it, on the tree or not.
RootShowsAll(t, root, sg) ==
    LET deps == get_service_dependencies(t, root)
    IN  /\ {CallerLine(TopologyEdge(f)) : f \in Range(sg.upstream[root])} = deps.callers
        /\ {CalleeLine(TopologyEdge(f)) : f \in Range(sg.downstream[root])} = deps.callees

\* "Root node: all incoming + all outgoing edges included.  All other visible
\* nodes: only the single BFS-tree edge."
IsTree(t, root, depth) ==
    LET sg == get_subgraph(t, root, depth)
    IN  /\ HangsByLevel(t, root, depth, sg)
        /\ ShownAtBothEnds(root, sg)
        /\ NothingBeyond(t, root, depth, sg)
        /\ RootShowsAll(t, root, sg)

=============================================================================
