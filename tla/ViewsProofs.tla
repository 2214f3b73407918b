----------------------------- MODULE ViewsProofs -----------------------------
(***************************************************************************)
(* What users are shown.  The topology view, for any graph, depths, number *)
(* of requests and order of their answers: types, that the queries are     *)
(* exact and give trees, that every answer can be drawn, and that the view *)
(* shows or awaits what is selected.  Then the event tables, for any sizes *)
(* of pages and batches: what paging may miss, and the windows of the MCP  *)
(* tools.                                                                  *)
(***************************************************************************)
EXTENDS Views, Tables, TopologyProofs, FiniteSetTheorems

-----------------------------------------------------------------------------
(* The answers                                                             *)

Answer == {r \in Response : Drawable(r)}

\* The nodes of an answer are the known ones, each with its address.
LEMMA NodeDtosFacts ==
    ASSUME NEW t \in Graph, NEW ids \in SUBSET NodeId
    PROVE  /\ NodeDtos(t, ids) \in NodeDtoMap
           /\ DOMAIN NodeDtos(t, ids) = {m \in ids : HasNode(t, m)}
<1> DEFINE S == {m \in ids : HasNode(t, m)}
<1>1. S \in SUBSET NodeId /\ NodeDtos(t, ids) = [n \in S |-> t.nodes[n].ip]
  BY DEF NodeDtos
<1>2. ASSUME NEW n \in S PROVE t.nodes[n].ip \in Ips
  <2>1. t.nodes[n] \in NodeData
    BY DEF Graph, HasNode
  <2> QED
    BY <2>1 DEF NodeData
<1> HIDE DEF S
<1>3. NodeDtos(t, ids) \in [S -> Ips] /\ DOMAIN NodeDtos(t, ids) = S
  BY <1>1, <1>2
<1>4. NodeDtos(t, ids) \in NodeDtoMap
  BY <1>1, <1>3 DEF NodeDtoMap
<1> QED
  BY <1>3, <1>4 DEF S

\* The flows of an answer are those of the index, without namespaces.
LEMMA FlowListsFacts ==
    ASSUME NEW index \in FlowMap
    PROVE  /\ FlowLists(index) \in FlowDtoMap
           /\ \A n \in NodeId : \A g \in Range(FlowLists(index)[n]) :
                 \E f \in Range(index[n]) : g = FlowDto(f)
<1>1. ASSUME NEW n \in NodeId
      PROVE  /\ [i \in DOMAIN index[n] |-> FlowDto(index[n][i])] \in Seq(FlowDtoType)
             /\ \A g \in Range([i \in DOMAIN index[n] |-> FlowDto(index[n][i])]) :
                   \E f \in Range(index[n]) : g = FlowDto(f)
  <2> DEFINE flows == index[n]
  <2>1. flows \in Seq(Flow)
    BY DEF FlowMap
  <2>2. DOMAIN flows = 1 .. Len(flows) /\ Len(flows) \in Nat
    BY <2>1
  <2>3. ASSUME NEW i \in DOMAIN flows PROVE FlowDto(flows[i]) \in FlowDtoType
    <3>1. flows[i] \in Flow
      BY <2>1
    <3>2. /\ flows[i].source_node \in NodeId /\ flows[i].destination_node \in NodeId
          /\ flows[i].path \in Paths /\ flows[i].method \in Methods
      BY <3>1 DEF Flow
    <3> QED
      BY <3>2 DEF FlowDto, FlowDtoType, NodeId
  <2> HIDE DEF flows
  <2>4. [i \in DOMAIN flows |-> FlowDto(flows[i])] \in Seq(FlowDtoType)
    BY <2>2, <2>3, IsASeq
  <2>5. \A g \in Range([i \in DOMAIN flows |-> FlowDto(flows[i])]) :
           \E f \in Range(flows) : g = FlowDto(f)
    BY Zenon DEF Range
  <2> QED
    BY <2>4, <2>5 DEF flows
<1>2. \A n \in NodeId : FlowLists(index)[n] = [i \in DOMAIN index[n] |-> FlowDto(index[n][i])]
  BY DEF FlowLists
<1>3. FlowLists(index) = [n \in NodeId |-> FlowLists(index)[n]]
  BY DEF FlowLists
<1>4. \A n \in NodeId : FlowLists(index)[n] \in Seq(FlowDtoType)
  BY <1>1, <1>2
<1>5. FlowLists(index) \in FlowDtoMap
  BY <1>3, <1>4 DEF FlowDtoMap
<1> QED
  BY <1>1, <1>2, <1>5

\* An answer about a subgraph that holds both ends of all of its flows.
LEMMA AnswerFacts ==
    ASSUME NEW t \in Graph, NEW sg, sg.nodes \in SUBSET NodeId,
           sg.upstream \in FlowMap, sg.downstream \in FlowMap,
           \A n \in NodeId : \A f \in Range(sg.upstream[n]) \cup Range(sg.downstream[n]) :
              \A m \in {f.source_node, f.destination_node} : m \in sg.nodes /\ HasNode(t, m)
    PROVE  TopologyResponse(t, sg) \in Answer
<1> DEFINE r == TopologyResponse(t, sg)
<1>1. /\ r.nodes = NodeDtos(t, sg.nodes)
      /\ r.upstream = FlowLists(sg.upstream)
      /\ r.downstream = FlowLists(sg.downstream)
      /\ r = [nodes |-> r.nodes, upstream |-> r.upstream, downstream |-> r.downstream]
  BY DEF TopologyResponse
<1> HIDE DEF r
<1>2. r \in Response
  <2>1. r.nodes \in NodeDtoMap
    BY <1>1, NodeDtosFacts
  <2>2. r.upstream \in FlowDtoMap /\ r.downstream \in FlowDtoMap
    BY <1>1, FlowListsFacts
  <2> QED
    BY <1>1, <2>1, <2>2 DEF Response
<1>3. DOMAIN r.nodes = {m \in sg.nodes : HasNode(t, m)}
  BY <1>1, NodeDtosFacts
<1>4. ASSUME NEW n \in NodeId, NEW g \in Range(r.upstream[n]) \cup Range(r.downstream[n])
      PROVE  {g.source, g.destination} \subseteq AppNames(r)
  <2>1. PICK f \in Range(sg.upstream[n]) \cup Range(sg.downstream[n]) : g = FlowDto(f)
    BY <1>1, FlowListsFacts
  <2>2. f.source_node \in DOMAIN r.nodes /\ f.destination_node \in DOMAIN r.nodes
    BY <1>3
  <2>3. g.source = f.source_node.app /\ g.destination = f.destination_node.app
    BY <2>1 DEF FlowDto
  <2>4. g.source \in AppNames(r) /\ g.destination \in AppNames(r)
    BY <2>2, <2>3 DEF AppNames
  <2> QED
    BY <2>4
<1> QED
  BY <1>2, <1>4 DEF Answer, Drawable, r

\* /api/topology answers with a drawable graph.
LEMMA HandlerAnswer ==
    ASSUME NEW t \in Graph, WellFormed(t)
    PROVE  topology_handler(t) \in Answer
<1> DEFINE sg == SubgraphOf(NodeId, t.upstream, t.downstream)
<1>1. /\ sg.nodes = NodeId /\ sg.upstream = t.upstream /\ sg.downstream = t.downstream
      /\ topology_handler(t) = TopologyResponse(t, sg)
  BY DEF SubgraphOf, topology_handler
<1>2. t.upstream \in FlowMap /\ t.downstream \in FlowMap
  BY DEF Graph
<1>3. \A n \in NodeId : \A f \in Range(t.upstream[n]) \cup Range(t.downstream[n]) :
         \A m \in {f.source_node, f.destination_node} : m \in NodeId /\ HasNode(t, m)
  BY FlowEnds
<1> HIDE DEF sg
<1> QED
  BY <1>1, <1>2, <1>3, AnswerFacts

\* So does /api/topology/subgraph, for every root and every depth above 0.
LEMMA SubgraphAnswer ==
    ASSUME NEW t \in Graph, WellFormed(t), NEW root \in NodeId, NEW k \in Nat \ {0}
    PROVE  topology_subgraph(t, root, k) \in Answer
<1> DEFINE sg == get_subgraph(t, root, k)
<1>1. /\ sg.nodes \in SUBSET NodeId
      /\ sg.upstream \in FlowMap /\ sg.downstream \in FlowMap
  BY SubgraphType
<1>2. topology_subgraph(t, root, k) = TopologyResponse(t, sg)
  BY DEF topology_subgraph
<1>3. \A n \in NodeId : \A f \in Range(sg.upstream[n]) \cup Range(sg.downstream[n]) :
         \A m \in {f.source_node, f.destination_node} : m \in sg.nodes /\ HasNode(t, m)
  <2>1. CASE HasNode(t, root)
    BY <2>1, SubgraphClosed
  <2>2. CASE ~ HasNode(t, root)
    <3>1. sg.upstream = NoFlows /\ sg.downstream = NoFlows
      BY <2>2 DEF get_subgraph, SubgraphOf
    <3>2. \A n \in NodeId : Range(NoFlows[n]) = {}
      BY EmptyRange DEF NoFlows
    <3> QED
      BY <3>1, <3>2
  <2> QED
    BY <2>1, <2>2
<1> HIDE DEF sg
<1> QED
  BY <1>1, <1>2, <1>3, AnswerFacts

-----------------------------------------------------------------------------
(* The requests in flight                                                  *)

Request == [query: Query \cup {Full}, answer: Answer \cup {None}]

\* The positions of the requests for a subgraph.
Subs(reqs) == {i \in DOMAIN reqs : reqs[i].query # Full}

\* The subgraph asked for last is q.
Latest(reqs, q) ==
    \E i \in Subs(reqs) : reqs[i].query = q /\ \A j \in Subs(reqs) : j <= i

\* The subgraph asked for last is q, or nothing is awaited and q is there.
Awaits(reqs, data, q) ==
    \/ Latest(reqs, q)
    \/ Subs(reqs) = {} /\ data # None /\ data.of = q

\* A request for a subgraph that is sent is the latest one.
LEMMA SendSubgraph ==
    ASSUME NEW reqs \in Seq(Request), NEW n \in NodeId, NEW d \in Depths
    PROVE  LET new == Append(reqs, [query |-> <<n, d>>, answer |-> None]) IN
           new \in Seq(Request) /\ Latest(new, <<n, d>>)
<1> DEFINE e == [query |-> <<n, d>>, answer |-> None]
           new == Append(reqs, e)
<1>1. <<n, d>> \in Query /\ <<n, d>> # Full
  BY DEF Query, Full
<1>2. e \in Request /\ e.query = <<n, d>>
  BY <1>1 DEF Request
<1> HIDE DEF e
<1>3. /\ new \in Seq(Request) /\ Len(new) = Len(reqs) + 1 /\ Len(reqs) \in Nat
      /\ DOMAIN new = 1 .. Len(reqs) + 1
      /\ new[Len(reqs) + 1] = e
  BY <1>2
<1>4. Len(reqs) + 1 \in Subs(new) /\ \A j \in Subs(new) : j <= Len(reqs) + 1
  BY <1>1, <1>2, <1>3 DEF Subs
<1> QED
  BY <1>2, <1>3, <1>4 DEF Latest, e

\* A request for the whole topology leaves the requests for subgraphs alone.
LEMMA SendFull ==
    ASSUME NEW reqs \in Seq(Request), NEW data, NEW q
    PROVE  LET new == Append(reqs, [query |-> Full, answer |-> None]) IN
           new \in Seq(Request) /\ (Awaits(reqs, data, q) => Awaits(new, data, q))
<1> DEFINE e == [query |-> Full, answer |-> None]
           new == Append(reqs, e)
<1>1. e \in Request /\ e.query = Full
  BY DEF Request
<1> HIDE DEF e
<1>2. /\ new \in Seq(Request) /\ Len(reqs) \in Nat
      /\ DOMAIN new = 1 .. Len(reqs) + 1 /\ DOMAIN reqs = 1 .. Len(reqs)
      /\ new[Len(reqs) + 1] = e
      /\ \A i \in DOMAIN reqs : new[i] = reqs[i]
  BY <1>1
<1>3. Subs(new) = Subs(reqs) /\ \A i \in Subs(reqs) : new[i] = reqs[i]
  BY <1>1, <1>2 DEF Subs
<1>4. Awaits(reqs, data, q) => Awaits(new, data, q)
  BY <1>3 DEF Awaits, Latest
<1> QED
  BY <1>2, <1>4 DEF e

\* What is left when the request at i is done.
LEMMA RemoveAtFacts ==
    ASSUME NEW S, NEW seq \in Seq(S), NEW i \in DOMAIN seq
    PROVE  LET rest == SX!RemoveAt(seq, i) IN
           /\ rest \in Seq(S)
           /\ DOMAIN rest = 1 .. Len(seq) - 1
           /\ \A j \in DOMAIN rest : rest[j] = IF j < i THEN seq[j] ELSE seq[j + 1]
<1> DEFINE front == SubSeq(seq, 1, i - 1)
           back == SubSeq(seq, i + 1, Len(seq))
<1>1. Len(seq) \in Nat /\ i \in 1 .. Len(seq) /\ i \in Nat
  OBVIOUS
<1>2. /\ front \in Seq(S) /\ Len(front) = i - 1
      /\ \A j \in 1 .. i - 1 : front[j] = seq[j]
  BY <1>1
<1>3. /\ back \in Seq(S) /\ Len(back) = Len(seq) - i
      /\ \A j \in 1 .. Len(seq) - i : back[j] = seq[i + j]
  BY <1>1
<1> HIDE DEF front, back
<1>4. /\ front \o back \in Seq(S)
      /\ Len(front \o back) = Len(seq) - 1
      /\ \A j \in 1 .. Len(seq) - 1 :
            (front \o back)[j] = IF j <= i - 1 THEN front[j] ELSE back[j - (i - 1)]
  <2>1. /\ front \o back \in Seq(S)
        /\ Len(front \o back) = Len(front) + Len(back)
        /\ \A j \in 1 .. Len(front) + Len(back) :
              (front \o back)[j] = IF j <= Len(front) THEN front[j] ELSE back[j - Len(front)]
    BY <1>2, <1>3, ConcatProperties, Zenon
  <2>2. Len(front) = i - 1 /\ Len(front) + Len(back) = Len(seq) - 1
    BY <1>1, <1>2, <1>3
  <2> QED
    BY <2>1, <2>2
<1>5. ASSUME NEW j \in 1 .. Len(seq) - 1
      PROVE  (front \o back)[j] = IF j < i THEN seq[j] ELSE seq[j + 1]
  <2>1. CASE j < i
    BY <1>1, <1>2, <1>4, <2>1
  <2>2. CASE ~ (j < i)
    <3>1. j - (i - 1) \in 1 .. Len(seq) - i /\ i + (j - (i - 1)) = j + 1 /\ ~ (j <= i - 1)
      BY <1>1, <2>2
    <3> QED
      BY <1>3, <1>4, <2>2, <3>1
  <2> QED
    BY <2>1, <2>2
<1>6. SX!RemoveAt(seq, i) = front \o back
  BY DEF SX!RemoveAt, front, back
<1>7. DOMAIN (front \o back) = 1 .. Len(seq) - 1
  BY <1>4
<1> QED
  BY <1>4, <1>5, <1>6, <1>7

\* An answer that holds the whole topology takes no subgraph away.
LEMMA RemoveFull ==
    ASSUME NEW reqs \in Seq(Request), NEW i \in DOMAIN reqs, reqs[i].query = Full,
           NEW data, NEW q, Awaits(reqs, data, q)
    PROVE  Awaits(SX!RemoveAt(reqs, i), data, q)
<1> DEFINE rest == SX!RemoveAt(reqs, i)
<1>1. /\ DOMAIN rest = 1 .. Len(reqs) - 1
      /\ \A j \in DOMAIN rest : rest[j] = IF j < i THEN reqs[j] ELSE reqs[j + 1]
      /\ DOMAIN reqs = 1 .. Len(reqs) /\ Len(reqs) \in Nat
  BY RemoveAtFacts
<1> HIDE DEF rest
<1>2. CASE Latest(reqs, q)
  <2>1. PICK k \in Subs(reqs) : reqs[k].query = q /\ \A j \in Subs(reqs) : j <= k
    BY <1>2 DEF Latest
  <2>2. k \in DOMAIN reqs /\ k # i /\ reqs[k].query # Full
    BY <2>1 DEF Subs
  <2> DEFINE m == IF k < i THEN k ELSE k - 1
  <2>3. m \in DOMAIN rest /\ rest[m] = reqs[k]
    BY <1>1, <2>2
  <2>4. ASSUME NEW j \in Subs(rest) PROVE j <= m
    <3>1. CASE j < i
      <4>1. j \in Subs(reqs)
        BY <1>1, <3>1 DEF Subs
      <4>2. j <= k /\ j \in Nat /\ k \in Nat /\ i \in Nat
        BY <1>1, <2>1, <2>2, <4>1 DEF Subs
      <4> QED
        BY <3>1, <2>2, <4>2
    <3>2. CASE ~ (j < i)
      <4>1. j + 1 \in Subs(reqs) /\ j \in Nat /\ i \in Nat /\ k \in Nat
        BY <1>1, <2>2, <3>2 DEF Subs
      <4>2. j + 1 <= k
        BY <2>1, <4>1
      <4> QED
        BY <3>2, <4>1, <4>2
    <3> QED
      BY <3>1, <3>2
  <2>5. m \in Subs(rest)
    BY <2>2, <2>3 DEF Subs
  <2> QED
    BY <2>1, <2>3, <2>4, <2>5 DEF Awaits, Latest, rest
<1>3. CASE Subs(reqs) = {} /\ data # None /\ data.of = q
  <2>1. \A j \in DOMAIN rest : rest[j].query = Full
    <3> TAKE j \in DOMAIN rest
    <3>1. j \in DOMAIN reqs /\ j + 1 \in DOMAIN reqs
      BY <1>1
    <3> QED
      BY <1>1, <1>3, <3>1 DEF Subs
  <2>2. Subs(rest) = {}
    BY <2>1 DEF Subs
  <2> QED
    BY <1>3, <2>2 DEF Awaits, rest
<1> QED
  BY <1>2, <1>3 DEF Awaits

\* The oldest answer about a subgraph is shown if it is the only one awaited,
\* and otherwise is not the one awaited.
LEMMA RemoveOldest ==
    ASSUME NEW reqs \in Seq(Request), NEW i \in DOMAIN reqs, reqs[i].query # Full,
           \A j \in 1 .. i - 1 : reqs[j].query = Full,
           NEW old, NEW new, new # None, new.of = reqs[i].query,
           NEW q, Awaits(reqs, old, q)
    PROVE  Awaits(SX!RemoveAt(reqs, i), new, q)
<1> DEFINE rest == SX!RemoveAt(reqs, i)
<1>1. /\ DOMAIN rest = 1 .. Len(reqs) - 1
      /\ \A j \in DOMAIN rest : rest[j] = IF j < i THEN reqs[j] ELSE reqs[j + 1]
      /\ DOMAIN reqs = 1 .. Len(reqs) /\ Len(reqs) \in Nat /\ i \in Nat
  BY RemoveAtFacts
<1> HIDE DEF rest
<1>2. i \in Subs(reqs)
  BY DEF Subs
<1>3. PICK k \in Subs(reqs) : reqs[k].query = q /\ \A j \in Subs(reqs) : j <= k
  BY <1>2 DEF Awaits, Latest
<1>4. k \in DOMAIN reqs /\ k \in Nat /\ i <= k /\ reqs[k].query # Full
  BY <1>1, <1>2, <1>3 DEF Subs
<1>5. \A j \in Subs(rest) : j \in Nat /\ ~ (j < i) /\ j + 1 \in Subs(reqs)
  <2> TAKE j \in Subs(rest)
  <2>1. j \in DOMAIN rest /\ rest[j].query # Full /\ j \in Nat
    BY <1>1 DEF Subs
  <2>2. ~ (j < i)
    <3> SUFFICES ASSUME j < i PROVE FALSE
      OBVIOUS
    <3>1. j \in 1 .. i - 1 /\ rest[j] = reqs[j]
      BY <1>1, <2>1
    <3> QED
      BY <2>1, <3>1
  <2>3. rest[j] = reqs[j + 1] /\ j + 1 \in DOMAIN reqs
    BY <1>1, <2>1, <2>2
  <2> QED
    BY <2>1, <2>2, <2>3 DEF Subs
<1>6. CASE k = i
  <2>1. Subs(rest) = {}
    <3> SUFFICES ASSUME NEW j \in Subs(rest) PROVE FALSE
      OBVIOUS
    <3>1. j \in Nat /\ ~ (j < i) /\ j + 1 <= k
      BY <1>3, <1>5
    <3> QED
      BY <1>1, <1>6, <3>1
  <2> QED
    BY <1>3, <1>6, <2>1 DEF Awaits, rest
<1>7. CASE k # i
  <2>1. k - 1 \in DOMAIN rest /\ ~ (k - 1 < i) /\ (k - 1) + 1 = k
    BY <1>1, <1>4, <1>7
  <2>2. rest[k - 1] = reqs[k] /\ k - 1 \in Subs(rest)
    BY <1>1, <1>4, <2>1 DEF Subs
  <2>3. \A j \in Subs(rest) : j <= k - 1
    BY <1>3, <1>4, <1>5
  <2> QED
    BY <1>3, <2>2, <2>3 DEF Awaits, Latest, rest
<1> QED
  BY <1>6, <1>7

-----------------------------------------------------------------------------
(* The invariant                                                           *)

\* The types, with every answer in the view or under way drawable.
Typed ==
    /\ topology \in Graph
    /\ raw \in Answer \cup {None}
    /\ subgraphData \in [of: Query, data: Answer] \cup {None}
    /\ selected \in NodeId \cup {None}
    /\ depth \in Depths
    /\ requests \in Seq(Request)
    /\ steps \in 0 .. MaxSteps
    /\ faults \in 0 .. MaxFaults

\* Of the subgraphs asked for, it is the latest that must be the selected
\* one: the answers before it will be replaced.
SelectionAwaited ==
    (faults = 0 /\ selected # None) => Awaits(requests, subgraphData, <<selected, depth>>)

IInv == Typed /\ WellFormed(topology) /\ SelectionAwaited

\* The view starts with nothing selected.
LEMMA InitIInv == Init => IInv
<1> SUFFICES ASSUME Init PROVE IInv
  OBVIOUS
<1>1. topology \in Graph /\ WellFormed(topology)
  BY NewTopologyWellFormed DEF Init
<1>2. requests \in Seq(Request)
  <2>1. [query |-> Full, answer |-> None] \in Request
    BY DEF Request
  <2> DEFINE e == [query |-> Full, answer |-> None]
  <2>2. requests = <<e>> /\ e \in Request
    BY <2>1 DEF Init
  <2> HIDE DEF e
  <2> QED
    BY <2>2
<1>3. /\ steps \in 0 .. MaxSteps /\ faults \in 0 .. MaxFaults /\ depth \in Depths
      /\ raw = None /\ subgraphData = None /\ selected = None
  BY ViewsAssumption DEF Init
<1> QED
  BY <1>1, <1>2, <1>3 DEF IInv, Typed, SelectionAwaited

\* Core's graph grows.
LEMMA AddCallKeeps == IInv /\ AddCall => IInv'
<1> SUFFICES ASSUME IInv, AddCall PROVE IInv'
  OBVIOUS
<1>1. PICK f \in CallSet, src \in Ips, dst \in Ips : topology' = RecordCall(topology, f, src, dst)
  BY DEF AddCall
<1>2. topology' \in Graph /\ WellFormed(topology')
  <2>1. f \in Flow /\ topology \in Graph /\ WellFormed(topology)
    BY ViewsAssumption DEF IInv, Typed
  <2> QED
    BY <1>1, <2>1, RecordCallFacts
<1>3. steps' \in 0 .. MaxSteps
  BY ViewsAssumption DEF IInv, Typed, AddCall
<1> QED
  BY <1>2, <1>3 DEF IInv, Typed, SelectionAwaited, AddCall, ui

\* Core's graph is healed.
LEMMA HealNodeKeeps == IInv /\ HealNode => IInv'
<1> SUFFICES ASSUME IInv, HealNode PROVE IInv'
  OBVIOUS
<1>1. PICK ip \in Ips : topology' = resolve_unknown_node(topology, ip, Resolved[ip])
  BY DEF HealNode
<1>2. topology' \in Graph /\ WellFormed(topology')
  <2>1. Resolved[ip] \in NodeId /\ topology \in Graph /\ WellFormed(topology)
    BY ViewsAssumption DEF IInv, Typed
  <2> QED
    BY <1>1, <2>1, ResolveWellFormed
<1> QED
  BY <1>2 DEF IInv, Typed, SelectionAwaited, HealNode, ui

\* A request is answered from the graph as it is.
LEMMA ServeKeeps == ASSUME IInv, NEW i \in DOMAIN requests, Serve(i) PROVE IInv'
<1>1. topology \in Graph /\ WellFormed(topology) /\ requests \in Seq(Request)
  BY DEF IInv, Typed
<1>2. requests[i] \in Request /\ requests[i].query \in Query \cup {Full}
  <2>1. requests[i] \in Request
    BY <1>1
  <2> QED
    BY <2>1 DEF Request
<1> DEFINE query == requests[i].query
           answer == IF query = Full THEN topology_handler(topology)
                     ELSE topology_subgraph(topology, query[1], query[2])
<1>3. answer \in Answer
  <2>1. CASE query = Full
    BY <1>1, <2>1, HandlerAnswer
  <2>2. CASE query # Full
    <3>1. query[1] \in NodeId /\ query[2] \in Nat \ {0}
      BY <1>2, <2>2, ViewsAssumption DEF Query
    <3> HIDE DEF query
    <3> QED
      BY <1>1, <2>2, <3>1, SubgraphAnswer
  <2> QED
    BY <2>1, <2>2
<1>4. requests' = [requests EXCEPT ![i].answer = answer]
  BY DEF Serve
<1> HIDE DEF answer, query
<1>5. /\ requests' \in Seq(Request) /\ DOMAIN requests' = DOMAIN requests
      /\ \A j \in DOMAIN requests : requests'[j].query = requests[j].query
  <2>1. [requests[i] EXCEPT !.answer = answer] \in Request
    BY <1>2, <1>3 DEF Request
  <2>2. requests' = [requests EXCEPT ![i] = [requests[i] EXCEPT !.answer = answer]]
    BY <1>4
  <2>3. [requests[i] EXCEPT !.answer = answer].query = requests[i].query
    BY <1>2 DEF Request
  <2> QED
    BY <1>1, <2>1, <2>2, <2>3
<1>6. Subs(requests') = Subs(requests)
  BY <1>5 DEF Subs
<1>7. \A q : Awaits(requests, subgraphData, q) => Awaits(requests', subgraphData, q)
  BY <1>5, <1>6 DEF Awaits, Latest, Subs
<1>8. UNCHANGED <<topology, raw, subgraphData, selected, depth, steps, faults>>
  BY DEF Serve, ui
<1> QED
  BY <1>5, <1>7, <1>8 DEF IInv, Typed, SelectionAwaited

\* What Send does to the typed part.
LEMMA SendSteps ==
    ASSUME IInv, NEW rest, NEW q, Send(rest, q)
    PROVE  steps' \in 0 .. MaxSteps
  BY ViewsAssumption DEF IInv, Typed, Send

\* The view asks for the whole topology.
LEMMA FetchTopologyKeeps == IInv /\ FetchTopology => IInv'
<1> SUFFICES ASSUME IInv, FetchTopology PROVE IInv'
  OBVIOUS
<1>1. steps' \in 0 .. MaxSteps
  BY SendSteps DEF FetchTopology
<1>2. /\ requests \in Seq(Request)
      /\ requests' = Append(requests, [query |-> Full, answer |-> None])
      /\ UNCHANGED <<topology, raw, subgraphData, selected, depth, faults>>
  BY DEF IInv, Typed, FetchTopology, Send, ui
<1>3. /\ requests' \in Seq(Request)
      /\ \A q : Awaits(requests, subgraphData, q) => Awaits(requests', subgraphData, q)
  BY <1>2, SendFull
<1> QED
  BY <1>1, <1>2, <1>3 DEF IInv, Typed, SelectionAwaited

\* A service and a depth that are asked for are awaited.
LEMMA SendAwaits ==
    ASSUME IInv, NEW rest \in Seq(Request), NEW n \in NodeId, NEW d \in Depths,
           Send(rest, <<n, d>>), NEW data
    PROVE  /\ steps' \in 0 .. MaxSteps
           /\ requests' \in Seq(Request)
           /\ Awaits(requests', data, <<n, d>>)
<1>1. requests' = Append(rest, [query |-> <<n, d>>, answer |-> None])
  BY DEF Send
<1>2. requests' \in Seq(Request) /\ Latest(requests', <<n, d>>)
  BY <1>1, SendSubgraph
<1> QED
  BY <1>2, SendSteps DEF Awaits

\* A service that the view shows is selected.
LEMMA SelectNodeKeeps == ASSUME IInv, NEW n \in NodeId, SelectNode(n) PROVE IInv'
<1>1. requests \in Seq(Request) /\ depth \in Depths
  BY DEF IInv, Typed
<1>2. /\ steps' \in 0 .. MaxSteps
      /\ requests' \in Seq(Request)
      /\ Awaits(requests', subgraphData, <<n, depth>>)
  BY <1>1, SendAwaits DEF SelectNode
<1>3. selected' = n /\ UNCHANGED <<topology, raw, subgraphData, depth, faults>>
  BY DEF SelectNode
<1> QED
  BY <1>2, <1>3 DEF IInv, Typed, SelectionAwaited

\* The service selected without a click is one of the answer's, if any.
LEMMA AutoSelectKeeps ==
    ASSUME IInv, NEW r \in Answer \cup {None}, NEW rest \in Seq(Request),
           AutoSelect(r, rest), NEW data
    PROVE  /\ steps' \in 0 .. MaxSteps
           /\ requests' \in Seq(Request)
           /\ selected' \in NodeId \cup {None}
           /\ selected' # None => Awaits(requests', data, <<selected', depth>>)
<1>1. CASE r = None \/ DOMAIN r.nodes = {}
  <2>1. selected' = None /\ requests' = rest /\ steps' = steps
    BY <1>1 DEF AutoSelect
  <2> QED
    BY <2>1 DEF IInv, Typed
<1>2. CASE ~ (r = None \/ DOMAIN r.nodes = {})
  <2>1. PICK n \in RootServices(r) : selected' = n /\ Send(rest, <<n, depth>>)
    BY <1>2 DEF AutoSelect
  <2>2. n \in DOMAIN r.nodes
    BY <2>1 DEF RootServices
  <2>3. n \in NodeId
    <3>1. r.nodes \in NodeDtoMap
      BY <1>2 DEF Answer, Response
    <3> QED
      BY <2>2, <3>1 DEF NodeDtoMap
  <2>4. depth \in Depths
    BY DEF IInv, Typed
  <2>5. /\ steps' \in 0 .. MaxSteps
        /\ requests' \in Seq(Request)
        /\ Awaits(requests', data, <<n, depth>>)
    BY <2>1, <2>3, <2>4, SendAwaits
  <2> QED
    BY <2>1, <2>3, <2>5
<1> QED
  BY <1>1, <1>2

\* The selection is cleared.
LEMMA ClearSelectionKeeps == IInv /\ ClearSelection => IInv'
<1> SUFFICES ASSUME IInv, ClearSelection PROVE IInv'
  OBVIOUS
<1>1. raw \in Answer \cup {None} /\ requests \in Seq(Request) /\ AutoSelect(raw, requests)
  BY DEF IInv, Typed, ClearSelection
<1>2. /\ steps' \in 0 .. MaxSteps
      /\ requests' \in Seq(Request)
      /\ selected' \in NodeId \cup {None}
      /\ selected' # None => Awaits(requests', None, <<selected', depth>>)
  BY <1>1, AutoSelectKeeps
<1>3. subgraphData' = None /\ UNCHANGED <<topology, raw, depth, faults>>
  BY DEF ClearSelection
<1> QED
  BY <1>2, <1>3 DEF IInv, Typed, SelectionAwaited

\* Another depth is chosen.
LEMMA SetDepthKeeps == ASSUME IInv, NEW d \in Depths, SetDepth(d) PROVE IInv'
<1>1. depth' = d /\ UNCHANGED <<topology, raw, subgraphData, selected, faults>>
  BY DEF SetDepth
<1>2. CASE selected # None
  <2>1. selected \in NodeId /\ requests \in Seq(Request) /\ Send(requests, <<selected, d>>)
    BY <1>2 DEF IInv, Typed, SetDepth
  <2>2. /\ steps' \in 0 .. MaxSteps
        /\ requests' \in Seq(Request)
        /\ Awaits(requests', subgraphData, <<selected, d>>)
    BY <2>1, SendAwaits
  <2> QED
    BY <1>1, <2>2 DEF IInv, Typed, SelectionAwaited
<1>3. CASE selected = None
  <2>1. requests' = requests /\ steps' = steps
    BY <1>3 DEF SetDepth
  <2> QED
    BY <1>1, <1>3, <2>1 DEF IInv, Typed, SelectionAwaited
<1> QED
  BY <1>2, <1>3

\* The whole topology arrives.
LEMMA RawArrivesKeeps == ASSUME IInv, NEW i \in DOMAIN requests, RawArrives(i) PROVE IInv'
<1> DEFINE rest == SX!RemoveAt(requests, i)
<1>1. requests \in Seq(Request) /\ requests[i] \in Request
  BY DEF IInv, Typed
<1>2. requests[i].query = Full /\ requests[i].answer \in Answer
  BY <1>1 DEF RawArrives, Request
<1>3. rest \in Seq(Request)
  BY <1>1, RemoveAtFacts
<1>4. raw' = requests[i].answer /\ UNCHANGED <<topology, subgraphData, depth, faults>>
  BY DEF RawArrives
<1>5. CASE selected = None
  <2>1. AutoSelect(raw', rest)
    BY <1>5 DEF RawArrives
  <2>2. raw' \in Answer \cup {None}
    BY <1>2, <1>4
  <2> HIDE DEF rest
  <2>3. /\ steps' \in 0 .. MaxSteps
        /\ requests' \in Seq(Request)
        /\ selected' \in NodeId \cup {None}
        /\ selected' # None => Awaits(requests', subgraphData, <<selected', depth>>)
    BY <1>3, <2>1, <2>2, AutoSelectKeeps
  <2> QED
    BY <1>4, <2>2, <2>3 DEF IInv, Typed, SelectionAwaited
<1>6. CASE selected # None
  <2>1. requests' = rest /\ selected' = selected /\ steps' = steps
    BY <1>6 DEF RawArrives
  <2>2. \A q : Awaits(requests, subgraphData, q) => Awaits(rest, subgraphData, q)
    BY <1>1, <1>2, RemoveFull
  <2> HIDE DEF rest
  <2> QED
    BY <1>2, <1>3, <1>4, <2>1, <2>2 DEF IInv, Typed, SelectionAwaited
<1> QED
  BY <1>5, <1>6

\* A subgraph arrives: in order, or as a fault.
LEMMA SubgraphArrivesKeeps ==
    ASSUME IInv, NEW i \in DOMAIN requests, SubgraphArrives(i) PROVE IInv'
<1> DEFINE rest == SX!RemoveAt(requests, i)
           data == [of |-> requests[i].query, data |-> requests[i].answer]
<1>1. requests \in Seq(Request) /\ requests[i] \in Request /\ faults \in Nat
  BY ViewsAssumption DEF IInv, Typed
<1>2. /\ requests[i].query # Full /\ requests[i].query \in Query
      /\ requests[i].answer \in Answer
  BY <1>1 DEF SubgraphArrives, Request
<1>3. rest \in Seq(Request)
  BY <1>1, RemoveAtFacts
<1>4. data \in [of: Query, data: Answer] /\ data.of = requests[i].query
  BY <1>2
<1>5. data # None
  <2>1. data \in [of: Query, data: Response]
    BY <1>2 DEF Answer
  <2> QED
    BY <2>1, ViewsAssumption
<1>6. /\ subgraphData' = data /\ requests' = rest
      /\ UNCHANGED <<topology, raw, selected, depth, steps>>
      /\ faults' <= MaxFaults
      /\ faults' = IF Overtakes(i) THEN faults + 1 ELSE faults
  BY <1>1 DEF SubgraphArrives
<1>7. faults' \in 0 .. MaxFaults
  BY <1>1, <1>6, ViewsAssumption
<1>8. faults' = 0 => faults = 0 /\ ~ Overtakes(i)
  BY <1>1, <1>6
<1>9. ASSUME NEW q, ~ Overtakes(i), Awaits(requests, subgraphData, q)
      PROVE  Awaits(rest, data, q)
  <2>1. \A j \in 1 .. i - 1 : requests[j].query = Full
    BY <1>9 DEF Overtakes
  <2> HIDE DEF data
  <2> QED
    BY <1>1, <1>2, <1>4, <1>5, <1>9, <2>1, RemoveOldest
<1> HIDE DEF rest, data
<1>10. SelectionAwaited'
  BY <1>6, <1>8, <1>9 DEF SelectionAwaited, IInv
<1> QED
  BY <1>3, <1>4, <1>6, <1>7, <1>10 DEF IInv, Typed

\* A request fails.
LEMMA FetchFailsKeeps == ASSUME IInv, NEW i \in DOMAIN requests, FetchFails(i) PROVE IInv'
<1>1. requests \in Seq(Request) /\ faults \in Nat
  BY DEF IInv, Typed
<1>2. requests' \in Seq(Request)
  BY <1>1, RemoveAtFacts DEF FetchFails
<1>3. faults' \in 0 .. MaxFaults /\ faults' # 0
  BY <1>1, ViewsAssumption DEF FetchFails
<1> QED
  BY <1>2, <1>3 DEF IInv, Typed, SelectionAwaited, FetchFails, ui

\* Every step keeps the invariant.
LEMMA NextKeeps == IInv /\ [Next]_vars => IInv'
<1> SUFFICES ASSUME IInv, [Next]_vars PROVE IInv'
  OBVIOUS
<1>1. CASE UNCHANGED vars
  BY <1>1 DEF vars, IInv, Typed, SelectionAwaited
<1>2. CASE AddCall \/ HealNode \/ FetchTopology \/ ClearSelection
  BY <1>2, AddCallKeeps, HealNodeKeeps, FetchTopologyKeeps, ClearSelectionKeeps
<1>3. CASE \E n \in NodeId : SelectNode(n)
  BY <1>3, SelectNodeKeeps
<1>4. CASE \E d \in Depths : SetDepth(d)
  BY <1>4, SetDepthKeeps
<1>5. CASE \E i \in DOMAIN requests :
              Serve(i) \/ RawArrives(i) \/ SubgraphArrives(i) \/ FetchFails(i)
  BY <1>5, ServeKeeps, RawArrivesKeeps, SubgraphArrivesKeeps, FetchFailsKeeps
<1> QED
  BY <1>1, <1>2, <1>3, <1>4, <1>5 DEF Next

-----------------------------------------------------------------------------
(* The theorems                                                            *)

\* The view, its requests and Core's graph keep their types.
THEOREM TypeCorrect == Spec => []TypeOK
<1>1. \A r \in Answer : IsResponse(r)
  <2> SUFFICES ASSUME NEW r \in Answer PROVE IsResponse(r)
    OBVIOUS
  <2>1. r.nodes \in NodeDtoMap /\ r.upstream \in FlowDtoMap /\ r.downstream \in FlowDtoMap
    BY DEF Answer, Response
  <2>2. PICK ids \in SUBSET NodeId : r.nodes \in [ids -> Ips]
    BY <2>1 DEF NodeDtoMap
  <2> QED
    BY <2>1, <2>2 DEF IsResponse
<1>2. IInv => TypeOK
  <2> SUFFICES ASSUME IInv PROVE TypeOK
    OBVIOUS
  <2>1. \A i \in DOMAIN requests :
           /\ requests[i].query \in Query \cup {Full}
           /\ requests[i].answer # None => IsResponse(requests[i].answer)
    <3> TAKE i \in DOMAIN requests
    <3>1. requests[i] \in Request
      BY DEF IInv, Typed
    <3> QED
      BY <1>1, <3>1 DEF Request
  <2> QED
    BY <1>1, <2>1 DEF IInv, Typed, TypeOK
<1> QED
  BY InitIInv, NextKeeps, <1>2, PTL DEF Spec

\* get_subgraph answers with exactly the services within the depth and the
\* root's callers, whatever the graph, its cycles and what was healed in it.
THEOREM QueriesExact == Spec => []SubgraphExact
<1>1. IInv => SubgraphExact
  <2> SUFFICES ASSUME IInv, NEW root \in NodeId, NEW d \in Depths \cup {0}
               PROVE  ExactNodes(topology, root, d)
    BY DEF SubgraphExact
  <2>1. d \in Nat /\ topology \in Graph /\ WellFormed(topology)
    BY ViewsAssumption DEF IInv, Typed
  <2> QED
    BY <2>1, SubgraphExactNodes
<1> QED
  BY InitIInv, NextKeeps, <1>1, PTL DEF Spec

\* Below the root, get_subgraph answers with a breadth-first tree whose calls
\* are shown at both ends; the root shows all its calls, whoever makes them, and
\* services out of reach show none, for every root and depth.
THEOREM QueriesGiveTrees == Spec => []SubgraphIsTree
<1>1. IInv => SubgraphIsTree
  <2> SUFFICES ASSUME IInv, NEW root \in NodeId, NEW d \in Depths, HasNode(topology, root)
               PROVE  IsTree(topology, root, d)
    BY DEF SubgraphIsTree
  <2>1. d \in Nat \ {0} /\ topology \in Graph /\ WellFormed(topology)
    BY ViewsAssumption DEF IInv, Typed
  <2> QED
    BY <2>1, SubgraphTree
<1> QED
  BY InitIInv, NextKeeps, <1>1, PTL DEF Spec

\* No answer, in the view or under way, refers to a service it does not hold.
THEOREM EverythingDrawable == Spec => []AnswersDrawable
<1>1. IInv => AnswersDrawable
  <2> SUFFICES ASSUME IInv PROVE AnswersDrawable
    OBVIOUS
  <2>1. ASSUME NEW i \in DOMAIN requests, requests[i].answer # None
        PROVE  Drawable(requests[i].answer)
    <3>1. requests[i] \in Request
      BY DEF IInv, Typed
    <3> QED
      BY <2>1, <3>1 DEF Request, Answer
  <2>2. displayData # None => Drawable(displayData)
    BY DEF IInv, Typed, displayData, Answer
  <2> QED
    BY <2>1, <2>2 DEF AnswersDrawable
<1> QED
  BY InitIInv, NextKeeps, <1>1, PTL DEF Spec

\* Until an answer fails or overtakes an older one, the view shows the
\* selected service at the chosen depth, or is waiting for exactly that.
THEOREM SelectionNeverLost == Spec => []SelectionShown
<1>1. IInv => SelectionShown
  BY DEF IInv, SelectionAwaited, SelectionShown, Awaits, Latest, Subs
<1> QED
  BY InitIInv, NextKeeps, <1>1, PTL DEF Spec
-----------------------------------------------------------------------------
(* The event tables, which the same endpoints, views and tools read while  *)
(* Core writes to them (module Tables).                                    *)

\* Tables are finite.
LEMMA RowsFinite ==
    ASSUME NEW T \in SUBSET Row
    PROVE  IsFiniteSet(T) /\ Cardinality(T) \in Nat
<1> DEFINE P == (1 .. MaxRows) \X (0 .. MaxTime)
           f == [r \in Row |-> <<r.id, r.time>>]
<1>1. IsFiniteSet(P)
  <2>1. 1 \in Int /\ 0 \in Int /\ MaxRows \in Int /\ MaxTime \in Int
    BY TablesAssumption
  <2>2. IsFiniteSet(1 .. MaxRows) /\ IsFiniteSet(0 .. MaxTime)
    BY <2>1, FS_Interval
  <2> QED
    BY <2>2, FS_Product
<1>2. f \in Injection(Row, P)
  <2>1. f \in [Row -> P]
    BY DEF Row
  <2>2. ASSUME NEW r \in Row, NEW q \in Row, f[r] = f[q] PROVE r = q
    BY <2>2 DEF Row
  <2> QED
    BY <2>1, <2>2 DEF Injection, IsInjective
<1> HIDE DEF f, P
<1>3. IsFiniteSet(Row)
  BY <1>1, <1>2, FS_Injection
<1>4. IsFiniteSet(T)
  BY <1>3, FS_Subset
<1> QED
  BY <1>4, FS_CardinalityType

\* A part of a table has no more rows, and is all of it if it has as many.
LEMMA PartOfTable ==
    ASSUME NEW T \in SUBSET Row, NEW U \in SUBSET T
    PROVE  /\ U \in SUBSET Row
           /\ Cardinality(U) <= Cardinality(T)
           /\ Cardinality(U) = Cardinality(T) => U = T
<1>1. IsFiniteSet(T)
  BY RowsFinite
<1>2. Cardinality(U) <= Cardinality(T) /\ (Cardinality(U) = Cardinality(T) => U = T)
  BY <1>1, FS_Subset
<1> QED
  BY <1>2

\* Two tables together.
LEMMA TwoTables ==
    ASSUME NEW T \in SUBSET Row, NEW U \in SUBSET Row
    PROVE  /\ Cardinality(T \cup U) <= Cardinality(T) + Cardinality(U)
           /\ T \cap U = {} => Cardinality(T \cup U) = Cardinality(T) + Cardinality(U)
<1>1. IsFiniteSet(T) /\ IsFiniteSet(U) /\ Cardinality(T) \in Nat /\ Cardinality(U) \in Nat
  BY RowsFinite
<1>2. Cardinality(T \cup U) = Cardinality(T) + Cardinality(U) - Cardinality(T \cap U)
  BY <1>1, FS_Union
<1>3. T \cap U \in SUBSET Row /\ Cardinality(T \cap U) \in Nat
  BY RowsFinite
<1>4. T \cap U = {} => Cardinality(T \cap U) = 0
  BY FS_EmptySet
<1> QED
  BY <1>1, <1>2, <1>3, <1>4

\* The rows of one flush, or the one row of a resource event.
LEMMA StampedRows ==
    ASSUME NEW w \in Nat, NEW k \in Nat, w + k <= MaxRows,
           NEW t \in 0 .. MaxTime
    PROVE  /\ [id: w + 1 .. w + k, time: {t}] \in SUBSET Row
           /\ Cardinality([id: w + 1 .. w + k, time: {t}]) <= k
<1> DEFINE b == [id: w + 1 .. w + k, time: {t}]
           ids == w + 1 .. w + k
           f == [r \in b |-> r.id]
<1>0. MaxRows \in Nat /\ ids \subseteq 1 .. MaxRows
  BY TablesAssumption
<1>1. b \in SUBSET Row
  BY <1>0 DEF Row
<1>2. IsFiniteSet(ids) /\ Cardinality(ids) = k
  <2>1. w + 1 \in Int /\ w + k \in Int
    OBVIOUS
  <2>2. /\ IsFiniteSet(ids)
        /\ Cardinality(ids) = IF w + 1 > w + k THEN 0 ELSE (w + k) - (w + 1) + 1
    BY <2>1, FS_Interval
  <2> QED
    BY <2>2
<1>3. f \in Injection(b, ids)
  <2>1. f \in [b -> ids]
    OBVIOUS
  <2>2. ASSUME NEW r \in b, NEW q \in b, f[r] = f[q] PROVE r = q
    BY <2>2
  <2> QED
    BY <2>1, <2>2 DEF Injection, IsInjective
<1> HIDE DEF f, ids, b
<1>4. Cardinality(b) <= k
  BY <1>2, <1>3, FS_Injection
<1> QED
  BY <1>1, <1>4 DEF b

-----------------------------------------------------------------------------
(* Pages                                                                   *)

\* The rows that come before r, whatever the order among rows of one time.
Above(table, r) == {q \in table : q.time > r.time}

OnlyOneAt(table, r) == \A q \in table : q.time = r.time => q = r

\* A page holds every row whose place is on it, if its time is its own.
LEMMA SliceFacts ==
    ASSUME NEW table \in SUBSET Row,
           NEW limit \in Nat, NEW offset \in Nat,
           NEW page \in Slices(table, limit, offset)
    PROVE  /\ page \in SUBSET table
           /\ \A r \in table :
                 (/\ OnlyOneAt(table, r)
                  /\ offset <= Cardinality(Above(table, r))
                  /\ Cardinality(Above(table, r)) < offset + limit) => r \in page
<1>1. PICK p \in Prefixes(table, offset) \X Prefixes(table, offset + limit) :
         p[1] \subseteq p[2] /\ page = p[2] \ p[1]
  BY DEF Slices
<1> DEFINE X == p[1]
           Y == p[2]
<1>2. X \in Prefixes(table, offset) /\ Y \in Prefixes(table, offset + limit)
  BY <1>1
<1>3. page = Y \ X
  BY <1>1
<1> HIDE DEF X, Y
<1>4. Cardinality(table) \in Nat
  BY RowsFinite
<1>5. /\ X \in SUBSET table /\ Y \in SUBSET table
      /\ Cardinality(X) = IF offset < Cardinality(table) THEN offset ELSE Cardinality(table)
      /\ Cardinality(Y) = IF offset + limit < Cardinality(table) THEN offset + limit
                          ELSE Cardinality(table)
      /\ IsPrefix(table, X) /\ IsPrefix(table, Y)
  BY <1>2 DEF Prefixes, kSubset
<1>6. ASSUME NEW r \in table, OnlyOneAt(table, r),
             offset <= Cardinality(Above(table, r)),
             Cardinality(Above(table, r)) < offset + limit
      PROVE  r \in page
  <2> DEFINE A == Above(table, r)
  <2>1. A \in SUBSET table /\ r \notin A /\ A \cup {r} \in SUBSET table
        /\ \A q \in table : q.time \in Nat
    BY DEF Above, Row
  <2>2. IsFiniteSet(A) /\ Cardinality(A) \in Nat
    <3>1. A \in SUBSET Row
      BY <2>1
    <3> HIDE DEF A
    <3> QED
      BY <3>1, RowsFinite
  <2>3. Cardinality(A \cup {r}) = Cardinality(A) + 1
    <3> HIDE DEF A
    <3> QED
      BY <2>1, <2>2, FS_AddElement
  <2>4. Cardinality(A) + 1 <= Cardinality(table)
    <3> HIDE DEF A
    <3> QED
      BY <2>1, <2>3, PartOfTable
  <2>5. r \notin X
    <3> SUFFICES ASSUME r \in X PROVE FALSE
      OBVIOUS
    <3>1. ASSUME NEW q \in A PROVE q \in X
      <4>1. q \in table /\ q.time > r.time /\ q.time \in Nat /\ r.time \in Nat
        BY <2>1 DEF Above
      <4>2. ~ (q.time <= r.time)
        BY <4>1
      <4> QED
        BY <1>5, <4>1, <4>2 DEF IsPrefix
    <3>2. A \cup {r} \in SUBSET X
      BY <3>1
    <3>3. Cardinality(A \cup {r}) <= Cardinality(X)
      <4> HIDE DEF A
      <4>1. X \in SUBSET Row
        BY <1>5
      <4> QED
        BY <3>2, <4>1, PartOfTable
    <3> HIDE DEF A
    <3>4. Cardinality(X) <= offset
      BY <1>4, <1>5
    <3>5. offset <= Cardinality(A)
      BY <1>6 DEF A
    <3>6. Cardinality(X) \in Nat
      BY <1>4, <1>5
    <3> QED
      BY <2>2, <2>3, <3>3, <3>4, <3>5, <3>6
  <2>6. r \in Y
    <3> SUFFICES ASSUME r \notin Y PROVE FALSE
      OBVIOUS
    <3>1. ASSUME NEW y \in Y PROVE y \in A
      <4>1. y \in table /\ y # r /\ y.time \in Nat /\ r.time \in Nat
        BY <1>5, <2>1
      <4>2. r.time <= y.time
        BY <1>5 DEF IsPrefix
      <4>3. y.time # r.time
        BY <1>6, <4>1 DEF OnlyOneAt
      <4> QED
        BY <4>1, <4>2, <4>3 DEF Above
    <3>2. Y \in SUBSET A
      BY <3>1
    <3>3. Cardinality(Y) <= Cardinality(A)
      <4>1. A \in SUBSET Row
        BY <2>1
      <4> HIDE DEF A
      <4> QED
        BY <3>2, <4>1, PartOfTable
    <3>4. Cardinality(A) < offset + limit
      BY <1>6
    <3> HIDE DEF A
    <3> QED
      BY <1>4, <1>5, <2>2, <2>4, <3>3, <3>4
  <2> QED
    BY <1>3, <2>5, <2>6
<1>7. page \in SUBSET table
  BY <1>3, <1>5
<1> QED
  BY <1>6, <1>7

\* Rows that all have n rows before them are at most as many as the table has
\* beyond n.
LEMMA BeyondCount ==
    ASSUME NEW table \in SUBSET Row, NEW M \in SUBSET table,
           NEW n \in Nat, NEW extra \in Nat,
           \A r \in M : Cardinality(Above(table, r)) >= n,
           Cardinality(table) <= n + extra
    PROVE  Cardinality(M) <= extra
<1>1. CASE M = {}
  BY <1>1, FS_EmptySet
<1>2. CASE M # {}
  <2> DEFINE ages == {MaxTime - r.time : r \in M}
  <2>1. \A r \in M : r.time \in 0 .. MaxTime /\ MaxTime \in Nat
    BY TablesAssumption DEF Row
  <2>2. ages \in SUBSET Nat /\ ages # {}
    BY <1>2, <2>1
  <2>3. \E a \in ages : \A x \in ages : a <= x
    <3> HIDE DEF ages
    <3> QED
      BY <2>2, LeastNumber
  <2>4. PICK r \in M : \A q \in M : MaxTime - r.time <= MaxTime - q.time
    BY <2>3
  <2> DEFINE A == Above(table, r)
  <2>5. A \in SUBSET table /\ M \in SUBSET Row /\ A \in SUBSET Row
    BY DEF Above
  <2>6. A \cap M = {}
    <3> SUFFICES ASSUME NEW q \in A, q \in M PROVE FALSE
      OBVIOUS
    <3>1. q.time > r.time /\ MaxTime - r.time <= MaxTime - q.time
      BY <2>4 DEF Above
    <3> QED
      BY <2>1, <3>1
  <2>7. Cardinality(A) >= n
    BY <2>4
  <2> HIDE DEF A
  <2>8. Cardinality(A \cup M) = Cardinality(A) + Cardinality(M)
    BY <2>5, <2>6, TwoTables
  <2>9. A \cup M \in SUBSET table
    BY <2>5
  <2>10. Cardinality(A \cup M) <= Cardinality(table)
    BY <2>9, PartOfTable
  <2>11. /\ Cardinality(A) \in Nat /\ Cardinality(M) \in Nat
         /\ Cardinality(table) \in Nat
    BY <2>5, RowsFinite
  <2> QED
    BY <2>7, <2>8, <2>10, <2>11
<1> QED
  BY <1>1, <1>2

-----------------------------------------------------------------------------
(* The invariant of the tables                                             *)

\* Rows on their way into the table.
Pending == UNION writes

\* Every write has rows of its own: no more are in the table and on their way,
\* or were inserted during a fetch and are on their way, than were stamped.
Supply ==
    /\ \A r \in Pending : r.id <= written
    /\ \A b, c \in writes : b # c => b \cap c = {}
    /\ Cardinality(rows) + Cardinality(Pending) <= written
    /\ late + Cardinality(Pending) <= written

\* Of the rows in `opened` only expired ones have left the table.
OnlyExpiredGone(opened, table, t) == \A r \in opened \ table : r.time + Ttl <= t

\* The rows a reader must not miss, see Missed in module Tables.
Owed(opened, table, shown, t) ==
    {r \in (opened \cap table) \ shown : OnlyOneAt(table, r) /\ ~ (r.time + Ttl <= t)}

\* What is owed comes after the first n rows.
OwedAfter(opened, table, shown, t, n) ==
    \A r \in Owed(opened, table, shown, t) : Cardinality(Above(table, r)) >= n

\* How many rows the pages up to the present one cover.
Covered(rd) == IF rd.pc = "shown" THEN (rd.page + 1) * rd.size ELSE rd.page * rd.size

AtEnd(rd) == rd.pc = "shown" /\ ~ ((rd.page + 1) * rd.size < rd.total)

Paged ==
    /\ OnlyExpiredGone(start, rows, now)
    /\ reader.pc # "closed" => OwedAfter(start, rows, seen, now, Covered(reader))
    /\ AtEnd(reader) => Cardinality(Owed(start, rows, seen, now)) <= late

\* The count is too low by what was inserted since.
Counted == reader.pc = "data" => Cardinality(rows) <= reader.total + late

EInv == TablesTypeOK /\ Supply /\ Paged /\ Counted

\* Rows are only inserted, in any place, or removed once they have expired:
\* what is owed later was owed before, and no row before it is lost.
LEMMA TableMoves ==
    ASSUME NEW S \in SUBSET Row, NEW T \in SUBSET Row,
           NEW U \in SUBSET Row, NEW v, NEW w, v \subseteq w,
           NEW n \in Nat, NEW m \in Nat, n <= m,
           OnlyExpiredGone(S, T, n), \A x \in T \ U : x.time + Ttl <= n
    PROVE  /\ OnlyExpiredGone(S, U, m)
           /\ Cardinality(Owed(S, U, w, m)) <= Cardinality(Owed(S, T, v, n))
           /\ \A k \in Nat : OwedAfter(S, T, v, n, k) => OwedAfter(S, U, w, m, k)
<1>1. Ttl \in Nat /\ \A r \in Row : r.time \in Nat
  BY TablesAssumption DEF Row
<1>2. ASSUME NEW x \in Row, x.time + Ttl <= n PROVE x.time + Ttl <= m
  BY <1>1, <1>2
<1>3. OnlyExpiredGone(S, U, m)
  BY <1>2 DEF OnlyExpiredGone
<1>4. ASSUME NEW r \in Owed(S, U, w, m)
      PROVE  r \in Owed(S, T, v, n) /\ Above(T, r) \subseteq Above(U, r)
  <2>1. /\ r \in S /\ r \in U /\ r \notin v /\ r \in Row
        /\ OnlyOneAt(U, r) /\ ~ (r.time + Ttl <= m)
    BY DEF Owed
  <2>2. ~ (r.time + Ttl <= n)
    BY <1>2, <2>1
  <2>3. r \in T
    BY <2>1, <2>2 DEF OnlyExpiredGone
  <2>4. ASSUME NEW x \in T, x.time >= r.time PROVE x \in U
    <3>1. x \in Row /\ ~ (x.time + Ttl <= n)
      BY <1>1, <2>1, <2>2, <2>4
    <3> QED
      BY <3>1
  <2>5. OnlyOneAt(T, r)
    <3> SUFFICES ASSUME NEW q \in T, q.time = r.time PROVE q = r
      BY DEF OnlyOneAt
    <3>1. q.time >= r.time
      BY <1>1, <2>1
    <3> QED
      BY <2>1, <2>4, <3>1 DEF OnlyOneAt
  <2>6. Above(T, r) \subseteq Above(U, r)
    <3> SUFFICES ASSUME NEW x \in T, x.time > r.time PROVE x \in U
      BY DEF Above
    <3>1. x.time >= r.time
      BY <1>1, <2>1
    <3> QED
      BY <2>4, <3>1
  <2> QED
    BY <2>1, <2>2, <2>3, <2>5, <2>6 DEF Owed
<1>5. Cardinality(Owed(S, U, w, m)) <= Cardinality(Owed(S, T, v, n))
  <2>1. Owed(S, U, w, m) \in SUBSET Owed(S, T, v, n)
    BY <1>4
  <2>2. Owed(S, T, v, n) \in SUBSET Row
    BY DEF Owed
  <2> QED
    BY <2>1, <2>2, PartOfTable
<1>6. ASSUME NEW k \in Nat, OwedAfter(S, T, v, n, k) PROVE OwedAfter(S, U, w, m, k)
  <2> SUFFICES ASSUME NEW r \in Owed(S, U, w, m) PROVE Cardinality(Above(U, r)) >= k
    BY DEF OwedAfter
  <2>1. Above(T, r) \in SUBSET Above(U, r) /\ Above(U, r) \in SUBSET Row
    BY <1>4 DEF Above
  <2>2. Above(T, r) \in SUBSET Row
    BY <2>1
  <2>3. Cardinality(Above(T, r)) <= Cardinality(Above(U, r))
    BY <2>1, PartOfTable
  <2>4. Cardinality(Above(T, r)) \in Nat /\ Cardinality(Above(U, r)) \in Nat
    BY <2>1, <2>2, RowsFinite
  <2>5. Cardinality(Above(T, r)) >= k
    BY <1>4, <1>6 DEF OwedAfter
  <2> QED
    BY <2>3, <2>4, <2>5
<1> QED
  BY <1>3, <1>5, <1>6

\* Types of single parts, as the steps use them.
LEMMA EventTypes ==
    ASSUME TablesTypeOK
    PROVE  /\ now \in Nat /\ now \in 0 .. MaxTime /\ rows \in SUBSET Row
           /\ start \in SUBSET Row /\ Pending \in SUBSET Row
           /\ written \in Nat /\ written <= MaxRows /\ late \in Nat
           /\ reader.page \in Nat /\ reader.size \in Nat /\ reader.total \in Nat
           /\ reader.pc \in {"closed", "count", "data", "shown"}
           /\ Covered(reader) \in Nat
           /\ Cardinality(rows) \in Nat /\ Cardinality(Pending) \in Nat
<1>1. /\ now \in Nat /\ now \in 0 .. MaxTime /\ rows \in SUBSET Row
      /\ start \in SUBSET Row
      /\ written \in Nat /\ written <= MaxRows /\ late \in Nat
  BY TablesAssumption DEF TablesTypeOK
<1>2. /\ reader.page \in Nat /\ reader.size \in Nat /\ reader.total \in Nat
      /\ reader.pc \in {"closed", "count", "data", "shown"}
  BY DEF TablesTypeOK, ReaderState
<1>3. Covered(reader) \in Nat
  BY <1>2 DEF Covered
<1>4. Pending \in SUBSET Row
  BY DEF TablesTypeOK, Batch, Pending
<1> QED
  BY <1>1, <1>2, <1>3, <1>4, RowsFinite

\* The reader stands still while the table changes.
LEMMA PagedWhileWritten ==
    ASSUME TablesTypeOK, TablesTypeOK', Paged,
           reader' = reader, start' = start, seen' = seen,
           now <= now', \A x \in rows \ rows' : x.time + Ttl <= now,
           reader.pc = "data" \/ late' = late
    PROVE  Paged'
<1>1. /\ now \in Nat /\ start \in SUBSET Row /\ rows \in SUBSET Row
      /\ Covered(reader) \in Nat /\ late \in Nat
  BY EventTypes
<1>2. now' \in Nat /\ rows' \in SUBSET Row
  BY TablesAssumption DEF TablesTypeOK
<1>3. OnlyExpiredGone(start, rows, now) /\ seen \subseteq seen
  BY DEF Paged
<1>4. /\ OnlyExpiredGone(start, rows', now')
      /\ Cardinality(Owed(start, rows', seen, now')) <= Cardinality(Owed(start, rows, seen, now))
      /\ \A k \in Nat : OwedAfter(start, rows, seen, now, k) => OwedAfter(start, rows', seen, now', k)
  BY <1>1, <1>2, <1>3, TableMoves
<1>5. /\ Owed(start, rows, seen, now) \in SUBSET Row
      /\ Owed(start, rows', seen, now') \in SUBSET Row
  BY <1>1 DEF Owed
<1>6. /\ Cardinality(Owed(start, rows, seen, now)) \in Nat
      /\ Cardinality(Owed(start, rows', seen, now')) \in Nat
  BY <1>5, RowsFinite
<1>7. AtEnd(reader) => Cardinality(Owed(start, rows', seen, now')) <= late'
  BY <1>1, <1>4, <1>6 DEF Paged, AtEnd
<1>8. reader.pc # "closed" => OwedAfter(start, rows', seen, now', Covered(reader))
  BY <1>1, <1>4 DEF Paged
<1> QED
  BY <1>4, <1>7, <1>8 DEF Paged

\* Time passes.
LEMMA TickKeeps ==
    ASSUME EInv, Tick
    PROVE  EInv'
<1>1. /\ now < MaxTime /\ now' = now + 1 /\ rows' = rows /\ writes' = writes
      /\ written' = written /\ late' = late /\ reader' = reader /\ start' = start
      /\ seen' = seen /\ refetch' = refetch
  BY DEF Tick, view
<1>2. now \in 0 .. MaxTime /\ MaxTime \in Nat
  BY EventTypes, TablesAssumption DEF EInv
<1>3. TablesTypeOK'
  BY <1>1, <1>2 DEF EInv, TablesTypeOK
<1>4. now <= now' /\ \A x \in rows \ rows' : x.time + Ttl <= now
  BY <1>1, <1>2
<1>5. Paged'
  BY <1>1, <1>3, <1>4, PagedWhileWritten DEF EInv
<1>6. Supply' /\ Counted'
  BY <1>1 DEF EInv, Supply, Pending, Counted
<1> QED
  BY <1>3, <1>5, <1>6 DEF EInv

\* A batch is stamped: its rows are new.
LEMMA StampKeeps ==
    ASSUME EInv, NEW k \in BatchSizes, Stamp(k)
    PROVE  EInv'
<1> DEFINE b == [id: written + 1 .. written + k, time: {now}]
<1>1. /\ written + k <= MaxRows /\ written' = written + k /\ writes' = writes \cup {b}
      /\ now' = now /\ rows' = rows /\ late' = late /\ reader' = reader
      /\ start' = start /\ seen' = seen /\ refetch' = refetch
  BY DEF Stamp, view
<1>2. /\ k \in Nat /\ written \in Nat /\ now \in 0 .. MaxTime /\ now \in Nat
      /\ Pending \in SUBSET Row /\ late \in Nat
      /\ Cardinality(rows) \in Nat /\ Cardinality(Pending) \in Nat /\ MaxRows \in Nat
  BY EventTypes, TablesAssumption DEF EInv
<1>3. b \in SUBSET Row /\ Cardinality(b) <= k
  BY <1>1, <1>2, StampedRows
<1>4. \A r \in b : r.id \in Nat /\ r.id > written /\ r.id <= written + k
  BY <1>2
<1> HIDE DEF b
<1>5. TablesTypeOK'
  BY <1>1, <1>2, <1>3 DEF EInv, TablesTypeOK, Batch
<1>6. now <= now' /\ \A x \in rows \ rows' : x.time + Ttl <= now
  BY <1>1, <1>2
<1>7. Paged'
  BY <1>1, <1>5, <1>6, PagedWhileWritten DEF EInv
<1>8. Pending' = Pending \cup b
  BY <1>1 DEF Pending
<1>9. Cardinality(Pending \cup b) <= Cardinality(Pending) + Cardinality(b)
  BY <1>2, <1>3, TwoTables
<1>10. Cardinality(Pending') <= Cardinality(Pending) + k
  <2>1. Cardinality(b) \in Nat /\ Pending \cup b \in SUBSET Row
    BY <1>2, <1>3, RowsFinite
  <2>2. Cardinality(Pending \cup b) \in Nat
    BY <2>1, RowsFinite
  <2> QED
    BY <1>2, <1>3, <1>8, <1>9, <2>1, <2>2
<1>11. Cardinality(Pending') \in Nat
  <2>1. Pending' \in SUBSET Row
    BY <1>2, <1>3, <1>8
  <2> QED
    BY <2>1, RowsFinite
<1>12. \A r \in Pending' : r.id <= written'
  <2>1. \A r \in Pending : r.id \in Nat /\ r.id <= written
    BY <1>2 DEF EInv, Supply, Row
  <2>2. \A r \in Pending : r.id <= written + k
    BY <1>2, <2>1
  <2> QED
    BY <1>1, <1>4, <1>8, <2>2
<1>13. \A c \in writes : c \cap b = {}
  <2> SUFFICES ASSUME NEW c \in writes, NEW r \in c, r \in b PROVE FALSE
    OBVIOUS
  <2>1. r \in Pending
    BY DEF Pending
  <2>2. r.id <= written
    BY <2>1 DEF EInv, Supply
  <2> QED
    BY <1>2, <1>4, <2>2
<1>14. \A c, d \in writes' : c # d => c \cap d = {}
  <2>1. \A c, d \in writes : c # d => c \cap d = {}
    BY DEF EInv, Supply
  <2> QED
    BY <1>1, <1>13, <2>1
<1>15. /\ Cardinality(rows') + Cardinality(Pending') <= written'
       /\ late' + Cardinality(Pending') <= written'
  <2>1. /\ Cardinality(rows) + Cardinality(Pending) <= written
        /\ late + Cardinality(Pending) <= written
    BY DEF EInv, Supply
  <2> QED
    BY <1>1, <1>2, <1>10, <1>11, <2>1
<1>16. Counted'
  BY <1>1 DEF EInv, Counted
<1> QED
  BY <1>5, <1>7, <1>12, <1>14, <1>15, <1>16 DEF EInv, Supply

\* One write less is on its way.
LEMMA TakeWrite ==
    ASSUME TablesTypeOK, Supply, NEW b \in writes,
           writes' = writes \ {b}
    PROVE  /\ b \in SUBSET Row
           /\ Pending' \in SUBSET Pending
           /\ Cardinality(b) \in Nat /\ Cardinality(Pending') \in Nat
           /\ Cardinality(b) + Cardinality(Pending') <= Cardinality(Pending)
           /\ \A c, d \in writes' : c # d => c \cap d = {}
<1>1. b \in SUBSET Row /\ Pending \in SUBSET Row
  BY EventTypes DEF TablesTypeOK, Batch
<1>2. Pending' \in SUBSET Pending
  BY DEF Pending
<1>3. b \cap Pending' = {}
  <2> SUFFICES ASSUME NEW r \in b, r \in Pending' PROVE FALSE
    OBVIOUS
  <2>1. PICK c \in writes' : r \in c
    BY DEF Pending
  <2>2. c \in writes /\ c # b
    OBVIOUS
  <2>3. c \cap b = {}
    BY <2>2 DEF Supply
  <2> QED
    BY <2>1, <2>3
<1>4. b \cup Pending' \in SUBSET Pending
  BY <1>2 DEF Pending
<1>5. Pending' \in SUBSET Row /\ b \cup Pending' \in SUBSET Row
  BY <1>1, <1>2
<1>6. Cardinality(b \cup Pending') = Cardinality(b) + Cardinality(Pending')
  BY <1>1, <1>3, <1>5, TwoTables
<1>7. Cardinality(b \cup Pending') <= Cardinality(Pending)
  BY <1>1, <1>4, PartOfTable
<1>8. Cardinality(b) \in Nat /\ Cardinality(Pending') \in Nat
  BY <1>1, <1>5, RowsFinite
<1>9. \A c, d \in writes' : c # d => c \cap d = {}
  BY DEF Supply
<1> QED
  BY <1>1, <1>2, <1>6, <1>7, <1>8, <1>9

\* A batch is inserted, in whatever place its time gives it.
LEMMA InsertKeeps ==
    ASSUME EInv, NEW b \in writes, InsertBatch(b)
    PROVE  EInv'
<1>1. /\ writes' = writes \ {b} /\ rows' = rows \cup b
      /\ late' = IF reader.pc = "data" THEN late + Cardinality(b) ELSE late
      /\ now' = now /\ written' = written /\ reader' = reader
      /\ start' = start /\ seen' = seen /\ refetch' = refetch
  BY DEF InsertBatch, view
<1>2. /\ written \in Nat /\ written <= MaxRows /\ now \in Nat
      /\ rows \in SUBSET Row /\ late \in Nat
      /\ Cardinality(rows) \in Nat /\ Cardinality(Pending) \in Nat /\ MaxRows \in Nat
      /\ reader.total \in Nat
  BY EventTypes, TablesAssumption DEF EInv
<1>3. /\ b \in SUBSET Row
      /\ Pending' \in SUBSET Pending
      /\ Cardinality(b) \in Nat /\ Cardinality(Pending') \in Nat
      /\ Cardinality(b) + Cardinality(Pending') <= Cardinality(Pending)
      /\ \A c, d \in writes' : c # d => c \cap d = {}
  BY <1>1, TakeWrite DEF EInv
<1>4. /\ Cardinality(rows) + Cardinality(Pending) <= written
      /\ late + Cardinality(Pending) <= written
      /\ \A r \in Pending : r.id <= written
  BY DEF EInv, Supply
<1>5. rows' \in SUBSET Row
  BY <1>1, <1>2, <1>3
<1>6. Cardinality(rows') <= Cardinality(rows) + Cardinality(b) /\ Cardinality(rows') \in Nat
  BY <1>1, <1>2, <1>3, <1>5, TwoTables, RowsFinite
<1>7. /\ late' \in Nat /\ late' + Cardinality(Pending') <= written
      /\ Cardinality(rows') + Cardinality(Pending') <= written
      /\ late' <= MaxRows
  BY <1>1, <1>2, <1>3, <1>4, <1>6
<1>8. TablesTypeOK'
  BY <1>1, <1>2, <1>5, <1>7 DEF EInv, TablesTypeOK
<1>9. now <= now' /\ \A x \in rows \ rows' : x.time + Ttl <= now
  BY <1>1, <1>2
<1>10. Paged'
  BY <1>1, <1>8, <1>9, PagedWhileWritten DEF EInv
<1>11. Supply'
  BY <1>1, <1>3, <1>4, <1>7 DEF Supply
<1>12. Counted'
  BY <1>1, <1>2, <1>3, <1>6 DEF EInv, Counted
<1> QED
  BY <1>8, <1>10, <1>11, <1>12 DEF EInv

\* A write fails.
LEMMA WriteFailKeeps ==
    ASSUME EInv, NEW b \in writes, WriteFails(b)
    PROVE  EInv'
<1>1. /\ writes' = writes \ {b} /\ rows' = rows /\ late' = late
      /\ now' = now /\ written' = written /\ reader' = reader
      /\ start' = start /\ seen' = seen /\ refetch' = refetch
  BY DEF WriteFails, view
<1>2. /\ written \in Nat /\ now \in Nat /\ late \in Nat
      /\ Cardinality(rows) \in Nat /\ Cardinality(Pending) \in Nat
  BY EventTypes DEF EInv
<1>3. /\ Pending' \in SUBSET Pending
      /\ Cardinality(b) \in Nat /\ Cardinality(Pending') \in Nat
      /\ Cardinality(b) + Cardinality(Pending') <= Cardinality(Pending)
      /\ \A c, d \in writes' : c # d => c \cap d = {}
  BY <1>1, TakeWrite DEF EInv
<1>4. /\ Cardinality(rows) + Cardinality(Pending) <= written
      /\ late + Cardinality(Pending) <= written
      /\ \A r \in Pending : r.id <= written
  BY DEF EInv, Supply
<1>5. TablesTypeOK'
  BY <1>1 DEF EInv, TablesTypeOK
<1>6. now <= now' /\ \A x \in rows \ rows' : x.time + Ttl <= now
  BY <1>1, <1>2
<1>7. Paged'
  BY <1>1, <1>5, <1>6, PagedWhileWritten DEF EInv
<1>8. /\ Cardinality(rows') + Cardinality(Pending') <= written
      /\ late' + Cardinality(Pending') <= written
  BY <1>1, <1>2, <1>3, <1>4
<1>9. Supply' /\ Counted'
  BY <1>1, <1>3, <1>4, <1>8 DEF EInv, Supply, Counted
<1> QED
  BY <1>5, <1>7, <1>9 DEF EInv

\* A merge removes an expired row.
LEMMA ExpireKeeps ==
    ASSUME EInv, NEW r \in rows, ExpireRow(r)
    PROVE  EInv'
<1>1. /\ r.time + Ttl <= now /\ rows' = rows \ {r} /\ writes' = writes /\ late' = late
      /\ now' = now /\ written' = written /\ reader' = reader
      /\ start' = start /\ seen' = seen /\ refetch' = refetch
  BY DEF ExpireRow, Expired, view
<1>2. /\ written \in Nat /\ now \in Nat /\ late \in Nat /\ rows \in SUBSET Row
      /\ Cardinality(rows) \in Nat /\ Cardinality(Pending) \in Nat /\ reader.total \in Nat
  BY EventTypes DEF EInv
<1>3. rows' \in SUBSET rows /\ rows' \in SUBSET Row
  BY <1>1, <1>2
<1>4. Cardinality(rows') <= Cardinality(rows) /\ Cardinality(rows') \in Nat
  BY <1>2, <1>3, PartOfTable, RowsFinite
<1>5. TablesTypeOK'
  BY <1>1, <1>3 DEF EInv, TablesTypeOK
<1>6. now <= now' /\ \A x \in rows \ rows' : x.time + Ttl <= now
  BY <1>1, <1>2
<1>7. Paged'
  BY <1>1, <1>5, <1>6, PagedWhileWritten DEF EInv
<1>8. Pending' = Pending
  BY <1>1 DEF Pending
<1>9. Supply'
  <2>1. Cardinality(rows) + Cardinality(Pending) <= written
    BY DEF EInv, Supply
  <2>2. Cardinality(rows') + Cardinality(Pending) <= written
    BY <1>2, <1>4, <2>1
  <2> QED
    BY <1>1, <1>8, <2>2 DEF EInv, Supply
<1>10. Counted'
  BY <1>1, <1>2, <1>4 DEF EInv, Counted
<1> QED
  BY <1>5, <1>7, <1>9, <1>10 DEF EInv

\* The reader asks again, for this page or the next one.
LEMMA PagedWhileAsking ==
    ASSUME TablesTypeOK, Paged, reader.pc # "closed",
           reader'.pc # "shown", Covered(reader') \in Nat, Covered(reader') <= Covered(reader),
           now' = now, rows' = rows, start' = start, seen' = seen
    PROVE  Paged'
<1>1. /\ OnlyExpiredGone(start, rows, now)
      /\ OwedAfter(start, rows, seen, now, Covered(reader))
  BY DEF Paged
<1>2. rows \in SUBSET Row /\ Covered(reader) \in Nat
  BY EventTypes
<1>3. OwedAfter(start, rows, seen, now, Covered(reader'))
  <2> SUFFICES ASSUME NEW r \in Owed(start, rows, seen, now)
               PROVE  Cardinality(Above(rows, r)) >= Covered(reader')
    BY DEF OwedAfter
  <2>1. Above(rows, r) \in SUBSET Row
    BY <1>2 DEF Above
  <2>2. Cardinality(Above(rows, r)) \in Nat
    BY <2>1, RowsFinite
  <2>3. Cardinality(Above(rows, r)) >= Covered(reader)
    BY <1>1 DEF OwedAfter
  <2> QED
    BY <1>2, <2>2, <2>3
<1>4. ~ AtEnd(reader')
  BY DEF AtEnd
<1> QED
  BY <1>1, <1>3, <1>4 DEF Paged

\* The rows before page p + 1 are those before page p and those on it.
LEMMA OnePageMore ==
    ASSUME NEW p \in Nat, NEW s \in Nat
    PROVE  /\ (p + 1) * s = p * s + s /\ p * s \in Nat /\ (p + 1) * s \in Nat
           /\ s # 0 => p + 1 <= (p + 1) * s
<1>1. (p + 1) * s = p * s + s /\ p * s \in Nat /\ (p + 1) * s \in Nat
  OBVIOUS
<1>2. ASSUME s # 0 PROVE p <= p * s
  <2>1. PICK z \in Nat : s = z + 1
    <3>1. s - 1 \in Nat /\ s = (s - 1) + 1
      BY <1>2
    <3> QED
      BY <3>1
  <2>2. p * s = p * z + p /\ p * z \in Nat
    BY <2>1
  <2> QED
    BY <2>2
<1>3. s # 0 => 1 <= s
  OBVIOUS
<1> QED
  BY <1>1, <1>2, <1>3

\* A view opens the table.
LEMMA OpenKeeps ==
    ASSUME EInv, NEW requested \in Requested, Open(requested)
    PROVE  EInv'
<1> DEFINE size == PageSize(requested)
<1>1. /\ reader' = [pc |-> "count", page |-> 0, size |-> size, total |-> 0]
      /\ start' = rows /\ seen' = {} /\ now' = now /\ rows' = rows /\ writes' = writes
      /\ written' = written /\ late' = late /\ refetch' = refetch
  BY DEF Open
<1>2. size \in 1 .. MaxPageSize
  BY TablesAssumption DEF PageSize
<1> HIDE DEF size
<1>3. TablesTypeOK'
  <2>1. reader' \in ReaderState
    BY <1>1, <1>2, TablesAssumption DEF ReaderState
  <2>2. reader'.size > 0 /\ reader'.page <= MaxRows
    BY <1>1, <1>2, TablesAssumption
  <2> QED
    BY <1>1, <2>1, <2>2 DEF EInv, TablesTypeOK
<1>4. Paged'
  <2>1. Covered(reader') = 0 /\ ~ AtEnd(reader')
    BY <1>1, <1>2 DEF Covered, AtEnd
  <2>2. OnlyExpiredGone(start', rows', now')
    BY <1>1 DEF OnlyExpiredGone
  <2>3. OwedAfter(start', rows', seen', now', 0)
    <3> SUFFICES ASSUME NEW r PROVE Cardinality(Above(rows, r)) >= 0
      BY <1>1 DEF OwedAfter
    <3>1. rows \in SUBSET Row
      BY EventTypes DEF EInv
    <3>2. Above(rows, r) \in SUBSET Row
      BY <3>1 DEF Above
    <3>3. Cardinality(Above(rows, r)) \in Nat
      BY <3>2, RowsFinite
    <3> QED
      BY <3>3
  <2> QED
    BY <2>1, <2>2, <2>3 DEF Paged
<1>5. Supply' /\ Counted'
  BY <1>1 DEF EInv, Supply, Pending, Counted
<1> QED
  BY <1>3, <1>4, <1>5 DEF EInv

\* The count query.
LEMMA CountKeeps ==
    ASSUME EInv, CountRows
    PROVE  EInv'
<1>1. /\ reader.pc = "count"
      /\ reader' = [reader EXCEPT !.pc = "data", !.total = Cardinality(rows)]
      /\ late' = 0 /\ now' = now /\ rows' = rows /\ writes' = writes /\ written' = written
      /\ start' = start /\ seen' = seen /\ refetch' = refetch
  BY DEF CountRows
<1>2. /\ written \in Nat /\ written <= MaxRows /\ late \in Nat /\ MaxRows \in Nat
      /\ Cardinality(rows) \in Nat /\ Cardinality(Pending) \in Nat
      /\ Covered(reader) \in Nat
  BY EventTypes, TablesAssumption DEF EInv
<1>3. /\ Cardinality(rows) + Cardinality(Pending) <= written
      /\ late + Cardinality(Pending) <= written
  BY DEF EInv, Supply
<1>4. Cardinality(rows) \in 0 .. MaxRows /\ 0 + Cardinality(Pending) <= written
  BY <1>2, <1>3
<1>5. reader \in ReaderState
  BY DEF EInv, TablesTypeOK
<1>6. /\ reader' \in ReaderState /\ reader'.pc = "data" /\ reader'.page = reader.page
      /\ reader'.size = reader.size /\ reader'.total = Cardinality(rows)
  BY <1>1, <1>4, <1>5 DEF ReaderState
<1>7. TablesTypeOK'
  BY <1>1, <1>2, <1>6 DEF EInv, TablesTypeOK
<1>8. Covered(reader') = Covered(reader)
  BY <1>1, <1>6 DEF Covered
<1>9. Paged'
  BY <1>1, <1>2, <1>6, <1>8, PagedWhileAsking DEF EInv
<1>10. Supply'
  BY <1>1, <1>4 DEF EInv, Supply, Pending
<1>11. Counted'
  BY <1>1, <1>2, <1>6 DEF Counted
<1> QED
  BY <1>7, <1>9, <1>10, <1>11 DEF EInv

\* The page arrives: what is owed and not on it comes after it, and beyond the
\* count there is only what came late.
LEMMA FetchKeeps ==
    ASSUME EInv, FetchPage
    PROVE  EInv'
<1> DEFINE offset == reader.page * reader.size
           covered == (reader.page + 1) * reader.size
<1>1. PICK page \in Slices(rows, reader.size, offset) : seen' = seen \cup page
  BY DEF FetchPage
<1>2. /\ reader.pc = "data" /\ reader' = [reader EXCEPT !.pc = "shown"]
      /\ late' = late /\ now' = now /\ rows' = rows /\ writes' = writes /\ written' = written
      /\ start' = start /\ refetch' = refetch
  BY DEF FetchPage
<1>3. /\ rows \in SUBSET Row /\ start \in SUBSET Row /\ late \in Nat
      /\ reader.page \in Nat /\ reader.size \in Nat /\ reader.total \in Nat
      /\ Cardinality(rows) \in Nat /\ now \in Nat
  BY EventTypes DEF EInv
<1>4. covered = offset + reader.size /\ offset \in Nat /\ covered \in Nat
  BY <1>3, OnePageMore
<1>5. reader \in ReaderState
  BY DEF EInv, TablesTypeOK
<1>6. /\ reader' \in ReaderState /\ reader'.pc = "shown" /\ reader'.page = reader.page
      /\ reader'.size = reader.size /\ reader'.total = reader.total
  BY <1>2, <1>5 DEF ReaderState
<1>7. OwedAfter(start, rows, seen, now, offset)
  BY <1>2 DEF EInv, Paged, Covered
<1>8. Covered(reader') = covered /\ (AtEnd(reader') => reader.total <= covered)
  <2>1. Covered(reader') = covered
    BY <1>6 DEF Covered
  <2>2. AtEnd(reader') => ~ (covered < reader.total)
    BY <1>6 DEF AtEnd
  <2> QED
    BY <1>3, <1>4, <2>1, <2>2
<1> HIDE DEF offset, covered
<1>9. /\ page \in SUBSET rows
      /\ \A r \in rows :
            (/\ OnlyOneAt(rows, r)
             /\ offset <= Cardinality(Above(rows, r))
             /\ Cardinality(Above(rows, r)) < offset + reader.size) => r \in page
  <2> DEFINE size == reader.size
  <2>1. size \in Nat /\ page \in Slices(rows, size, offset)
    BY <1>1, <1>3
  <2> HIDE DEF size
  <2>2. /\ page \in SUBSET rows
        /\ \A r \in rows :
              (/\ OnlyOneAt(rows, r)
               /\ offset <= Cardinality(Above(rows, r))
               /\ Cardinality(Above(rows, r)) < offset + size) => r \in page
    BY <1>3, <1>4, <2>1, SliceFacts
  <2> QED
    BY <2>2 DEF size
<1>10. TablesTypeOK'
  <2>1. seen' \subseteq Row
    BY <1>1, <1>3, <1>9 DEF EInv, TablesTypeOK
  <2> QED
    BY <1>2, <1>6, <2>1 DEF EInv, TablesTypeOK
<1>11. OwedAfter(start, rows, seen', now, covered)
  <2> SUFFICES ASSUME NEW r \in Owed(start, rows, seen', now)
               PROVE  Cardinality(Above(rows, r)) >= covered
    BY DEF OwedAfter
  <2>1. /\ r \in Owed(start, rows, seen, now) /\ r \in rows /\ OnlyOneAt(rows, r)
        /\ r \notin page
    BY <1>1 DEF Owed
  <2>2. Cardinality(Above(rows, r)) >= offset
    BY <1>7, <2>1 DEF OwedAfter
  <2>3. Above(rows, r) \in SUBSET Row
    BY <1>3 DEF Above
  <2>4. Cardinality(Above(rows, r)) \in Nat
    BY <2>3, RowsFinite
  <2>5. offset <= Cardinality(Above(rows, r))
    BY <1>4, <2>2, <2>4
  <2>6. ~ (Cardinality(Above(rows, r)) < offset + reader.size)
    BY <1>9, <2>1, <2>5
  <2> QED
    BY <1>3, <1>4, <2>4, <2>6
<1>12. AtEnd(reader') => Cardinality(Owed(start, rows, seen', now)) <= late
  <2> SUFFICES ASSUME reader.total <= covered
               PROVE  Cardinality(Owed(start, rows, seen', now)) <= late
    BY <1>8
  <2> DEFINE M == Owed(start, rows, seen', now)
  <2>1. Cardinality(rows) <= reader.total + late
    BY <1>2 DEF EInv, Counted
  <2>2. Cardinality(rows) <= covered + late
    BY <1>3, <1>4, <2>1
  <2>3. M \in SUBSET rows
    BY DEF Owed
  <2>4. \A r \in M : Cardinality(Above(rows, r)) >= covered
    BY <1>11 DEF OwedAfter
  <2> HIDE DEF M
  <2>5. Cardinality(M) <= late
    BY <1>3, <1>4, <2>2, <2>3, <2>4, BeyondCount
  <2> QED
    BY <2>5 DEF M
<1>13. Paged'
  <2>1. OnlyExpiredGone(start, rows, now)
    BY DEF EInv, Paged
  <2> QED
    BY <1>2, <1>8, <1>11, <1>12, <2>1 DEF Paged
<1>14. Supply' /\ Counted'
  BY <1>2, <1>6 DEF EInv, Supply, Pending, Counted
<1> QED
  BY <1>10, <1>13, <1>14 DEF EInv

\* A fetch starts again.
LEMMA AgainKeeps ==
    ASSUME EInv, QueryFails \/ Refresh
    PROVE  EInv'
<1>1. /\ reader.pc \in {"count", "data", "shown"} /\ refetch < MaxRefetch
      /\ refetch' = refetch + 1 /\ reader' = [reader EXCEPT !.pc = "count"]
      /\ late' = late /\ now' = now /\ rows' = rows /\ writes' = writes /\ written' = written
      /\ start' = start /\ seen' = seen
  BY DEF QueryFails, Refresh
<1>2. /\ reader.page \in Nat /\ reader.size \in Nat
      /\ reader \in ReaderState /\ refetch \in 0 .. MaxRefetch /\ MaxRefetch \in Nat
  BY EventTypes, TablesAssumption DEF EInv, TablesTypeOK
<1>3. /\ reader' \in ReaderState /\ reader'.pc = "count" /\ reader'.page = reader.page
      /\ reader'.size = reader.size
  BY <1>1, <1>2 DEF ReaderState
<1>4. refetch' \in 0 .. MaxRefetch
  BY <1>1, <1>2
<1>5. TablesTypeOK'
  BY <1>1, <1>3, <1>4 DEF EInv, TablesTypeOK
<1>6. /\ reader.page * reader.size \in Nat
      /\ (reader.page + 1) * reader.size = reader.page * reader.size + reader.size
  BY <1>2, OnePageMore
<1>7. Covered(reader') = reader.page * reader.size
  BY <1>3 DEF Covered
<1>8. Covered(reader') \in Nat /\ Covered(reader') <= Covered(reader)
  <2>1. Covered(reader) \in {reader.page * reader.size,
                             reader.page * reader.size + reader.size}
    BY <1>6 DEF Covered
  <2> QED
    BY <1>2, <1>6, <1>7, <2>1
<1>9. Paged'
  BY <1>1, <1>3, <1>8, PagedWhileAsking DEF EInv
<1>10. Supply' /\ Counted'
  BY <1>1, <1>3 DEF EInv, Supply, Pending, Counted
<1> QED
  BY <1>5, <1>9, <1>10 DEF EInv

\* The view turns the page.
LEMMA NextPageKeeps ==
    ASSUME EInv, NextPage
    PROVE  EInv'
<1>1. /\ reader.pc = "shown" /\ (reader.page + 1) * reader.size < reader.total
      /\ reader' = [reader EXCEPT !.pc = "count", !.page = reader.page + 1]
      /\ late' = late /\ now' = now /\ rows' = rows /\ writes' = writes /\ written' = written
      /\ start' = start /\ seen' = seen /\ refetch' = refetch
  BY DEF NextPage, HasNextPage
<1>2. /\ reader.page \in Nat /\ reader.size \in Nat /\ reader.total \in 0 .. MaxRows
      /\ reader.size > 0 /\ reader \in ReaderState /\ MaxRows \in Nat
  BY <1>1, EventTypes, TablesAssumption DEF EInv, TablesTypeOK, ReaderState
<1>3. /\ reader' \in ReaderState /\ reader'.pc = "count"
      /\ reader'.page = reader.page + 1 /\ reader'.size = reader.size
  <2>1. reader.page + 1 \in Nat
    BY <1>2
  <2> QED
    BY <1>1, <1>2, <2>1 DEF ReaderState
<1>4. /\ reader.page + 1 <= (reader.page + 1) * reader.size
      /\ (reader.page + 1) * reader.size \in Nat
  <2>1. reader.size # 0
    BY <1>2
  <2> QED
    BY <1>2, <2>1, OnePageMore
<1>5. reader'.page <= MaxRows
  BY <1>1, <1>2, <1>3, <1>4
<1>6. TablesTypeOK'
  BY <1>1, <1>2, <1>3, <1>5 DEF EInv, TablesTypeOK
<1>7. /\ Covered(reader') = (reader.page + 1) * reader.size
      /\ Covered(reader) = (reader.page + 1) * reader.size
  BY <1>1, <1>3 DEF Covered
<1>8. Covered(reader') \in Nat /\ Covered(reader') <= Covered(reader)
  BY <1>4, <1>7
<1>9. Paged'
  BY <1>1, <1>3, <1>8, PagedWhileAsking DEF EInv
<1>10. Supply' /\ Counted'
  BY <1>1, <1>3 DEF EInv, Supply, Pending, Counted
<1> QED
  BY <1>6, <1>9, <1>10 DEF EInv

\* Every step keeps the invariant.
LEMMA EventsKeep == EInv /\ [TablesNext]_tablesVars => EInv'
<1> SUFFICES ASSUME EInv, [TablesNext]_tablesVars PROVE EInv'
  OBVIOUS
<1>1. CASE UNCHANGED tablesVars
  BY <1>1 DEF tablesVars, EInv, TablesTypeOK, Supply, Pending, Paged, Counted
<1>2. CASE TablesNext
  <2>1. \/ Tick
        \/ \E k \in BatchSizes : Stamp(k)
        \/ \E b \in writes : InsertBatch(b) \/ WriteFails(b)
        \/ \E r \in rows : ExpireRow(r)
        \/ \E requested \in Requested : Open(requested)
        \/ CountRows \/ FetchPage
        \/ QueryFails \/ Refresh \/ NextPage
    BY <1>2 DEF TablesNext
  <2> QED
    BY <2>1, TickKeeps, StampKeeps, InsertKeeps, WriteFailKeeps, ExpireKeeps, OpenKeeps,
       CountKeeps, FetchKeeps, AgainKeeps, NextPageKeeps
<1> QED
  BY <1>1, <1>2

\* An empty table and a closed view.
LEMMA EventsBegin == TablesInit => EInv
<1> SUFFICES ASSUME TablesInit PROVE EInv
  OBVIOUS
<1>1. /\ now = 0 /\ rows = {} /\ writes = {} /\ written = 0 /\ late = 0
      /\ reader = [pc |-> "closed", page |-> 0, size |-> 0, total |-> 0]
      /\ start = {} /\ seen = {} /\ refetch = 0
  BY DEF TablesInit
<1>2. Pending = {} /\ Cardinality(Pending) = 0 /\ Cardinality(rows) = 0
  <2>1. Pending = {}
    BY <1>1 DEF Pending
  <2> QED
    BY <1>1, <2>1, FS_EmptySet
<1>3. TablesTypeOK
  BY <1>1, TablesAssumption DEF TablesTypeOK, ReaderState
<1>4. Supply
  BY <1>1, <1>2 DEF Supply
<1>5. Paged /\ Counted
  BY <1>1 DEF Paged, Counted, OnlyExpiredGone, AtEnd
<1> QED
  BY <1>3, <1>4, <1>5 DEF EInv

\* The count is taken modulo nothing as long as it fits.
LEMMA NoWrap == ASSUME NEW x \in Nat, NEW w \in Nat, x < w PROVE x % w = x
  OBVIOUS

\* The first page of a window: its newest rows.
LEMMA NewestFacts ==
    ASSUME NEW table \in SUBSET Row,
           NEW shown \in Newest(table)
    PROVE  /\ shown \in SUBSET table
           /\ \A r \in shown, q \in table \ shown : q.time <= r.time
           /\ Cardinality(shown) < Limit => shown = table
<1>1. PICK p \in Prefixes(table, 0) \X Prefixes(table, 0 + Limit) :
         p[1] \subseteq p[2] /\ shown = p[2] \ p[1]
  BY DEF Newest, Slices
<1> DEFINE X == p[1]
           Y == p[2]
<1>2. /\ X \in Prefixes(table, 0) /\ Y \in Prefixes(table, 0 + Limit)
      /\ shown = Y \ X
  BY <1>1
<1> HIDE DEF X, Y
<1>3. Cardinality(table) \in Nat /\ Limit \in Nat
  BY RowsFinite, TablesAssumption
<1>4. /\ X \in SUBSET table /\ Y \in SUBSET table
      /\ Cardinality(X) = IF 0 < Cardinality(table) THEN 0 ELSE Cardinality(table)
      /\ Cardinality(Y) = IF 0 + Limit < Cardinality(table) THEN 0 + Limit
                          ELSE Cardinality(table)
      /\ IsPrefix(table, Y)
  BY <1>2 DEF Prefixes, kSubset
<1>5. X = {}
  <2>1. Cardinality(X) = 0
    BY <1>3, <1>4
  <2>2. IsFiniteSet(X)
    BY <1>4, RowsFinite
  <2> QED
    BY <2>1, <2>2, FS_EmptySet
<1>6. shown = Y
  BY <1>2, <1>5
<1>7. ASSUME Cardinality(Y) < Limit PROVE Y = table
  <2>1. Cardinality(Y) = Cardinality(table)
    BY <1>3, <1>4, <1>7
  <2> QED
    BY <1>4, <2>1, PartOfTable
<1> QED
  BY <1>4, <1>6, <1>7 DEF IsPrefix

\* The types of the tables, the writes on their way and the reader: no page
\* size beyond the cap, no page beyond the rows ever written.
THEOREM EventTablesTyped == TablesSpec => []TablesTypeOK
<1>1. EInv => TablesTypeOK
  BY DEF EInv
<1> QED
  BY EventsBegin, EventsKeep, <1>1, PTL DEF TablesSpec

\* Paging by OFFSET to the last page misses at most as many rows that were
\* there all the time as were inserted between the last count and its page.
THEOREM PagingSound == TablesSpec => []PagingMissesOnlyLate
<1>1. EInv => PagingMissesOnlyLate
  <2>1. Missed = Owed(start, rows, seen, now)
    BY DEF Missed, UniqueTime, Expired, Owed, OnlyOneAt
  <2>2. AtLastPage <=> AtEnd(reader)
    BY DEF AtLastPage, HasNextPage, AtEnd
  <2> QED
    BY <2>1, <2>2 DEF EInv, Paged, PagingMissesOnlyLate
<1> QED
  BY EventsBegin, EventsKeep, <1>1, PTL DEF TablesSpec

\* Both tools of the MCP server show the newest rows of the last N minutes,
\* all of them up to the limit, as long as the product does not wrap.
THEOREM WindowsExact == TablesSpec => []WindowExact
<1>1. EInv => WindowExact
  <2> SUFFICES ASSUME EInv,
                      NEW minutes \in 0 .. Word - 1, minutes * Minute < Word,
                      NEW shown \in get_network_events(minutes)
                                        \cup get_k8s_events(minutes)
               PROVE  LET window == {r \in rows : now - r.time <= minutes * Minute}
                      IN  /\ shown \subseteq window
                          /\ \A r \in shown, q \in window \ shown : q.time <= r.time
                          /\ Cardinality(shown) < Limit => shown = window
    BY DEF WindowExact
  <2> DEFINE window == {r \in rows : now - r.time <= minutes * Minute}
  <2>1. /\ now \in Nat /\ rows \in SUBSET Row /\ Minute \in Nat /\ Word \in Nat
        /\ minutes \in Nat /\ \A r \in rows : r.time \in Nat
    BY EventTypes, TablesAssumption DEF EInv, Row
  <2>2. minutes * Minute \in Nat
    BY <2>1
  <2>3. WindowSeconds(minutes) = minutes * Minute
    BY <2>1, <2>2, NoWrap DEF WindowSeconds
  <2>4. \A r \in rows : r.time >= now - minutes * Minute <=> now - r.time <= minutes * Minute
    BY <2>1, <2>2
  <2>5. {r \in rows : r.time >= now - minutes * Minute} = window
    BY <2>4
  <2>6. shown \in Newest(window)
    BY <2>3, <2>5 DEF get_network_events, get_k8s_events
  <2>7. window \in SUBSET Row
    BY <2>1
  <2> HIDE DEF window
  <2>8. /\ shown \in SUBSET window
        /\ \A r \in shown, q \in window \ shown : q.time <= r.time
        /\ Cardinality(shown) < Limit => shown = window
    BY <2>6, <2>7, NewestFacts
  <2> QED
    BY <2>8 DEF window
<1> QED
  BY EventsBegin, EventsKeep, <1>1, PTL DEF TablesSpec

=============================================================================
