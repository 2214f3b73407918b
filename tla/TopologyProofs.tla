--------------------------- MODULE TopologyProofs ---------------------------
(***************************************************************************)
(* What the operations of Topology preserve, for every graph and for all   *)
(* values of the constants: the type of the graph and its well-formedness. *)
(***************************************************************************)
EXTENDS Subgraph, Integers, NaturalsInduction, WellFoundedInduction,
        SequenceTheorems, TLAPS

-----------------------------------------------------------------------------
(* Numbers                                                                 *)

LessThan == {p \in Nat \X Nat : p[1] < p[2]}

\* There is no infinite descent in the naturals.
LEMMA LessThanWellFounded == IsWellFoundedOn(LessThan, Nat)
  BY NatLessThanWellFounded, Zenon DEF OpToRel, LessThan

\* A set of numbers that is not empty has a least element.
LEMMA LeastNumber ==
    ASSUME NEW S \in SUBSET Nat, S # {}
    PROVE  \E n \in S : \A m \in S : n <= m
<1>1. PICK x \in S : \A y \in S : <<y, x>> \notin LessThan
  BY LessThanWellFounded, WFMin
<1>2. \A y \in S : ~ (y < x)
  BY <1>1 DEF LessThan
<1> QED
  BY <1>2

\* Induction: a set of numbers that holds 0 and is closed under successor.
LEMMA SetInduction ==
    ASSUME NEW S \in SUBSET Nat, 0 \in S, \A n \in S : n + 1 \in S
    PROVE  S = Nat
<1> SUFFICES ASSUME Nat \ S # {} PROVE FALSE
  OBVIOUS
<1>1. PICK n \in Nat \ S : \A m \in Nat \ S : n <= m
  BY LeastNumber
<1>2. n # 0 /\ n - 1 \in Nat
  BY <1>1
<1>3. n - 1 \in S
  BY <1>1, <1>2
<1> QED
  BY <1>1, <1>2, <1>3

-----------------------------------------------------------------------------
(* The sequences of flows, seen as sets of flows                           *)

\* Vec::push after Vec::contains adds exactly the new element.
LEMMA PushNewRange ==
    ASSUME NEW S, NEW flows \in Seq(S), NEW f \in S
    PROVE  /\ PushNew(flows, f) \in Seq(S)
           /\ Range(PushNew(flows, f)) = Range(flows) \cup {f}
<1>1. CASE Contains(flows, f)
  BY <1>1 DEF PushNew, Contains
<1>2. CASE ~ Contains(flows, f)
  <2>1. PushNew(flows, f) = flows \o <<f>>
    BY <1>2, AppendIsConcat DEF PushNew
  <2>2. <<f>> \in Seq(S) /\ Range(<<f>>) = {f}
    <3>1. <<f>> \in Seq(S)
      OBVIOUS
    <3>2. DOMAIN <<f>> = {1} /\ <<f>>[1] = f
      OBVIOUS
    <3>3. Range(<<f>>) = {f}
      BY <3>2, Zenon DEF Range
    <3> QED
      BY <3>1, <3>3
  <2>3. Range(flows \o <<f>>) = Range(flows) \cup Range(<<f>>)
    BY <2>2, RangeConcatenation, ZenonT(30)
  <2> QED
    BY <2>1, <2>2, <2>3
<1> QED
  BY <1>1, <1>2

\* A vector without elements, and one whose elements are rewritten in place.
LEMMA EmptyRange == Range(<< >>) = {}
  BY DEF Range

\* Renaming yields a node.
LEMMA RenamedType ==
    ASSUME NEW n \in NodeId, NEW stale \in NodeId, NEW resolved \in NodeId
    PROVE  Renamed(n, stale, resolved) \in NodeId
  BY DEF Renamed

\* A rewired flow joins the renamed ends of the flow.
LEMMA RewiredFacts ==
    ASSUME NEW f \in Flow, NEW stale \in NodeId, NEW resolved \in NodeId
    PROVE  LET g == Rewired(f, stale, resolved) IN
           /\ g \in Flow
           /\ g.source_node = Renamed(f.source_node, stale, resolved)
           /\ g.destination_node = Renamed(f.destination_node, stale, resolved)
<1>1. /\ f.source_node \in NodeId
      /\ f.destination_node \in NodeId
  BY DEF Flow
<1>2. /\ Renamed(f.source_node, stale, resolved) \in NodeId
      /\ Renamed(f.destination_node, stale, resolved) \in NodeId
  BY <1>1, RenamedType
<1> QED
  BY <1>2 DEF Rewired, Flow

\* Rewriting flows in place rewires exactly the flows of the vector.
LEMMA RewiredRange ==
    ASSUME NEW flows \in Seq(Flow), NEW stale \in NodeId, NEW resolved \in NodeId
    PROVE  LET r == [i \in DOMAIN flows |-> Rewired(flows[i], stale, resolved)] IN
           /\ r \in Seq(Flow)
           /\ Range(r) = {Rewired(f, stale, resolved) : f \in Range(flows)}
<1> DEFINE r == [i \in DOMAIN flows |-> Rewired(flows[i], stale, resolved)]
<1>1. DOMAIN flows = 1 .. Len(flows) /\ Len(flows) \in Nat
  OBVIOUS
<1>2. \A i \in DOMAIN flows : flows[i] \in Flow
  OBVIOUS
<1>3. \A i \in DOMAIN flows : Rewired(flows[i], stale, resolved) \in Flow
  BY <1>2, RewiredFacts
<1>4. r \in Seq(Flow)
  BY <1>1, <1>3, IsASeq
<1>5. Range(r) = {Rewired(f, stale, resolved) : f \in Range(flows)}
  BY Zenon DEF Range
<1> QED
  BY <1>4, <1>5

\* The flows listed under the nodes that are renamed to n.
FlowsRenamedTo(index, n, stale, resolved) ==
    {f \in Flow : \E m \in NodeId : /\ Renamed(m, stale, resolved) = n
                                    /\ f \in Range(index[m])}

\* The same flows after they are rewired.
FlowsRewiredTo(index, n, stale, resolved) ==
    {g \in Flow : \E m \in NodeId : \E f \in Range(index[m]) :
                     /\ Renamed(m, stale, resolved) = n
                     /\ g = Rewired(f, stale, resolved)}

\* remove + extend: a node's flows are those of the nodes renamed to it.
LEMMA RekeyRange ==
    ASSUME NEW index \in FlowMap, NEW stale \in NodeId, NEW resolved \in NodeId
    PROVE  /\ Rekey(index, stale, resolved) \in FlowMap
           /\ \A n \in NodeId :
                 Range(Rekey(index, stale, resolved)[n]) =
                    FlowsRenamedTo(index, n, stale, resolved)
<1> DEFINE removed == [index EXCEPT ![stale] = << >>]
           moved == removed[resolved] \o index[stale]
           k == [removed EXCEPT ![resolved] = moved]
<1>1. Rekey(index, stale, resolved) = k
  BY DEF Rekey
<1>2. /\ \A n \in NodeId : index[n] \in Seq(Flow)
      /\ removed \in FlowMap
      /\ \A n \in NodeId : removed[n] = IF n = stale THEN << >> ELSE index[n]
  BY DEF FlowMap
<1> HIDE DEF removed
<1>3. /\ moved \in Seq(Flow)
      /\ Range(moved) = Range(removed[resolved]) \cup Range(index[stale])
  <2>1. removed[resolved] \in Seq(Flow) /\ index[stale] \in Seq(Flow)
    BY <1>2 DEF FlowMap
  <2> QED
    BY <2>1, RangeConcatenation
<1>4. /\ k \in FlowMap
      /\ \A n \in NodeId : k[n] = IF n = resolved THEN moved ELSE removed[n]
  BY <1>2, <1>3 DEF FlowMap
<1> HIDE DEF moved, k
<1>5. \A n \in NodeId : Range(k[n]) \subseteq Flow /\ Range(index[n]) \subseteq Flow
  BY <1>2, <1>4, RangeOfSeq DEF FlowMap
<1>6. ASSUME NEW n \in NodeId, NEW f \in Flow
      PROVE  f \in Range(k[n]) <=>
                \E m \in NodeId : /\ Renamed(m, stale, resolved) = n
                                  /\ f \in Range(index[m])
  <2>1. CASE n = resolved
    BY <2>1, <1>2, <1>3, <1>4, EmptyRange DEF Renamed
  <2>2. CASE n # resolved
    BY <2>2, <1>2, <1>4, EmptyRange DEF Renamed
  <2> QED
    BY <2>1, <2>2
<1>7. ASSUME NEW n \in NodeId
      PROVE  Range(k[n]) = FlowsRenamedTo(index, n, stale, resolved)
  BY <1>5, <1>6 DEF FlowsRenamedTo
<1> QED
  BY <1>1, <1>4, <1>7

\* Healing an index renames both the keys and the flows.
LEMMA HealRange ==
    ASSUME NEW index \in FlowMap, NEW stale \in NodeId, NEW resolved \in NodeId
    PROVE  /\ Heal(index, stale, resolved) \in FlowMap
           /\ \A n \in NodeId :
                 Range(Heal(index, stale, resolved)[n]) =
                    FlowsRewiredTo(index, n, stale, resolved)
<1> DEFINE k == Rekey(index, stale, resolved)
           h == Heal(index, stale, resolved)
<1>1. /\ k \in FlowMap
      /\ \A n \in NodeId :
            Range(k[n]) = FlowsRenamedTo(index, n, stale, resolved)
  BY RekeyRange
<1> HIDE DEF k
<1>2. h = [n \in NodeId |->
              [i \in DOMAIN k[n] |-> Rewired(k[n][i], stale, resolved)]]
  BY Zenon DEF Heal, RewireAll, k
<1>3. ASSUME NEW n \in NodeId
      PROVE  /\ h[n] \in Seq(Flow)
             /\ Range(h[n]) = {Rewired(f, stale, resolved) : f \in Range(k[n])}
  <2>1. k[n] \in Seq(Flow)
    BY <1>1 DEF FlowMap
  <2>2. h[n] = [i \in DOMAIN k[n] |-> Rewired(k[n][i], stale, resolved)]
    BY <1>2
  <2> QED
    BY <2>1, <2>2, RewiredRange
<1>4. h \in FlowMap
  <2>1. \A n \in NodeId : h[n] \in Seq(Flow)
    BY <1>3
  <2> QED
    BY <1>2, <2>1 DEF FlowMap
<1> HIDE DEF h
<1>5. \A n \in NodeId : Range(h[n]) \subseteq Flow /\ Range(index[n]) \subseteq Flow
  BY <1>4, RangeOfSeq DEF FlowMap
<1>6. ASSUME NEW n \in NodeId, NEW g \in Flow
      PROVE  g \in Range(h[n]) <=>
                \E m \in NodeId : \E f \in Range(index[m]) :
                    /\ Renamed(m, stale, resolved) = n
                    /\ g = Rewired(f, stale, resolved)
  <2>1. g \in Range(h[n]) <=>
           \E f \in Range(k[n]) : g = Rewired(f, stale, resolved)
    BY <1>3
  <2> QED
    BY <2>1, <1>1, <1>5 DEF FlowsRenamedTo
<1>7. ASSUME NEW n \in NodeId
      PROVE  Range(h[n]) = FlowsRewiredTo(index, n, stale, resolved)
  BY <1>5, <1>6 DEF FlowsRewiredTo
<1> QED
  BY <1>4, <1>7 DEF h

-----------------------------------------------------------------------------
(* The operations on graphs                                                *)

LEMMA StaleIdType == ASSUME NEW ip \in Ips PROVE StaleId(ip) \in NodeId
  BY TopologyAssumption DEF StaleId, NodeId

\* An empty graph is a well-formed graph.
LEMMA NewTopologyWellFormed == NewTopology \in Graph /\ WellFormed(NewTopology)
<1>1. NewTopology \in Graph
  BY DEF NewTopology, Graph, FlowMap
<1>2. \A n \in NodeId : /\ NewTopology.upstream[n] = << >>
                        /\ NewTopology.downstream[n] = << >>
  BY DEF NewTopology
<1>3. WellFormed(NewTopology)
  BY <1>2, EmptyRange DEF WellFormed, KeyedByEndpoint, Mirrored, EndpointsKnown
<1> QED
  BY <1>1, <1>3

\* add_node makes n a node and forgets none; the flows stay as they are.
LEMMA AddNodeFacts ==
    ASSUME NEW t \in Graph, NEW n \in NodeId, NEW data \in NodeData
    PROVE  LET u == add_node(t, n, data) IN
           /\ u \in Graph
           /\ u.upstream = t.upstream
           /\ u.downstream = t.downstream
           /\ HasNode(u, n)
           /\ \A m \in NodeId : HasNode(t, m) => HasNode(u, m)
  BY TopologyAssumption DEF add_node, Graph, HasNode

\* add_flow adds f, under its two ends, and nothing else.
LEMMA AddFlowFacts ==
    ASSUME NEW t \in Graph, NEW f \in Flow
    PROVE  LET u == add_flow(t, f) IN
           /\ u \in Graph
           /\ u.nodes = t.nodes
           /\ \A n \in NodeId :
                /\ n = f.destination_node =>
                      Range(u.upstream[n]) = Range(t.upstream[n]) \cup {f}
                /\ n # f.destination_node => Range(u.upstream[n]) = Range(t.upstream[n])
                /\ n = f.source_node =>
                      Range(u.downstream[n]) = Range(t.downstream[n]) \cup {f}
                /\ n # f.source_node => Range(u.downstream[n]) = Range(t.downstream[n])
<1> DEFINE up == PushNew(t.upstream[f.destination_node], f)
           down == PushNew(t.downstream[f.source_node], f)
           u == add_flow(t, f)
<1>1. /\ f.destination_node \in NodeId /\ f.source_node \in NodeId
      /\ t.upstream \in [NodeId -> Seq(Flow)]
      /\ t.downstream \in [NodeId -> Seq(Flow)]
      /\ t.nodes \in [NodeId -> NodeData \cup {NoNode}]
  BY DEF Flow, Graph, FlowMap
<1>2. /\ up \in Seq(Flow)
      /\ Range(up) = Range(t.upstream[f.destination_node]) \cup {f}
  <2> DEFINE old == t.upstream[f.destination_node]
  <2>1. old \in Seq(Flow)
    BY <1>1
  <2> HIDE DEF old
  <2>2. PushNew(old, f) \in Seq(Flow) /\ Range(PushNew(old, f)) = Range(old) \cup {f}
    BY <2>1, PushNewRange
  <2> QED
    BY <2>2 DEF old
<1>3. /\ down \in Seq(Flow)
      /\ Range(down) = Range(t.downstream[f.source_node]) \cup {f}
  <2> DEFINE old == t.downstream[f.source_node]
  <2>1. old \in Seq(Flow)
    BY <1>1
  <2> HIDE DEF old
  <2>2. PushNew(old, f) \in Seq(Flow) /\ Range(PushNew(old, f)) = Range(old) \cup {f}
    BY <2>1, PushNewRange
  <2> QED
    BY <2>2 DEF old
<1> HIDE DEF up, down
<1>4. u = [nodes      |-> t.nodes,
           upstream   |-> [t.upstream EXCEPT ![f.destination_node] = up],
           downstream |-> [t.downstream EXCEPT ![f.source_node] = down]]
  BY DEF add_flow, up, down
<1> HIDE DEF u
<1>5. u \in Graph
  BY <1>1, <1>2, <1>3, <1>4 DEF Graph, FlowMap
<1>6. ASSUME NEW n \in NodeId
      PROVE  /\ n = f.destination_node =>
                   Range(u.upstream[n]) = Range(t.upstream[n]) \cup {f}
             /\ n # f.destination_node => Range(u.upstream[n]) = Range(t.upstream[n])
             /\ n = f.source_node =>
                   Range(u.downstream[n]) = Range(t.downstream[n]) \cup {f}
             /\ n # f.source_node => Range(u.downstream[n]) = Range(t.downstream[n])
  BY <1>1, <1>2, <1>3, <1>4
<1> QED
  BY <1>4, <1>5, <1>6 DEF u

\* The lock section of record_ebpf_event: two nodes, then the flow between.
LEMMA RecordCallFacts ==
    ASSUME NEW t \in Graph, WellFormed(t), NEW f \in Flow,
           NEW src_ip \in Ips, NEW dst_ip \in Ips
    PROVE  LET u == RecordCall(t, f, src_ip, dst_ip) IN
           /\ u \in Graph
           /\ WellFormed(u)
           /\ \A n \in NodeId :
                 /\ Range(t.downstream[n]) \subseteq Range(u.downstream[n])
                 /\ Range(u.downstream[n]) \subseteq Range(t.downstream[n]) \cup {f}
<1> DEFINE v == add_node(t, f.source_node, NewNode(src_ip))
           w == add_node(v, f.destination_node, NewNode(dst_ip))
           u == add_flow(w, f)
<1>1. /\ f.source_node \in NodeId
      /\ f.destination_node \in NodeId
      /\ NewNode(src_ip) \in NodeData
      /\ NewNode(dst_ip) \in NodeData
  BY DEF Flow, NodeData, NewNode
<1>2. /\ v \in Graph
      /\ v.upstream = t.upstream /\ v.downstream = t.downstream
      /\ HasNode(v, f.source_node)
      /\ \A m \in NodeId : HasNode(t, m) => HasNode(v, m)
  BY <1>1, AddNodeFacts
<1> HIDE DEF v
<1>3. /\ w \in Graph
      /\ w.upstream = v.upstream /\ w.downstream = v.downstream
      /\ HasNode(w, f.destination_node)
      /\ \A m \in NodeId : HasNode(v, m) => HasNode(w, m)
  BY <1>1, <1>2, AddNodeFacts
<1> HIDE DEF w
<1>4. /\ u \in Graph
      /\ u.nodes = w.nodes
      /\ \A n \in NodeId :
           /\ n = f.destination_node =>
                 Range(u.upstream[n]) = Range(t.upstream[n]) \cup {f}
           /\ n # f.destination_node => Range(u.upstream[n]) = Range(t.upstream[n])
           /\ n = f.source_node =>
                 Range(u.downstream[n]) = Range(t.downstream[n]) \cup {f}
           /\ n # f.source_node => Range(u.downstream[n]) = Range(t.downstream[n])
  <2>1. /\ u \in Graph
        /\ u.nodes = w.nodes
        /\ \A n \in NodeId :
             /\ n = f.destination_node =>
                   Range(u.upstream[n]) = Range(w.upstream[n]) \cup {f}
             /\ n # f.destination_node => Range(u.upstream[n]) = Range(w.upstream[n])
             /\ n = f.source_node =>
                   Range(u.downstream[n]) = Range(w.downstream[n]) \cup {f}
             /\ n # f.source_node => Range(u.downstream[n]) = Range(w.downstream[n])
    BY <1>3, AddFlowFacts
  <2>2. w.upstream = t.upstream /\ w.downstream = t.downstream
    BY <1>2, <1>3
  <2> HIDE DEF u
  <2> QED
    BY <2>1, <2>2
<1> HIDE DEF u
<1>5. \A n \in NodeId : /\ Range(t.upstream[n]) \subseteq Flow
                        /\ Range(t.downstream[n]) \subseteq Flow
  BY RangeOfSeq DEF Graph, FlowMap
<1>6. KeyedByEndpoint(u)
  BY <1>4 DEF WellFormed, KeyedByEndpoint
<1>7. Mirrored(u)
  <2>1. ASSUME NEW n \in NodeId, NEW g \in Range(u.upstream[n])
        PROVE  InDownstream(u, g)
    <3>1. CASE g = f
      BY <3>1, <1>1, <1>4 DEF InDownstream, Contains
    <3>2. CASE g \in Range(t.upstream[n])
      <4>1. g \in Flow /\ g.source_node \in NodeId
        BY <3>2, <1>5 DEF Flow
      <4>2. g \in Range(t.downstream[g.source_node])
        BY <3>2 DEF WellFormed, Mirrored, InDownstream, Contains
      <4> QED
        BY <4>1, <4>2, <1>4 DEF InDownstream, Contains
    <3> QED
      BY <3>1, <3>2, <1>4
  <2>2. ASSUME NEW n \in NodeId, NEW g \in Range(u.downstream[n])
        PROVE  InUpstream(u, g)
    <3>1. CASE g = f
      BY <3>1, <1>1, <1>4 DEF InUpstream, Contains
    <3>2. CASE g \in Range(t.downstream[n])
      <4>1. g \in Flow /\ g.destination_node \in NodeId
        BY <3>2, <1>5 DEF Flow
      <4>2. g \in Range(t.upstream[g.destination_node])
        BY <3>2 DEF WellFormed, Mirrored, InUpstream, Contains
      <4> QED
        BY <4>1, <4>2, <1>4 DEF InUpstream, Contains
    <3> QED
      BY <3>1, <3>2, <1>4
  <2> QED
    BY <2>1, <2>2 DEF Mirrored
<1>8. EndpointsKnown(u)
  <2>1. \A m \in NodeId : HasNode(w, m) => HasNode(u, m)
    BY <1>4 DEF HasNode
  <2>2. ASSUME NEW n \in NodeId, NEW g \in Range(u.downstream[n])
        PROVE  HasNode(u, g.source_node) /\ HasNode(u, g.destination_node)
    <3>1. CASE g = f
      BY <3>1, <2>1, <1>1, <1>2, <1>3
    <3>2. CASE g \in Range(t.downstream[n])
      <4>1. g.source_node \in NodeId /\ g.destination_node \in NodeId
        BY <3>2, <1>5 DEF Flow
      <4>2. HasNode(t, g.source_node) /\ HasNode(t, g.destination_node)
        BY <3>2 DEF WellFormed, EndpointsKnown
      <4> QED
        BY <4>1, <4>2, <2>1, <1>2, <1>3
    <3> QED
      BY <3>1, <3>2, <1>4
  <2> QED
    BY <2>2 DEF EndpointsKnown
<1>9. u = RecordCall(t, f, src_ip, dst_ip)
  BY DEF RecordCall, u, v, w
<1>10. \A n \in NodeId :
          /\ Range(t.downstream[n]) \subseteq Range(u.downstream[n])
          /\ Range(u.downstream[n]) \subseteq Range(t.downstream[n]) \cup {f}
  BY <1>4
<1> QED
  BY <1>4, <1>6, <1>7, <1>8, <1>9, <1>10 DEF WellFormed

\* Moving the stale node's data keeps every node, the stale one under its name.
LEMMA MoveNodeFacts ==
    ASSUME NEW nodes \in [NodeId -> NodeData \cup {NoNode}],
           NEW stale \in NodeId, NEW resolved \in NodeId, nodes[stale] # NoNode
    PROVE  LET u == MoveNode(nodes, stale, resolved) IN
           /\ u \in [NodeId -> NodeData \cup {NoNode}]
           /\ \A n \in NodeId :
                 nodes[n] # NoNode => u[Renamed(n, stale, resolved)] # NoNode
<1> DEFINE removed == [nodes EXCEPT ![stale] = NoNode]
           data == IF removed[resolved] = NoNode THEN nodes[stale]
                   ELSE removed[resolved]
           u == [removed EXCEPT ![resolved] = data]
<1>1. MoveNode(nodes, stale, resolved) = u
  BY DEF MoveNode
<1>2. /\ removed \in [NodeId -> NodeData \cup {NoNode}]
      /\ \A n \in NodeId : n # stale => removed[n] = nodes[n]
  OBVIOUS
<1> HIDE DEF removed
<1>3. data \in NodeData \cup {NoNode} /\ data # NoNode
  BY <1>2
<1> HIDE DEF data
<1>4. /\ u \in [NodeId -> NodeData \cup {NoNode}]
      /\ \A n \in NodeId : u[n] = IF n = resolved THEN data ELSE removed[n]
  BY <1>2, <1>3
<1> HIDE DEF u
<1>5. ASSUME NEW n \in NodeId, nodes[n] # NoNode
      PROVE  u[Renamed(n, stale, resolved)] # NoNode
  BY <1>2, <1>3, <1>4, <1>5 DEF Renamed
<1> QED
  BY <1>1, <1>4, <1>5

\* A flow of a healed index is a flow of the index with its ends renamed.
LEMMA HealedFlow ==
    ASSUME NEW index \in FlowMap, NEW stale \in NodeId, NEW resolved \in NodeId,
           NEW n \in NodeId, NEW g \in Range(Heal(index, stale, resolved)[n])
    PROVE  \E m \in NodeId : \E f \in Range(index[m]) :
              /\ f \in Flow
              /\ Renamed(m, stale, resolved) = n
              /\ g = Rewired(f, stale, resolved)
<1>1. \A m \in NodeId : Range(index[m]) \subseteq Flow
  BY RangeOfSeq DEF FlowMap
<1>2. g \in FlowsRewiredTo(index, n, stale, resolved)
  BY HealRange
<1> QED
  BY <1>1, <1>2 DEF FlowsRewiredTo

\* Every flow is still there after healing, with its ends renamed.
LEMMA FlowHealed ==
    ASSUME NEW index \in FlowMap, NEW stale \in NodeId, NEW resolved \in NodeId,
           NEW m \in NodeId, NEW f \in Range(index[m])
    PROVE  Rewired(f, stale, resolved)
              \in Range(Heal(index, stale, resolved)[Renamed(m, stale, resolved)])
<1> DEFINE n == Renamed(m, stale, resolved)
           g == Rewired(f, stale, resolved)
<1>1. f \in Flow
  BY RangeOfSeq DEF FlowMap
<1>2. n \in NodeId /\ g \in Flow
  BY <1>1, RenamedType, RewiredFacts
<1>3. g \in FlowsRewiredTo(index, n, stale, resolved)
  BY <1>2 DEF FlowsRewiredTo
<1> HIDE DEF n, g
<1>4. Range(Heal(index, stale, resolved)[n]) = FlowsRewiredTo(index, n, stale, resolved)
  BY <1>2, HealRange
<1> QED
  BY <1>3, <1>4 DEF n, g

\* resolve_unknown_node rewrites the three maps consistently.
LEMMA ResolveWellFormed ==
    ASSUME NEW t \in Graph, WellFormed(t), NEW ip \in Ips, NEW resolved \in NodeId
    PROVE  /\ resolve_unknown_node(t, ip, resolved) \in Graph
           /\ WellFormed(resolve_unknown_node(t, ip, resolved))
<1> DEFINE stale == StaleId(ip)
           nodes == MoveNode(t.nodes, stale, resolved)
           up == Heal(t.upstream, stale, resolved)
           down == Heal(t.downstream, stale, resolved)
           u == resolve_unknown_node(t, ip, resolved)
<1>1. CASE ~ HasNode(t, StaleId(ip))
  BY <1>1 DEF resolve_unknown_node
<1>2. CASE HasNode(t, StaleId(ip))
  <2>1. /\ stale \in NodeId
        /\ t.upstream \in FlowMap
        /\ t.downstream \in FlowMap
        /\ t.nodes \in [NodeId -> NodeData \cup {NoNode}]
    BY StaleIdType DEF Graph
  <2>2. u = [nodes |-> nodes, upstream |-> up, downstream |-> down]
    BY <1>2 DEF resolve_unknown_node
  <2>3. HasNode(t, stale)
    BY <1>2
  <2> HIDE DEF stale, u
  <2>4. /\ nodes \in [NodeId -> NodeData \cup {NoNode}]
        /\ \A n \in NodeId :
              t.nodes[n] # NoNode => nodes[Renamed(n, stale, resolved)] # NoNode
    BY <2>1, <2>3, MoveNodeFacts DEF HasNode
  <2>5. up \in FlowMap /\ down \in FlowMap
    BY <2>1, HealRange
  <2> HIDE DEF nodes, up, down
  <2>6. /\ u \in Graph
        /\ u.nodes = nodes /\ u.upstream = up /\ u.downstream = down
    BY <2>2, <2>4, <2>5 DEF Graph
  <2>7. ASSUME NEW n \in NodeId, NEW g \in Range(up[n])
        PROVE  /\ g.destination_node = n
               /\ InDownstream(u, g)
    <3> DEFINE idx == t.upstream
    <3>s. stale \in NodeId
      BY <2>1
    <3>a. idx \in FlowMap
      BY <2>1
    <3>b. g \in Range(Heal(idx, stale, resolved)[n])
      BY <2>7 DEF up
    <3> HIDE DEF idx
    <3>c. \E m \in NodeId : \E f \in Range(idx[m]) :
             /\ f \in Flow
             /\ Renamed(m, stale, resolved) = n
             /\ g = Rewired(f, stale, resolved)
      BY <3>s, <3>a, <3>b, HealedFlow, ZenonT(30)
    <3>0. PICK m \in NodeId : \E f \in Range(t.upstream[m]) :
             /\ f \in Flow
             /\ Renamed(m, stale, resolved) = n
             /\ g = Rewired(f, stale, resolved)
      BY <3>c DEF idx
    <3>1. PICK f \in Range(t.upstream[m]) :
             /\ f \in Flow
             /\ Renamed(m, stale, resolved) = n
             /\ g = Rewired(f, stale, resolved)
      BY <3>0
    <3>2. /\ g.source_node = Renamed(f.source_node, stale, resolved)
          /\ g.destination_node = Renamed(f.destination_node, stale, resolved)
      BY <2>1, <3>1, RewiredFacts
    <3>3. f.destination_node = m /\ f \in Range(t.downstream[f.source_node])
      BY DEF WellFormed, KeyedByEndpoint, Mirrored, InDownstream, Contains
    <3>4. f.source_node \in NodeId
      BY <3>1 DEF Flow
    <3>5. g \in Range(down[g.source_node])
      BY <2>1, <3>1, <3>2, <3>3, <3>4, FlowHealed DEF down
    <3> QED
      BY <3>1, <3>2, <3>3, <3>5, <2>6 DEF InDownstream, Contains
  <2>8. ASSUME NEW n \in NodeId, NEW g \in Range(down[n])
        PROVE  /\ g.source_node = n
               /\ InUpstream(u, g)
               /\ HasNode(u, g.source_node)
               /\ HasNode(u, g.destination_node)
    <3> DEFINE idx == t.downstream
    <3>s. stale \in NodeId
      BY <2>1
    <3>a. idx \in FlowMap
      BY <2>1
    <3>b. g \in Range(Heal(idx, stale, resolved)[n])
      BY <2>8 DEF down
    <3> HIDE DEF idx
    <3>c. \E m \in NodeId : \E f \in Range(idx[m]) :
             /\ f \in Flow
             /\ Renamed(m, stale, resolved) = n
             /\ g = Rewired(f, stale, resolved)
      BY <3>s, <3>a, <3>b, HealedFlow, ZenonT(30)
    <3>0. PICK m \in NodeId : \E f \in Range(t.downstream[m]) :
             /\ f \in Flow
             /\ Renamed(m, stale, resolved) = n
             /\ g = Rewired(f, stale, resolved)
      BY <3>c DEF idx
    <3>1. PICK f \in Range(t.downstream[m]) :
             /\ f \in Flow
             /\ Renamed(m, stale, resolved) = n
             /\ g = Rewired(f, stale, resolved)
      BY <3>0
    <3>2. /\ g.source_node = Renamed(f.source_node, stale, resolved)
          /\ g.destination_node = Renamed(f.destination_node, stale, resolved)
      BY <2>1, <3>1, RewiredFacts
    <3>3. /\ f.source_node = m
          /\ f \in Range(t.upstream[f.destination_node])
          /\ HasNode(t, f.source_node) /\ HasNode(t, f.destination_node)
      BY DEF WellFormed, KeyedByEndpoint, Mirrored, EndpointsKnown,
             InUpstream, Contains
    <3>4. f.source_node \in NodeId /\ f.destination_node \in NodeId
      BY <3>1 DEF Flow
    <3>5. g \in Range(up[g.destination_node])
      BY <2>1, <3>1, <3>2, <3>3, <3>4, FlowHealed DEF up
    <3>6. HasNode(u, g.source_node) /\ HasNode(u, g.destination_node)
      BY <2>4, <2>6, <3>2, <3>3, <3>4 DEF HasNode
    <3> QED
      BY <3>1, <3>2, <3>3, <3>5, <3>6, <2>6 DEF InUpstream, Contains
  <2>9. WellFormed(u)
    BY <2>6, <2>7, <2>8 DEF WellFormed, KeyedByEndpoint, Mirrored, EndpointsKnown
  <2> QED
    BY <2>6, <2>9 DEF u
<1> QED
  BY <1>1, <1>2

\* Attaching a Kubernetes event changes neither the nodes nor the flows.
LEMMA AddK8sEventWellFormed ==
    ASSUME NEW t \in Graph, WellFormed(t), NEW n \in NodeId, NEW event \in K8sEvents
    PROVE  /\ add_k8s_event(t, n, event) \in Graph
           /\ WellFormed(add_k8s_event(t, n, event))
<1> DEFINE u == add_k8s_event(t, n, event)
<1>1. CASE ~ HasNode(t, n)
  BY <1>1 DEF add_k8s_event
<1>2. CASE HasNode(t, n)
  <2> DEFINE d == [t.nodes[n] EXCEPT !.k8s_events = Append(@, event)]
  <2>1. u = [t EXCEPT !.nodes[n].k8s_events = Append(@, event)]
    BY <1>2 DEF add_k8s_event
  <2>2. t.nodes[n] \in NodeData
    BY <1>2 DEF Graph, HasNode
  <2>3. d \in NodeData
    <3> DEFINE s == t.nodes[n].k8s_events
               more == Append(s, event)
    <3>1. s \in Seq(K8sEvents)
      BY <2>2 DEF NodeData
    <3> HIDE DEF s
    <3>2. more \in Seq(K8sEvents)
      BY <3>1
    <3>3. d = [t.nodes[n] EXCEPT !.k8s_events = more]
      BY DEF s
    <3> HIDE DEF more, d
    <3> QED
      BY <2>2, <3>2, <3>3 DEF NodeData
  <2>4. u = [t EXCEPT !.nodes = [t.nodes EXCEPT ![n] = d]]
    BY <2>1 DEF Graph
  <2> HIDE DEF d, u
  <2>5. /\ u \in Graph
        /\ u.upstream = t.upstream /\ u.downstream = t.downstream
        /\ \A m \in NodeId : HasNode(t, m) => HasNode(u, m)
    BY <2>3, <2>4, TopologyAssumption DEF Graph, HasNode
  <2>6. \A m \in NodeId : Range(t.downstream[m]) \subseteq Flow
    BY RangeOfSeq DEF Graph, FlowMap
  <2>7. EndpointsKnown(u)
    <3>1. ASSUME NEW m \in NodeId, NEW f \in Range(u.downstream[m])
          PROVE  HasNode(u, f.source_node) /\ HasNode(u, f.destination_node)
      <4>1. f.source_node \in NodeId /\ f.destination_node \in NodeId
        BY <2>5, <2>6 DEF Flow
      <4> QED
        BY <4>1, <2>5 DEF WellFormed, EndpointsKnown
    <3> QED
      BY <3>1 DEF EndpointsKnown
  <2> QED
    BY <2>5, <2>7 DEF WellFormed, KeyedByEndpoint, Mirrored,
                      InUpstream, InDownstream, u
<1> QED
  BY <1>1, <1>2

-----------------------------------------------------------------------------
(* What the MCP tool reads off a well-formed graph                         *)

\* The lines for a node of the graph are its flows.
LEMMA DependencyLines ==
    ASSUME NEW t \in Graph, NEW n \in NodeId, HasNode(t, n)
    PROVE  LET deps == get_service_dependencies(t, n)
           IN  /\ deps.callers = {CallerLine(TopologyEdge(f)) : f \in Range(t.upstream[n])}
               /\ deps.callees = {CalleeLine(TopologyEdge(f)) : f \in Range(t.downstream[n])}
<1> DEFINE up == to_flow_list(t.upstream[n])
           down == to_flow_list(t.downstream[n])
           deps == get_service_dependencies(t, n)
<1>1. t.upstream[n] \in Seq(Flow) /\ t.downstream[n] \in Seq(Flow)
  BY DEF Graph, FlowMap
<1>2. n \in DOMAIN get_topology(t).nodes
  BY DEF get_topology, NodeDtos
<1>3. get_topology(t).upstream[n] = up /\ get_topology(t).downstream[n] = down
  BY DEF get_topology
<1>4. deps = [callers |-> {CallerLine(e) : e \in Range(up)},
              callees |-> {CalleeLine(e) : e \in Range(down)}]
  BY <1>2, <1>3 DEF get_service_dependencies
<1>5. /\ Range(up) = {TopologyEdge(f) : f \in Range(t.upstream[n])}
      /\ Range(down) = {TopologyEdge(f) : f \in Range(t.downstream[n])}
  <2>1. \A i : i \in DOMAIN up => up[i] = TopologyEdge(t.upstream[n][i])
    BY DEF to_flow_list
  <2>2. \A i : i \in DOMAIN down => down[i] = TopologyEdge(t.downstream[n][i])
    BY DEF to_flow_list
  <2>3. DOMAIN up = DOMAIN t.upstream[n] /\ DOMAIN down = DOMAIN t.downstream[n]
    BY DEF to_flow_list
  <2> HIDE DEF up, down
  <2> QED
    BY <2>1, <2>2, <2>3, Zenon DEF Range
<1> HIDE DEF up, down
<1>6. /\ deps.callers = {CallerLine(e) : e \in Range(up)}
      /\ deps.callees = {CalleeLine(e) : e \in Range(down)}
  BY <1>4
<1> QED
  BY <1>5, <1>6

-----------------------------------------------------------------------------
(* Recursive functions over the numbers, as in the loops of get_subgraph   *)

Iterates(f, m, base, step) ==
    \A k \in 0 .. m : f[k] = IF k = 0 THEN base ELSE step[k][f[k - 1]]

\* A loop has a result after every number of rounds.
LEMMA FiniteIteration ==
    ASSUME NEW S, NEW base \in S, NEW step \in [Nat -> [S -> S]], NEW n \in Nat
    PROVE  \E f \in [0 .. n -> S] : Iterates(f, n, base, step)
<1> DEFINE K == {m \in Nat : \E f \in [0 .. m -> S] : Iterates(f, m, base, step)}
<1>1. 0 \in K
  <2>1. /\ [k \in 0 .. 0 |-> base] \in [0 .. 0 -> S]
        /\ Iterates([k \in 0 .. 0 |-> base], 0, base, step)
    BY DEF Iterates
  <2> QED
    BY <2>1
<1>2. ASSUME NEW m \in K PROVE m + 1 \in K
  <2>1. PICK f \in [0 .. m -> S] : Iterates(f, m, base, step)
    OBVIOUS
  <2>2. m \in Nat /\ m + 1 \in Nat /\ f[m] \in S
    OBVIOUS
  <2>3. step[m + 1][f[m]] \in S
    BY <2>2
  <2> DEFINE g == [k \in 0 .. m + 1 |-> IF k = m + 1 THEN step[m + 1][f[m]] ELSE f[k]]
  <2>4. g \in [0 .. m + 1 -> S]
    BY <2>2, <2>3
  <2>5. ASSUME NEW k \in 0 .. m + 1
        PROVE  g[k] = IF k = 0 THEN base ELSE step[k][g[k - 1]]
    <3>1. CASE k = m + 1
      BY <2>2, <3>1
    <3>2. CASE k # m + 1
      <4>1. k \in 0 .. m /\ g[k] = f[k] /\ (k # 0 => k - 1 \in 0 .. m /\ g[k - 1] = f[k - 1])
        BY <2>2, <3>2
      <4> QED
        BY <2>1, <4>1 DEF Iterates
    <3> QED
      BY <3>1, <3>2
  <2>6. Iterates(g, m + 1, base, step)
    <3> HIDE DEF g
    <3> QED
      BY <2>5 DEF Iterates
  <2> QED
    BY <2>2, <2>4, <2>6
<1>3. K = Nat
  <2>1. K \in SUBSET Nat
    OBVIOUS
  <2> HIDE DEF K
  <2> QED
    BY <1>1, <1>2, <2>1, SetInduction
<1> QED
  BY <1>3

\* What is true before a loop and kept by every round is true throughout.
LEMMA LoopInvariant ==
    ASSUME NEW n \in Nat, NEW f, NEW J, f[0] \in J[0],
           \A k \in 1 .. n : f[k - 1] \in J[k - 1] => f[k] \in J[k]
    PROVE  \A k \in 0 .. n : f[k] \in J[k]
<1> DEFINE K == {k \in Nat : k <= n => f[k] \in J[k]}
<1>1. 0 \in K
  OBVIOUS
<1>2. ASSUME NEW k \in K PROVE k + 1 \in K
  <2> SUFFICES ASSUME k + 1 <= n PROVE f[k + 1] \in J[k + 1]
    OBVIOUS
  <2>1. k \in Nat /\ k + 1 \in 1 .. n /\ (k + 1) - 1 = k /\ f[k] \in J[k]
    OBVIOUS
  <2> QED
    BY <2>1
<1>3. K = Nat
  <2>1. K \in SUBSET Nat
    OBVIOUS
  <2> HIDE DEF K
  <2> QED
    BY <1>1, <1>2, <2>1, SetInduction
<1> QED
  BY <1>3

\* Two runs of the same loop agree.
LEMMA IterationUnique ==
    ASSUME NEW base, NEW step, NEW m \in Nat, NEW n \in Nat, m <= n, NEW f, NEW g,
           Iterates(f, m, base, step), Iterates(g, n, base, step)
    PROVE  \A k \in 0 .. m : f[k] = g[k]
<1> DEFINE J == [k \in 0 .. m |-> {g[k]}]
<1>1. f[0] \in J[0]
  BY DEF Iterates
<1>2. ASSUME NEW k \in 1 .. m, f[k - 1] \in J[k - 1] PROVE f[k] \in J[k]
  <2>1. k \in 0 .. m /\ k \in 0 .. n /\ k # 0 /\ k - 1 \in 0 .. m
    OBVIOUS
  <2>2. f[k - 1] = g[k - 1]
    BY <1>2, <2>1
  <2> QED
    BY <2>1, <2>2 DEF Iterates
<1>3. \A k \in 0 .. m : f[k] \in J[k]
  <2>1. \A k \in 1 .. m : f[k - 1] \in J[k - 1] => f[k] \in J[k]
    BY <1>2
  <2> HIDE DEF J
  <2> QED
    BY <1>1, <2>1, LoopInvariant
<1> QED
  BY <1>3

IteratesOn(f, base, step) ==
    \A k \in Nat : f[k] = IF k = 0 THEN base ELSE step[k][f[k - 1]]

\* A recursive definition over all numbers has a solution.
LEMMA Iteration ==
    ASSUME NEW S, NEW base \in S, NEW step \in [Nat -> [S -> S]]
    PROVE  \E f \in [Nat -> S] : IteratesOn(f, base, step)
<1> DEFINE run == [n \in Nat |-> CHOOSE f \in [0 .. n -> S] : Iterates(f, n, base, step)]
           h == [n \in Nat |-> run[n][n]]
<1>1. ASSUME NEW n \in Nat
      PROVE  run[n] \in [0 .. n -> S] /\ Iterates(run[n], n, base, step)
  <2>1. \E f \in [0 .. n -> S] : Iterates(f, n, base, step)
    BY FiniteIteration
  <2> QED
    BY <2>1
<1>2. h \in [Nat -> S]
  <2>1. ASSUME NEW n \in Nat PROVE run[n][n] \in S
    BY <1>1
  <2> HIDE DEF run
  <2> QED
    BY <2>1
<1>3. ASSUME NEW k \in Nat PROVE h[k] = IF k = 0 THEN base ELSE step[k][h[k - 1]]
  <2>1. h[k] = run[k][k] /\ (k # 0 => h[k - 1] = run[k - 1][k - 1])
    <3> HIDE DEF run
    <3> QED
      OBVIOUS
  <2>2. run[k][k] = IF k = 0 THEN base ELSE step[k][run[k][k - 1]]
    <3>1. Iterates(run[k], k, base, step)
      BY <1>1
    <3> HIDE DEF run
    <3> QED
      BY <3>1 DEF Iterates
  <2>3. k # 0 => run[k][k - 1] = run[k - 1][k - 1]
    <3> SUFFICES ASSUME k # 0 PROVE run[k][k - 1] = run[k - 1][k - 1]
      OBVIOUS
    <3>1. k - 1 \in Nat /\ k - 1 <= k /\ k - 1 \in 0 .. k - 1
      OBVIOUS
    <3>2. Iterates(run[k], k, base, step) /\ Iterates(run[k - 1], k - 1, base, step)
      BY <1>1, <3>1
    <3> DEFINE f == run[k - 1]
               g == run[k]
               j == k - 1
    <3>3. \A i \in 0 .. j : f[i] = g[i]
      <4>1. /\ j \in Nat /\ k \in Nat /\ j <= k
            /\ Iterates(f, j, base, step) /\ Iterates(g, k, base, step)
        BY <3>1, <3>2
      <4> HIDE DEF f, g, j
      <4> QED
        BY <4>1, IterationUnique
    <3> HIDE DEF run
    <3> QED
      BY <3>1, <3>3
  <2> HIDE DEF run, h
  <2> QED
    BY <2>1, <2>2, <2>3
<1> HIDE DEF h
<1> QED
  BY <1>2, <1>3 DEF IteratesOn

-----------------------------------------------------------------------------
(* The breadth-first search                                                *)

BfsState == [visited: SUBSET NodeId, edges: SUBSET (NodeId \X NodeId), next: Seq(NodeId)]

Callees(t, n) == {f.destination_node : f \in Range(t.downstream[n])}

\* Appending adds one element.
LEMMA AppendRange ==
    ASSUME NEW S, NEW seq \in Seq(S), NEW e \in S
    PROVE  Append(seq, e) \in Seq(S) /\ Range(Append(seq, e)) = Range(seq) \cup {e}
<1>1. /\ Append(seq, e) \in Seq(S)
      /\ DOMAIN Append(seq, e) = DOMAIN seq \cup {Len(seq) + 1}
      /\ \A i \in DOMAIN seq : i \in Nat /\ i # Len(seq) + 1 /\ Append(seq, e)[i] = seq[i]
      /\ Append(seq, e)[Len(seq) + 1] = e
  OBVIOUS
<1> QED
  BY <1>1, Zenon DEF Range

\* What one flow adds to the state of the search.
LEMMA VisitFacts ==
    ASSUME NEW s \in BfsState, NEW n \in NodeId, NEW f \in Flow
    PROVE  /\ Visit(s, n, f) \in BfsState
           /\ Visit(s, n, f).visited = s.visited \cup {f.destination_node}
           /\ Range(Visit(s, n, f).next) =
                 Range(s.next) \cup ({f.destination_node} \ s.visited)
           /\ Visit(s, n, f).edges =
                 s.edges \cup {<<n, d>> : d \in {f.destination_node} \ s.visited}
<1>1. f.destination_node \in NodeId
  BY DEF Flow
<1>2. s.next \in Seq(NodeId) /\ s.visited \in SUBSET NodeId /\ s.edges \in SUBSET (NodeId \X NodeId)
  BY DEF BfsState
<1>3. CASE f.destination_node \in s.visited
  BY <1>3 DEF Visit
<1>4. CASE f.destination_node \notin s.visited
  <2>1. Visit(s, n, f) = [visited |-> s.visited \cup {f.destination_node},
                          edges   |-> s.edges \cup {<<n, f.destination_node>>},
                          next    |-> Append(s.next, f.destination_node)]
    BY <1>4 DEF Visit
  <2>2. /\ Append(s.next, f.destination_node) \in Seq(NodeId)
        /\ Range(Append(s.next, f.destination_node)) = Range(s.next) \cup {f.destination_node}
    BY <1>1, <1>2, AppendRange
  <2>3. s.edges \cup {<<n, f.destination_node>>} \in SUBSET (NodeId \X NodeId)
    BY <1>1, <1>2
  <2>4. Visit(s, n, f) \in BfsState
    BY <1>1, <1>2, <2>1, <2>2, <2>3 DEF BfsState
  <2> QED
    BY <1>4, <2>1, <2>2, <2>4
<1> QED
  BY <1>3, <1>4

\* Expanding a node reaches what it calls, each new node by an edge from it.
LEMMA ExpandFacts ==
    ASSUME NEW t \in Graph, NEW s \in BfsState, NEW n \in NodeId
    PROVE  /\ Expand(t, s, n) \in BfsState
           /\ Expand(t, s, n).visited = s.visited \cup Callees(t, n)
           /\ Range(Expand(t, s, n).next) = Range(s.next) \cup (Callees(t, n) \ s.visited)
           /\ Expand(t, s, n).edges =
                 s.edges \cup {<<n, d>> : d \in Callees(t, n) \ s.visited}
<1> DEFINE flows == t.downstream[n]
           N == Len(flows)
           Is(f) == f = [k \in 0 .. N |-> IF k = 0 THEN s ELSE Visit(f[k - 1], n, flows[k])]
           after == CHOOSE f : Is(f)
           step == [k \in Nat |-> [x \in BfsState |->
                       IF k \in 1 .. N THEN Visit(x, n, flows[k]) ELSE x]]
           D(k) == {flows[i].destination_node : i \in 1 .. k}
           J == [k \in 0 .. N |->
                   {x \in BfsState :
                      /\ x.visited = s.visited \cup D(k)
                      /\ Range(x.next) = Range(s.next) \cup (D(k) \ s.visited)
                      /\ x.edges = s.edges \cup {<<n, d>> : d \in D(k) \ s.visited}}]
<1>1. flows \in Seq(Flow) /\ N \in Nat /\ (\A k \in 1 .. N : flows[k] \in Flow)
  BY DEF Graph, FlowMap
<1>2. D(N) = Callees(t, n)
  <2>1. DOMAIN flows = 1 .. N
    BY <1>1
  <2> HIDE DEF flows, N
  <2> QED
    BY <2>1, Zenon DEF Callees, Range, flows
<1>3. Expand(t, s, n) = after[N]
  BY Zenon DEF Expand
<1>4. step \in [Nat -> [BfsState -> BfsState]]
  <2>1. ASSUME NEW k \in Nat, NEW x \in BfsState
        PROVE  (IF k \in 1 .. N THEN Visit(x, n, flows[k]) ELSE x) \in BfsState
    <3> HIDE DEF flows, N
    <3> QED
      BY <1>1, VisitFacts
  <2> HIDE DEF flows, N
  <2> QED
    BY <2>1
<1>5. \E f : Is(f)
  <2>1. PICK f \in [0 .. N -> BfsState] : Iterates(f, N, s, step)
    <3> HIDE DEF flows, N, step
    <3> QED
      BY <1>1, <1>4, FiniteIteration
  <2>2. \A k \in 0 .. N : f[k] = IF k = 0 THEN s ELSE Visit(f[k - 1], n, flows[k])
    <3> SUFFICES ASSUME NEW k \in 0 .. N
                 PROVE  f[k] = IF k = 0 THEN s ELSE Visit(f[k - 1], n, flows[k])
      OBVIOUS
    <3>1. f[k] = IF k = 0 THEN s ELSE step[k][f[k - 1]]
      BY <2>1 DEF Iterates
    <3>2. k # 0 => k \in Nat /\ k \in 1 .. N /\ f[k - 1] \in BfsState
      <4> HIDE DEF flows, N
      <4> QED
        BY <1>1
    <3>3. k # 0 => step[k][f[k - 1]] = Visit(f[k - 1], n, flows[k])
      <4> HIDE DEF flows, N
      <4> QED
        BY <3>2
    <3> QED
      BY <3>1, <3>3
  <2>3. Is(f)
    <3> HIDE DEF flows, N
    <3> QED
      BY <2>2
  <2> QED
    BY <2>3
<1>6. Is(after)
  <2> HIDE DEF Is
  <2> QED
    BY <1>5
<1>7. /\ \A k \in 0 .. N : after[k] = IF k = 0 THEN s ELSE Visit(after[k - 1], n, flows[k])
  <2> HIDE DEF after, flows, N
  <2> QED
    BY <1>6
<1> HIDE DEF after, Is, step, N
<1>8. after[0] \in J[0]
  <2>1. after[0] = s /\ D(0) = {} /\ 0 \in 0 .. N
    BY <1>1, <1>7
  <2> HIDE DEF D
  <2> QED
    BY <2>1
<1>9. ASSUME NEW k \in 1 .. N, after[k - 1] \in J[k - 1] PROVE after[k] \in J[k]
  <2>1. k \in Nat /\ k # 0 /\ k \in 0 .. N /\ k - 1 \in 0 .. N /\ flows[k] \in Flow
    BY <1>1
  <2> DEFINE x == after[k - 1]
             d == flows[k].destination_node
             E == D(k - 1)
  <2>2. after[k] = Visit(x, n, flows[k])
    BY <1>7, <2>1
  <2>3. /\ x \in BfsState
        /\ x.visited = s.visited \cup E
        /\ Range(x.next) = Range(s.next) \cup (E \ s.visited)
        /\ x.edges = s.edges \cup {<<n, e>> : e \in E \ s.visited}
    BY <1>9, <2>1
  <2>4. D(k) = E \cup {d}
    <3>1. 1 .. k = (1 .. k - 1) \cup {k}
      BY <2>1
    <3> HIDE DEF flows
    <3> QED
      BY <3>1, Zenon
  <2>5. /\ after[k] \in BfsState
        /\ after[k].visited = x.visited \cup {d}
        /\ Range(after[k].next) = Range(x.next) \cup ({d} \ x.visited)
        /\ after[k].edges = x.edges \cup {<<n, e>> : e \in {d} \ x.visited}
    <3> DEFINE g == flows[k]
               y == Visit(x, n, g)
    <3>1. g \in Flow /\ x \in BfsState /\ n \in NodeId /\ d = g.destination_node
      BY <2>1, <2>3
    <3>2. after[k] = y
      BY <2>2
    <3> HIDE DEF x, d, g
    <3>3. /\ y \in BfsState
          /\ y.visited = x.visited \cup {d}
          /\ Range(y.next) = Range(x.next) \cup ({d} \ x.visited)
          /\ y.edges = x.edges \cup {<<n, e>> : e \in {d} \ x.visited}
      BY <3>1, VisitFacts
    <3> HIDE DEF y
    <3> QED
      BY <3>2, <3>3
  <2> HIDE DEF x, d, E, D, flows
  <2>6. /\ after[k].visited = s.visited \cup D(k)
        /\ Range(after[k].next) = Range(s.next) \cup (D(k) \ s.visited)
    BY <2>3, <2>4, <2>5
  <2>7. after[k].edges = s.edges \cup {<<n, e>> : e \in D(k) \ s.visited}
    BY <2>3, <2>4, <2>5, Zenon
  <2> QED
    BY <2>1, <2>5, <2>6, <2>7
<1>10. after[N] \in J[N]
  <2>1. \A k \in 1 .. N : after[k - 1] \in J[k - 1] => after[k] \in J[k]
    BY <1>9
  <2> HIDE DEF J
  <2>2. \A k \in 0 .. N : after[k] \in J[k]
    BY <1>1, <1>8, <2>1, LoopInvariant
  <2> QED
    BY <1>1, <2>2
<1> HIDE DEF D
<1> QED
  BY <1>1, <1>2, <1>3, <1>10

\* The state x in the middle of a round that began in s, when the nodes F of
\* the frontier have been expanded: each node that is new in this round has
\* one caller in the tree, and it is one of F.
MidRound(t, s, F, x) ==
    /\ x \in BfsState
    /\ x.visited = s.visited \cup UNION {Callees(t, m) : m \in F}
    /\ Range(x.next) = x.visited \ s.visited
    /\ \A m, d \in NodeId : <<m, d>> \in x.edges => d \in x.visited
    /\ \A m \in NodeId, d \in s.visited : <<m, d>> \in x.edges <=> <<m, d>> \in s.edges
    /\ \A d \in x.visited \ s.visited :
          \E p \in F : /\ d \in Callees(t, p)
                       /\ \A m \in NodeId : <<m, d>> \in x.edges <=> m = p

\* Expanding one more node of the frontier.
LEMMA MidRoundStep ==
    ASSUME NEW t \in Graph, NEW s \in BfsState, NEW F \in SUBSET NodeId,
           NEW x, MidRound(t, s, F, x), NEW n \in NodeId
    PROVE  MidRound(t, s, F \cup {n}, Expand(t, x, n))
<1> DEFINE y == Expand(t, x, n)
           new == Callees(t, n) \ x.visited
<1>1. x \in BfsState
  BY DEF MidRound
<1>2. /\ y \in BfsState
      /\ y.visited = x.visited \cup Callees(t, n)
      /\ Range(y.next) = Range(x.next) \cup new
      /\ y.edges = x.edges \cup {<<n, d>> : d \in new}
  BY <1>1, ExpandFacts
<1>3. /\ s.visited \in SUBSET NodeId /\ x.visited \in SUBSET NodeId /\ y.visited \in SUBSET NodeId
      /\ s.visited \subseteq x.visited
  BY <1>1, <1>2 DEF BfsState, MidRound
<1> HIDE DEF y
<1>4. new \in SUBSET NodeId /\ new \cap x.visited = {} /\ y.visited = x.visited \cup new
  BY <1>2, <1>3
<1>5. \A m, d \in NodeId : <<m, d>> \in y.edges <=> <<m, d>> \in x.edges \/ (m = n /\ d \in new)
  <2> HIDE DEF new
  <2> QED
    BY <1>2, <1>4
<1>6. y.visited = s.visited \cup UNION {Callees(t, m) : m \in F \cup {n}}
  <2>1. x.visited = s.visited \cup UNION {Callees(t, m) : m \in F}
    BY DEF MidRound
  <2> QED
    BY <1>2, <2>1
<1> HIDE DEF new
<1>7. Range(y.next) = y.visited \ s.visited
  BY <1>2, <1>3, <1>4 DEF MidRound
<1>8. \A m, d \in NodeId : <<m, d>> \in y.edges => d \in y.visited
  BY <1>4, <1>5 DEF MidRound
<1>9. ASSUME NEW m \in NodeId, NEW d \in s.visited
      PROVE  <<m, d>> \in y.edges <=> <<m, d>> \in s.edges
  BY <1>3, <1>4, <1>5 DEF MidRound
<1>10. ASSUME NEW d \in y.visited \ s.visited
       PROVE  \E p \in F \cup {n} : /\ d \in Callees(t, p)
                                    /\ \A m \in NodeId : <<m, d>> \in y.edges <=> m = p
  <2>0. d \in NodeId
    BY <1>3
  <2>1. CASE d \in x.visited
    <3>1. PICK p \in F : /\ d \in Callees(t, p)
                         /\ \A m \in NodeId : <<m, d>> \in x.edges <=> m = p
      BY <2>1 DEF MidRound
    <3>2. d \notin new
      BY <1>4, <2>1
    <3>3. \A m \in NodeId : <<m, d>> \in y.edges <=> m = p
      BY <1>5, <2>0, <3>1, <3>2
    <3> QED
      BY <3>1, <3>3
  <2>2. CASE d \notin x.visited
    <3>1. d \in new /\ d \in Callees(t, n)
      BY <1>4, <2>2 DEF new
    <3>2. \A m \in NodeId : <<m, d>> \notin x.edges
      BY <2>0, <2>2 DEF MidRound
    <3>3. \A m \in NodeId : <<m, d>> \in y.edges <=> m = n
      BY <1>5, <2>0, <3>1, <3>2
    <3> QED
      BY <3>1, <3>3
  <2> QED
    BY <2>1, <2>2
<1> QED
  BY <1>2, <1>6, <1>7, <1>8, <1>9, <1>10 DEF MidRound, y

\* One round expands every node of the frontier.
LEMMA HopFacts ==
    ASSUME NEW t \in Graph, NEW s \in BfsState,
           \A m, d \in NodeId : <<m, d>> \in s.edges => d \in s.visited
    PROVE  MidRound(t, s, Range(s.next), Hop(t, s))
<1> DEFINE front == s.next
           N == Len(front)
           first == [s EXCEPT !.next = << >>]
           Is(f) == f = [k \in 0 .. N |-> IF k = 0 THEN first ELSE Expand(t, f[k - 1], front[k])]
           after == CHOOSE f : Is(f)
           step == [k \in Nat |-> [x \in BfsState |->
                       IF k \in 1 .. N THEN Expand(t, x, front[k]) ELSE x]]
           F(k) == {front[i] : i \in 1 .. k}
           J == [k \in 0 .. N |-> {x \in BfsState : MidRound(t, s, F(k), x)}]
<1>1. front \in Seq(NodeId) /\ N \in Nat /\ (\A k \in 1 .. N : front[k] \in NodeId)
  BY DEF BfsState
<1>2. F(N) = Range(front)
  <2>1. DOMAIN front = 1 .. N
    BY <1>1
  <2> HIDE DEF front, N
  <2> QED
    BY <2>1, Zenon DEF Range
<1>3. Hop(t, s) = after[N]
  BY Zenon DEF Hop
<1>4. first \in BfsState /\ first.visited = s.visited /\ first.edges = s.edges /\ first.next = << >>
  <2>1. << >> \in Seq(NodeId)
    OBVIOUS
  <2>2. first = [visited |-> s.visited, edges |-> s.edges, next |-> << >>]
    BY DEF BfsState
  <2>3. s.visited \in SUBSET NodeId /\ s.edges \in SUBSET (NodeId \X NodeId)
    BY DEF BfsState
  <2> HIDE DEF first
  <2> QED
    BY <2>1, <2>2, <2>3 DEF BfsState
<1>5. step \in [Nat -> [BfsState -> BfsState]]
  <2>1. ASSUME NEW k \in Nat, NEW x \in BfsState
        PROVE  (IF k \in 1 .. N THEN Expand(t, x, front[k]) ELSE x) \in BfsState
    <3> HIDE DEF front, N
    <3> QED
      BY <1>1, ExpandFacts
  <2> HIDE DEF front, N
  <2> QED
    BY <2>1
<1>6. \E f : Is(f)
  <2>1. PICK f \in [0 .. N -> BfsState] : Iterates(f, N, first, step)
    <3> HIDE DEF front, N, step, first
    <3> QED
      BY <1>1, <1>4, <1>5, FiniteIteration
  <2> HIDE DEF first
  <2>2. \A k \in 0 .. N : f[k] = IF k = 0 THEN first ELSE Expand(t, f[k - 1], front[k])
    <3> SUFFICES ASSUME NEW k \in 0 .. N
                 PROVE  f[k] = IF k = 0 THEN first ELSE Expand(t, f[k - 1], front[k])
      OBVIOUS
    <3>1. f[k] = IF k = 0 THEN first ELSE step[k][f[k - 1]]
      BY <2>1 DEF Iterates
    <3>2. k # 0 => k \in Nat /\ k \in 1 .. N /\ f[k - 1] \in BfsState
      <4> HIDE DEF front, N
      <4> QED
        BY <1>1
    <3>3. k # 0 => step[k][f[k - 1]] = Expand(t, f[k - 1], front[k])
      <4> HIDE DEF front, N
      <4> QED
        BY <3>2
    <3> QED
      BY <3>1, <3>3
  <2>3. Is(f)
    <3> HIDE DEF front, N
    <3> QED
      BY <2>2
  <2> QED
    BY <2>3
<1>7. Is(after)
  <2> HIDE DEF Is
  <2> QED
    BY <1>6
<1>8. /\ \A k \in 0 .. N : after[k] = IF k = 0 THEN first ELSE Expand(t, after[k - 1], front[k])
  <2> HIDE DEF after, front, N, first
  <2> QED
    BY <1>7
<1> HIDE DEF after, Is, step, N, first
<1>9. after[0] \in J[0]
  <2>1. after[0] = first /\ F(0) = {} /\ 0 \in 0 .. N
    BY <1>1, <1>8
  <2>2. MidRound(t, s, {}, first)
    BY <1>4, EmptyRange DEF MidRound
  <2> HIDE DEF F
  <2> QED
    BY <1>4, <2>1, <2>2
<1>10. ASSUME NEW k \in 1 .. N, after[k - 1] \in J[k - 1] PROVE after[k] \in J[k]
  <2>1. k \in Nat /\ k # 0 /\ k \in 0 .. N /\ k - 1 \in 0 .. N /\ front[k] \in NodeId
    BY <1>1
  <2>2. after[k] = Expand(t, after[k - 1], front[k])
    BY <1>8, <2>1
  <2>3. MidRound(t, s, F(k - 1), after[k - 1])
    BY <1>10, <2>1
  <2>4. F(k) = F(k - 1) \cup {front[k]}
    <3>1. 1 .. k = (1 .. k - 1) \cup {k}
      BY <2>1
    <3> HIDE DEF front
    <3> QED
      BY <3>1, Zenon
  <2>5. F(k - 1) \in SUBSET NodeId
    <3>1. \A i \in 1 .. k - 1 : front[i] \in NodeId
      BY <1>1, <2>1
    <3> HIDE DEF front
    <3> QED
      BY <3>1
  <2> HIDE DEF F, front
  <2>6. MidRound(t, s, F(k), after[k])
    BY <2>1, <2>2, <2>3, <2>4, <2>5, MidRoundStep
  <2>7. after[k] \in BfsState
    BY <2>6 DEF MidRound
  <2> QED
    BY <2>1, <2>6, <2>7
<1>11. after[N] \in J[N]
  <2>1. \A k \in 1 .. N : after[k - 1] \in J[k - 1] => after[k] \in J[k]
    BY <1>10
  <2> HIDE DEF J
  <2>2. \A k \in 0 .. N : after[k] \in J[k]
    BY <1>1, <1>9, <2>1, LoopInvariant
  <2> QED
    BY <1>1, <2>2
<1> HIDE DEF F
<1> QED
  BY <1>1, <1>2, <1>3, <1>11

SearchState == {x \in BfsState : \A m, d \in NodeId : <<m, d>> \in x.edges => d \in x.visited}

\* A round keeps the state of the search one.
LEMMA HopType ==
    ASSUME NEW t \in Graph, NEW s \in SearchState
    PROVE  Hop(t, s) \in SearchState
<1>1. MidRound(t, s, Range(s.next), Hop(t, s))
  BY HopFacts DEF SearchState
<1> QED
  BY <1>1 DEF MidRound, SearchState

\* The search begins at the root, and one more round is one more hop.
LEMMA BfsRounds ==
    ASSUME NEW t \in Graph, NEW root \in NodeId
    PROVE  /\ Bfs(t, root, 0) = FromRoot(root)
           /\ \A k \in Nat : Bfs(t, root, k + 1) = Hop(t, Bfs(t, root, k))
<1> DEFINE Is(f) == f = [k \in Nat |-> IF k = 0 THEN FromRoot(root) ELSE Hop(t, f[k - 1])]
           after == CHOOSE f : Is(f)
           step == [k \in Nat |-> [x \in SearchState |-> Hop(t, x)]]
<1>1. \A k : Bfs(t, root, k) = after[k]
  BY Zenon DEF Bfs
<1>2. FromRoot(root) \in SearchState
  <2>1. <<root>> \in Seq(NodeId)
    OBVIOUS
  <2>2. FromRoot(root) \in BfsState
    BY <2>1 DEF FromRoot, BfsState
  <2> QED
    BY <2>2 DEF FromRoot, SearchState
<1>3. step \in [Nat -> [SearchState -> SearchState]]
  BY HopType
<1>4. \E f : Is(f)
  <2>1. PICK f \in [Nat -> SearchState] : IteratesOn(f, FromRoot(root), step)
    <3> HIDE DEF step
    <3> QED
      BY <1>2, <1>3, Iteration, Zenon
  <2>2. ASSUME NEW k \in Nat
        PROVE  f[k] = IF k = 0 THEN FromRoot(root) ELSE Hop(t, f[k - 1])
    <3>1. k # 0 => f[k - 1] \in SearchState
      OBVIOUS
    <3> QED
      BY <2>1, <3>1 DEF IteratesOn
  <2>3. Is(f)
    BY <2>2
  <2> QED
    BY <2>3
<1>5. Is(after)
  <2> HIDE DEF Is
  <2> QED
    BY <1>4
<1>6. \A k \in Nat : after[k] = IF k = 0 THEN FromRoot(root) ELSE Hop(t, after[k - 1])
  <2> HIDE DEF after
  <2> QED
    BY <1>5
<1> HIDE DEF after, Is
<1>7. ASSUME NEW k \in Nat PROVE after[k + 1] = Hop(t, after[k])
  <2>1. k + 1 \in Nat /\ k + 1 # 0 /\ (k + 1) - 1 = k
    OBVIOUS
  <2> QED
    BY <1>6, <2>1
<1> QED
  BY <1>1, <1>6, <1>7

\* The pairs of callers and callees are the calls the search follows.
LEMMA CallPairsFacts ==
    ASSUME NEW t \in Graph, KeyedByEndpoint(t), NEW m \in NodeId, NEW n \in NodeId
    PROVE  <<m, n>> \in CallPairs(t) <=> n \in Callees(t, m)
<1>1. ASSUME <<m, n>> \in CallPairs(t) PROVE n \in Callees(t, m)
  <2>1. PICK f \in UNION {Range(t.downstream[p]) : p \in NodeId} :
           <<m, n>> = <<f.source_node, f.destination_node>>
    BY <1>1 DEF CallPairs
  <2>2. PICK p \in NodeId : f \in Range(t.downstream[p])
    OBVIOUS
  <2>3. f.source_node = p
    BY <2>2 DEF KeyedByEndpoint
  <2>4. p = m /\ n = f.destination_node
    BY <2>1, <2>3
  <2> QED
    BY <2>2, <2>4 DEF Callees
<1>2. ASSUME n \in Callees(t, m) PROVE <<m, n>> \in CallPairs(t)
  <2>1. PICK f \in Range(t.downstream[m]) : n = f.destination_node
    BY <1>2 DEF Callees
  <2>2. f.source_node = m /\ f \in UNION {Range(t.downstream[p]) : p \in NodeId}
    BY DEF KeyedByEndpoint
  <2> QED
    BY <2>1, <2>2 DEF CallPairs
<1> QED
  BY <1>1, <1>2

\* What is within a number of calls of the root, one call at a time.
LEMMA WithinSteps ==
    ASSUME NEW t \in Graph, KeyedByEndpoint(t), NEW root \in NodeId
    PROVE  /\ Within(t, root, 0) = {root}
           /\ \A k \in Nat : /\ Within(t, root, k) \in SUBSET NodeId
                             /\ Within(t, root, k + 1) = Within(t, root, k) \cup
                                   {n \in NodeId : \E m \in Within(t, root, k) :
                                                      n \in Callees(t, m)}
<1> DEFINE Calling(R) == {n \in NodeId : \E m \in R : <<m, n>> \in CallPairs(t)}
           Is(f) == f = [k \in Nat |-> IF k = 0 THEN {root} ELSE f[k - 1] \cup Calling(f[k - 1])]
           reach == CHOOSE f : Is(f)
           step == [k \in Nat |-> [R \in SUBSET NodeId |-> R \cup Calling(R)]]
<1>1. \A k : Within(t, root, k) = reach[k]
  BY Zenon DEF Within
<1>2. step \in [Nat -> [SUBSET NodeId -> SUBSET NodeId]]
  OBVIOUS
<1>3. \E f : Is(f)
  <2>1. PICK f \in [Nat -> SUBSET NodeId] : IteratesOn(f, {root}, step)
    <3>1. {root} \in SUBSET NodeId
      OBVIOUS
    <3> HIDE DEF step
    <3> QED
      BY <1>2, <3>1, Iteration, Zenon
  <2>2. ASSUME NEW k \in Nat
        PROVE  f[k] = IF k = 0 THEN {root} ELSE f[k - 1] \cup Calling(f[k - 1])
    <3>1. k # 0 => f[k - 1] \in SUBSET NodeId
      OBVIOUS
    <3> HIDE DEF Calling
    <3> QED
      BY <2>1, <3>1 DEF IteratesOn
  <2>3. Is(f)
    <3> HIDE DEF Calling
    <3> QED
      BY <2>2
  <2> QED
    BY <2>3
<1>4. Is(reach)
  <2> HIDE DEF Is
  <2> QED
    BY <1>3
<1>5. \A k \in Nat : reach[k] = IF k = 0 THEN {root} ELSE reach[k - 1] \cup Calling(reach[k - 1])
  <2> HIDE DEF reach, Calling
  <2> QED
    BY <1>4
<1> HIDE DEF reach, Is
<1>6. ASSUME NEW k \in Nat PROVE reach[k + 1] = reach[k] \cup Calling(reach[k])
  <2>1. k + 1 \in Nat /\ k + 1 # 0 /\ (k + 1) - 1 = k
    OBVIOUS
  <2> HIDE DEF Calling
  <2> QED
    BY <1>5, <2>1
<1>7. \A k \in Nat : reach[k] \in SUBSET NodeId
  <2> DEFINE K == {k \in Nat : reach[k] \in SUBSET NodeId}
  <2>1. 0 \in K
    BY <1>5
  <2>2. ASSUME NEW k \in K PROVE k + 1 \in K
    BY <1>6
  <2>3. K = Nat
    <3>1. K \in SUBSET Nat
      OBVIOUS
    <3> HIDE DEF K
    <3> QED
      BY <2>1, <2>2, <3>1, SetInduction
  <2> QED
    BY <2>3
<1>8. ASSUME NEW R \in SUBSET NodeId
      PROVE  Calling(R) = {n \in NodeId : \E m \in R : n \in Callees(t, m)}
  BY CallPairsFacts
<1>9. ASSUME NEW k \in Nat
      PROVE  /\ Within(t, root, k) \in SUBSET NodeId
             /\ Within(t, root, k + 1) = Within(t, root, k) \cup
                   {n \in NodeId : \E m \in Within(t, root, k) : n \in Callees(t, m)}
  <2>1. Within(t, root, k) = reach[k] /\ Within(t, root, k + 1) = reach[k + 1]
    BY <1>1
  <2>2. Calling(reach[k]) = {n \in NodeId : \E m \in reach[k] : n \in Callees(t, m)}
    BY <1>7, <1>8
  <2> HIDE DEF Calling
  <2> QED
    BY <1>6, <1>7, <2>1, <2>2
<1>10. Within(t, root, 0) = {root}
  BY <1>1, <1>5
<1> QED
  BY <1>9, <1>10

\* Each node first reached by the j-th call hangs on one caller, first
\* reached by the call before it.
HangsOnOne(t, root, edges, j) ==
    \A d \in Within(t, root, j) \ Within(t, root, j - 1) :
        \E p \in Within(t, root, j - 1) :
            /\ j > 1 => p \notin Within(t, root, j - 2)
            /\ d \in Callees(t, p)
            /\ \A m \in NodeId : <<m, d>> \in edges <=> m = p

Frontier(t, root, k) == IF k = 0 THEN {root}
                        ELSE Within(t, root, k) \ Within(t, root, k - 1)

\* The state x of the search after k rounds.
Searched(t, root, k, x) ==
    /\ x \in BfsState
    /\ x.visited = Within(t, root, k)
    /\ Range(x.next) = Frontier(t, root, k)
    /\ root \in Within(t, root, k)
    /\ \A m, d \in NodeId : <<m, d>> \in x.edges =>
          /\ m \in Within(t, root, k)
          /\ d \in Within(t, root, k) \ {root}
          /\ d \in Callees(t, m)
    /\ \A j \in 1 .. k : HangsOnOne(t, root, x.edges, j)
    /\ \A j \in 0 .. k : Within(t, root, j) \subseteq Within(t, root, k)

\* Callees are nodes.
LEMMA CalleesType ==
    ASSUME NEW t \in Graph, NEW n \in NodeId
    PROVE  Callees(t, n) \in SUBSET NodeId
<1>1. t.downstream[n] \in Seq(Flow)
  BY DEF Graph, FlowMap
<1>2. \A f \in Range(t.downstream[n]) : f \in Flow
  BY <1>1 DEF Range
<1> QED
  BY <1>2 DEF Callees, Flow

\* The frontier's callees are all that one more call reaches: the callees of
\* the nodes behind it were reached before.
LEMMA NextLevel ==
    ASSUME NEW t \in Graph, KeyedByEndpoint(t), NEW root \in NodeId, NEW k \in Nat
    PROVE  LET F == Frontier(t, root, k) IN
           /\ F \in SUBSET NodeId
           /\ F \subseteq Within(t, root, k)
           /\ Within(t, root, k + 1) =
                 Within(t, root, k) \cup UNION {Callees(t, m) : m \in F}
<1> DEFINE W(j) == Within(t, root, j)
           F == Frontier(t, root, k)
<1>1. /\ W(0) = {root}
      /\ \A j \in Nat : /\ W(j) \in SUBSET NodeId
                        /\ W(j + 1) = W(j) \cup {n \in NodeId : \E m \in W(j) : n \in Callees(t, m)}
  BY WithinSteps
<1> HIDE DEF W
<1>2. \A j \in Nat : W(j + 1) = W(j) \cup UNION {Callees(t, m) : m \in W(j)}
  <2> SUFFICES ASSUME NEW j \in Nat
               PROVE  W(j + 1) = W(j) \cup UNION {Callees(t, m) : m \in W(j)}
    OBVIOUS
  <2>1. \A m \in W(j) : Callees(t, m) \in SUBSET NodeId
    BY <1>1, CalleesType
  <2> QED
    BY <1>1, <2>1
<1>3. CASE k = 0
  <2>1. F = W(0)
    BY <1>1, <1>3 DEF Frontier
  <2>2. W(k + 1) = W(k) \cup UNION {Callees(t, m) : m \in F} /\ F \in SUBSET NodeId
    BY <1>1, <1>2, <1>3, <2>1
  <2> QED
    BY <1>3, <2>1, <2>2 DEF W
<1>4. CASE k # 0
  <2>1. k - 1 \in Nat /\ (k - 1) + 1 = k
    BY <1>4
  <2>2. F = W(k) \ W(k - 1) /\ F \in SUBSET NodeId
    BY <1>1, <1>4 DEF W, Frontier
  <2>3. W(k) = W(k - 1) \cup UNION {Callees(t, m) : m \in W(k - 1)}
    BY <1>2, <2>1
  <2>4. W(k + 1) = W(k) \cup UNION {Callees(t, m) : m \in W(k)}
    BY <1>2
  <2>5. W(k + 1) = W(k) \cup UNION {Callees(t, m) : m \in F}
    BY <2>2, <2>3, <2>4
  <2> QED
    BY <2>2, <2>5 DEF W
<1> QED
  BY <1>3, <1>4

\* One more round.
LEMMA SearchedStep ==
    ASSUME NEW t \in Graph, KeyedByEndpoint(t), NEW root \in NodeId, NEW k \in Nat,
           NEW x, Searched(t, root, k, x)
    PROVE  Searched(t, root, k + 1, Hop(t, x))
<1> DEFINE W(j) == Within(t, root, j)
           y == Hop(t, x)
           F == Range(x.next)
<1>1. x \in BfsState /\ x.visited = W(k)
  BY DEF Searched
<1>2. MidRound(t, x, F, y)
  BY <1>1, HopFacts DEF Searched
<1>3. F = Frontier(t, root, k)
  BY DEF Searched
<1>4. /\ F \in SUBSET NodeId /\ F \subseteq W(k)
      /\ W(k + 1) = W(k) \cup UNION {Callees(t, m) : m \in F}
  BY <1>3, NextLevel
<1>5. \A j \in Nat : W(j) \in SUBSET NodeId
  BY WithinSteps
<1>6. y.visited = W(k + 1) /\ y \in BfsState
  BY <1>1, <1>2, <1>4 DEF MidRound
<1>7. Range(y.next) = W(k + 1) \ W(k)
  BY <1>1, <1>2, <1>6 DEF MidRound
<1>8. \A m \in NodeId, d \in W(k) : <<m, d>> \in y.edges <=> <<m, d>> \in x.edges
  BY <1>1, <1>2 DEF MidRound
<1>9. \A d \in W(k + 1) \ W(k) :
         \E p \in F : /\ d \in Callees(t, p)
                      /\ \A m \in NodeId : <<m, d>> \in y.edges <=> m = p
  BY <1>1, <1>2, <1>6 DEF MidRound
<1>10. /\ root \in W(k)
       /\ \A m, d \in NodeId : <<m, d>> \in x.edges =>
             m \in W(k) /\ d \in W(k) \ {root} /\ d \in Callees(t, m)
       /\ \A j \in 1 .. k : HangsOnOne(t, root, x.edges, j)
       /\ \A j \in 0 .. k : W(j) \subseteq W(k)
  BY DEF Searched
<1>11. \A m, d \in NodeId : <<m, d>> \in y.edges => d \in W(k + 1)
  BY <1>2, <1>6 DEF MidRound
<1> HIDE DEF W, y, F
<1>12. ASSUME NEW m \in NodeId, NEW d \in NodeId, <<m, d>> \in y.edges
       PROVE  m \in W(k + 1) /\ d \in W(k + 1) \ {root} /\ d \in Callees(t, m)
  <2>1. CASE d \in W(k)
    BY <1>4, <1>8, <1>10, <1>12, <2>1
  <2>2. CASE d \notin W(k)
    <3>1. d \in W(k + 1) \ W(k) /\ d # root
      BY <1>10, <1>11, <1>12, <2>2
    <3>2. PICK p \in F : /\ d \in Callees(t, p)
                         /\ \A q \in NodeId : <<q, d>> \in y.edges <=> q = p
      BY <1>9, <3>1
    <3>3. m = p
      BY <1>12, <3>2
    <3> QED
      BY <1>4, <3>1, <3>2, <3>3
  <2> QED
    BY <2>1, <2>2
<1>13. ASSUME NEW j \in 1 .. k + 1 PROVE HangsOnOne(t, root, y.edges, j)
  <2>1. CASE j = k + 1
    <3>1. j - 1 = k /\ (j > 1 => k # 0 /\ j - 2 = k - 1)
      BY <2>1
    <3> SUFFICES ASSUME NEW d \in W(j) \ W(j - 1)
                 PROVE  \E p \in W(j - 1) :
                           /\ j > 1 => p \notin W(j - 2)
                           /\ d \in Callees(t, p)
                           /\ \A m \in NodeId : <<m, d>> \in y.edges <=> m = p
      BY DEF HangsOnOne, W
    <3>2. PICK p \in F : /\ d \in Callees(t, p)
                         /\ \A m \in NodeId : <<m, d>> \in y.edges <=> m = p
      BY <1>9, <2>1, <3>1
    <3>3. p \in W(j - 1) /\ (j > 1 => p \notin W(j - 2))
      BY <1>3, <1>4, <3>1 DEF Frontier, W
    <3> QED
      BY <3>2, <3>3
  <2>2. CASE j # k + 1
    <3>1. j \in 1 .. k /\ j \in 0 .. k /\ j \in Nat
      BY <2>2
    <3>2. HangsOnOne(t, root, x.edges, j) /\ W(j) \subseteq W(k)
      BY <1>10, <3>1
    <3> SUFFICES ASSUME NEW d \in W(j) \ W(j - 1)
                 PROVE  \E p \in W(j - 1) :
                           /\ j > 1 => p \notin W(j - 2)
                           /\ d \in Callees(t, p)
                           /\ \A m \in NodeId : <<m, d>> \in y.edges <=> m = p
      BY DEF HangsOnOne, W
    <3>3. PICK p \in W(j - 1) :
             /\ j > 1 => p \notin W(j - 2)
             /\ d \in Callees(t, p)
             /\ \A m \in NodeId : <<m, d>> \in x.edges <=> m = p
      BY <3>2 DEF HangsOnOne, W
    <3>4. \A m \in NodeId : <<m, d>> \in y.edges <=> m = p
      BY <1>8, <3>2, <3>3
    <3> QED
      BY <3>3, <3>4
  <2> QED
    BY <2>1, <2>2
<1>14. \A j \in 0 .. k + 1 : W(j) \subseteq W(k + 1)
  <2>1. \A j \in 0 .. k + 1 : j = k + 1 \/ j \in 0 .. k
    OBVIOUS
  <2> QED
    BY <1>4, <1>10, <2>1
<1>15. k + 1 # 0 /\ (k + 1) - 1 = k /\ root \in W(k + 1)
  BY <1>4, <1>10
<1>16. Range(y.next) = Frontier(t, root, k + 1)
  BY <1>7, <1>15 DEF Frontier, W
<1> QED
  BY <1>6, <1>12, <1>13, <1>14, <1>15, <1>16 DEF Searched, W, y

\* What the search has found after any number of rounds.
LEMMA BfsFacts ==
    ASSUME NEW t \in Graph, KeyedByEndpoint(t), NEW root \in NodeId, NEW k \in Nat
    PROVE  Searched(t, root, k, Bfs(t, root, k))
<1> DEFINE K == {j \in Nat : Searched(t, root, j, Bfs(t, root, j))}
<1>1. 0 \in K
  <2>1. Within(t, root, 0) = {root} /\ Bfs(t, root, 0) = FromRoot(root)
    BY WithinSteps, BfsRounds
  <2>2. <<root>> \in Seq(NodeId) /\ Range(<<root>>) = {root}
    <3>1. DOMAIN <<root>> = {1} /\ <<root>>[1] = root
      OBVIOUS
    <3>2. Range(<<root>>) = {root}
      BY <3>1, Zenon DEF Range
    <3> QED
      BY <3>2
  <2>3. \A j \in 0 .. 0 : j = 0
    OBVIOUS
  <2>4. 1 .. 0 = {}
    OBVIOUS
  <2>5. FromRoot(root) \in BfsState
    BY <2>2 DEF FromRoot, BfsState
  <2>6. /\ FromRoot(root).visited = {root} /\ FromRoot(root).edges = {}
        /\ FromRoot(root).next = <<root>>
    BY DEF FromRoot
  <2>7. Searched(t, root, 0, FromRoot(root))
    BY <2>1, <2>2, <2>3, <2>4, <2>5, <2>6 DEF Searched, Frontier
  <2> QED
    BY <2>1, <2>7
<1>2. ASSUME NEW j \in K PROVE j + 1 \in K
  <2>1. j \in Nat /\ Searched(t, root, j, Bfs(t, root, j))
    OBVIOUS
  <2>2. Bfs(t, root, j + 1) = Hop(t, Bfs(t, root, j))
    BY <2>1, BfsRounds
  <2>3. Searched(t, root, j + 1, Hop(t, Bfs(t, root, j)))
    BY <2>1, SearchedStep
  <2> QED
    BY <2>1, <2>2, <2>3
<1>3. K = Nat
  <2>1. K \in SUBSET Nat
    OBVIOUS
  <2> HIDE DEF K
  <2> QED
    BY <1>1, <1>2, <2>1, SetInduction
<1> QED
  BY <1>3

-----------------------------------------------------------------------------
(* The answers of the queries                                              *)

\* Filtering keeps exactly the flows asked for.
LEMMA FilterFacts ==
    ASSUME NEW S, NEW flows \in Seq(S), NEW keep
    PROVE  /\ Filter(flows, keep) \in Seq(S)
           /\ Range(Filter(flows, keep)) = Range(flows) \cap keep
<1> DEFINE N == Len(flows)
           Add(seq, f) == IF f \in keep THEN Append(seq, f) ELSE seq
           Is(g) == g = [k \in 0 .. N |-> IF k = 0 THEN << >>
                                          ELSE IF flows[k] \in keep THEN Append(g[k - 1], flows[k])
                                          ELSE g[k - 1]]
           kept == CHOOSE g : Is(g)
           step == [k \in Nat |-> [x \in Seq(S) |->
                       IF k \in 1 .. N THEN Add(x, flows[k]) ELSE x]]
           First(k) == {flows[i] : i \in 1 .. k}
           J == [k \in 0 .. N |-> {x \in Seq(S) : Range(x) = First(k) \cap keep}]
<1>1. N \in Nat /\ (\A k \in 1 .. N : flows[k] \in S) /\ DOMAIN flows = 1 .. N
  OBVIOUS
<1>2. First(N) = Range(flows)
  <2> HIDE DEF N
  <2> QED
    BY <1>1, Zenon DEF Range
<1>3. Filter(flows, keep) = kept[N]
  BY Zenon DEF Filter
<1> HIDE DEF N
<1>4. step \in [Nat -> [Seq(S) -> Seq(S)]]
  <2>1. ASSUME NEW k \in Nat, NEW x \in Seq(S)
        PROVE  (IF k \in 1 .. N THEN Add(x, flows[k]) ELSE x) \in Seq(S)
    BY <1>1, AppendProperties
  <2> HIDE DEF Add
  <2> QED
    BY <2>1
<1>5. \E g : Is(g)
  <2>1. PICK g \in [0 .. N -> Seq(S)] : Iterates(g, N, << >>, step)
    <3>1. << >> \in Seq(S)
      OBVIOUS
    <3> HIDE DEF step
    <3> QED
      BY <1>1, <1>4, <3>1, FiniteIteration, Zenon
  <2>2. \A k \in 0 .. N : g[k] = IF k = 0 THEN << >> ELSE Add(g[k - 1], flows[k])
    <3> SUFFICES ASSUME NEW k \in 0 .. N
                 PROVE  g[k] = IF k = 0 THEN << >> ELSE Add(g[k - 1], flows[k])
      OBVIOUS
    <3> HIDE DEF Add
    <3>1. g[k] = IF k = 0 THEN << >> ELSE step[k][g[k - 1]]
      BY <2>1 DEF Iterates
    <3>2. k # 0 => k \in Nat /\ k \in 1 .. N /\ g[k - 1] \in Seq(S)
      BY <1>1
    <3>3. k # 0 => step[k][g[k - 1]] = Add(g[k - 1], flows[k])
      BY <3>2
    <3> QED
      BY <3>1, <3>3
  <2>3. Is(g)
    BY <2>2
  <2> QED
    BY <2>3
<1>6. Is(kept)
  <2> HIDE DEF Is
  <2> QED
    BY <1>5
<1>7. \A k \in 0 .. N : kept[k] = IF k = 0 THEN << >> ELSE Add(kept[k - 1], flows[k])
  <2> HIDE DEF kept
  <2> QED
    BY <1>6
<1> HIDE DEF kept, Is, step
<1>8. kept[0] \in J[0]
  <2>1. kept[0] = << >> /\ First(0) = {} /\ 0 \in 0 .. N /\ << >> \in Seq(S)
    BY <1>1, <1>7
  <2> HIDE DEF First
  <2> QED
    BY <2>1, EmptyRange
<1>9. ASSUME NEW k \in 1 .. N, kept[k - 1] \in J[k - 1] PROVE kept[k] \in J[k]
  <2>1. k \in Nat /\ k # 0 /\ k \in 0 .. N /\ k - 1 \in 0 .. N /\ flows[k] \in S
    BY <1>1
  <2>2. kept[k] = Add(kept[k - 1], flows[k])
    BY <1>7, <2>1
  <2>3. kept[k - 1] \in Seq(S) /\ Range(kept[k - 1]) = First(k - 1) \cap keep
    BY <1>9, <2>1
  <2>4. First(k) = First(k - 1) \cup {flows[k]}
    <3>1. 1 .. k = (1 .. k - 1) \cup {k}
      BY <2>1
    <3> QED
      BY <3>1, Zenon
  <2>5. kept[k] \in Seq(S) /\ Range(kept[k]) = Range(kept[k - 1]) \cup ({flows[k]} \cap keep)
    BY <2>1, <2>2, <2>3, AppendRange
  <2> HIDE DEF First, Add
  <2>6. Range(kept[k]) = First(k) \cap keep
    BY <2>3, <2>4, <2>5
  <2> QED
    BY <2>1, <2>5, <2>6
<1>10. kept[N] \in J[N]
  <2>1. \A k \in 1 .. N : kept[k - 1] \in J[k - 1] => kept[k] \in J[k]
    BY <1>9
  <2> HIDE DEF J
  <2>2. \A k \in 0 .. N : kept[k] \in J[k]
    BY <1>1, <1>8, <2>1, LoopInvariant
  <2> QED
    BY <1>1, <2>2
<1> HIDE DEF First
<1> QED
  BY <1>1, <1>2, <1>3, <1>10

\* The flows under a node of a well-formed graph.
LEMMA FlowEnds ==
    ASSUME NEW t \in Graph, WellFormed(t), NEW n \in NodeId
    PROVE  /\ t.upstream[n] \in Seq(Flow) /\ t.downstream[n] \in Seq(Flow)
           /\ \A f \in Range(t.upstream[n]) :
                 /\ f \in Flow /\ f.source_node \in NodeId /\ f.destination_node = n
                 /\ HasNode(t, f.source_node) /\ HasNode(t, n)
                 /\ f \in Range(t.downstream[f.source_node])
           /\ \A f \in Range(t.downstream[n]) :
                 /\ f \in Flow /\ f.source_node = n /\ f.destination_node \in NodeId
                 /\ HasNode(t, f.destination_node) /\ HasNode(t, n)
                 /\ f \in Range(t.upstream[f.destination_node])
<1>1. t.upstream[n] \in Seq(Flow) /\ t.downstream[n] \in Seq(Flow)
  BY DEF Graph, FlowMap
<1>2. /\ \A f \in Range(t.upstream[n]) : f \in Flow
      /\ \A f \in Range(t.downstream[n]) : f \in Flow
  BY <1>1 DEF Range
<1>3. \A f \in Flow : f.source_node \in NodeId /\ f.destination_node \in NodeId
  BY DEF Flow
<1>4. ASSUME NEW f \in Range(t.downstream[n])
      PROVE  /\ f.source_node = n
             /\ HasNode(t, f.destination_node) /\ HasNode(t, n)
             /\ f \in Range(t.upstream[f.destination_node])
  BY DEF WellFormed, KeyedByEndpoint, Mirrored, EndpointsKnown, InUpstream, Contains
<1>5. ASSUME NEW f \in Range(t.upstream[n])
      PROVE  /\ f.destination_node = n
             /\ HasNode(t, f.source_node) /\ HasNode(t, n)
             /\ f \in Range(t.downstream[f.source_node])
  <2>1. f.destination_node = n /\ f \in Range(t.downstream[f.source_node])
    BY DEF WellFormed, KeyedByEndpoint, Mirrored, InDownstream, Contains
  <2>2. f.source_node \in NodeId
    BY <1>2, <1>3
  <2> QED
    BY <2>1, <2>2 DEF WellFormed, EndpointsKnown
<1> QED
  BY <1>1, <1>2, <1>3, <1>4, <1>5

\* The callers of a node are the sources of its upstream flows.
LEMMA CallersFacts ==
    ASSUME NEW t \in Graph, WellFormed(t), NEW root \in NodeId
    PROVE  Callers(t, root) = {f.source_node : f \in Range(t.upstream[root])}
<1>1. ASSUME NEW n \in Callers(t, root)
      PROVE  \E f \in Range(t.upstream[root]) : n = f.source_node
  <2>1. n \in NodeId /\ root \in Callees(t, n)
    BY CallPairsFacts DEF Callers, WellFormed
  <2>2. PICK f \in Range(t.downstream[n]) : root = f.destination_node
    BY <2>1 DEF Callees
  <2> QED
    BY <2>1, <2>2, FlowEnds
<1>2. ASSUME NEW f \in Range(t.upstream[root]) PROVE f.source_node \in Callers(t, root)
  <2>1. /\ f.source_node \in NodeId /\ f.destination_node = root
        /\ f \in Range(t.downstream[f.source_node])
    BY FlowEnds
  <2>2. root \in Callees(t, f.source_node)
    BY <2>1 DEF Callees
  <2> QED
    BY <2>1, <2>2, CallPairsFacts DEF Callers, WellFormed
<1> QED
  BY <1>1, <1>2

\* Whatever a known root reaches is known.
LEMMA WithinKnown ==
    ASSUME NEW t \in Graph, WellFormed(t), NEW root \in NodeId, HasNode(t, root), NEW k \in Nat
    PROVE  \A n \in Within(t, root, k) : n \in NodeId /\ HasNode(t, n)
<1> DEFINE K == {j \in Nat : \A n \in Within(t, root, j) : n \in NodeId /\ HasNode(t, n)}
<1>0. KeyedByEndpoint(t)
  BY DEF WellFormed
<1>1. 0 \in K
  BY <1>0, WithinSteps
<1>2. ASSUME NEW j \in K PROVE j + 1 \in K
  <2>1. j \in Nat /\ (\A n \in Within(t, root, j) : n \in NodeId /\ HasNode(t, n))
    OBVIOUS
  <2>2. ASSUME NEW n \in Within(t, root, j + 1) PROVE n \in NodeId /\ HasNode(t, n)
    <3>1. CASE n \in Within(t, root, j)
      BY <2>1, <3>1
    <3>2. CASE n \notin Within(t, root, j)
      <4>1. PICK m \in Within(t, root, j) : n \in Callees(t, m)
        BY <1>0, <2>1, <2>2, <3>2, WithinSteps
      <4>2. PICK f \in Range(t.downstream[m]) : n = f.destination_node
        BY <4>1 DEF Callees
      <4> QED
        BY <2>1, <4>2, FlowEnds
    <3> QED
      BY <3>1, <3>2
  <2> QED
    BY <2>1, <2>2
<1>3. K = Nat
  <2>1. K \in SUBSET Nat
    OBVIOUS
  <2> HIDE DEF K
  <2> QED
    BY <1>1, <1>2, <2>1, SetInduction
<1> QED
  BY <1>3

\* What is shown of one index: all flows of the root, of another node that
\* was visited those along the tree.
Shows(shown, index, root, visited, tree) ==
    /\ shown \in FlowMap
    /\ shown[root] = index[root]
    /\ \A n \in visited \cap NodeId : n # root =>
          Range(shown[n]) = Range(index[n]) \cap tree[n]
    /\ \A n \in NodeId \ visited : n # root => Range(shown[n]) = {}

\* The visible part of an index.
LEMMA VisibleFacts ==
    ASSUME NEW index \in FlowMap, NEW root \in NodeId, NEW visited, NEW tree
    PROVE  Shows(Visible(index, root, visited, tree), index, root, visited, tree)
<1> DEFINE shown == Visible(index, root, visited, tree)
<1>1. \A n \in NodeId : index[n] \in Seq(Flow)
  BY DEF FlowMap
<1>2. \A n \in NodeId : /\ Filter(index[n], tree[n]) \in Seq(Flow)
                        /\ Range(Filter(index[n], tree[n])) = Range(index[n]) \cap tree[n]
  <2> TAKE n \in NodeId
  <2> DEFINE flows == index[n]
             keep == tree[n]
  <2>1. flows \in Seq(Flow)
    BY <1>1
  <2> HIDE DEF flows, keep
  <2>2. Filter(flows, keep) \in Seq(Flow) /\ Range(Filter(flows, keep)) = Range(flows) \cap keep
    BY <2>1, FilterFacts
  <2> QED
    BY <2>2 DEF flows, keep
<1>3. << >> \in Seq(Flow)
  OBVIOUS
<1>4. /\ shown[root] = index[root]
      /\ \A n \in visited \cap NodeId : n # root => shown[n] = Filter(index[n], tree[n])
      /\ \A n \in NodeId \ visited : n # root => shown[n] = << >>
      /\ shown = [n \in NodeId |-> shown[n]]
  BY DEF Visible
<1> HIDE DEF shown
<1>5. \A n \in NodeId : shown[n] \in Seq(Flow)
  BY <1>1, <1>2, <1>3, <1>4
<1>6. shown \in FlowMap
  BY <1>4, <1>5 DEF FlowMap
<1> QED
  BY <1>2, <1>4, <1>6, EmptyRange DEF shown, Shows

\* The subgraph sg that visited W by the tree `edges`.
IsSubgraph(t, root, W, edges, sg) ==
    /\ sg.nodes = W \cup Callers(t, root)
    /\ sg.upstream \in FlowMap /\ sg.downstream \in FlowMap
    /\ sg.upstream[root] = t.upstream[root]
    /\ sg.downstream[root] = t.downstream[root]
    /\ \A n \in W \ {root} :
          /\ Range(sg.upstream[n]) =
                {f \in Range(t.upstream[n]) : <<f.source_node, n>> \in edges}
          /\ Range(sg.downstream[n]) =
                {f \in Range(t.downstream[n]) : <<n, f.destination_node>> \in edges}
    /\ \A n \in NodeId \ (W \cup {root}) :
          Range(sg.upstream[n]) = {} /\ Range(sg.downstream[n]) = {}

\* The subgraph of a node that the graph knows.
LEMMA SubgraphFacts ==
    ASSUME NEW t \in Graph, WellFormed(t), NEW root \in NodeId, HasNode(t, root), NEW k \in Nat
    PROVE  IsSubgraph(t, root, Within(t, root, k), Bfs(t, root, k).edges,
                      get_subgraph(t, root, k))
<1> DEFINE sg == get_subgraph(t, root, k)
           W == Within(t, root, k)
           s == Bfs(t, root, k)
           in == TreeIn(t, s.edges)
           out == TreeOut(t, s.edges)
<1>1. s.visited = W /\ W \in SUBSET NodeId
  BY BfsFacts DEF Searched, WellFormed, BfsState
<1>2. sg = SubgraphOf(AllNodes(t, root, s.visited),
                      Visible(t.upstream, root, s.visited, in),
                      Visible(t.downstream, root, s.visited, out))
  BY DEF get_subgraph
<1>3. /\ sg.nodes = AllNodes(t, root, s.visited)
      /\ sg.upstream = Visible(t.upstream, root, s.visited, in)
      /\ sg.downstream = Visible(t.downstream, root, s.visited, out)
  BY <1>2 DEF SubgraphOf
<1>4. sg.nodes = W \cup Callers(t, root)
  BY <1>1, <1>3, CallersFacts DEF AllNodes
<1>5. t.upstream \in FlowMap /\ t.downstream \in FlowMap
  BY DEF Graph
<1>6. \A n \in NodeId :
         /\ in[n] = {f \in Range(t.upstream[n]) : <<f.source_node, n>> \in s.edges}
         /\ out[n] = {f \in Range(t.downstream[n]) : <<n, f.destination_node>> \in s.edges}
  BY DEF TreeIn, TreeOut
<1> HIDE DEF in, out, W, s, sg
<1>7. /\ sg.upstream \in FlowMap
      /\ sg.upstream[root] = t.upstream[root]
      /\ \A n \in W \cap NodeId : n # root =>
            Range(sg.upstream[n]) = Range(t.upstream[n]) \cap in[n]
      /\ \A n \in NodeId \ W : n # root => Range(sg.upstream[n]) = {}
  <2>1. Shows(Visible(t.upstream, root, s.visited, in), t.upstream, root, s.visited, in)
    BY <1>5, VisibleFacts
  <2>2. Shows(sg.upstream, t.upstream, root, W, in)
    BY <1>1, <1>3, <2>1
  <2> QED
    BY <2>2 DEF Shows
<1>8. /\ sg.downstream \in FlowMap
      /\ sg.downstream[root] = t.downstream[root]
      /\ \A n \in W \cap NodeId : n # root =>
            Range(sg.downstream[n]) = Range(t.downstream[n]) \cap out[n]
      /\ \A n \in NodeId \ W : n # root => Range(sg.downstream[n]) = {}
  <2>1. Shows(Visible(t.downstream, root, s.visited, out), t.downstream, root, s.visited, out)
    BY <1>5, VisibleFacts
  <2>2. Shows(sg.downstream, t.downstream, root, W, out)
    BY <1>1, <1>3, <2>1
  <2> QED
    BY <2>2 DEF Shows
<1>9. \A n \in W \ {root} :
         /\ Range(sg.upstream[n]) = {f \in Range(t.upstream[n]) : <<f.source_node, n>> \in s.edges}
         /\ Range(sg.downstream[n]) =
               {f \in Range(t.downstream[n]) : <<n, f.destination_node>> \in s.edges}
  BY <1>1, <1>6, <1>7, <1>8
<1> QED
  BY <1>4, <1>7, <1>8, <1>9 DEF sg, W, s, IsSubgraph

\* The subgraph endpoint answers with exactly what is within `depth` calls of
\* the root, and the root's callers, in every well-formed graph.
LEMMA SubgraphExactNodes ==
    ASSUME NEW t \in Graph, WellFormed(t), NEW root \in NodeId, NEW k \in Nat
    PROVE  ExactNodes(t, root, k)
<1> DEFINE sg == get_subgraph(t, root, k)
<1>1. DOMAIN topology_subgraph(t, root, k).nodes = {n \in sg.nodes : HasNode(t, n)}
  BY DEF topology_subgraph, TopologyResponse, NodeDtos
<1>2. CASE HasNode(t, root)
  <2>1. sg.nodes = Within(t, root, k) \cup Callers(t, root)
    BY <1>2, SubgraphFacts DEF IsSubgraph
  <2>2. \A n \in Within(t, root, k) : HasNode(t, n)
    BY <1>2, WithinKnown
  <2>3. \A n \in Callers(t, root) : HasNode(t, n)
    BY CallersFacts, FlowEnds
  <2> HIDE DEF sg
  <2> QED
    BY <1>1, <1>2, <2>1, <2>2, <2>3 DEF ExactNodes
<1>3. CASE ~ HasNode(t, root)
  <2>1. sg.nodes = {}
    BY <1>3 DEF get_subgraph, SubgraphOf
  <2> QED
    BY <1>1, <1>3, <2>1 DEF ExactNodes
<1> QED
  BY <1>2, <1>3

\* What the search guarantees of its edges, by name.
LEMMA TreeEdges ==
    ASSUME NEW t \in Graph, WellFormed(t), NEW root \in NodeId, NEW k \in Nat
    PROVE  LET W(j) == Within(t, root, j)
               edges == Bfs(t, root, k).edges
           IN  /\ root \in W(k) /\ W(k) \in SUBSET NodeId
               /\ \A m, d \in NodeId : <<m, d>> \in edges =>
                     m \in W(k) /\ d \in W(k) \ {root} /\ d \in Callees(t, m)
               /\ \A j \in 1 .. k : HangsOnOne(t, root, edges, j)
               /\ \A j \in 0 .. k : W(j) \subseteq W(k)
               /\ k # 0 => \A d \in Callees(t, root) :
                              d \in W(k) /\ (d # root => <<root, d>> \in edges)
<1> DEFINE W(j) == Within(t, root, j)
           edges == Bfs(t, root, k).edges
<1>0. KeyedByEndpoint(t)
  BY DEF WellFormed
<1>1. /\ root \in W(k)
      /\ \A m, d \in NodeId : <<m, d>> \in edges =>
            m \in W(k) /\ d \in W(k) \ {root} /\ d \in Callees(t, m)
      /\ \A j \in 1 .. k : HangsOnOne(t, root, edges, j)
      /\ \A j \in 0 .. k : W(j) \subseteq W(k)
  BY <1>0, BfsFacts DEF Searched
<1>2. W(k) \in SUBSET NodeId
  BY <1>0, WithinSteps
<1>3. W(0) = {root} /\ W(1) = {root} \cup {n \in NodeId : n \in Callees(t, root)}
  <2>1. 0 + 1 = 1
    OBVIOUS
  <2>2. W(0) = {root} /\ W(0 + 1) = W(0) \cup {n \in NodeId : \E m \in W(0) : n \in Callees(t, m)}
    BY <1>0, WithinSteps
  <2> HIDE DEF W
  <2> QED
    BY <2>1, <2>2
<1>4. ASSUME k # 0, NEW d \in Callees(t, root)
      PROVE  d \in W(k) /\ (d # root => <<root, d>> \in edges)
  <2>1. d \in NodeId
    BY CalleesType
  <2>2. 1 \in 1 .. k /\ 1 \in 0 .. k
    BY <1>4
  <2>3. d \in W(1) /\ d \in W(k)
    BY <1>1, <1>3, <2>1, <2>2
  <2>4. ASSUME d # root PROVE <<root, d>> \in edges
    <3>1. HangsOnOne(t, root, edges, 1)
      BY <1>1, <2>2
    <3>2. 1 - 1 = 0
      OBVIOUS
    <3>3. PICK p \in W(0) : \A m \in NodeId : <<m, d>> \in edges <=> m = p
      BY <1>3, <2>3, <2>4, <3>1, <3>2 DEF HangsOnOne
    <3> QED
      BY <1>3, <3>3
  <2> QED
    BY <2>3, <2>4
<1> HIDE DEF W, edges
<1>5. /\ root \in W(k) /\ W(k) \in SUBSET NodeId
      /\ \A m, d \in NodeId : <<m, d>> \in edges =>
            m \in W(k) /\ d \in W(k) \ {root} /\ d \in Callees(t, m)
      /\ \A j \in 1 .. k : HangsOnOne(t, root, edges, j)
      /\ \A j \in 0 .. k : W(j) \subseteq W(k)
      /\ k # 0 => \A d \in Callees(t, root) :
                     d \in W(k) /\ (d # root => <<root, d>> \in edges)
  BY <1>1, <1>2, <1>4
<1> QED
  BY <1>5 DEF W, edges

\* Below the root the subgraph is a tree of calls, shown at both ends; the root
\* shows all its calls, and services out of reach show none.
LEMMA SubgraphTree ==
    ASSUME NEW t \in Graph, WellFormed(t), NEW root \in NodeId, HasNode(t, root),
           NEW k \in Nat \ {0}
    PROVE  IsTree(t, root, k)
<1> DEFINE sg == get_subgraph(t, root, k)
           W(j) == Within(t, root, j)
           edges == Bfs(t, root, k).edges
<1>1. /\ root \in W(k) /\ W(k) \in SUBSET NodeId
      /\ \A m, d \in NodeId : <<m, d>> \in edges =>
            m \in W(k) /\ d \in W(k) \ {root} /\ d \in Callees(t, m)
      /\ \A j \in 1 .. k : HangsOnOne(t, root, edges, j)
      /\ \A j \in 0 .. k : W(j) \subseteq W(k)
      /\ \A d \in Callees(t, root) : d \in W(k) /\ (d # root => <<root, d>> \in edges)
  BY TreeEdges
<1>2. /\ sg.upstream[root] = t.upstream[root]
      /\ sg.downstream[root] = t.downstream[root]
      /\ \A n \in W(k) \ {root} :
            /\ Range(sg.upstream[n]) =
                  {f \in Range(t.upstream[n]) : <<f.source_node, n>> \in edges}
            /\ Range(sg.downstream[n]) =
                  {f \in Range(t.downstream[n]) : <<n, f.destination_node>> \in edges}
      /\ \A n \in NodeId \ (W(k) \cup {root}) :
            Range(sg.upstream[n]) = {} /\ Range(sg.downstream[n]) = {}
  <2>1. IsSubgraph(t, root, W(k), edges, sg)
    BY SubgraphFacts
  <2> HIDE DEF W, edges, sg
  <2> QED
    BY <2>1 DEF IsSubgraph
<1>3. W(0) = {root} /\ \A j \in Nat : W(j) \in SUBSET NodeId
  BY WithinSteps DEF WellFormed
<1>4. \A j \in Nat : root \in W(j)
  BY TreeEdges
<1> HIDE DEF sg, edges
<1>5. ASSUME NEW j \in 1 .. k, NEW n \in W(j) \ W(j - 1)
      PROVE  \E p \in W(j - 1) : Parents(sg, n) = {p} /\ (j > 1 => p \notin W(j - 2))
  <2>1. j \in Nat /\ j - 1 \in Nat /\ j \in 0 .. k
    OBVIOUS
  <2>2. n # root /\ n \in W(k) \ {root} /\ n \in NodeId
    BY <1>1, <1>3, <1>4, <2>1
  <2>3. PICK p \in W(j - 1) :
           /\ j > 1 => p \notin W(j - 2)
           /\ n \in Callees(t, p)
           /\ \A m \in NodeId : <<m, n>> \in edges <=> m = p
    <3>1. HangsOnOne(t, root, edges, j)
      BY <1>1
    <3> QED
      BY <1>5, <3>1 DEF HangsOnOne
  <2>4. p \in NodeId
    BY <1>3, <2>1
  <2>5. Range(sg.upstream[n]) = {f \in Range(t.upstream[n]) : <<f.source_node, n>> \in edges}
    BY <1>2, <2>2
  <2>6. \A f \in Range(sg.upstream[n]) : f.source_node = p
    BY <2>2, <2>3, <2>5, FlowEnds
  <2>7. \E f \in Range(sg.upstream[n]) : f.source_node = p
    <3>1. PICK f \in Range(t.downstream[p]) : n = f.destination_node
      BY <2>3 DEF Callees
    <3>2. f.source_node = p /\ f \in Range(t.upstream[n])
      BY <2>4, <3>1, FlowEnds
    <3> QED
      BY <2>3, <2>4, <2>5, <3>2
  <2>8. Parents(sg, n) = {p}
    BY <2>6, <2>7 DEF Parents
  <2> QED
    BY <2>3, <2>8
<1>6. ASSUME NEW n \in NodeId, NEW f \in Range(sg.downstream[n])
      PROVE  f \in Range(sg.upstream[f.destination_node])
  <2>1. CASE n = root
    <3>1. f \in Range(t.downstream[root])
      BY <1>2, <2>1
    <3>2. /\ f.source_node = root /\ f.destination_node \in NodeId
          /\ f \in Range(t.upstream[f.destination_node])
      BY <3>1, FlowEnds
    <3>3. f.destination_node \in Callees(t, root)
      BY <3>1 DEF Callees
    <3>4. CASE f.destination_node = root
      BY <1>2, <3>2, <3>4
    <3>5. CASE f.destination_node # root
      <4>1. f.destination_node \in W(k) \ {root} /\ <<f.source_node, f.destination_node>> \in edges
        BY <1>1, <3>2, <3>3, <3>5
      <4> QED
        BY <1>2, <3>2, <4>1
    <3> QED
      BY <3>4, <3>5
  <2>2. CASE n # root
    <3>1. n \in W(k) \ {root}
      BY <1>2, <2>2
    <3>2. f \in Range(t.downstream[n]) /\ <<n, f.destination_node>> \in edges
      BY <1>2, <3>1
    <3>3. /\ f.source_node = n /\ f.destination_node \in NodeId
          /\ f \in Range(t.upstream[f.destination_node])
      BY <3>2, FlowEnds
    <3>4. f.destination_node \in W(k) \ {root}
      BY <1>1, <3>2, <3>3
    <3> QED
      BY <1>2, <3>2, <3>3, <3>4
  <2> QED
    BY <2>1, <2>2
<1>7. ASSUME NEW n \in NodeId \ {root}, NEW f \in Range(sg.upstream[n])
      PROVE  f \in Range(sg.downstream[f.source_node])
  <2>1. n \in W(k) \ {root}
    BY <1>2, <1>7
  <2>2. f \in Range(t.upstream[n]) /\ <<f.source_node, n>> \in edges
    BY <1>2, <2>1
  <2>3. /\ f.destination_node = n /\ f.source_node \in NodeId
        /\ f \in Range(t.downstream[f.source_node])
    BY <2>2, FlowEnds
  <2>4. f.source_node \in W(k)
    BY <1>1, <2>2, <2>3
  <2> QED
    BY <1>2, <2>2, <2>3, <2>4
<1>8. ShownAtBothEnds(root, sg)
  BY <1>6, <1>7 DEF ShownAtBothEnds
<1>9. NothingBeyond(t, root, k, sg)
  <2>1. \A n \in NodeId \ W(k) : Range(sg.upstream[n]) \cup Range(sg.downstream[n]) = {}
    BY <1>1, <1>2
  <2> QED
    BY <2>1 DEF NothingBeyond
<1>10. RootShowsAll(t, root, sg)
  BY <1>2, DependencyLines DEF RootShowsAll
<1> DEFINE level == [j \in 0 .. k |-> Within(t, root, j)]
<1>11. ASSUME NEW j \in 1 .. k, NEW n \in level[j] \ level[j - 1]
      PROVE  \E p \in level[j - 1] : /\ Parents(sg, n) = {p}
                                     /\ j > 1 => p \notin level[j - 2]
  <2>1. /\ level[j] = W(j) /\ level[j - 1] = W(j - 1)
        /\ j > 1 => level[j - 2] = W(j - 2)
    OBVIOUS
  <2> HIDE DEF level, W
  <2> QED
    BY <1>5, <1>11, <2>1
<1> HIDE DEF W, level
<1>12. HangsByLevel(t, root, k, sg)
  BY <1>11 DEF HangsByLevel, level
<1> QED
  BY <1>8, <1>9, <1>10, <1>12 DEF IsTree, sg

\* Both ends of every flow shown in a subgraph are among its known nodes.
LEMMA SubgraphClosed ==
    ASSUME NEW t \in Graph, WellFormed(t), NEW root \in NodeId, HasNode(t, root),
           NEW k \in Nat \ {0}, NEW n \in NodeId,
           NEW f \in Range(get_subgraph(t, root, k).upstream[n]) \cup
                     Range(get_subgraph(t, root, k).downstream[n])
    PROVE  /\ f \in Flow
           /\ \A m \in {f.source_node, f.destination_node} :
                 m \in get_subgraph(t, root, k).nodes /\ HasNode(t, m)
<1> DEFINE sg == get_subgraph(t, root, k)
           W == Within(t, root, k)
           edges == Bfs(t, root, k).edges
<1>1. /\ root \in W /\ W \in SUBSET NodeId
      /\ \A m, d \in NodeId : <<m, d>> \in edges => m \in W /\ d \in W
      /\ \A d \in Callees(t, root) : d \in W
  BY TreeEdges
<1>2. IsSubgraph(t, root, W, edges, sg)
  BY SubgraphFacts
<1> HIDE DEF sg, W, edges
<1>3. n = root \/ n \in W \ {root}
  BY <1>2 DEF IsSubgraph, sg
<1>4. \/ f \in Range(t.upstream[n]) /\ f \in Range(sg.upstream[n])
      \/ f \in Range(t.downstream[n]) /\ f \in Range(sg.downstream[n])
  BY <1>2, <1>3 DEF IsSubgraph, sg
<1>5. /\ f \in Flow
      /\ f.source_node \in NodeId /\ f.destination_node \in NodeId
      /\ HasNode(t, f.source_node) /\ HasNode(t, f.destination_node)
  BY <1>4, FlowEnds
<1>6. sg.nodes = W \cup Callers(t, root)
  BY <1>2 DEF IsSubgraph
<1>7. CASE f \in Range(t.upstream[n]) /\ f \in Range(sg.upstream[n])
  <2>1. f.destination_node = n /\ n \in W
    BY <1>1, <1>3, <1>7, FlowEnds
  <2>2. CASE n = root
    <3>1. f.source_node \in Callers(t, root)
      BY <1>7, <2>2, CallersFacts
    <3> QED
      BY <1>5, <1>6, <2>1, <3>1 DEF sg
  <2>3. CASE n # root
    <3>1. <<f.source_node, n>> \in edges
      BY <1>2, <1>3, <1>7, <2>3 DEF IsSubgraph
    <3>2. f.source_node \in W
      BY <1>1, <1>5, <3>1
    <3> QED
      BY <1>5, <1>6, <2>1, <3>2 DEF sg
  <2> QED
    BY <2>2, <2>3
<1>8. CASE f \in Range(t.downstream[n]) /\ f \in Range(sg.downstream[n])
  <2>1. f.source_node = n /\ n \in W
    BY <1>1, <1>3, <1>8, FlowEnds
  <2>2. CASE n = root
    <3>1. f.destination_node \in Callees(t, root)
      BY <1>8, <2>2 DEF Callees
    <3> QED
      BY <1>1, <1>5, <1>6, <2>1, <3>1 DEF sg
  <2>3. CASE n # root
    <3>1. <<n, f.destination_node>> \in edges
      BY <1>2, <1>3, <1>8, <2>3 DEF IsSubgraph
    <3>2. f.destination_node \in W
      BY <1>1, <1>5, <3>1
    <3> QED
      BY <1>5, <1>6, <2>1, <3>2 DEF sg
  <2> QED
    BY <2>2, <2>3
<1> QED
  BY <1>4, <1>7, <1>8

\* The subgraph as a value.
LEMMA SubgraphType ==
    ASSUME NEW t \in Graph, WellFormed(t), NEW root \in NodeId, NEW k \in Nat
    PROVE  /\ get_subgraph(t, root, k).nodes \in SUBSET NodeId
           /\ get_subgraph(t, root, k).upstream \in FlowMap
           /\ get_subgraph(t, root, k).downstream \in FlowMap
<1> DEFINE sg == get_subgraph(t, root, k)
<1>1. CASE HasNode(t, root)
  <2>1. IsSubgraph(t, root, Within(t, root, k), Bfs(t, root, k).edges, sg)
    BY <1>1, SubgraphFacts
  <2>2. Within(t, root, k) \in SUBSET NodeId
    BY WithinSteps DEF WellFormed
  <2>3. Callers(t, root) \in SUBSET NodeId
    BY DEF Callers
  <2> HIDE DEF sg
  <2>4. /\ sg.nodes \in SUBSET NodeId
        /\ sg.upstream \in FlowMap /\ sg.downstream \in FlowMap
    BY <2>1, <2>2, <2>3 DEF IsSubgraph
  <2> QED
    BY <2>4 DEF sg
<1>2. CASE ~ HasNode(t, root)
  <2>1. /\ sg.nodes = {} /\ sg.upstream = NoFlows /\ sg.downstream = NoFlows
    BY <1>2 DEF get_subgraph, SubgraphOf
  <2>2. NoFlows \in FlowMap
    BY DEF NoFlows, FlowMap
  <2> QED
    BY <2>1, <2>2
<1> QED
  BY <1>1, <1>2

=============================================================================
