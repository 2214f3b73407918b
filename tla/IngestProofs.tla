---------------------------- MODULE IngestProofs ----------------------------
(***************************************************************************)
(* Core's write path, for any number of events, tasks, handlers, pods,     *)
(* routes and restarts: types, the shape of the graph, the names of its    *)
(* sources, that no step loses an edge, and that the write path implements *)
(* the abstract service graph.                                             *)
(***************************************************************************)
EXTENDS Ingest, TopologyProofs, FiniteSetTheorems

-----------------------------------------------------------------------------
(* The values the steps compute                                            *)

\* The three forms of destination fallback all yield a node id.
LEMMA ParseType ==
    ASSUME NEW host \in Hosts
    PROVE  parse_k8s_host(host) \in NodeId
<1>1. host \in HostType
  BY IngestAssumption
<1>2. /\ host.name \in Names \cup Ips
      /\ host.form \in {"ip", "label", "domain", "svc"}
      /\ host.form = "svc" => host.ns \in Namespaces
  BY <1>1 DEF HostType
<1> QED
  BY <1>2, TopologyAssumption, IngestAssumption DEF parse_k8s_host, NodeId

\* What a fresh task holds.
LEMMA UnsetType == Unset \in NodeId /\ Empty \in Names
  BY TopologyAssumption, IngestAssumption DEF Unset, NodeId

\* A running task holds an event.
LEMMA TaskType ==
    ASSUME TypeOK, NEW t \in Tasks, task[t] # Idle
    PROVE  /\ task[t] \in TaskState
           /\ task[t].input \in Inputs
           /\ task[t].input \in Input
           /\ task[t].input.src \in Ips /\ task[t].input.dst \in Ips
           /\ StripPort(task[t].input.host) \in Hosts
           /\ EdgeKey(task[t]) \in Edge
           /\ FlowOf(task[t]) \in Flow
<1>1. task[t] \in TaskState
  BY DEF TypeOK
<1>2. task[t].input \in Inputs /\ task[t].input \in Input
  BY <1>1, IngestAssumption DEF TaskState
<1>3. /\ task[t].src \in NodeId /\ task[t].dst \in NodeId
      /\ task[t].src_service \in Names
      /\ task[t].dst_service \in Names \cup Ips
  BY <1>1 DEF TaskState
<1>4. EdgeKey(task[t]) \in Edge
  BY <1>3 DEF EdgeKey, Edge, NodeId
<1>5. task[t].input.path \in Paths /\ task[t].input.method \in Methods
  BY <1>2 DEF Input
<1>6. FlowOf(task[t]) \in Flow
  BY <1>3, <1>5 DEF FlowOf, Flow
<1> QED
  BY <1>1, <1>2, <1>4, <1>6 DEF Input, StripPort

\* What the entries of the two caches are when they are not missing.
LEMMA CacheTypes ==
    ASSUME TypeOK
    PROVE  /\ \A ip \in Ips : podCache[ip] # None =>
                 /\ podCache[ip].ns \in Namespaces
                 /\ podCache[ip].app \in Names
                 /\ podCache[ip].svc \in Names
           /\ \A h \in Hosts : envoyCache[h] # None => envoyCache[h] \in NodeId
  BY DEF TypeOK, PodInfo

-----------------------------------------------------------------------------
(* Steps that change only the task's locals                                *)

LEMMA StepType ==
    ASSUME TypeOK, NEW t \in Tasks, NEW e \in TaskState \cup {Idle}, Step(t, e)
    PROVE  /\ TypeOK'
           /\ topology' = topology
           /\ \A u \in Tasks : task'[u] = IF u = t THEN e ELSE task[u]
  BY DEF TypeOK, Step

\* The lookup of the caller.
LEMMA ResolveSourceType ==
    ASSUME TypeOK, NEW t \in Tasks, ResolveSource(t)
    PROVE  \E e \in TaskState : /\ Step(t, e)
                                /\ Named(e.src)
<1> DEFINE p == podCache[task[t].input.src]
           e == [task[t] EXCEPT !.pc = "envoy",
                                !.src = [app |-> p.app, ns |-> p.ns],
                                !.src_service = p.svc]
<1>1. task[t] # Idle /\ HasApp(p) /\ Step(t, e)
  BY DEF ResolveSource, At
<1>2. task[t] \in TaskState /\ task[t].input.src \in Ips
  BY <1>1, TaskType
<1>3. p.ns \in Namespaces /\ p.app \in Names /\ p.svc \in Names /\ p.app # Empty
  BY <1>1, <1>2, CacheTypes DEF HasApp
<1> HIDE DEF p
<1>4. [app |-> p.app, ns |-> p.ns] \in NodeId
  BY <1>3 DEF NodeId
<1>5. e \in TaskState /\ e.src.app = p.app
  BY <1>2, <1>3, <1>4 DEF TaskState
<1> QED
  BY <1>1, <1>3, <1>5, IngestAssumption DEF Named

\* The lookups of the destination.
LEMMA LookupType ==
    ASSUME TypeOK, NEW t \in Tasks,
           LookupEnvoy(t) \/ LookupPod(t) \/ LookupService(t)
    PROVE  \E e \in TaskState : /\ Step(t, e)
                                /\ task[t] # Idle /\ ~ At(t, "source")
                                /\ e.src = task[t].src
<1>1. task[t] # Idle /\ task[t].pc \in {"envoy", "pod", "service"}
  BY DEF LookupEnvoy, LookupPod, LookupService, At
<1>2. /\ task[t] \in TaskState /\ ~ At(t, "source")
      /\ task[t].input.dst \in Ips
      /\ StripPort(task[t].input.host) \in Hosts
  BY <1>1, TaskType DEF At
<1>3. CASE LookupEnvoy(t)
  <2> DEFINE route == envoyCache[StripPort(task[t].input.host)]
             hit == [task[t] EXCEPT !.pc = "service", !.dst = route]
             miss == [task[t] EXCEPT !.pc = "pod"]
  <2>1. Step(t, IF route # None THEN hit ELSE miss)
    BY <1>3 DEF LookupEnvoy
  <2>2. route # None => route \in NodeId
    BY <1>2, CacheTypes
  <2> HIDE DEF route
  <2>3. CASE route # None
    <3>1. hit \in TaskState /\ hit.src = task[t].src
      BY <1>2, <2>2, <2>3 DEF TaskState
    <3> QED
      BY <1>1, <1>2, <2>1, <2>3, <3>1
  <2>4. CASE route = None
    <3>1. miss \in TaskState /\ miss.src = task[t].src
      BY <1>2 DEF TaskState
    <3> QED
      BY <1>1, <1>2, <2>1, <2>4, <3>1
  <2> QED
    BY <2>3, <2>4
<1>4. CASE LookupPod(t)
  <2> DEFINE info == podCache[task[t].input.dst]
             dst == IF HasApp(info) THEN [app |-> info.app, ns |-> info.ns]
                    ELSE parse_k8s_host(StripPort(task[t].input.host))
             e == [task[t] EXCEPT !.pc = "service", !.dst = dst]
  <2>1. Step(t, e)
    BY <1>4 DEF LookupPod
  <2>2. HasApp(info) => info.app \in Names /\ info.ns \in Namespaces
    BY <1>2, CacheTypes DEF HasApp
  <2>3. parse_k8s_host(StripPort(task[t].input.host)) \in NodeId
    BY <1>2, ParseType
  <2>4. dst \in NodeId
    BY <2>2, <2>3 DEF NodeId
  <2> HIDE DEF dst
  <2>5. e \in TaskState /\ e.src = task[t].src
    BY <1>2, <2>4 DEF TaskState
  <2> QED
    BY <1>1, <1>2, <2>1, <2>5
<1>5. CASE LookupService(t)
  <2> DEFINE info == podCache[task[t].input.dst]
             svc == IF HasService(info) THEN info.svc ELSE task[t].dst.app
             e == [task[t] EXCEPT !.pc = "seen", !.dst_service = svc]
  <2>1. Step(t, e)
    BY <1>5 DEF LookupService
  <2>2. HasService(info) => info.svc \in Names
    BY <1>2, CacheTypes DEF HasService
  <2>3. task[t].dst.app \in Names \cup Ips
    BY <1>2 DEF TaskState, NodeId
  <2>4. svc \in Names \cup Ips
    BY <2>2, <2>3
  <2> HIDE DEF svc
  <2>5. e \in TaskState /\ e.src = task[t].src
    BY <1>2, <2>4 DEF TaskState
  <2> QED
    BY <1>1, <1>2, <2>1, <2>5
<1> QED
  BY <1>3, <1>4, <1>5

-----------------------------------------------------------------------------
(* What a gRPC handler works on                                            *)

LEMMA InsertPodsType ==
    ASSUME NEW pods \in Seq(PodUpdate)
    PROVE  InsertPods(pods) \in HandlerState \cup {Idle}
<1>1. CASE pods = << >>
  BY <1>1 DEF InsertPods
<1>2. CASE pods # << >>
  <2> DEFINE s == [pc |-> "insert", pods |-> pods, routes |-> << >>]
  <2>1. s \in HandlerState
    BY <1>2 DEF HandlerState
  <2> QED
    BY <1>2, <2>1 DEF InsertPods
<1> QED
  BY <1>1, <1>2

\* The types after a route request begins.
LEMMA InsertRoutesType ==
    ASSUME NEW routes \in Seq(Route)
    PROVE  InsertRoutes(routes) \in HandlerState \cup {Idle}
<1>1. CASE routes = << >>
  BY <1>1 DEF InsertRoutes
<1>2. CASE routes # << >>
  <2> DEFINE s == [pc |-> "route", pods |-> << >>, routes |-> routes]
  <2>1. s \in HandlerState
    BY <1>2 DEF HandlerState
  <2> QED
    BY <1>2, <2>1 DEF InsertRoutes
<1> QED
  BY <1>1, <1>2

\* A handler in one of its loops has an entry to work on, of the right type.
LEMMA HandlerType ==
    ASSUME TypeOK, NEW h \in Handlers, handler[h] # Idle
    PROVE  /\ handler[h] \in HandlerState
           /\ handler[h].pc \in {"insert", "resolve"} =>
                 /\ Head(handler[h].pods)[1] \in Ips
                 /\ Head(handler[h].pods)[2] \in PodInfo
                 /\ Tail(handler[h].pods) \in Seq(PodUpdate)
           /\ handler[h].pc = "route" =>
                 /\ Head(handler[h].routes)[1] \in Hosts
                 /\ Head(handler[h].routes)[2] \in NodeId
                 /\ Tail(handler[h].routes) \in Seq(Route)
<1>1. handler[h] \in HandlerState
  BY DEF TypeOK
<1>2. /\ handler[h].pods \in Seq(PodUpdate)
      /\ handler[h].routes \in Seq(Route)
      /\ handler[h].pc \in {"insert", "resolve"} => handler[h].pods # << >>
      /\ handler[h].pc = "route" => handler[h].routes # << >>
  BY <1>1 DEF HandlerState
<1>3. ASSUME handler[h].pc \in {"insert", "resolve"}
      PROVE  /\ Head(handler[h].pods) \in PodUpdate
             /\ Tail(handler[h].pods) \in Seq(PodUpdate)
  BY <1>2, <1>3
<1>4. ASSUME handler[h].pc = "route"
      PROVE  /\ Head(handler[h].routes) \in Route
             /\ Tail(handler[h].routes) \in Seq(Route)
  BY <1>2, <1>4
<1> QED
  BY <1>1, <1>3, <1>4 DEF PodUpdate, Route

\* The types after a request begins.
LEMMA AcceptType ==
    ASSUME TypeOK, NEW h \in Handlers,
           SendPodApplied(h) \/ SendServicePodMap(h) \/ SendEnvoyRoutes(h)
    PROVE  TypeOK' /\ UNCHANGED <<topology, task>>
<1>1. \E work \in HandlerState \cup {Idle} : Accept(h, work)
  <2>1. CASE SendPodApplied(h)
    <3>1. PICK u \in PodUpdates : Accept(h, InsertPods(<<u>>))
      BY <2>1 DEF SendPodApplied
    <3>2. <<u>> \in Seq(PodUpdate)
      BY IngestAssumption
    <3> QED
      BY <3>1, <3>2, InsertPodsType
  <2>2. CASE SendServicePodMap(h)
    BY <2>2, InsertPodsType, IngestAssumption DEF SendServicePodMap
  <2>3. CASE SendEnvoyRoutes(h)
    BY <2>3, InsertRoutesType, IngestAssumption DEF SendEnvoyRoutes
  <2> QED
    BY <2>1, <2>2, <2>3
<1> QED
  BY <1>1 DEF Accept, TypeOK

-----------------------------------------------------------------------------
(* The inductive invariant: types and the shape of the graph.  The shape   *)
(* alone is not inductive, because what the next step writes depends on    *)
(* the types of the locals of tasks and handlers.                          *)

IInv == TypeOK /\ GraphConsistent

\* The first state satisfies the invariant.
LEMMA InitIInv == Init => IInv
<1> SUFFICES ASSUME Init PROVE IInv
  OBVIOUS
<1>1. topology \in Graph /\ GraphConsistent
  BY NewTopologyWellFormed DEF Init, GraphConsistent
<1>2. TypeOK
  BY <1>1, IngestAssumption DEF Init, TypeOK
<1> QED
  BY <1>1, <1>2 DEF IInv

\* What the lock section of a task does.
LEMMA UpdateTopologyFacts ==
    ASSUME IInv, NEW t \in Tasks, UpdateTopology(t)
    PROVE  /\ IInv'
           /\ \A n \in NodeId :
                 /\ Range(topology.downstream[n]) \subseteq Range(topology'.downstream[n])
                 /\ Range(topology'.downstream[n]) \subseteq
                       Range(topology.downstream[n]) \cup {FlowOf(task[t])}
<1>1. /\ task[t] # Idle
      /\ topology' = RecordCall(topology, FlowOf(task[t]),
                                task[t].input.src, task[t].input.dst)
  BY DEF UpdateTopology, At
<1>2. TypeOK /\ topology \in Graph /\ WellFormed(topology)
  BY DEF IInv, TypeOK, GraphConsistent
<1>3. /\ FlowOf(task[t]) \in Flow
      /\ task[t].input.src \in Ips /\ task[t].input.dst \in Ips
  BY <1>1, <1>2, TaskType
<1> DEFINE f == FlowOf(task[t])
           src_ip == task[t].input.src
           dst_ip == task[t].input.dst
           u == RecordCall(topology, f, src_ip, dst_ip)
<1>4. f \in Flow /\ src_ip \in Ips /\ dst_ip \in Ips /\ topology' = u
  BY <1>1, <1>3
<1> HIDE DEF f, src_ip, dst_ip
<1>5. /\ u \in Graph
      /\ WellFormed(u)
      /\ \A n \in NodeId :
            /\ Range(topology.downstream[n]) \subseteq Range(u.downstream[n])
            /\ Range(u.downstream[n]) \subseteq Range(topology.downstream[n]) \cup {f}
  BY <1>2, <1>4, RecordCallFacts
<1> HIDE DEF u
<1>6. TypeOK'
  BY <1>2, <1>4, <1>5 DEF UpdateTopology, TypeOK
<1> QED
  BY <1>4, <1>5, <1>6 DEF IInv, GraphConsistent, f

\* ResolveNode heals exactly the stale node of one address.
LEMMA ResolveNodeFacts ==
    ASSUME IInv, NEW h \in Handlers, ResolveNode(h)
    PROVE  /\ IInv'
           /\ UNCHANGED <<task, restarts>>
           /\ \E ip \in Ips, n \in NodeId :
                 topology' = resolve_unknown_node(topology, ip, n)
<1> DEFINE ip == Head(handler[h].pods)[1]
           info == Head(handler[h].pods)[2]
           n == [app |-> info.app, ns |-> info.ns]
<1>1. /\ handler[h] # Idle /\ handler[h].pc = "resolve"
      /\ topology' = resolve_unknown_node(topology, ip, n)
      /\ handler' = [handler EXCEPT ![h] = InsertPods(Tail(handler[h].pods))]
      /\ UNCHANGED <<podCache, envoyCache, seenEdges, task, events, restarts>>
  BY DEF ResolveNode, HandlerAt
<1>2. TypeOK /\ topology \in Graph /\ WellFormed(topology)
  BY DEF IInv, TypeOK, GraphConsistent
<1>3. /\ ip \in Ips /\ info \in PodInfo
      /\ Tail(handler[h].pods) \in Seq(PodUpdate)
  BY <1>1, <1>2, HandlerType
<1> HIDE DEF ip, info
<1>4. n \in NodeId
  BY <1>3 DEF PodInfo, NodeId
<1> HIDE DEF n
<1>5. topology' \in Graph /\ WellFormed(topology')
  BY <1>1, <1>2, <1>3, <1>4, ResolveWellFormed
<1>6. InsertPods(Tail(handler[h].pods)) \in HandlerState \cup {Idle}
  BY <1>3, InsertPodsType
<1>7. TypeOK'
  BY <1>1, <1>2, <1>5, <1>6 DEF TypeOK
<1> QED
  BY <1>1, <1>3, <1>4, <1>5, <1>7 DEF IInv, GraphConsistent

\* The types after a mapping becomes visible.
LEMMA PodCacheInsertType ==
    ASSUME TypeOK, NEW h \in Handlers, PodCacheInsert(h)
    PROVE  TypeOK' /\ UNCHANGED <<topology, task>>
<1> DEFINE pods == handler[h].pods
           ip == Head(pods)[1]
           info == Head(pods)[2]
           next == IF info.app # Empty THEN [handler[h] EXCEPT !.pc = "resolve"]
                   ELSE InsertPods(Tail(pods))
<1>1. /\ handler[h] # Idle /\ handler[h].pc = "insert"
      /\ podCache' = [podCache EXCEPT ![ip] = info]
      /\ handler' = [handler EXCEPT ![h] = next]
      /\ UNCHANGED <<envoyCache, seenEdges, topology, task, events, restarts>>
  BY DEF PodCacheInsert, HandlerAt
<1>2. /\ ip \in Ips /\ info \in PodInfo
      /\ Tail(pods) \in Seq(PodUpdate)
      /\ handler[h] \in HandlerState
  BY <1>1, HandlerType
<1>3. InsertPods(Tail(pods)) \in HandlerState \cup {Idle}
  BY <1>2, InsertPodsType
<1>4. [handler[h] EXCEPT !.pc = "resolve"] \in HandlerState
  BY <1>1, <1>2 DEF HandlerState
<1>5. next \in HandlerState \cup {Idle}
  BY <1>3, <1>4
<1> HIDE DEF next, ip, info
<1> QED
  BY <1>1, <1>2, <1>5 DEF TypeOK

\* The types after a route is inserted.
LEMMA EnvoyInsertType ==
    ASSUME TypeOK, NEW h \in Handlers, EnvoyInsert(h)
    PROVE  TypeOK' /\ UNCHANGED <<topology, task>>
<1> DEFINE host == Head(handler[h].routes)[1]
           service == Head(handler[h].routes)[2]
           next == InsertRoutes(Tail(handler[h].routes))
<1>1. /\ handler[h] # Idle /\ handler[h].pc = "route"
      /\ envoyCache' = [envoyCache EXCEPT ![host] = service]
      /\ handler' = [handler EXCEPT ![h] = next]
      /\ UNCHANGED <<podCache, seenEdges, topology, task, events, restarts>>
  BY DEF EnvoyInsert, HandlerAt
<1>2. /\ host \in Hosts /\ service \in NodeId
      /\ Tail(handler[h].routes) \in Seq(Route)
  BY <1>1, HandlerType
<1>3. next \in HandlerState \cup {Idle}
  BY <1>2, InsertRoutesType
<1> HIDE DEF next, host, service
<1> QED
  BY <1>1, <1>2, <1>3 DEF TypeOK

\* A new task starts at its first instruction; nothing else changes.
LEMMA SendEbpfNetworkEventType ==
    ASSUME TypeOK, NEW t \in Tasks, SendEbpfNetworkEvent(t)
    PROVE  /\ TypeOK'
           /\ UNCHANGED <<topology, restarts>>
           /\ \A u \in Tasks : u # t => task'[u] = task[u]
           /\ task'[t] # Idle => task'[t].pc = "source"
<1>1. PICK input \in Inputs :
         task' = [task EXCEPT ![t] =
                    [pc |-> "source", input |-> input,
                     src |-> Unset, src_service |-> Empty,
                     dst |-> Unset, dst_service |-> Empty]]
  BY DEF SendEbpfNetworkEvent
<1> DEFINE e == [pc |-> "source", input |-> input,
                 src |-> Unset, src_service |-> Empty,
                 dst |-> Unset, dst_service |-> Empty]
<1>2. e \in TaskState /\ e.pc = "source"
  BY UnsetType DEF TaskState
<1>3. /\ events' = events + 1 /\ events < MaxEvents
      /\ UNCHANGED <<podCache, envoyCache, seenEdges, topology, handler, restarts>>
  BY DEF SendEbpfNetworkEvent
<1>4. task' = [task EXCEPT ![t] = e]
  BY <1>1
<1> HIDE DEF e
<1>5. task' \in [Tasks -> TaskState \cup {Idle}] /\ task'[t] = e
  BY <1>2, <1>4 DEF TypeOK
<1>6. events' \in 0 .. MaxEvents
  BY <1>3, IngestAssumption DEF TypeOK
<1>7. TypeOK'
  BY <1>3, <1>5, <1>6 DEF TypeOK
<1> QED
  BY <1>2, <1>3, <1>4, <1>5, <1>7 DEF TypeOK

\* seen.insert keeps the task's locals.
LEMMA RecordEdgeType ==
    ASSUME TypeOK, NEW t \in Tasks, RecordEdge(t)
    PROVE  /\ TypeOK'
           /\ UNCHANGED <<topology, restarts>>
           /\ task[t] # Idle /\ ~ At(t, "source")
           /\ \A u \in Tasks : u # t => task'[u] = task[u]
           /\ task'[t].src = task[t].src
<1> DEFINE e == [task[t] EXCEPT !.pc = "graph"]
<1>1. /\ task[t] # Idle /\ task[t].pc = "seen"
      /\ seenEdges' = seenEdges \cup {EdgeKey(task[t])}
      /\ task' = [task EXCEPT ![t] = e]
      /\ UNCHANGED <<podCache, envoyCache, topology, handler, events, restarts>>
  BY DEF RecordEdge, At
<1>2. task[t] \in TaskState /\ EdgeKey(task[t]) \in Edge
  BY <1>1, TaskType
<1>3. e \in TaskState /\ e.src = task[t].src
  BY <1>2 DEF TaskState
<1> HIDE DEF e
<1>4. TypeOK'
  BY <1>1, <1>2, <1>3 DEF TypeOK
<1> QED
  BY <1>1, <1>3, <1>4 DEF At, TypeOK

\* The steps that end a task without touching the graph.
LEMMA DropType ==
    ASSUME TypeOK, NEW t \in Tasks,
           SkipHealthCheck(t) \/ DropUnresolved(t) \/ AlreadySeen(t)
    PROVE  Step(t, Idle)
  BY DEF SkipHealthCheck, DropUnresolved, AlreadySeen

\* A restart is a first state.
LEMMA RestartInit == ASSUME IInv, Restart PROVE IInv'
<1>1. topology' \in Graph /\ WellFormed(topology')
  BY NewTopologyWellFormed DEF Restart
<1>2. restarts' \in 0 .. MaxRestarts
  BY IngestAssumption DEF Restart, IInv, TypeOK
<1>3. TypeOK'
  BY <1>1, <1>2 DEF Restart, IInv, TypeOK
<1> QED
  BY <1>1, <1>3 DEF IInv, GraphConsistent

\* What a step does to the graph: nothing, one of the two lock sections, or
\* it starts a new process.
LEMMA StepEffect ==
    ASSUME IInv, [Next]_vars
    PROVE  /\ IInv'
           /\ \/ UNCHANGED <<topology, restarts>>
              \/ \E t \in Tasks : UpdateTopology(t)
              \/ \E h \in Handlers : ResolveNode(h)
              \/ Restart
<1> USE DEF IInv
<1>0. ASSUME TypeOK', UNCHANGED topology PROVE IInv'
  BY <1>0 DEF GraphConsistent, WellFormed, KeyedByEndpoint, Mirrored,
              EndpointsKnown, InUpstream, InDownstream, HasNode
<1>1. CASE UNCHANGED vars
  BY <1>0, <1>1 DEF vars, TypeOK
<1>2. ASSUME NEW t \in Tasks, SendEbpfNetworkEvent(t)
      PROVE  IInv' /\ UNCHANGED <<topology, restarts>>
  BY <1>0, <1>2, SendEbpfNetworkEventType
<1>3. ASSUME NEW t \in Tasks, NEW e \in TaskState \cup {Idle}, Step(t, e)
      PROVE  IInv' /\ UNCHANGED <<topology, restarts>>
  <2>1. TypeOK' /\ UNCHANGED <<topology, restarts>>
    BY <1>3, StepType DEF Step
  <2> QED
    BY <1>0, <2>1
<1>4. ASSUME NEW t \in Tasks,
             SkipHealthCheck(t) \/ DropUnresolved(t) \/ AlreadySeen(t)
      PROVE  IInv' /\ UNCHANGED <<topology, restarts>>
  BY <1>3, <1>4, DropType
<1>5. ASSUME NEW t \in Tasks, ResolveSource(t)
      PROVE  IInv' /\ UNCHANGED <<topology, restarts>>
  BY <1>3, <1>5, ResolveSourceType
<1>6. ASSUME NEW t \in Tasks, LookupEnvoy(t) \/ LookupPod(t) \/ LookupService(t)
      PROVE  IInv' /\ UNCHANGED <<topology, restarts>>
  BY <1>3, <1>6, LookupType
<1>7. ASSUME NEW t \in Tasks, RecordEdge(t)
      PROVE  IInv' /\ UNCHANGED <<topology, restarts>>
  BY <1>0, <1>7, RecordEdgeType
<1>8. ASSUME NEW t \in Tasks, UpdateTopology(t) PROVE IInv'
  BY <1>8, UpdateTopologyFacts
<1>9. ASSUME NEW h \in Handlers,
             SendPodApplied(h) \/ SendServicePodMap(h) \/ SendEnvoyRoutes(h)
      PROVE  IInv' /\ UNCHANGED <<topology, restarts>>
  <2>1. UNCHANGED restarts
    BY <1>9 DEF SendPodApplied, SendServicePodMap, SendEnvoyRoutes, Accept
  <2> QED
    BY <1>0, <1>9, <2>1, AcceptType
<1>10. ASSUME NEW h \in Handlers, PodCacheInsert(h)
       PROVE  IInv' /\ UNCHANGED <<topology, restarts>>
  <2>1. UNCHANGED restarts
    BY <1>10 DEF PodCacheInsert
  <2> QED
    BY <1>0, <1>10, <2>1, PodCacheInsertType
<1>11. ASSUME NEW h \in Handlers, ResolveNode(h) PROVE IInv'
  BY <1>11, ResolveNodeFacts
<1>12. ASSUME NEW h \in Handlers, EnvoyInsert(h)
       PROVE  IInv' /\ UNCHANGED <<topology, restarts>>
  <2>1. UNCHANGED restarts
    BY <1>12 DEF EnvoyInsert
  <2> QED
    BY <1>0, <1>12, <2>1, EnvoyInsertType
<1>13. ASSUME SendPodDeleted PROVE IInv' /\ UNCHANGED <<topology, restarts>>
  <2>1. TypeOK' /\ UNCHANGED <<topology, restarts>>
    BY <1>13 DEF SendPodDeleted, TypeOK
  <2> QED
    BY <1>0, <2>1
<1>14. ASSUME Restart PROVE IInv'
  BY <1>14, RestartInit
<1>15. CASE Next
  BY <1>15, <1>2, <1>4, <1>5, <1>6, <1>7, <1>8, <1>9, <1>10, <1>11, <1>12,
     <1>13, <1>14 DEF Next, TaskStep, HandlerStep
<1> QED
  BY <1>1, <1>15 DEF vars

\* Core never applies a value of the wrong kind: in particular a handler that
\* loops over a request always has an entry to work on (the type invariant of
\* record_ebpf_event, record_pod_applied and the gRPC handlers).
THEOREM TypeCorrect == Spec => []TypeOK
<1>1. IInv /\ [Next]_vars => IInv'
  BY StepEffect
<1>2. IInv => TypeOK
  BY DEF IInv
<1> QED
  BY InitIInv, <1>1, <1>2, PTL DEF Spec

\* The graph is well formed in every reachable state, however event tasks and
\* pod-map handlers interleave: resolve_unknown_node and record_ebpf_event
\* keep upstream, downstream and nodes consistent with one another.
THEOREM GraphAlwaysConsistent == Spec => []GraphConsistent
<1>1. IInv /\ [Next]_vars => IInv'
  BY StepEffect
<1>2. IInv => GraphConsistent
  BY DEF IInv
<1> QED
  BY InitIInv, <1>1, <1>2, PTL DEF Spec

-----------------------------------------------------------------------------
(* No caller is a raw address                                              *)

LEMMA DownstreamFlows ==
    ASSUME IInv, NEW n \in NodeId, NEW f \in Range(topology.downstream[n])
    PROVE  /\ f \in Flow
           /\ f.source_node = n
           /\ InDownstream(topology, f)
<1>1. topology.downstream \in FlowMap
  BY DEF IInv, TypeOK, Graph
<1>2. f \in Flow
  BY <1>1, RangeOfSeq DEF FlowMap
<1>3. f.source_node = n
  BY DEF IInv, GraphConsistent, WellFormed, KeyedByEndpoint
<1> QED
  BY <1>2, <1>3 DEF InDownstream, Contains

\* A flow of a healed graph is a flow of the graph, renamed at both ends.
LEMMA ResolvedFlows ==
    ASSUME NEW t \in Graph, NEW ip \in Ips, NEW r \in NodeId,
           HasNode(t, StaleId(ip)), NEW n \in NodeId,
           NEW g \in Range(resolve_unknown_node(t, ip, r).downstream[n])
    PROVE  \E m \in NodeId : \E f \in Range(t.downstream[m]) :
              g.source_node = Renamed(f.source_node, StaleId(ip), r)
<1> DEFINE stale == StaleId(ip)
           down == t.downstream
<1>1. resolve_unknown_node(t, ip, r).downstream = Heal(down, stale, r)
  BY DEF resolve_unknown_node
<1>2. stale \in NodeId /\ down \in FlowMap
  BY StaleIdType DEF Graph
<1>3. g \in Range(Heal(down, stale, r)[n])
  BY <1>1
<1> HIDE DEF stale, down
<1>4. PICK m \in NodeId : \E f \in Range(down[m]) :
         f \in Flow /\ g = Rewired(f, stale, r)
  BY <1>2, <1>3, HealedFlow
<1>5. PICK f \in Range(down[m]) : f \in Flow /\ g = Rewired(f, stale, r)
  BY <1>4
<1>6. g.source_node = Renamed(f.source_node, stale, r)
  BY <1>2, <1>5, RewiredFacts
<1> QED
  BY <1>6 DEF stale, down

NamedFlows == \A n \in NodeId : \A f \in Range(topology.downstream[n]) :
                 Named(f.source_node)

NamedTasks == \A t \in Tasks :
                 (task[t] # Idle /\ ~ At(t, "source")) => Named(task[t].src)

\* One task moves on and its caller, once known, stays named.
LEMMA NamedTasksStep ==
    ASSUME NamedTasks, NEW t \in Tasks,
           \A u \in Tasks : u # t => task'[u] = task[u],
           \/ task'[t] = Idle
           \/ task'[t].pc = "source"
           \/ Named(task'[t].src)
    PROVE  NamedTasks'
  BY DEF NamedTasks, At, Named

\* Every step keeps callers named.
LEMMA NamedSourcesStep == ASSUME IInv, NamedSources, [Next]_vars PROVE NamedSources'
<1>1. /\ NamedFlows /\ NamedTasks /\ TypeOK
      /\ NamedSources' <=> NamedFlows' /\ NamedTasks'
  BY DEF NamedSources, NamedFlows, NamedTasks, IInv
<1>2. ASSUME UNCHANGED topology PROVE NamedFlows'
  BY <1>1, <1>2 DEF NamedFlows
<1>3. ASSUME UNCHANGED task PROVE NamedTasks'
  BY <1>1, <1>3 DEF NamedTasks, At
<1>4. CASE UNCHANGED vars
  BY <1>1, <1>2, <1>3, <1>4 DEF vars
<1>5. ASSUME NEW t \in Tasks, SendEbpfNetworkEvent(t) PROVE NamedSources'
  <2>1. /\ UNCHANGED topology
        /\ \A u \in Tasks : u # t => task'[u] = task[u]
        /\ task'[t] # Idle => task'[t].pc = "source"
    BY <1>1, <1>5, SendEbpfNetworkEventType
  <2> QED
    BY <1>1, <1>2, <2>1, NamedTasksStep
<1>6. ASSUME NEW t \in Tasks, NEW e \in TaskState \cup {Idle}, Step(t, e),
             e = Idle \/ Named(e.src)
      PROVE  NamedSources'
  <2>1. /\ UNCHANGED topology
        /\ \A u \in Tasks : u # t => task'[u] = task[u]
        /\ task'[t] = e
    BY <1>1, <1>6, StepType
  <2> QED
    BY <1>1, <1>2, <1>6, <2>1, NamedTasksStep
<1>7. ASSUME NEW t \in Tasks,
             SkipHealthCheck(t) \/ DropUnresolved(t) \/ AlreadySeen(t)
      PROVE  NamedSources'
  BY <1>1, <1>6, <1>7, DropType
<1>8. ASSUME NEW t \in Tasks, ResolveSource(t) PROVE NamedSources'
  BY <1>1, <1>6, <1>8, ResolveSourceType
<1>9. ASSUME NEW t \in Tasks, LookupEnvoy(t) \/ LookupPod(t) \/ LookupService(t)
      PROVE  NamedSources'
  <2>1. PICK e \in TaskState : /\ Step(t, e)
                               /\ task[t] # Idle /\ ~ At(t, "source")
                               /\ e.src = task[t].src
    BY <1>1, <1>9, LookupType
  <2>2. Named(e.src)
    BY <1>1, <2>1 DEF NamedTasks
  <2> QED
    BY <1>6, <2>1, <2>2
<1>10. ASSUME NEW t \in Tasks, RecordEdge(t) PROVE NamedSources'
  <2>1. /\ UNCHANGED topology
        /\ task[t] # Idle /\ ~ At(t, "source")
        /\ \A u \in Tasks : u # t => task'[u] = task[u]
        /\ task'[t].src = task[t].src
    BY <1>1, <1>10, RecordEdgeType
  <2>2. Named(task'[t].src)
    BY <1>1, <2>1 DEF NamedTasks
  <2> QED
    BY <1>1, <1>2, <2>1, <2>2, NamedTasksStep
<1>11. ASSUME NEW t \in Tasks, UpdateTopology(t) PROVE NamedSources'
  <2>1. /\ task[t] # Idle /\ ~ At(t, "source")
        /\ task' = [task EXCEPT ![t] = Idle]
    BY <1>11 DEF UpdateTopology, At
  <2>2. Named(FlowOf(task[t]).source_node)
    BY <1>1, <2>1 DEF NamedTasks, FlowOf
  <2>3. NamedFlows'
    BY <1>1, <1>11, <2>2, UpdateTopologyFacts DEF NamedFlows
  <2>4. NamedTasks'
    BY <1>1, <2>1, NamedTasksStep DEF TypeOK
  <2> QED
    BY <1>1, <2>3, <2>4
<1>12. ASSUME NEW h \in Handlers, ResolveNode(h) PROVE NamedSources'
  <2>1. UNCHANGED task /\ IInv'
    BY <1>12, ResolveNodeFacts
  <2>2. PICK ip \in Ips, r \in NodeId :
           topology' = resolve_unknown_node(topology, ip, r)
    BY <1>12, ResolveNodeFacts
  <2>3. CASE ~ HasNode(topology, StaleId(ip))
    <3>1. UNCHANGED topology
      BY <2>2, <2>3 DEF resolve_unknown_node
    <3> QED
      BY <1>1, <1>2, <1>3, <2>1, <3>1
  <2>4. CASE HasNode(topology, StaleId(ip))
    <3>1. ASSUME NEW n \in NodeId, NEW g \in Range(topology'.downstream[n])
          PROVE  Named(g.source_node)
      <4>1. PICK m \in NodeId : \E f \in Range(topology.downstream[m]) :
               g.source_node = Renamed(f.source_node, StaleId(ip), r)
        BY <1>1, <2>2, <2>4, <3>1, ResolvedFlows DEF TypeOK
      <4>2. PICK f \in Range(topology.downstream[m]) :
               g.source_node = Renamed(f.source_node, StaleId(ip), r)
        BY <4>1
      <4>3. Named(f.source_node)
        BY <1>1 DEF NamedFlows
      <4>4. f.source_node # StaleId(ip)
        BY <4>3 DEF Named, StaleId
      <4> QED
        BY <4>2, <4>3, <4>4 DEF Renamed
    <3> QED
      BY <1>1, <1>3, <2>1, <3>1 DEF NamedFlows
  <2> QED
    BY <2>3, <2>4
<1>13. ASSUME NEW h \in Handlers,
              SendPodApplied(h) \/ SendServicePodMap(h) \/ SendEnvoyRoutes(h)
       PROVE  NamedSources'
  BY <1>1, <1>2, <1>3, <1>13, AcceptType
<1>14. ASSUME NEW h \in Handlers, PodCacheInsert(h) \/ EnvoyInsert(h)
       PROVE  NamedSources'
  BY <1>1, <1>2, <1>3, <1>14, PodCacheInsertType, EnvoyInsertType
<1>15. ASSUME SendPodDeleted PROVE NamedSources'
  BY <1>1, <1>2, <1>3, <1>15 DEF SendPodDeleted
<1>16. ASSUME Restart PROVE NamedSources'
  <2>1. \A n \in NodeId : topology'.downstream[n] = << >>
    BY <1>16 DEF Restart, NewTopology
  <2>2. \A t \in Tasks : task'[t] = Idle
    BY <1>16 DEF Restart
  <2>3. NamedFlows'
    BY <2>1, EmptyRange DEF NamedFlows
  <2>4. NamedTasks'
    BY <2>2 DEF NamedTasks
  <2> QED
    BY <1>1, <2>3, <2>4
<1>17. CASE Next
  BY <1>17, <1>5, <1>7, <1>8, <1>9, <1>10, <1>11, <1>12, <1>13, <1>14, <1>15,
     <1>16 DEF Next, TaskStep, HandlerStep
<1> QED
  BY <1>4, <1>17 DEF vars

\* Every caller in the graph has a name: record_ebpf_event drops the event
\* when the pod cache has none, the name read then is the one used, and
\* healing never touches a caller.
THEOREM SourcesNamed == Spec => []NamedSources
<1>1. Init => NamedSources
  BY EmptyRange DEF Init, NewTopology, NamedSources
<1>2. IInv /\ NamedSources /\ [Next]_vars => IInv' /\ NamedSources'
  BY StepEffect, NamedSourcesStep
<1> QED
  BY InitIInv, <1>1, <1>2, PTL DEF Spec

-----------------------------------------------------------------------------
(* No step loses a call                                                    *)

\* The invariant as a fact about the graph after a step.
LEMMA NextGraph ==
    ASSUME IInv'
    PROVE  topology' \in Graph /\ WellFormed(topology')
BY DEF IInv, TypeOK, GraphConsistent

\* In a well-formed graph one index is enough to find a flow in both.
LEMMA ShownFromDownstream ==
    ASSUME NEW t \in Graph, WellFormed(t), NEW f \in Flow, InDownstream(t, f)
    PROVE  Shown(t, f)
<1>1. f.source_node \in NodeId
  BY DEF Flow
<1>2. f \in Range(t.downstream[f.source_node])
  BY DEF InDownstream, Contains
<1>3. InUpstream(t, f)
  BY <1>1, <1>2 DEF WellFormed, Mirrored
<1> QED
  BY <1>3 DEF Shown

\* Healing one address renames the ends of a flow and keeps the flow.
LEMMA SurvivesHealing ==
    ASSUME IInv, IInv', NEW ip \in Ips, NEW r \in NodeId,
           topology' = resolve_unknown_node(topology, ip, r),
           HasNode(topology, StaleId(ip)),
           NEW n \in NodeId, NEW f \in Range(topology.downstream[n])
    PROVE  Survives(f)
<1> DEFINE stale == StaleId(ip)
           down == topology.downstream
           g == Rewired(f, stale, r)
<1>1. /\ topology'.downstream = Heal(down, stale, r)
      /\ stale \in NodeId /\ down \in FlowMap
  BY StaleIdType DEF resolve_unknown_node, IInv, TypeOK, Graph
<1>2. f \in Flow /\ f.source_node = n
  BY DownstreamFlows
<1> HIDE DEF down
<1>3. g \in Range(Heal(down, stale, r)[Renamed(n, stale, r)])
  BY <1>1, FlowHealed DEF down
<1>4. g.source_node = Renamed(n, stale, r)
  BY <1>1, <1>2, RewiredFacts
<1>5a. InDownstream(topology', g)
  BY <1>1, <1>3, <1>4 DEF InDownstream, Contains
<1>5b. g \in Flow
  BY <1>1, <1>2, RewiredFacts
<1> HIDE DEF g
<1>5. Shown(topology', g)
  BY <1>5a, <1>5b, NextGraph, ShownFromDownstream
<1> USE DEF g
<1>6. CASE stale \in {f.source_node, f.destination_node}
  BY <1>5, <1>6 DEF Survives
<1>7. CASE stale \notin {f.source_node, f.destination_node}
  <2>1. g = f
    BY <1>2, <1>7 DEF Rewired, Renamed, Flow
  <2> QED
    BY <1>5, <2>1 DEF Survives
<1> QED
  BY <1>6, <1>7

\* Every step keeps the calls of the graph.
LEMMA EdgesNeverLostStep ==
    ASSUME IInv, [Next]_vars, IInv', restarts' = restarts,
           NEW n \in NodeId, NEW f \in Range(topology.downstream[n])
    PROVE  Survives(f)
<1>1. f \in Flow /\ f.source_node = n /\ InDownstream(topology, f)
  BY DownstreamFlows
<1>2. CASE UNCHANGED topology
  <2>1. InDownstream(topology', f)
    BY <1>1, <1>2
  <2> QED
    BY <1>1, <2>1, NextGraph, ShownFromDownstream DEF Survives
<1>3. ASSUME NEW t \in Tasks, UpdateTopology(t) PROVE Survives(f)
  <2>1. f \in Range(topology'.downstream[n])
    BY <1>3, UpdateTopologyFacts
  <2>2. InDownstream(topology', f)
    BY <1>1, <2>1 DEF InDownstream, Contains
  <2> QED
    BY <1>1, <2>2, NextGraph, ShownFromDownstream DEF Survives
<1>4. ASSUME NEW h \in Handlers, ResolveNode(h) PROVE Survives(f)
  <2>1. PICK ip \in Ips, r \in NodeId :
           topology' = resolve_unknown_node(topology, ip, r)
    BY <1>4, ResolveNodeFacts
  <2>2. CASE ~ HasNode(topology, StaleId(ip))
    BY <1>2, <2>1, <2>2 DEF resolve_unknown_node
  <2>3. CASE HasNode(topology, StaleId(ip))
    BY <2>1, <2>3, SurvivesHealing
  <2> QED
    BY <2>2, <2>3
<1>5. ~ Restart
  BY DEF Restart, IInv, TypeOK
<1> QED
  BY <1>2, <1>3, <1>4, <1>5, StepEffect

\* As long as Core runs, a call that the graph shows stays in it: add_flow
\* never replaces one, and resolve_unknown_node moves the flows of a stale
\* node into the lists of the resolved one without dropping any.
THEOREM EdgesPersist == Spec => EdgesNeverLost
<1>1. IInv /\ [Next]_vars => IInv'
  BY StepEffect
<1>2. IInv /\ [Next]_vars =>
         [restarts' = restarts =>
            \A n \in NodeId : \A f \in Range(topology.downstream[n]) :
               Survives(f)]_vars
  BY <1>1, EdgesNeverLostStep
<1> QED
  BY InitIInv, <1>1, <1>2, PTL DEF Spec, EdgesNeverLost

-----------------------------------------------------------------------------
(* The write path implements the abstract ServiceGraph: every step is,     *)
(* under the mapping of the graph's maps to a set of services and a set of *)
(* calls, a step of ServiceGraph or no step at all.  First the operations  *)
(* on the graph, as operations on the two sets.                            *)

\* add_node adds its node to the known services.
LEMMA AddNodeKnown ==
    ASSUME NEW t \in Graph, NEW n \in NodeId, NEW data \in NodeData
    PROVE  KnownServices(add_node(t, n, data)) = KnownServices(t) \cup {n}
<1>1. t.nodes \in [NodeId -> NodeData \cup {NoNode}]
  BY DEF Graph
<1>2. data # NoNode
  BY TopologyAssumption
<1>3. CASE HasNode(t, n)
  BY <1>3 DEF add_node, KnownServices
<1>4. CASE ~ HasNode(t, n)
  <2> DEFINE u == [t EXCEPT !.nodes[n] = data]
  <2>1. add_node(t, n, data) = u
    BY <1>4 DEF add_node
  <2>2. \A m \in NodeId : u.nodes[m] = IF m = n THEN data ELSE t.nodes[m]
    BY <1>1 DEF Graph
  <2> HIDE DEF u
  <2> QED
    BY <1>2, <2>1, <2>2 DEF KnownServices, HasNode
<1> QED
  BY <1>3, <1>4

\* The lock section of record_ebpf_event adds one call and its two ends.
LEMMA RecordCallSets ==
    ASSUME NEW t \in Graph, NEW f \in Flow, NEW src_ip \in Ips, NEW dst_ip \in Ips
    PROVE  LET u == RecordCall(t, f, src_ip, dst_ip) IN
           /\ KnownServices(u) = KnownServices(t) \cup {f.source_node, f.destination_node}
           /\ ShownCalls(u) = ShownCalls(t) \cup {f}
<1> DEFINE v == add_node(t, f.source_node, NewNode(src_ip))
           w == add_node(v, f.destination_node, NewNode(dst_ip))
           u == add_flow(w, f)
<1>1. /\ f.source_node \in NodeId
      /\ f.destination_node \in NodeId
      /\ NewNode(src_ip) \in NodeData
      /\ NewNode(dst_ip) \in NodeData
  BY DEF Flow, NewNode, NodeData
<1>2. /\ v \in Graph /\ v.downstream = t.downstream
      /\ KnownServices(v) = KnownServices(t) \cup {f.source_node}
  BY <1>1, AddNodeFacts, AddNodeKnown
<1>3. /\ w \in Graph /\ w.downstream = v.downstream
      /\ KnownServices(w) = KnownServices(v) \cup {f.destination_node}
  BY <1>1, <1>2, AddNodeFacts, AddNodeKnown
<1> HIDE DEF v, w
<1>4. /\ u \in Graph
      /\ u.nodes = w.nodes
      /\ \A n \in NodeId :
           /\ n = f.destination_node =>
                 Range(u.upstream[n]) = Range(w.upstream[n]) \cup {f}
           /\ n # f.destination_node => Range(u.upstream[n]) = Range(w.upstream[n])
           /\ n = f.source_node =>
                 Range(u.downstream[n]) = Range(w.downstream[n]) \cup {f}
           /\ n # f.source_node => Range(u.downstream[n]) = Range(w.downstream[n])
  BY <1>3, AddFlowFacts
<1>5. RecordCall(t, f, src_ip, dst_ip) = u
  BY DEF RecordCall, v, w
<1> HIDE DEF u
<1>6. KnownServices(u) = KnownServices(t) \cup {f.source_node, f.destination_node}
  <2>1. KnownServices(u) = KnownServices(w)
    BY <1>4 DEF KnownServices, HasNode
  <2> QED
    BY <1>2, <1>3, <2>1
<1>7. ShownCalls(u) = ShownCalls(t) \cup {f}
  <2>1. ShownCalls(w) = ShownCalls(t)
    BY <1>2, <1>3 DEF ShownCalls
  <2>2. ShownCalls(u) \subseteq ShownCalls(w) \cup {f}
    BY <1>4 DEF ShownCalls
  <2>3. ShownCalls(w) \subseteq ShownCalls(u)
    BY <1>4 DEF ShownCalls
  <2>4. f \in ShownCalls(u)
    BY <1>1, <1>4 DEF ShownCalls
  <2> QED
    BY <2>1, <2>2, <2>3, <2>4
<1> QED
  BY <1>5, <1>6, <1>7

\* Moving a node's data takes away the stale node and makes the other known.
LEMMA MoveNodeKnown ==
    ASSUME NEW nodes \in [NodeId -> NodeData \cup {NoNode}],
           NEW stale \in NodeId, NEW resolved \in NodeId, nodes[stale] # NoNode,
           NEW n \in NodeId
    PROVE  MoveNode(nodes, stale, resolved)[n] # NoNode
              <=> n = resolved \/ (n # stale /\ nodes[n] # NoNode)
<1> DEFINE removed == [nodes EXCEPT ![stale] = NoNode]
           data == IF removed[resolved] = NoNode THEN nodes[stale]
                   ELSE removed[resolved]
           u == [removed EXCEPT ![resolved] = data]
<1>1. MoveNode(nodes, stale, resolved) = u
  BY DEF MoveNode
<1>2. /\ removed \in [NodeId -> NodeData \cup {NoNode}]
      /\ removed[n] = IF n = stale THEN NoNode ELSE nodes[n]
  OBVIOUS
<1> HIDE DEF removed
<1>3. data # NoNode
  OBVIOUS
<1> HIDE DEF data
<1>4. u[n] = IF n = resolved THEN data ELSE removed[n]
  BY <1>2
<1> HIDE DEF u
<1> QED
  BY <1>1, <1>2, <1>3, <1>4

\* Both modules rename the ends of a call in the same way.
LEMMA RedirectedIsRewired ==
    ASSUME NEW f, NEW old, NEW new
    PROVE  Abstract!Redirected(f, old, new) = Rewired(f, old, new)
BY DEF Abstract!Redirected, Abstract!Moved, Rewired, Renamed

\* Healing replaces the stale node in both sets.
LEMMA ResolveSets ==
    ASSUME NEW t \in Graph, NEW ip \in Ips, NEW r \in NodeId,
           HasNode(t, StaleId(ip))
    PROVE  LET u == resolve_unknown_node(t, ip, r) IN
           /\ KnownServices(u) = (KnownServices(t) \ {StaleId(ip)}) \cup {r}
           /\ ShownCalls(u) = {Rewired(f, StaleId(ip), r) : f \in ShownCalls(t)}
<1> DEFINE stale == StaleId(ip)
           nodes == MoveNode(t.nodes, stale, r)
           down == Heal(t.downstream, stale, r)
           u == resolve_unknown_node(t, ip, r)
<1>1. /\ stale \in NodeId
      /\ t.nodes \in [NodeId -> NodeData \cup {NoNode}]
      /\ t.downstream \in FlowMap
      /\ t.nodes[stale] # NoNode
  BY StaleIdType DEF Graph, HasNode
<1>2. u.nodes = nodes /\ u.downstream = down
  BY DEF resolve_unknown_node
<1> HIDE DEF stale, u
<1>3. KnownServices(u) = (KnownServices(t) \ {stale}) \cup {r}
  <2>1. \A n \in NodeId : nodes[n] # NoNode
                             <=> n = r \/ (n # stale /\ t.nodes[n] # NoNode)
    BY <1>1, MoveNodeKnown
  <2> QED
    BY <1>2, <2>1 DEF KnownServices, HasNode
<1>4. ShownCalls(u) \subseteq {Rewired(f, stale, r) : f \in ShownCalls(t)}
  <2> SUFFICES ASSUME NEW n \in NodeId, NEW g \in Range(down[n])
               PROVE  \E f \in ShownCalls(t) : g = Rewired(f, stale, r)
    BY <1>2 DEF ShownCalls
  <2>1. PICK m \in NodeId : \E f \in Range(t.downstream[m]) :
               g = Rewired(f, stale, r)
    BY <1>1, HealedFlow, ZenonT(30)
  <2>2. PICK f \in Range(t.downstream[m]) : g = Rewired(f, stale, r)
    BY <2>1
  <2>3. f \in ShownCalls(t)
    BY DEF ShownCalls
  <2> QED
    BY <2>2, <2>3
<1>5. {Rewired(f, stale, r) : f \in ShownCalls(t)} \subseteq ShownCalls(u)
  <2> SUFFICES ASSUME NEW m \in NodeId, NEW f \in Range(t.downstream[m])
               PROVE  Rewired(f, stale, r) \in ShownCalls(u)
    BY DEF ShownCalls
  <2>1. Rewired(f, stale, r) \in Range(down[Renamed(m, stale, r)])
    BY <1>1, FlowHealed
  <2>2. Renamed(m, stale, r) \in NodeId
    BY <1>1, RenamedType
  <2> QED
    BY <1>2, <2>1, <2>2 DEF ShownCalls
<1> QED
  BY <1>3, <1>4, <1>5 DEF stale, u

-----------------------------------------------------------------------------
(* The steps                                                               *)

\* The empty graph is the initial abstract graph.
LEMMA NewTopologySets ==
    KnownServices(NewTopology) = {} /\ ShownCalls(NewTopology) = {}
<1>1. \A n \in NodeId : NewTopology.nodes[n] = NoNode
                        /\ NewTopology.downstream[n] = << >>
  BY DEF NewTopology
<1> QED
  BY <1>1, EmptyRange DEF KnownServices, ShownCalls, HasNode

\* UpdateTopology is the observation of a call of a named caller.
LEMMA UpdateObserves ==
    ASSUME IInv, NamedSources, NEW t \in Tasks, UpdateTopology(t)
    PROVE  Abstract!Next
<1> DEFINE f == FlowOf(task[t])
<1>1. /\ task[t] # Idle /\ task[t].pc = "graph"
      /\ topology' = RecordCall(topology, f, task[t].input.src, task[t].input.dst)
  BY DEF UpdateTopology, At
<1>2. topology \in Graph /\ TypeOK
  BY DEF IInv, TypeOK
<1>3. f \in Flow /\ task[t].input.src \in Ips /\ task[t].input.dst \in Ips
  BY <1>1, <1>2, TaskType
<1>4. Named(task[t].src)
  BY <1>1 DEF NamedSources, At
<1>5. f.source_node = task[t].src
  BY DEF FlowOf
<1> HIDE DEF f
<1>6. /\ KnownServices(topology') =
            KnownServices(topology) \cup {f.source_node, f.destination_node}
      /\ ShownCalls(topology') = ShownCalls(topology) \cup {f}
  BY <1>1, <1>2, <1>3, RecordCallSets
<1>7. f.source_node \in {n \in NodeId : Named(n)}
  BY <1>3, <1>4, <1>5 DEF Flow
<1>8. Abstract!Observe(f)
  BY <1>6, <1>7 DEF Abstract!Observe
<1>9. f \in ShownCalls(topology') \cap Flow
  BY <1>3, <1>6
<1> QED
  BY <1>8, <1>9 DEF Abstract!Next

\* ResolveNode identifies an address, or finds nothing to heal.
LEMMA ResolveIdentifies ==
    ASSUME IInv, NEW h \in Handlers, ResolveNode(h)
    PROVE  Abstract!Next \/ UNCHANGED topology
<1>1. PICK ip \in Ips, n \in NodeId : topology' = resolve_unknown_node(topology, ip, n)
  BY ResolveNodeFacts
<1>2. topology \in Graph
  BY DEF IInv, TypeOK
<1>3. CASE ~ HasNode(topology, StaleId(ip))
  BY <1>1, <1>3 DEF resolve_unknown_node
<1>4. CASE HasNode(topology, StaleId(ip))
  <2>1. /\ KnownServices(topology') = (KnownServices(topology) \ {StaleId(ip)}) \cup {n}
        /\ ShownCalls(topology') =
              {Rewired(f, StaleId(ip), n) : f \in ShownCalls(topology)}
    BY <1>1, <1>2, <1>4, ResolveSets
  <2>2. ShownCalls(topology') =
              {Abstract!Redirected(f, StaleId(ip), n) : f \in ShownCalls(topology)}
    BY <2>1, RedirectedIsRewired
  <2>3. Abstract!Identify(StaleId(ip), n)
    BY <2>1, <2>2 DEF Abstract!Identify
  <2>4. StaleId(ip) \in KnownServices(topology) \cap {StaleId(i) : i \in Ips}
    BY <1>4, StaleIdType DEF KnownServices
  <2>5. n \in KnownServices(topology') \cap NodeId
    BY <2>1
  <2> QED
    BY <2>3, <2>4, <2>5 DEF Abstract!Next
<1> QED
  BY <1>3, <1>4

\* Every step of the write path is an abstract step or leaves the graph alone.
LEMMA StepRefines ==
    ASSUME IInv, NamedSources, [Next]_vars
    PROVE  [Abstract!Next]_(Abstract!vars)
<1>1. CASE UNCHANGED topology
  BY <1>1 DEF Abstract!vars
<1>2. CASE \E t \in Tasks : UpdateTopology(t)
  BY <1>2, UpdateObserves
<1>3. CASE \E h \in Handlers : ResolveNode(h)
  BY <1>1, <1>3, ResolveIdentifies
<1>4. CASE Restart
  <2>1. topology' = NewTopology
    BY <1>4 DEF Restart
  <2> QED
    BY <2>1, NewTopologySets DEF Abstract!Next, Abstract!Forget
<1> QED
  BY <1>1, <1>2, <1>3, <1>4, StepEffect

\* Core's write path implements the abstract service graph, for any number of
\* tasks, handlers, pods, hosts and restarts: record_ebpf_event adds one whole
\* call of a named caller, record_pod_applied replaces one address everywhere.
THEOREM WritePathRefines == Spec => ImplementsServiceGraph
<1>1. Init => Abstract!Init
  BY NewTopologySets DEF Init, Abstract!Init
<1>2. Init => NamedSources
  BY EmptyRange DEF Init, NewTopology, NamedSources
<1>3. IInv /\ NamedSources /\ [Next]_vars => IInv' /\ NamedSources'
  BY StepEffect, NamedSourcesStep
<1>4. IInv /\ NamedSources /\ [Next]_vars => [Abstract!Next]_(Abstract!vars)
  BY StepRefines
<1> QED
  BY InitIInv, <1>1, <1>2, <1>3, <1>4, PTL DEF Spec, ImplementsServiceGraph, Abstract!Spec

-----------------------------------------------------------------------------
(* The queries on the graph that the write path maintains                  *)

\* While events and healing race, a subgraph query answers with exactly the
\* services within its depth and the callers of its root; it shows the calls
\* below the root as a tree, at both their ends, and at the root all calls of
\* the root: what get_subgraph promises holds at every moment the HTTP and
\* gRPC handlers may take the read lock.
THEOREM QueriesFaithful ==
    Spec => [](\A root \in NodeId, k \in Nat :
                  /\ ExactNodes(topology, root, k)
                  /\ (k # 0 /\ HasNode(topology, root)) => IsTree(topology, root, k))
<1>1. ASSUME IInv, NEW root \in NodeId, NEW k \in Nat
      PROVE  /\ ExactNodes(topology, root, k)
             /\ (k # 0 /\ HasNode(topology, root)) => IsTree(topology, root, k)
  <2>1. topology \in Graph /\ WellFormed(topology)
    BY <1>1 DEF IInv, TypeOK, GraphConsistent
  <2>2. ExactNodes(topology, root, k)
    BY <2>1, SubgraphExactNodes
  <2>3. ASSUME k # 0, HasNode(topology, root) PROVE IsTree(topology, root, k)
    BY <2>1, <2>3, SubgraphTree
  <2> QED
    BY <2>2, <2>3
<1>2. IInv => \A root \in NodeId, k \in Nat :
                 /\ ExactNodes(topology, root, k)
                 /\ (k # 0 /\ HasNode(topology, root)) => IsTree(topology, root, k)
  BY <1>1
<1>3. IInv /\ [Next]_vars => IInv'
  BY StepEffect
<1> QED
  BY InitIInv, <1>2, <1>3, PTL DEF Spec

-----------------------------------------------------------------------------
(* The dedup cache pays for every flow                                     *)

LEMMA SlotFacts ==
    ASSUME NEW index \in FlowMap
    PROVE  /\ \A n, i : <<n, i>> \in FlowSlots(index) <=> n \in NodeId /\ i \in DOMAIN index[n]
           /\ \A s \in FlowSlots(index) :
                 s = <<s[1], s[2]>> /\ s[1] \in NodeId /\ s[2] \in DOMAIN index[s[1]]
           /\ \A n \in NodeId : /\ index[n] \in Seq(Flow) /\ Len(index[n]) \in Nat
                                /\ DOMAIN index[n] = 1 .. Len(index[n])
<1>1. \A n \in NodeId : /\ index[n] \in Seq(Flow) /\ Len(index[n]) \in Nat
                        /\ DOMAIN index[n] = 1 .. Len(index[n])
  BY DEF FlowMap
<1>2. \A s \in FlowSlots(index) :
         s = <<s[1], s[2]>> /\ s[1] \in NodeId /\ s[2] \in DOMAIN index[s[1]]
  BY DEF FlowSlots
<1>3. \A n, i : <<n, i>> \in FlowSlots(index) <=> n \in NodeId /\ i \in DOMAIN index[n]
  BY DEF FlowSlots
<1> QED
  BY <1>1, <1>2, <1>3

\* add_flow makes room for one flow at most.
LEMMA RecordCallSlots ==
    ASSUME NEW t \in Graph, NEW f \in Flow, NEW src_ip \in Ips, NEW dst_ip \in Ips,
           IsFiniteSet(FlowSlots(t.downstream))
    PROVE  LET u == RecordCall(t, f, src_ip, dst_ip)
           IN  /\ IsFiniteSet(FlowSlots(u.downstream))
               /\ Cardinality(FlowSlots(u.downstream)) <= Cardinality(FlowSlots(t.downstream)) + 1
<1> DEFINE n == f.source_node
           a == add_node(t, n, NewNode(src_ip))
           b == add_node(a, f.destination_node, NewNode(dst_ip))
           u == RecordCall(t, f, src_ip, dst_ip)
           down == t.downstream
           new == PushNew(down[n], f)
           x == <<n, Len(down[n]) + 1>>
<1>1. /\ n \in NodeId /\ f.destination_node \in NodeId
      /\ NewNode(src_ip) \in NodeData /\ NewNode(dst_ip) \in NodeData
  BY DEF Flow, NewNode, NodeData
<1>2. a \in Graph /\ a.downstream = down
  BY <1>1, AddNodeFacts
<1>3. b \in Graph /\ b.downstream = down
  <2> HIDE DEF a
  <2> QED
    BY <1>1, <1>2, AddNodeFacts
<1>4. u = add_flow(b, f)
  BY DEF RecordCall
<1> HIDE DEF a, b, u
<1>5. u.downstream = [down EXCEPT ![n] = new]
  BY <1>3, <1>4 DEF add_flow
<1>6. down \in FlowMap
  BY DEF Graph
<1> HIDE DEF down
<1>7. down[n] \in Seq(Flow) /\ Len(down[n]) \in Nat /\ DOMAIN down[n] = 1 .. Len(down[n])
  BY <1>1, <1>6, SlotFacts
<1>8. new \in Seq(Flow) /\ DOMAIN new \subseteq 1 .. Len(down[n]) + 1
  BY <1>7 DEF PushNew
<1> HIDE DEF new
<1>9. u.downstream \in FlowMap
  BY <1>1, <1>5, <1>6, <1>8 DEF FlowMap
<1>10. \A m \in NodeId : u.downstream[m] = IF m = n THEN new ELSE down[m]
  BY <1>1, <1>5, <1>6 DEF FlowMap
<1>11. FlowSlots(u.downstream) \subseteq FlowSlots(down) \cup {x}
  <2> SUFFICES ASSUME NEW s \in FlowSlots(u.downstream)
               PROVE  s \in FlowSlots(down) \cup {x}
    OBVIOUS
  <2>1. s = <<s[1], s[2]>> /\ s[1] \in NodeId /\ s[2] \in DOMAIN u.downstream[s[1]]
    BY <1>9, SlotFacts
  <2>2. CASE s[1] # n
    <3>1. s[2] \in DOMAIN down[s[1]]
      BY <1>10, <2>1, <2>2
    <3> QED
      BY <1>6, <2>1, <3>1, SlotFacts
  <2>3. CASE s[1] = n
    <3>1. s[2] \in 1 .. Len(down[n]) + 1
      BY <1>8, <1>10, <2>1, <2>3
    <3>2. s[2] = Len(down[n]) + 1 \/ s[2] \in DOMAIN down[n]
      BY <1>7, <3>1
    <3>3. s[2] \in DOMAIN down[n] => s \in FlowSlots(down)
      BY <1>1, <1>6, <2>1, <2>3, SlotFacts
    <3> QED
      BY <2>1, <2>3, <3>2, <3>3
  <2> QED
    BY <2>2, <2>3
<1>12. IsFiniteSet(FlowSlots(down))
  BY DEF down
<1> HIDE DEF x
<1>13. /\ IsFiniteSet(FlowSlots(down) \cup {x})
       /\ Cardinality(FlowSlots(down) \cup {x}) <= Cardinality(FlowSlots(down)) + 1
  <2>1. Cardinality(FlowSlots(down)) \in Nat
    BY <1>12, FS_CardinalityType
  <2>2. /\ IsFiniteSet(FlowSlots(down) \cup {x})
        /\ Cardinality(FlowSlots(down) \cup {x}) =
              IF x \in FlowSlots(down) THEN Cardinality(FlowSlots(down))
              ELSE Cardinality(FlowSlots(down)) + 1
    BY <1>12, FS_AddElement, Zenon
  <2> QED
    BY <2>1, <2>2
<1>14. /\ IsFiniteSet(FlowSlots(u.downstream))
       /\ Cardinality(FlowSlots(u.downstream)) <= Cardinality(FlowSlots(down) \cup {x})
  BY <1>11, <1>13, FS_Subset
<1>15. /\ Cardinality(FlowSlots(u.downstream)) \in Nat
       /\ Cardinality(FlowSlots(down) \cup {x}) \in Nat
       /\ Cardinality(FlowSlots(down)) \in Nat
  BY <1>12, <1>13, <1>14, FS_CardinalityType
<1>16. Cardinality(FlowSlots(u.downstream)) <= Cardinality(FlowSlots(down)) + 1
  BY <1>13, <1>14, <1>15
<1> QED
  BY <1>14, <1>16 DEF u, down

\* Healing moves flows from one list to the end of another.
LEMMA HealSlots ==
    ASSUME NEW index \in FlowMap, NEW stale \in NodeId, NEW resolved \in NodeId,
           IsFiniteSet(FlowSlots(index))
    PROVE  LET h == Heal(index, stale, resolved)
           IN  /\ IsFiniteSet(FlowSlots(h))
               /\ Cardinality(FlowSlots(h)) <= Cardinality(FlowSlots(index))
<1> DEFINE h == Heal(index, stale, resolved)
           removed == [index EXCEPT ![stale] = << >>]
           moved == removed[resolved] \o index[stale]
           k == [removed EXCEPT ![resolved] = moved]
           L == Len(removed[resolved])
           move == [s \in FlowSlots(index) |->
                      IF s[1] = stale THEN <<resolved, L + s[2]>> ELSE s]
<1>1. /\ \A n \in NodeId : index[n] \in Seq(Flow)
      /\ \A n \in NodeId : removed[n] = IF n = stale THEN << >> ELSE index[n]
      /\ \A n \in NodeId : removed[n] \in Seq(Flow)
  BY DEF FlowMap
<1>2. \A n \in NodeId : k[n] = IF n = resolved THEN moved ELSE removed[n]
  BY DEF FlowMap
<1>3. h \in FlowMap
  BY HealRange
<1>4. \A n \in NodeId : DOMAIN h[n] = DOMAIN k[n]
  <2> DEFINE r == Rekey(index, stale, resolved)
  <2>1. r = k
    BY DEF Rekey
  <2> HIDE DEF k, r
  <2>2. h = [n \in NodeId |-> [i \in DOMAIN r[n] |-> Rewired(r[n][i], stale, resolved)]]
    BY Zenon DEF Heal, RewireAll, r
  <2> HIDE DEF h
  <2>3. \A n \in NodeId : DOMAIN h[n] = DOMAIN r[n]
    BY <2>2
  <2> QED
    BY <2>1, <2>3
<1> HIDE DEF h, k, removed
<1>5. /\ L \in Nat
      /\ DOMAIN moved = 1 .. L + Len(index[stale])
      /\ Len(index[stale]) \in Nat /\ DOMAIN index[stale] = 1 .. Len(index[stale])
  <2>1. removed[resolved] \in Seq(Flow) /\ index[stale] \in Seq(Flow)
    BY <1>1
  <2> QED
    BY <2>1, ConcatProperties
<1>6. \A n \in NodeId : DOMAIN h[n] = IF n = resolved THEN 1 .. L + Len(index[stale])
                                      ELSE IF n = stale THEN {} ELSE DOMAIN index[n]
  <2>1. DOMAIN << >> = {}
    OBVIOUS
  <2> HIDE DEF moved
  <2> QED
    BY <1>1, <1>2, <1>4, <1>5, <2>1
<1>7. resolved # stale => DOMAIN index[resolved] = 1 .. L
  <2>1. index[resolved] \in Seq(Flow)
    BY <1>1
  <2> QED
    BY <1>1, <2>1
<1>8. resolved = stale => L = 0
  BY <1>1
<1> HIDE DEF L, moved
<1>9. move \in [FlowSlots(index) -> FlowSlots(h)]
  <2> SUFFICES ASSUME NEW s \in FlowSlots(index)
               PROVE  (IF s[1] = stale THEN <<resolved, L + s[2]>> ELSE s) \in FlowSlots(h)
    OBVIOUS
  <2>1. s = <<s[1], s[2]>> /\ s[1] \in NodeId /\ s[2] \in DOMAIN index[s[1]]
    BY SlotFacts
  <2>2. CASE s[1] = stale
    <3>1. L + s[2] \in DOMAIN h[resolved]
      BY <1>5, <1>6, <2>1, <2>2
    <3> QED
      BY <1>3, <2>2, <3>1, SlotFacts
  <2>3. CASE s[1] # stale
    <3>1. s[2] \in DOMAIN h[s[1]]
      BY <1>5, <1>6, <1>7, <2>1, <2>3
    <3>2. <<s[1], s[2]>> \in FlowSlots(h)
      BY <1>3, <2>1, <3>1, SlotFacts
    <3> QED
      BY <2>1, <2>3, <3>2
  <2> QED
    BY <2>2, <2>3
<1>10. ASSUME NEW d \in FlowSlots(h)
       PROVE  \E s \in FlowSlots(index) : move[s] = d
  <2>1. d = <<d[1], d[2]>> /\ d[1] \in NodeId /\ d[2] \in DOMAIN h[d[1]]
    BY <1>3, SlotFacts
  <2>2. CASE d[1] # resolved
    <3>1. d[1] # stale /\ d[2] \in DOMAIN index[d[1]]
      BY <1>6, <2>1, <2>2
    <3>2. <<d[1], d[2]>> \in FlowSlots(index)
      BY <2>1, <3>1, SlotFacts
    <3> QED
      BY <2>1, <3>1, <3>2
  <2>3. CASE d[1] = resolved /\ d[2] <= L
    <3>1. resolved # stale /\ d[2] \in DOMAIN index[resolved]
      BY <1>5, <1>6, <1>7, <1>8, <2>1, <2>3
    <3>2. <<d[1], d[2]>> \in FlowSlots(index)
      BY <2>3, <3>1, SlotFacts
    <3> QED
      BY <2>1, <2>3, <3>1, <3>2
  <2>4. CASE d[1] = resolved /\ ~ (d[2] <= L)
    <3> DEFINE s == <<stale, d[2] - L>>
    <3>1. d[2] \in 1 .. L + Len(index[stale])
      BY <1>6, <2>1, <2>4
    <3>2. d[2] - L \in DOMAIN index[stale] /\ L + (d[2] - L) = d[2]
      BY <1>5, <2>4, <3>1
    <3>3. s \in FlowSlots(index)
      BY <3>2, SlotFacts
    <3>4. move[s] = <<resolved, L + (d[2] - L)>>
      BY <3>3
    <3> HIDE DEF move
    <3> QED
      BY <2>1, <2>4, <3>2, <3>3, <3>4
  <2> QED
    BY <2>2, <2>3, <2>4
<1> HIDE DEF move
<1>11. move \in Surjection(FlowSlots(index), FlowSlots(h))
  BY <1>9, <1>10 DEF Surjection
<1>12. IsFiniteSet(FlowSlots(h)) /\ Cardinality(FlowSlots(h)) <= Cardinality(FlowSlots(index))
  BY <1>11, FS_Surjection
<1> QED
  BY <1>12 DEF h

\* The invariant: all three sets are finite, and the budget is kept.
Paid ==
    /\ IsFiniteSet(FlowSlots(topology.downstream))
    /\ IsFiniteSet(Pending)
    /\ IsFiniteSet(seenEdges)
    /\ FlowBudget

\* A step that adds nothing to the graph and brings no task to its last step.
LEMMA PaidShrinks ==
    ASSUME Paid, Pending' \subseteq Pending, UNCHANGED seenEdges,
           IsFiniteSet(FlowSlots(topology'.downstream)),
           Cardinality(FlowSlots(topology'.downstream))
              <= Cardinality(FlowSlots(topology.downstream))
    PROVE  Paid'
<1>1. IsFiniteSet(Pending') /\ Cardinality(Pending') <= Cardinality(Pending)
  BY FS_Subset DEF Paid
<1>2. /\ Cardinality(Pending') \in Nat /\ Cardinality(Pending) \in Nat
      /\ Cardinality(seenEdges) \in Nat
      /\ Cardinality(FlowSlots(topology.downstream)) \in Nat
      /\ Cardinality(FlowSlots(topology'.downstream)) \in Nat
  BY <1>1, FS_CardinalityType DEF Paid
<1> QED
  BY <1>1, <1>2 DEF Paid, FlowBudget

\* The steps on a task's locals bring it anywhere but to its last step.
LEMMA LocalsNotPending ==
    ASSUME TypeOK, NEW t \in Tasks,
           \/ SendEbpfNetworkEvent(t) \/ SkipHealthCheck(t) \/ DropUnresolved(t)
           \/ ResolveSource(t) \/ LookupEnvoy(t) \/ LookupPod(t)
           \/ LookupService(t) \/ AlreadySeen(t)
    PROVE  Pending' \subseteq Pending /\ UNCHANGED <<topology, seenEdges>>
<1>1. task \in [Tasks -> TaskState \cup {Idle}]
  BY DEF TypeOK
<1>2. ASSUME NEW e, e = Idle \/ e.pc # "graph", task' = [task EXCEPT ![t] = e]
      PROVE  Pending' \subseteq Pending
  BY <1>1, <1>2 DEF Pending, At
<1>3. CASE SendEbpfNetworkEvent(t)
  <2>1. \E e : e.pc = "source" /\ task' = [task EXCEPT ![t] = e]
    BY <1>3 DEF SendEbpfNetworkEvent
  <2> QED
    BY <1>2, <1>3, <2>1 DEF SendEbpfNetworkEvent
<1>4. CASE SkipHealthCheck(t) \/ DropUnresolved(t) \/ AlreadySeen(t)
  BY <1>2, <1>4 DEF SkipHealthCheck, DropUnresolved, AlreadySeen, Step
<1>5. CASE ResolveSource(t) \/ LookupEnvoy(t) \/ LookupPod(t) \/ LookupService(t)
  <2>1. task[t] \in TaskState
    BY <1>1, <1>5 DEF ResolveSource, LookupEnvoy, LookupPod, LookupService, At
  <2>2. \A x, y, z : /\ [task[t] EXCEPT !.pc = "envoy", !.src = x, !.src_service = y].pc # "graph"
                     /\ [task[t] EXCEPT !.pc = "service", !.dst = x].pc # "graph"
                     /\ [task[t] EXCEPT !.pc = "pod"].pc # "graph"
                     /\ [task[t] EXCEPT !.pc = "seen", !.dst_service = z].pc # "graph"
    BY <2>1 DEF TaskState
  <2>3. \E e : /\ e.pc # "graph" /\ task' = [task EXCEPT ![t] = e]
               /\ UNCHANGED <<topology, seenEdges>>
    <3>1. CASE ResolveSource(t)
      BY <2>2, <3>1 DEF ResolveSource, Step
    <3>2. CASE LookupEnvoy(t)
      <4> DEFINE route == envoyCache[StripPort(task[t].input.host)]
                 e == IF route # None
                      THEN [task[t] EXCEPT !.pc = "service", !.dst = route]
                      ELSE [task[t] EXCEPT !.pc = "pod"]
      <4>1. Step(t, e)
        BY <3>2 DEF LookupEnvoy
      <4>2. e.pc # "graph"
        BY <2>2
      <4> HIDE DEF e
      <4> QED
        BY <4>1, <4>2 DEF Step
    <3>3. CASE LookupPod(t)
      BY <2>2, <3>3 DEF LookupPod, Step
    <3>4. CASE LookupService(t)
      BY <2>2, <3>4 DEF LookupService, Step
    <3> QED
      BY <1>5, <3>1, <3>2, <3>3, <3>4
  <2> QED
    BY <1>2, <2>3
<1> QED
  BY <1>3, <1>4, <1>5

\* seen.insert pays for the task that goes on.
LEMMA RecordEdgePaid ==
    ASSUME IInv, Paid, NEW t \in Tasks, RecordEdge(t)
    PROVE  Paid'
<1> DEFINE key == EdgeKey(task[t])
<1>1. /\ key \notin seenEdges /\ seenEdges' = seenEdges \cup {key}
      /\ task' = [task EXCEPT ![t].pc = "graph"] /\ topology' = topology
  BY DEF RecordEdge
<1>2. Pending' \subseteq Pending \cup {t}
  BY <1>1 DEF IInv, TypeOK, Pending, At
<1> HIDE DEF key
<1>3. IsFiniteSet(seenEdges') /\ Cardinality(seenEdges') = Cardinality(seenEdges) + 1
  BY <1>1, FS_AddElement DEF Paid
<1>4. /\ IsFiniteSet(Pending \cup {t}) /\ Cardinality(Pending) \in Nat
      /\ Cardinality(Pending \cup {t}) <= Cardinality(Pending) + 1
  <2>1. IsFiniteSet(Pending) /\ Cardinality(Pending) \in Nat
    BY FS_CardinalityType DEF Paid
  <2>2. /\ IsFiniteSet(Pending \cup {t})
        /\ Cardinality(Pending \cup {t}) =
              IF t \in Pending THEN Cardinality(Pending) ELSE Cardinality(Pending) + 1
    BY <2>1, FS_AddElement, Zenon
  <2> QED
    BY <2>1, <2>2
<1>5. IsFiniteSet(Pending') /\ Cardinality(Pending') <= Cardinality(Pending \cup {t})
  BY <1>2, <1>4, FS_Subset
<1>6. /\ Cardinality(Pending') \in Nat /\ Cardinality(Pending \cup {t}) \in Nat
      /\ Cardinality(seenEdges) \in Nat
      /\ Cardinality(FlowSlots(topology.downstream)) \in Nat
  BY <1>4, <1>5, FS_CardinalityType DEF Paid
<1> QED
  BY <1>1, <1>3, <1>4, <1>5, <1>6 DEF Paid, FlowBudget

\* A task that adds its flow to the graph is done.
LEMMA UpdateTopologyPaid ==
    ASSUME IInv, Paid, NEW t \in Tasks, UpdateTopology(t)
    PROVE  Paid'
<1>1. /\ task[t] # Idle /\ t \in Pending /\ seenEdges' = seenEdges
      /\ task' = [task EXCEPT ![t] = Idle]
      /\ topology' = RecordCall(topology, FlowOf(task[t]),
                                task[t].input.src, task[t].input.dst)
  BY DEF UpdateTopology, Pending, At
<1>2. /\ topology \in Graph /\ FlowOf(task[t]) \in Flow
      /\ task[t].input.src \in Ips /\ task[t].input.dst \in Ips
  BY <1>1, TaskType DEF IInv, TypeOK
<1>3. /\ IsFiniteSet(FlowSlots(topology'.downstream))
      /\ Cardinality(FlowSlots(topology'.downstream))
            <= Cardinality(FlowSlots(topology.downstream)) + 1
  BY <1>1, <1>2, RecordCallSlots DEF Paid
<1>4. Pending' = Pending \ {t}
  BY <1>1 DEF IInv, TypeOK, Pending, At
<1>5. /\ IsFiniteSet(Pending \ {t})
      /\ Cardinality(Pending \ {t}) = Cardinality(Pending) - 1
  BY <1>1, FS_RemoveElement DEF Paid
<1>6. /\ Cardinality(Pending) \in Nat
      /\ Cardinality(seenEdges) \in Nat
      /\ Cardinality(FlowSlots(topology.downstream)) \in Nat
      /\ Cardinality(FlowSlots(topology'.downstream)) \in Nat
  BY <1>3, FS_CardinalityType DEF Paid
<1> QED
  BY <1>1, <1>3, <1>4, <1>5, <1>6 DEF Paid, FlowBudget

\* Healing pays for nothing and adds nothing.
LEMMA ResolveNodePaid ==
    ASSUME IInv, Paid, NEW h \in Handlers, ResolveNode(h)
    PROVE  Paid'
<1>1. PICK ip \in Ips, n \in NodeId : topology' = resolve_unknown_node(topology, ip, n)
  BY ResolveNodeFacts
<1>2. topology \in Graph /\ topology.downstream \in FlowMap /\ StaleId(ip) \in NodeId
  BY StaleIdType DEF IInv, TypeOK, Graph
<1>3. \/ topology'.downstream = topology.downstream
      \/ topology'.downstream = Heal(topology.downstream, StaleId(ip), n)
  BY <1>1 DEF resolve_unknown_node
<1>4. /\ IsFiniteSet(FlowSlots(topology.downstream))
      /\ Cardinality(FlowSlots(topology.downstream)) \in Nat
  BY FS_CardinalityType DEF Paid
<1>5. /\ IsFiniteSet(FlowSlots(topology'.downstream))
      /\ Cardinality(FlowSlots(topology'.downstream))
            <= Cardinality(FlowSlots(topology.downstream))
  BY <1>2, <1>3, <1>4, HealSlots
<1>6. UNCHANGED <<seenEdges, task>>
  BY DEF ResolveNode
<1>7. Pending' = Pending
  BY <1>6 DEF Pending, At
<1> QED
  BY <1>5, <1>6, <1>7, PaidShrinks

\* A new process starts with nothing.
LEMMA EmptyPaid ==
    /\ IsFiniteSet(FlowSlots(NewTopology.downstream))
    /\ Cardinality(FlowSlots(NewTopology.downstream)) = 0
<1>1. NewTopology.downstream \in FlowMap
  BY NewTopologyWellFormed DEF Graph
<1>2. \A n \in NodeId : DOMAIN NewTopology.downstream[n] = {}
  BY DEF NewTopology
<1>3. FlowSlots(NewTopology.downstream) = {}
  BY <1>1, <1>2, SlotFacts
<1> QED
  BY <1>3, FS_EmptySet

\* Every step keeps the budget.
LEMMA PaidStep == ASSUME IInv, Paid, [Next]_vars PROVE Paid'
<1>1. Cardinality(FlowSlots(topology.downstream)) \in Nat
  BY FS_CardinalityType DEF Paid
<1>2. ASSUME Pending' \subseteq Pending, UNCHANGED <<topology, seenEdges>>
      PROVE  Paid'
  BY <1>1, <1>2, PaidShrinks DEF Paid
<1>3. ASSUME UNCHANGED <<topology, seenEdges, task>> PROVE Paid'
  BY <1>2, <1>3 DEF Pending, At
<1>4. CASE UNCHANGED vars
  BY <1>3, <1>4 DEF vars
<1>5. ASSUME NEW t \in Tasks, SendEbpfNetworkEvent(t) \/ TaskStep(t) PROVE Paid'
  BY <1>2, <1>5, LocalsNotPending, RecordEdgePaid, UpdateTopologyPaid DEF TaskStep, IInv
<1>6. ASSUME NEW h \in Handlers,
             \/ SendPodApplied(h) \/ SendServicePodMap(h) \/ SendEnvoyRoutes(h)
             \/ HandlerStep(h)
      PROVE  Paid'
  <2>1. CASE ResolveNode(h)
    BY <2>1, ResolveNodePaid
  <2>2. CASE ~ ResolveNode(h)
    <3>1. UNCHANGED <<topology, seenEdges, task>>
      BY <1>6, <2>2 DEF SendPodApplied, SendServicePodMap, SendEnvoyRoutes, HandlerStep,
                        Accept, PodCacheInsert, EnvoyInsert
    <3> QED
      BY <1>3, <3>1
  <2> QED
    BY <2>1, <2>2
<1>7. CASE SendPodDeleted
  BY <1>3, <1>7 DEF SendPodDeleted
<1>8. CASE Restart
  <2>1. seenEdges' = {} /\ topology' = NewTopology /\ Pending' = {}
    BY <1>8 DEF Restart, Pending, At
  <2> QED
    BY <2>1, EmptyPaid, FS_EmptySet DEF Paid, FlowBudget
<1> QED
  BY <1>4, <1>5, <1>6, <1>7, <1>8 DEF Next

\* The graph never outgrows the dedup cache: with any number of tasks racing,
\* each flow that it shows or that is about to be added was paid for by an edge
\* key of its own, and healing, which merges lists of flows, adds none.
THEOREM BudgetKept == Spec => []FlowBudget
<1>1. Init => Paid
  <2> SUFFICES ASSUME Init PROVE Paid
    OBVIOUS
  <2>1. seenEdges = {} /\ topology = NewTopology /\ Pending = {}
    BY DEF Init, Pending, At
  <2> QED
    BY <2>1, EmptyPaid, FS_EmptySet DEF Paid, FlowBudget
<1>2. IInv /\ Paid /\ [Next]_vars => IInv' /\ Paid'
  BY StepEffect, PaidStep
<1>3. Paid => FlowBudget
  BY DEF Paid
<1> QED
  BY InitIInv, <1>1, <1>2, <1>3, PTL DEF Spec

-----------------------------------------------------------------------------
(* The dedup cache discards nothing that the graph does not show           *)

\* The caches hold only what the Cluster Agent reported, and the handlers
\* only what it asked them to insert.
CachesKnown ==
    /\ \A ip \in Ips : podCache[ip] \in InfosAt(ip) \cup {None}
    /\ \A host \in Hosts : envoyCache[host] \in RoutesOf(host) \cup {None}
    /\ \A h \in Handlers : handler[h] # Idle =>
          /\ Range(handler[h].pods) \subseteq PodEntries
          /\ Range(handler[h].routes) \subseteq RouteEntries

\* The locals that a task has assigned so far are such a reading of its event.
CallerRead(e) ==
    \E i \in InfosAt(e.input.src) :
        HasApp(i) /\ e.src = AppNode(i) /\ e.src_service = i.svc

TaskReads(e) ==
    /\ e.pc # "source" => CallerRead(e)
    /\ e.pc \in {"service", "seen", "graph"} => e.dst \in Destinations(e.input)
    /\ e.pc \in {"seen", "graph"} => e.dst_service \in ServiceNames(e.input, e.dst)

TasksRead == \A t \in Tasks : task[t] # Idle => TaskReads(task[t])

\* A recorded key is the key of a reading whose services are connected, in
\* the graph or by a task about to connect them.
KeyKnown(k) == \E e \in Readings : EdgeKey(e) = k /\ PairKnown(e.src, e.dst)

SeenKnown == \A k \in seenEdges : k.dst_ns # Unknown => KeyKnown(k)

DedupInv == CachesKnown /\ TasksRead /\ SeenKnown

\* A task at the dedup cache holds one of the readings of its event.
LEMMA TaskReading ==
    ASSUME TypeOK, NEW t \in Tasks, task[t] # Idle, TaskReads(task[t]),
           task[t].pc \in {"seen", "graph"}
    PROVE  \E e \in Readings : /\ EdgeKey(e) = EdgeKey(task[t])
                               /\ e.src = task[t].src /\ e.dst = task[t].dst
<1>1. task[t].input \in Inputs
  BY TaskType
<1> DEFINE input == task[t].input
           d == task[t].dst
           s == task[t].dst_service
<1>2. PICK i \in InfosAt(input.src) :
         HasApp(i) /\ task[t].src = AppNode(i) /\ task[t].src_service = i.svc
  BY DEF TaskReads, CallerRead
<1>3. d \in Destinations(input) /\ s \in ServiceNames(input, d)
  BY DEF TaskReads
<1> DEFINE e == [src |-> AppNode(i), src_service |-> i.svc, dst |-> d, dst_service |-> s]
<1> HIDE DEF input, d, s
<1>4. e \in ReadingsOf(input, d)
  BY <1>2, <1>3 DEF ReadingsOf
<1>5. e \in Readings
  BY <1>1, <1>3, <1>4 DEF Readings, input
<1>6. EdgeKey(e) = EdgeKey(task[t])
  BY <1>2 DEF EdgeKey, d, s
<1> QED
  BY <1>2, <1>5, <1>6 DEF d

\* The ends of a reading are node ids, and its caller has a name.
LEMMA ReadingType ==
    ASSUME NEW e \in Readings
    PROVE  e.src \in NodeId /\ e.dst \in NodeId /\ Named(e.src)
<1>1. PICK input \in Inputs : \E d \in Destinations(input) : e \in ReadingsOf(input, d)
  BY DEF Readings
<1>2. PICK d \in Destinations(input) : e \in ReadingsOf(input, d)
  BY <1>1
<1>3. PICK i \in {j \in InfosAt(input.src) : HasApp(j)}, s \in ServiceNames(input, d) :
         e = [src |-> AppNode(i), src_service |-> i.svc, dst |-> d, dst_service |-> s]
  BY <1>2 DEF ReadingsOf
<1>4. PodEntries \subseteq PodUpdate /\ RouteEntries \subseteq Route
  BY IngestAssumption, RangeOfSeq DEF PodEntries, RouteEntries
<1>5. /\ \A ip \in Ips : InfosAt(ip) \subseteq PodInfo
      /\ \A host \in Hosts : RoutesOf(host) \subseteq NodeId
  BY <1>4 DEF InfosAt, RoutesOf, PodUpdate, Route
<1>6. input \in Input
  BY IngestAssumption
<1>7. input.src \in Ips /\ input.dst \in Ips /\ StripPort(input.host) \in Hosts
  BY <1>6 DEF Input, StripPort
<1>8. i \in PodInfo /\ HasApp(i)
  BY <1>3, <1>5, <1>7
<1>9. i.app \in Names /\ i.ns \in Namespaces /\ i.app # Empty
  BY <1>8 DEF PodInfo, HasApp
<1>10. AppNode(i) \in NodeId /\ Named(AppNode(i))
  BY <1>9, IngestAssumption DEF AppNode, NodeId, Named
<1>11. \A j \in PodInfo : AppNode(j) \in NodeId
  BY DEF AppNode, NodeId, PodInfo
<1>12. d \in NodeId
  BY <1>5, <1>7, <1>11, ParseType DEF Destinations
<1> QED
  BY <1>3, <1>10, <1>12

\* Two services stay connected while no pending task changes and the graph
\* keeps the flows between them.
LEMMA PairStays ==
    ASSUME NEW src \in NodeId, NEW dst \in NodeId, PairKnown(src, dst),
           \A u \in Pending : At(u, "graph")' /\ task'[u] = task[u],
           \A f \in Range(topology.downstream[src]) :
              IsPair(f, src, dst) => f \in Range(topology'.downstream[src])
    PROVE  PairKnown(src, dst)'
<1>1. CASE \E f \in Range(topology.downstream[src]) : IsPair(f, src, dst)
  BY <1>1 DEF PairKnown, IsPair
<1>2. ASSUME NEW u \in Pending, IsPair(FlowOf(task[u]), src, dst)
      PROVE  PairKnown(src, dst)'
  <2>1. u \in Pending'
    BY <1>2 DEF Pending
  <2>2. IsPair(FlowOf(task[u]), src, dst)'
    BY <1>2 DEF IsPair, FlowOf
  <2> QED
    BY <2>1, <2>2 DEF PairKnown
<1> QED
  BY <1>1, <1>2 DEF PairKnown

\* A step on the locals of a task that is not pending leaves pending tasks be.
LEMMA LocalsKeepPending ==
    ASSUME TypeOK, NEW t \in Tasks, ~ At(t, "graph"),
           \A u \in Tasks : u # t => task'[u] = task[u]
    PROVE  \A u \in Pending : At(u, "graph")' /\ task'[u] = task[u]
  BY DEF Pending, At

\* The lock section of record_ebpf_event puts its flow into the graph.
LEMMA UpdateConnects ==
    ASSUME IInv, NEW t \in Tasks, UpdateTopology(t)
    PROVE  FlowOf(task[t]) \in Range(topology'.downstream[task[t].src])
<1> DEFINE f == FlowOf(task[t])
           v == add_node(topology, f.source_node, NewNode(task[t].input.src))
           w == add_node(v, f.destination_node, NewNode(task[t].input.dst))
<1>1. /\ task[t] # Idle
      /\ topology' = add_flow(w, f)
  BY DEF UpdateTopology, At, RecordCall
<1>2. f \in Flow /\ f.source_node = task[t].src /\ TypeOK
  BY <1>1, TaskType DEF FlowOf, IInv
<1>3. f.source_node \in NodeId
  BY <1>2 DEF Flow
<1>4. w.downstream = topology.downstream /\ topology.downstream \in FlowMap
  <2>1. topology \in Graph
    BY <1>2 DEF TypeOK
  <2> QED
    BY <2>1 DEF add_node, Graph
<1> HIDE DEF f, w
<1>5. topology'.downstream[f.source_node] = PushNew(topology.downstream[f.source_node], f)
  BY <1>1, <1>3, <1>4 DEF add_flow, FlowMap
<1>6. topology.downstream[f.source_node] \in Seq(Flow)
  BY <1>3, <1>4 DEF FlowMap
<1>7. f \in Range(PushNew(topology.downstream[f.source_node], f))
  BY <1>2, <1>6, PushNewRange
<1> QED
  BY <1>2, <1>5, <1>7 DEF f

\* No step but a restart disconnects a named caller from a callee that has a
\* namespace: healing rewrites only nodes that are raw addresses.
LEMMA PairKept ==
    ASSUME IInv, [Next]_vars, ~ Restart, NEW src \in NodeId, NEW dst \in NodeId,
           Named(src), dst.ns # Unknown, PairKnown(src, dst)
    PROVE  PairKnown(src, dst)'
<1>1. TypeOK
  BY DEF IInv
<1>2. ASSUME UNCHANGED <<topology, task>> PROVE PairKnown(src, dst)'
  BY <1>2, PairStays DEF Pending, At
<1>3. ASSUME NEW t \in Tasks, ~ At(t, "graph"), UNCHANGED topology,
             \A u \in Tasks : u # t => task'[u] = task[u]
      PROVE  PairKnown(src, dst)'
  BY <1>1, <1>3, LocalsKeepPending, PairStays
<1>4. ASSUME NEW t \in Tasks, SendEbpfNetworkEvent(t) PROVE PairKnown(src, dst)'
  <2>1. ~ At(t, "graph")
    BY <1>4 DEF SendEbpfNetworkEvent, At
  <2> QED
    BY <1>1, <1>3, <1>4, <2>1, SendEbpfNetworkEventType
<1>5. ASSUME NEW t \in Tasks, TaskStep(t), ~ UpdateTopology(t)
      PROVE  PairKnown(src, dst)'
  <2>1. ~ At(t, "graph")
    BY <1>5 DEF TaskStep, SkipHealthCheck, DropUnresolved, ResolveSource, LookupEnvoy,
                LookupPod, LookupService, RecordEdge, AlreadySeen, At
  <2>2. \E e : task' = [task EXCEPT ![t] = e] /\ UNCHANGED topology
    BY <1>5 DEF TaskStep, SkipHealthCheck, DropUnresolved, ResolveSource, LookupEnvoy,
                LookupPod, LookupService, RecordEdge, AlreadySeen, Step
  <2>3. \A u \in Tasks : u # t => task'[u] = task[u]
    BY <1>1, <2>2 DEF TypeOK
  <2> QED
    BY <1>3, <2>1, <2>2, <2>3
<1>6. ASSUME NEW t \in Tasks, UpdateTopology(t) PROVE PairKnown(src, dst)'
  <2>1. task' = [task EXCEPT ![t] = Idle]
    BY <1>6 DEF UpdateTopology
  <2>2. Range(topology.downstream[src]) \subseteq Range(topology'.downstream[src])
    BY <1>6, UpdateTopologyFacts
  <2>3. CASE \E f \in Range(topology.downstream[src]) : IsPair(f, src, dst)
    BY <2>2, <2>3 DEF PairKnown, IsPair
  <2>4. CASE IsPair(FlowOf(task[t]), src, dst)
    <3>1. task[t].src = src
      BY <2>4 DEF IsPair, FlowOf
    <3>2. FlowOf(task[t]) \in Range(topology'.downstream[src])
      BY <1>6, <3>1, UpdateConnects
    <3> QED
      BY <2>4, <3>2 DEF PairKnown, IsPair
  <2>5. ASSUME NEW u \in Pending, u # t, IsPair(FlowOf(task[u]), src, dst)
        PROVE  PairKnown(src, dst)'
    <3>1. task'[u] = task[u]
      BY <1>1, <2>1, <2>5 DEF TypeOK, Pending
    <3>2. u \in Pending'
      BY <2>5, <3>1 DEF Pending, At
    <3>3. IsPair(FlowOf(task[u]), src, dst)'
      BY <2>5, <3>1 DEF IsPair, FlowOf
    <3> QED
      BY <3>2, <3>3 DEF PairKnown
  <2> QED
    BY <2>3, <2>4, <2>5 DEF PairKnown
<1>7. ASSUME NEW h \in Handlers, ResolveNode(h) PROVE PairKnown(src, dst)'
  <2>1. PICK ip \in Ips, r \in NodeId :
           topology' = resolve_unknown_node(topology, ip, r)
    BY <1>7, ResolveNodeFacts
  <2>2. UNCHANGED task
    BY <1>7, ResolveNodeFacts
  <2>3. CASE ~ HasNode(topology, StaleId(ip))
    BY <1>2, <2>1, <2>2, <2>3 DEF resolve_unknown_node
  <2>4. CASE HasNode(topology, StaleId(ip))
    <3> DEFINE stale == StaleId(ip)
               down == topology.downstream
    <3>1. /\ topology'.downstream = Heal(down, stale, r)
          /\ stale \in NodeId /\ down \in FlowMap
      BY <1>1, <2>1, <2>4, StaleIdType DEF resolve_unknown_node, TypeOK, Graph
    <3>2. src # stale /\ dst # stale
      BY DEF Named, StaleId
    <3> HIDE DEF stale
    <3>3. ASSUME NEW f \in Range(down[src]), IsPair(f, src, dst)
          PROVE  f \in Range(topology'.downstream[src])
      <4>1. f \in Flow
        BY <3>3, DownstreamFlows
      <4>2. Rewired(f, stale, r) = f /\ Renamed(src, stale, r) = src
        BY <3>2, <3>3, <4>1 DEF Rewired, Renamed, IsPair, Flow
      <4>3. Rewired(f, stale, r) \in Range(Heal(down, stale, r)[Renamed(src, stale, r)])
        BY <3>1, FlowHealed
      <4> QED
        BY <3>1, <4>2, <4>3
    <3>4. \A u \in Pending : At(u, "graph")' /\ task'[u] = task[u]
      BY <2>2 DEF Pending, At
    <3> QED
      BY <3>3, <3>4, PairStays
  <2> QED
    BY <2>3, <2>4
<1>8. ASSUME \/ UNCHANGED vars
             \/ SendPodDeleted
             \/ \E h \in Handlers :
                   \/ SendPodApplied(h) \/ SendServicePodMap(h) \/ SendEnvoyRoutes(h)
                   \/ PodCacheInsert(h) \/ EnvoyInsert(h)
      PROVE  PairKnown(src, dst)'
  <2>1. UNCHANGED <<topology, task>>
    BY <1>8 DEF vars, SendPodDeleted, SendPodApplied, SendServicePodMap,
                SendEnvoyRoutes, Accept, PodCacheInsert, EnvoyInsert
  <2> QED
    BY <1>2, <2>1
<1> QED
  BY <1>4, <1>5, <1>6, <1>7, <1>8 DEF Next, HandlerStep

\* What is left of a list of entries.
LEMMA RestOfEntries ==
    ASSUME NEW S, NEW s \in Seq(S), s # << >>
    PROVE  Head(s) \in Range(s) /\ Range(Tail(s)) \subseteq Range(s)
<1>1. Len(s) \in Nat \ {0} /\ DOMAIN s = 1 .. Len(s) /\ Head(s) = s[1]
  OBVIOUS
<1>2. Head(s) \in Range(s)
  BY <1>1 DEF Range
<1>3. ASSUME NEW i \in DOMAIN Tail(s) PROVE Tail(s)[i] \in Range(s)
  <2>1. i \in 1 .. Len(s) - 1
    BY <1>1, <1>3
  <2>2. Tail(s)[i] = s[i + 1] /\ i + 1 \in DOMAIN s
    BY <1>1, <2>1
  <2> QED
    BY <2>2 DEF Range
<1> QED
  BY <1>2, <1>3 DEF Range

\* The caches and handlers hold nothing but what was reported.
LEMMA CachesKnownStep ==
    ASSUME TypeOK, CachesKnown, [Next]_vars
    PROVE  CachesKnown'
<1>1. ASSUME UNCHANGED <<podCache, envoyCache, handler>> PROVE CachesKnown'
  BY <1>1 DEF CachesKnown
<1>2. ASSUME NEW pods \in Seq(PodUpdate), Range(pods) \subseteq PodEntries,
             InsertPods(pods) # Idle
      PROVE  /\ Range(InsertPods(pods).pods) \subseteq PodEntries
             /\ Range(InsertPods(pods).routes) \subseteq RouteEntries
  BY <1>2, EmptyRange DEF InsertPods
<1>3. ASSUME NEW routes \in Seq(Route), Range(routes) \subseteq RouteEntries,
             InsertRoutes(routes) # Idle
      PROVE  /\ Range(InsertRoutes(routes).pods) \subseteq PodEntries
             /\ Range(InsertRoutes(routes).routes) \subseteq RouteEntries
  BY <1>3, EmptyRange DEF InsertRoutes
<1>4. ASSUME NEW h \in Handlers, NEW work, handler' = [handler EXCEPT ![h] = work],
             UNCHANGED envoyCache,
             work # Idle => /\ Range(work.pods) \subseteq PodEntries
                            /\ Range(work.routes) \subseteq RouteEntries,
             \A ip \in Ips : podCache'[ip] \in InfosAt(ip) \cup {None}
      PROVE  CachesKnown'
  BY <1>4 DEF CachesKnown, TypeOK
<1>5. ASSUME NEW h \in Handlers, NEW work, Accept(h, work),
             work # Idle => /\ Range(work.pods) \subseteq PodEntries
                            /\ Range(work.routes) \subseteq RouteEntries
      PROVE  CachesKnown'
  BY <1>4, <1>5 DEF Accept, CachesKnown
<1>6. ASSUME NEW h \in Handlers, SendPodApplied(h) PROVE CachesKnown'
  <2>1. PICK u \in PodUpdates : Accept(h, InsertPods(<<u>>))
    BY <1>6 DEF SendPodApplied
  <2>2. <<u>> \in Seq(PodUpdate) /\ Range(<<u>>) = {u}
    BY IngestAssumption DEF Range
  <2>3. Range(<<u>>) \subseteq PodEntries
    BY <2>2 DEF PodEntries
  <2> QED
    BY <1>2, <1>5, <2>1, <2>2, <2>3
<1>7. ASSUME NEW h \in Handlers, SendServicePodMap(h) PROVE CachesKnown'
  <2>1. PICK m \in PodMaps : Accept(h, InsertPods(m))
    BY <1>7 DEF SendServicePodMap
  <2>2. m \in Seq(PodUpdate) /\ Range(m) \subseteq PodEntries
    BY IngestAssumption DEF PodEntries
  <2> QED
    BY <1>2, <1>5, <2>1, <2>2
<1>8. ASSUME NEW h \in Handlers, SendEnvoyRoutes(h) PROVE CachesKnown'
  <2>1. PICK r \in RouteLists : Accept(h, InsertRoutes(r))
    BY <1>8 DEF SendEnvoyRoutes
  <2>2. r \in Seq(Route) /\ Range(r) \subseteq RouteEntries
    BY IngestAssumption DEF RouteEntries
  <2> QED
    BY <1>3, <1>5, <2>1, <2>2
<1>9. ASSUME NEW h \in Handlers, handler[h] # Idle,
             handler[h].pc \in {"insert", "resolve"}
      PROVE  /\ handler[h] \in HandlerState
             /\ Head(handler[h].pods)[1] \in Ips
             /\ Head(handler[h].pods)[2] \in InfosAt(Head(handler[h].pods)[1])
             /\ Tail(handler[h].pods) \in Seq(PodUpdate)
             /\ Range(Tail(handler[h].pods)) \subseteq PodEntries
  <2>1. /\ handler[h] \in HandlerState
        /\ Head(handler[h].pods)[1] \in Ips
        /\ Tail(handler[h].pods) \in Seq(PodUpdate)
    BY <1>9, HandlerType
  <2>2. /\ handler[h].pods \in Seq(PodUpdate) /\ handler[h].pods # << >>
    BY <1>9, <2>1 DEF HandlerState
  <2>3. /\ Head(handler[h].pods) \in PodEntries
        /\ Range(Tail(handler[h].pods)) \subseteq PodEntries
    BY <1>9, <2>2, RestOfEntries DEF CachesKnown
  <2> QED
    BY <2>1, <2>3 DEF InfosAt
<1>10. ASSUME NEW h \in Handlers, PodCacheInsert(h) PROVE CachesKnown'
  <2> DEFINE pods == handler[h].pods
             ip == Head(pods)[1]
             info == Head(pods)[2]
             next == IF info.app # Empty THEN [handler[h] EXCEPT !.pc = "resolve"]
                     ELSE InsertPods(Tail(pods))
  <2>1. /\ handler[h] # Idle /\ handler[h].pc = "insert"
        /\ podCache' = [podCache EXCEPT ![ip] = info]
        /\ handler' = [handler EXCEPT ![h] = next]
        /\ UNCHANGED envoyCache
    BY <1>10 DEF PodCacheInsert, HandlerAt
  <2>2. /\ handler[h] \in HandlerState /\ ip \in Ips /\ info \in InfosAt(ip)
        /\ Tail(pods) \in Seq(PodUpdate) /\ Range(Tail(pods)) \subseteq PodEntries
    BY <1>9, <2>1
  <2>3. /\ [handler[h] EXCEPT !.pc = "resolve"].pods = pods
        /\ [handler[h] EXCEPT !.pc = "resolve"].routes = handler[h].routes
    BY <2>2 DEF HandlerState
  <2>4. /\ Range(pods) \subseteq PodEntries
        /\ Range(handler[h].routes) \subseteq RouteEntries
    BY <2>1 DEF CachesKnown
  <2>5. next # Idle => /\ Range(next.pods) \subseteq PodEntries
                       /\ Range(next.routes) \subseteq RouteEntries
    BY <1>2, <2>2, <2>3, <2>4
  <2> HIDE DEF next, ip, info
  <2>6. \A x \in Ips : podCache'[x] \in InfosAt(x) \cup {None}
    BY <2>1, <2>2 DEF CachesKnown, TypeOK
  <2> QED
    BY <1>4, <2>1, <2>5, <2>6
<1>11. ASSUME NEW h \in Handlers, ResolveNode(h) PROVE CachesKnown'
  <2> DEFINE next == InsertPods(Tail(handler[h].pods))
  <2>1. /\ handler[h] # Idle /\ handler[h].pc = "resolve"
        /\ handler' = [handler EXCEPT ![h] = next]
        /\ UNCHANGED <<podCache, envoyCache>>
    BY <1>11 DEF ResolveNode, HandlerAt
  <2>2. next # Idle => /\ Range(next.pods) \subseteq PodEntries
                       /\ Range(next.routes) \subseteq RouteEntries
    BY <1>2, <1>9, <2>1
  <2> HIDE DEF next
  <2> QED
    BY <1>4, <2>1, <2>2 DEF CachesKnown
<1>12. ASSUME NEW h \in Handlers, EnvoyInsert(h) PROVE CachesKnown'
  <2> DEFINE routes == handler[h].routes
             host == Head(routes)[1]
             service == Head(routes)[2]
             next == InsertRoutes(Tail(routes))
  <2>1. /\ handler[h] # Idle /\ handler[h].pc = "route"
        /\ envoyCache' = [envoyCache EXCEPT ![host] = service]
        /\ handler' = [handler EXCEPT ![h] = next]
        /\ UNCHANGED podCache
    BY <1>12 DEF EnvoyInsert, HandlerAt
  <2>2. /\ handler[h] \in HandlerState /\ host \in Hosts
        /\ Tail(routes) \in Seq(Route)
    BY <2>1, HandlerType
  <2>3. routes \in Seq(Route) /\ routes # << >>
    BY <2>1, <2>2 DEF HandlerState
  <2>4. Head(routes) \in RouteEntries /\ Range(Tail(routes)) \subseteq RouteEntries
    BY <2>1, <2>3, RestOfEntries DEF CachesKnown
  <2>5. service \in RoutesOf(host)
    BY <2>4 DEF RoutesOf
  <2>6. next # Idle => /\ Range(next.pods) \subseteq PodEntries
                       /\ Range(next.routes) \subseteq RouteEntries
    BY <1>3, <2>2, <2>4
  <2> HIDE DEF next, host, service
  <2>7. \A x \in Hosts : envoyCache'[x] \in RoutesOf(x) \cup {None}
    BY <2>1, <2>2, <2>5 DEF CachesKnown, TypeOK
  <2>8. \A g \in Handlers : handler'[g] # Idle =>
           /\ Range(handler'[g].pods) \subseteq PodEntries
           /\ Range(handler'[g].routes) \subseteq RouteEntries
    BY <2>1, <2>6 DEF CachesKnown, TypeOK
  <2> QED
    BY <2>1, <2>7, <2>8 DEF CachesKnown
<1>13. ASSUME SendPodDeleted PROVE CachesKnown'
  BY <1>13 DEF SendPodDeleted, CachesKnown, TypeOK
<1>14. ASSUME Restart PROVE CachesKnown'
  BY <1>14 DEF Restart, CachesKnown
<1>15. ASSUME \/ UNCHANGED vars
              \/ \E t \in Tasks : SendEbpfNetworkEvent(t) \/ TaskStep(t)
       PROVE  CachesKnown'
  <2>1. UNCHANGED <<podCache, envoyCache, handler>>
    BY <1>15 DEF vars, SendEbpfNetworkEvent, TaskStep, SkipHealthCheck, DropUnresolved,
                 ResolveSource, LookupEnvoy, LookupPod, LookupService, RecordEdge,
                 AlreadySeen, UpdateTopology, Step
  <2> QED
    BY <1>1, <2>1
<1> QED
  BY <1>6, <1>7, <1>8, <1>10, <1>11, <1>12, <1>13, <1>14, <1>15 DEF Next, HandlerStep

\* What a lookup assigns is a reading of the task's event.
LEMMA LookupReads ==
    ASSUME TypeOK, CachesKnown, TasksRead, NEW t \in Tasks,
           \/ ResolveSource(t) \/ LookupEnvoy(t) \/ LookupPod(t) \/ LookupService(t)
    PROVE  \E e : task' = [task EXCEPT ![t] = e] /\ TaskReads(e)
<1>1. task[t] # Idle
  BY DEF ResolveSource, LookupEnvoy, LookupPod, LookupService, At
<1>2. /\ task[t] \in TaskState /\ TaskReads(task[t])
      /\ task[t].input.src \in Ips /\ task[t].input.dst \in Ips
      /\ StripPort(task[t].input.host) \in Hosts
  BY <1>1, TaskType DEF TasksRead
<1> DEFINE input == task[t].input
           info == podCache[input.dst]
<1>3. info # None => info \in InfosAt(input.dst)
  BY <1>2 DEF CachesKnown
<1>4. CASE ResolveSource(t)
  <2> DEFINE p == podCache[input.src]
             n == [app |-> p.app, ns |-> p.ns]
             e == [task[t] EXCEPT !.pc = "envoy", !.src = n, !.src_service = p.svc]
  <2>1. HasApp(p) /\ task' = [task EXCEPT ![t] = e]
    BY <1>4 DEF ResolveSource, Step
  <2>2. p \in InfosAt(input.src) /\ n = AppNode(p)
    BY <1>2, <2>1 DEF CachesKnown, HasApp, AppNode
  <2> HIDE DEF p, n
  <2>3. e.pc = "envoy" /\ e.input = input /\ e.src = n /\ e.src_service = p.svc
    BY <1>2 DEF TaskState
  <2> HIDE DEF e, input
  <2>4. CallerRead(e)
    BY <2>1, <2>2, <2>3 DEF CallerRead
  <2>5. TaskReads(e)
    BY <2>3, <2>4 DEF TaskReads
  <2> QED
    BY <2>1, <2>5
<1>5. CASE LookupEnvoy(t)
  <2> DEFINE route == envoyCache[StripPort(input.host)]
             hit == [task[t] EXCEPT !.pc = "service", !.dst = route]
             miss == [task[t] EXCEPT !.pc = "pod"]
  <2>1. /\ task[t].pc = "envoy"
        /\ task' = [task EXCEPT ![t] = IF route # None THEN hit ELSE miss]
    BY <1>5 DEF LookupEnvoy, Step, At
  <2>2. CallerRead(task[t])
    BY <1>2, <2>1 DEF TaskReads
  <2>3. route # None => route \in Destinations(input)
    BY <1>2 DEF CachesKnown, Destinations
  <2> HIDE DEF route
  <2>4. /\ hit.pc = "service" /\ hit.input = input /\ hit.src = task[t].src
        /\ hit.src_service = task[t].src_service /\ hit.dst = route
        /\ miss.pc = "pod" /\ miss.input = input /\ miss.src = task[t].src
        /\ miss.src_service = task[t].src_service
    BY <1>2 DEF TaskState
  <2> HIDE DEF hit, miss
  <2>5. CallerRead(hit) /\ CallerRead(miss)
    BY <2>2, <2>4 DEF CallerRead
  <2>6. (route # None => TaskReads(hit)) /\ TaskReads(miss)
    BY <2>3, <2>4, <2>5 DEF TaskReads
  <2> QED
    BY <2>1, <2>6
<1>6. CASE LookupPod(t)
  <2> DEFINE d == IF HasApp(info) THEN [app |-> info.app, ns |-> info.ns]
                  ELSE parse_k8s_host(StripPort(input.host))
             e == [task[t] EXCEPT !.pc = "service", !.dst = d]
  <2>1. task[t].pc = "pod" /\ task' = [task EXCEPT ![t] = e]
    BY <1>6 DEF LookupPod, Step, At
  <2>2. CallerRead(task[t])
    BY <1>2, <2>1 DEF TaskReads
  <2>3. d \in Destinations(input)
    BY <1>3 DEF Destinations, AppNode, HasApp
  <2> HIDE DEF d
  <2>4. /\ e.pc = "service" /\ e.input = input /\ e.src = task[t].src
        /\ e.src_service = task[t].src_service /\ e.dst = d
    BY <1>2 DEF TaskState
  <2> HIDE DEF e
  <2>5. CallerRead(e)
    BY <2>2, <2>4 DEF CallerRead
  <2>6. TaskReads(e)
    BY <2>3, <2>4, <2>5 DEF TaskReads
  <2> QED
    BY <2>1, <2>6
<1>7. CASE LookupService(t)
  <2> DEFINE s == IF HasService(info) THEN info.svc ELSE task[t].dst.app
             e == [task[t] EXCEPT !.pc = "seen", !.dst_service = s]
  <2>1. task[t].pc = "service" /\ task' = [task EXCEPT ![t] = e]
    BY <1>7 DEF LookupService, Step, At
  <2>2. CallerRead(task[t]) /\ task[t].dst \in Destinations(input)
    BY <1>2, <2>1 DEF TaskReads
  <2>3. s \in ServiceNames(input, task[t].dst)
    BY <1>3 DEF ServiceNames, HasService
  <2> HIDE DEF s
  <2>4. /\ e.pc = "seen" /\ e.input = input /\ e.src = task[t].src
        /\ e.src_service = task[t].src_service /\ e.dst = task[t].dst
        /\ e.dst_service = s
    BY <1>2 DEF TaskState
  <2> HIDE DEF e
  <2>5. CallerRead(e)
    BY <2>2, <2>4 DEF CallerRead
  <2>6. TaskReads(e)
    BY <2>2, <2>3, <2>4, <2>5 DEF TaskReads
  <2> QED
    BY <2>1, <2>6
<1> QED
  BY <1>4, <1>5, <1>6, <1>7

\* Every task goes on reading its event that way.
LEMMA TasksReadStep ==
    ASSUME TypeOK, CachesKnown, TasksRead, [Next]_vars
    PROVE  TasksRead'
<1>1. ASSUME UNCHANGED task PROVE TasksRead'
  BY <1>1 DEF TasksRead
<1>2. ASSUME NEW t \in Tasks, NEW e, e = Idle \/ TaskReads(e),
             task' = [task EXCEPT ![t] = e]
      PROVE  TasksRead'
  BY <1>2 DEF TasksRead, TypeOK
<1>3. ASSUME NEW t \in Tasks, SendEbpfNetworkEvent(t) PROVE TasksRead'
  <2>1. PICK input \in Inputs :
           task' = [task EXCEPT ![t] =
                      [pc |-> "source", input |-> input,
                       src |-> Unset, src_service |-> Empty,
                       dst |-> Unset, dst_service |-> Empty]]
    BY <1>3 DEF SendEbpfNetworkEvent
  <2> DEFINE e == [pc |-> "source", input |-> input,
                   src |-> Unset, src_service |-> Empty,
                   dst |-> Unset, dst_service |-> Empty]
  <2>2. TaskReads(e)
    BY DEF TaskReads
  <2> HIDE DEF e
  <2> QED
    BY <1>2, <2>1, <2>2 DEF e
<1>4. ASSUME NEW t \in Tasks,
             SkipHealthCheck(t) \/ DropUnresolved(t) \/ AlreadySeen(t)
      PROVE  TasksRead'
  BY <1>2, <1>4, DropType DEF Step
<1>5. ASSUME NEW t \in Tasks,
             \/ ResolveSource(t) \/ LookupEnvoy(t) \/ LookupPod(t) \/ LookupService(t)
      PROVE  TasksRead'
  <2>1. PICK e : task' = [task EXCEPT ![t] = e] /\ TaskReads(e)
    BY <1>5, LookupReads
  <2> QED
    BY <1>2, <2>1
<1>6. ASSUME NEW t \in Tasks, RecordEdge(t) PROVE TasksRead'
  <2> DEFINE e == [task[t] EXCEPT !.pc = "graph"]
  <2>1. task[t] # Idle /\ task[t].pc = "seen" /\ task' = [task EXCEPT ![t] = e]
    BY <1>6 DEF RecordEdge, At
  <2>2. task[t] \in TaskState /\ TaskReads(task[t])
    BY <2>1 DEF TypeOK, TasksRead
  <2>3. /\ e.pc = "graph" /\ e.input = task[t].input /\ e.src = task[t].src
        /\ e.src_service = task[t].src_service /\ e.dst = task[t].dst
        /\ e.dst_service = task[t].dst_service
    BY <2>2 DEF TaskState
  <2> HIDE DEF e
  <2>4. TaskReads(e)
    BY <2>1, <2>2, <2>3 DEF TaskReads, CallerRead
  <2> QED
    BY <1>2, <2>1, <2>4
<1>7. ASSUME NEW t \in Tasks, UpdateTopology(t) PROVE TasksRead'
  BY <1>2, <1>7 DEF UpdateTopology
<1>8. ASSUME Restart PROVE TasksRead'
  BY <1>8 DEF Restart, TasksRead
<1>9. ASSUME \/ UNCHANGED vars
             \/ SendPodDeleted
             \/ \E h \in Handlers :
                   \/ SendPodApplied(h) \/ SendServicePodMap(h) \/ SendEnvoyRoutes(h)
                   \/ PodCacheInsert(h) \/ EnvoyInsert(h) \/ ResolveNode(h)
      PROVE  TasksRead'
  <2>1. UNCHANGED task
    BY <1>9 DEF vars, SendPodDeleted, SendPodApplied, SendServicePodMap,
                SendEnvoyRoutes, Accept, PodCacheInsert, EnvoyInsert, ResolveNode
  <2> QED
    BY <1>1, <2>1
<1> QED
  BY <1>3, <1>4, <1>5, <1>6, <1>7, <1>8, <1>9 DEF Next, TaskStep, HandlerStep

\* A recorded key stays the key of two services that are connected.
LEMMA SeenKnownStep ==
    ASSUME IInv, TasksRead, SeenKnown, [Next]_vars
    PROVE  SeenKnown'
<1>1. TypeOK
  BY DEF IInv
<1>2. ASSUME NEW k \in seenEdges, k.dst_ns # Unknown, ~ Restart PROVE KeyKnown(k)'
  <2>1. PICK e \in Readings : EdgeKey(e) = k /\ PairKnown(e.src, e.dst)
    BY <1>2 DEF SeenKnown, KeyKnown
  <2>2. e.dst.ns # Unknown
    BY <1>2, <2>1 DEF EdgeKey
  <2>3. e.src \in NodeId /\ e.dst \in NodeId /\ Named(e.src)
    BY ReadingType
  <2>4. PairKnown(e.src, e.dst)'
    <3> DEFINE src == e.src
               dst == e.dst
    <3>1. /\ src \in NodeId /\ dst \in NodeId /\ Named(src) /\ dst.ns # Unknown
          /\ PairKnown(src, dst)
      BY <2>1, <2>2, <2>3
    <3> HIDE DEF src, dst
    <3>2. PairKnown(src, dst)'
      BY <1>2, <3>1, PairKept
    <3> QED
      BY <3>2 DEF src, dst
  <2> QED
    BY <2>1, <2>4 DEF KeyKnown
<1>3. ASSUME UNCHANGED seenEdges, ~ Restart PROVE SeenKnown'
  BY <1>2, <1>3 DEF SeenKnown
<1>4. ASSUME NEW t \in Tasks, RecordEdge(t) PROVE SeenKnown'
  <2>1. /\ task[t] # Idle /\ task[t].pc = "seen"
        /\ seenEdges' = seenEdges \cup {EdgeKey(task[t])}
        /\ task' = [task EXCEPT ![t].pc = "graph"]
        /\ UNCHANGED restarts
    BY <1>4 DEF RecordEdge, At
  <2>2. ~ Restart
    BY <1>1, <2>1 DEF Restart, TypeOK
  <2>3. PICK e \in Readings : /\ EdgeKey(e) = EdgeKey(task[t])
                              /\ e.src = task[t].src /\ e.dst = task[t].dst
    BY <1>1, <2>1, TaskReading DEF TasksRead
  <2>4. task[t] \in TaskState
    BY <1>1, <2>1 DEF TypeOK
  <2>5. /\ task'[t] # Idle /\ task'[t].pc = "graph"
        /\ task'[t].src = task[t].src /\ task'[t].dst = task[t].dst
    <3>1. task'[t] = [task[t] EXCEPT !.pc = "graph"]
      BY <1>1, <2>1 DEF TypeOK
    <3>2. task'[t] \in TaskState
      BY <2>4, <3>1 DEF TaskState
    <3>3. task'[t] # Idle
      BY <3>2, TaskAssumption DEF Idle
    <3> QED
      BY <2>4, <3>1, <3>3 DEF TaskState
  <2>6. PairKnown(e.src, e.dst)'
    BY <2>3, <2>5 DEF PairKnown, Pending, At, IsPair, FlowOf
  <2>7. PICK k : k = EdgeKey(task[t])
    OBVIOUS
  <2>8. KeyKnown(k)'
    BY <2>3, <2>6, <2>7 DEF KeyKnown
  <2> QED
    BY <1>2, <2>1, <2>2, <2>7, <2>8 DEF SeenKnown
<1>5. ASSUME Restart PROVE SeenKnown'
  BY <1>5 DEF Restart, SeenKnown
<1>6. ASSUME ~ Restart, ~ \E t \in Tasks : RecordEdge(t) PROVE UNCHANGED seenEdges
  BY <1>6 DEF vars, Next, SendEbpfNetworkEvent, TaskStep, SkipHealthCheck, DropUnresolved,
              ResolveSource, LookupEnvoy, LookupPod, LookupService, AlreadySeen,
              UpdateTopology, Step, HandlerStep, SendPodDeleted, SendPodApplied,
              SendServicePodMap, SendEnvoyRoutes, Accept, PodCacheInsert, EnvoyInsert,
              ResolveNode
<1> QED
  BY <1>3, <1>4, <1>5, <1>6

\* The invariant is inductive and gives the property wherever the keys tell
\* pairs of services apart.
LEMMA DedupInvStep ==
    ASSUME IInv, DedupInv, [Next]_vars
    PROVE  DedupInv'
  BY CachesKnownStep, TasksReadStep, SeenKnownStep DEF IInv, DedupInv

LEMMA DedupInvImplies ==
    ASSUME KeysTellPairsApart, IInv, DedupInv
    PROVE  DedupLosesNoPair
<1> SUFFICES ASSUME NEW t \in Tasks, At(t, "seen"), EdgeKey(task[t]) \in seenEdges,
                    task[t].dst.ns # Unknown
             PROVE  PairKnown(task[t].src, task[t].dst)
  BY DEF DedupLosesNoPair
<1>1. PICK e \in Readings : /\ EdgeKey(e) = EdgeKey(task[t])
                            /\ e.src = task[t].src /\ e.dst = task[t].dst
  BY TaskReading DEF At, IInv, DedupInv, TasksRead
<1>2. EdgeKey(task[t]).dst_ns # Unknown
  BY DEF EdgeKey
<1>3. PICK g \in Readings : EdgeKey(g) = EdgeKey(task[t]) /\ PairKnown(g.src, g.dst)
  BY <1>2 DEF DedupInv, SeenKnown, KeyKnown
<1>4. g.src = e.src /\ g.dst = e.dst
  BY <1>1, <1>3 DEF KeysTellPairsApart
<1> QED
  BY <1>1, <1>3, <1>4

\* "Only the first event per edge is added to the graph" loses no edge where
\* services name their applications: in such a cluster, however tasks race
\* between seen.insert and the graph's lock, whatever the caches held at each
\* lookup, and after healing and restarts, an event that the dedup cache
\* discards has its caller and callee connected already.
THEOREM DedupKeepsPairs == KeysTellPairsApart => (Spec => []DedupLosesNoPair)
<1>1. Init => DedupInv
  BY DEF Init, DedupInv, CachesKnown, TasksRead, SeenKnown
<1>2. IInv /\ DedupInv /\ [Next]_vars => IInv' /\ DedupInv'
  BY StepEffect, DedupInvStep
<1>3. ASSUME KeysTellPairsApart PROVE IInv /\ DedupInv => DedupLosesNoPair
  BY <1>3, DedupInvImplies
<1>4. ASSUME KeysTellPairsApart PROVE Spec => []DedupLosesNoPair
  BY InitIInv, <1>1, <1>2, <1>3, <1>4, PTL DEF Spec
<1> QED
  BY <1>4

=============================================================================
