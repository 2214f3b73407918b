------------------------------- MODULE Ingest -------------------------------
(***************************************************************************)
(* Core's write path: how eBPF events become edges of the service graph    *)
(* while the Cluster Agent's pod and route updates race with them.         *)
(*                                                                         *)
(*   task     EbpfAggregator::record_ebpf_event, one tokio task per event. *)
(*            Every read of a cache and every lock section is a step, so   *)
(*            other tasks and handlers run between any two of them.        *)
(*   handler  the gRPC handlers send_pod_event, send_service_pod_map and   *)
(*            send_envoy_routes, which loop over the entries of a request. *)
(*                                                                         *)
(* The caches are moka caches without capacity or expiry, shared by all.   *)
(* No lock section can panic, so the "lock poisoned" returns never happen. *)
(***************************************************************************)
EXTENDS Topology, FiniteSets

CONSTANTS
    Empty,        \* the empty string
    External,     \* the literal "external": namespace of public hosts
    None,         \* a cache miss
    HealthPaths,  \* the paths that contain "/health"
    Hosts,        \* host names: see HostType
    Ports,        \* port suffixes of a Host header, Empty for none
    Inputs,       \* the eBPF events the loaders may send
    PodUpdates,   \* <<ip, PodInfo>> pairs of "pod applied" events
    PodMaps,      \* sequences of such pairs: the full service-pod maps
    RouteLists,   \* sequences of <<host, NodeId>>: parsed Envoy configs
    Tasks,        \* slots for concurrent record_ebpf_event tasks
    Handlers,     \* slots for concurrent gRPC handlers
    MaxEvents,    \* bound on the eBPF events received
    MaxRestarts   \* bound on the restarts of Core

\* A host name by its form: an IPv4 address, one label, a name with ".svc"
\* whose second label is ns, or any other dotted name.
HostType == [form: {"ip"}, name: Ips, ns: {Empty}]
       \cup [form: {"label", "domain"}, name: Names, ns: {Empty}]
       \cup [form: {"svc"}, name: Names, ns: Namespaces]

PodInfo == [ns: Namespaces, app: Names, svc: Names]

Input == [src: Ips, dst: Ips, host: [name: Hosts, port: Ports],
          path: Paths, method: Methods]

PodUpdate == Ips \X PodInfo
Route == Hosts \X NodeId

ASSUME IngestAssumption ==
    /\ Empty \in Names
    /\ Names \cap Ips = {}
    /\ External \in Namespaces
    /\ HealthPaths \subseteq Paths
    /\ Hosts \subseteq HostType
    /\ Inputs \subseteq Input
    /\ PodUpdates \subseteq PodUpdate
    /\ PodMaps \subseteq Seq(PodUpdate)
    /\ RouteLists \subseteq Seq(Route)
    /\ None \notin PodInfo
    /\ None \notin NodeId
    /\ MaxEvents \in Nat
    /\ MaxRestarts \in Nat

VARIABLES
    podCache,    \* pod IP -> PodInfo
    envoyCache,  \* virtual host -> the service that owns it
    seenEdges,   \* the keys of the edges recorded so far
    topology,    \* the graph behind the RwLock
    task,        \* state of each record_ebpf_event task
    handler,     \* state of each gRPC handler
    events,      \* how many eBPF events were received
    restarts     \* how often Core was restarted

vars == <<podCache, envoyCache, seenEdges, topology, task, handler,
          events, restarts>>

Edge == [src_ns: Namespaces, src_service: Names,
         dst_ns: Namespaces, dst_service: Names \cup Ips]

\* The locals of record_ebpf_event: src_service, then the two node ids.
TaskState == [pc: {"source", "envoy", "pod", "service", "seen", "graph"},
              input: Inputs, src: NodeId, src_service: Names,
              dst: NodeId, dst_service: Names \cup Ips]

\* Option::None is no task.
ASSUME TaskAssumption == None \notin TaskState

\* What a handler still has to do: the entry it works on comes first, so a
\* handler in one of its loops has one.
HandlerState ==
    {s \in [pc: {"insert", "resolve", "route"},
            pods: Seq(PodUpdate), routes: Seq(Route)] :
        IF s.pc = "route" THEN s.routes # << >> ELSE s.pods # << >>}

Idle == None

\* Locals that are not assigned yet.
Unset == [app |-> Empty, ns |-> Unknown]

TypeOK ==
    /\ podCache \in [Ips -> PodInfo \cup {None}]
    /\ envoyCache \in [Hosts -> NodeId \cup {None}]
    /\ seenEdges \in SUBSET Edge
    /\ topology \in Graph
    /\ task \in [Tasks -> TaskState \cup {Idle}]
    /\ handler \in [Handlers -> HandlerState \cup {Idle}]
    /\ events \in 0 .. MaxEvents
    /\ restarts \in 0 .. MaxRestarts

Init ==
    /\ podCache = [ip \in Ips |-> None]
    /\ envoyCache = [h \in Hosts |-> None]
    /\ seenEdges = {}
    /\ topology = NewTopology
    /\ task = [t \in Tasks |-> Idle]
    /\ handler = [h \in Handlers |-> Idle]
    /\ events = 0
    /\ restarts = 0

-----------------------------------------------------------------------------
(* record_ebpf_event                                                       *)

\* host.split(':').next(): cache keys are always bare host names.
StripPort(host) == host.name

\* Mutant: a name without ".svc" keeps its own, empty, namespace.
parse_k8s_host_NoDefault(host) == [app |-> host.name, ns |-> host.ns]

\* Addresses and single labels have no namespace; names with ".svc" carry it
\* in their second label; every other name is a public host.
parse_k8s_host(host) ==
    [app |-> host.name,
     ns  |-> CASE host.form \in {"ip", "label"} -> Unknown
               [] host.form = "svc" -> host.ns
               [] host.form = "domain" -> External]

\* Mutant: a pod whose name is not known yet counts as resolved.
HasApp_Nameless(info) == info # None

\* A cache entry that names an application (or, below, a service).
HasApp(info) == info # None /\ info.app # Empty
HasService(info) == info # None /\ info.svc # Empty

EdgeKey(e) == [src_ns |-> e.src.ns, src_service |-> e.src_service,
               dst_ns |-> e.dst.ns, dst_service |-> e.dst_service]

FlowOf(e) == [source_node |-> e.src, destination_node |-> e.dst,
              path |-> e.input.path, method |-> e.input.method]

At(t, pc) == task[t] # Idle /\ task[t].pc = pc

\* The gRPC handler answers at once and leaves the event to a new task.
SendEbpfNetworkEvent(t) ==
    /\ task[t] = Idle
    /\ events < MaxEvents
    /\ events' = events + 1
    /\ \E input \in Inputs :
          task' = [task EXCEPT ![t] =
                     [pc |-> "source", input |-> input,
                      src |-> Unset, src_service |-> Empty,
                      dst |-> Unset, dst_service |-> Empty]]
    /\ UNCHANGED <<podCache, envoyCache, seenEdges, topology, handler, restarts>>

\* Only the task's own locals change.
Step(t, e) ==
    /\ task' = [task EXCEPT ![t] = e]
    /\ UNCHANGED <<podCache, envoyCache, seenEdges, topology, handler,
                   events, restarts>>

SkipHealthCheck(t) ==
    /\ At(t, "source")
    /\ task[t].input.path \in HealthPaths
    /\ Step(t, Idle)

DropUnresolved(t) ==
    /\ At(t, "source")
    /\ task[t].input.path \notin HealthPaths
    /\ ~ HasApp(podCache[task[t].input.src])
    /\ Step(t, Idle)

ResolveSource(t) ==
    LET p == podCache[task[t].input.src] IN
    /\ At(t, "source")
    /\ task[t].input.path \notin HealthPaths
    /\ HasApp(p)
    /\ Step(t, [task[t] EXCEPT !.pc = "envoy",
                               !.src = [app |-> p.app, ns |-> p.ns],
                               !.src_service = p.svc])

\* 1. the Envoy cache is authoritative for the destination
LookupEnvoy(t) ==
    LET route == envoyCache[StripPort(task[t].input.host)] IN
    /\ At(t, "envoy")
    /\ Step(t, IF route # None
               THEN [task[t] EXCEPT !.pc = "service", !.dst = route]
               ELSE [task[t] EXCEPT !.pc = "pod"])

\* 2. the pod cache, 3. what the host name says
LookupPod(t) ==
    LET info == podCache[task[t].input.dst] IN
    /\ At(t, "pod")
    /\ Step(t, [task[t] EXCEPT
                  !.pc = "service",
                  !.dst = IF HasApp(info)
                          THEN [app |-> info.app, ns |-> info.ns]
                          ELSE parse_k8s_host(StripPort(task[t].input.host))])

\* The pod cache is read again; it may have changed since LookupPod.
LookupService(t) ==
    LET info == podCache[task[t].input.dst] IN
    /\ At(t, "service")
    /\ Step(t, [task[t] EXCEPT
                  !.pc = "seen",
                  !.dst_service = IF HasService(info) THEN info.svc
                                  ELSE task[t].dst.app])

\* Mutant: seen.contains(edge_key) under a read lock and the insert later, so
\* that a second task still sees the key of one that has just inserted it as new.
RecordEdge_ReadThenWrite(t) ==
    /\ At(t, "seen")
    /\ \/ EdgeKey(task[t]) \notin seenEdges
       \/ \E u \in Tasks : At(u, "graph") /\ EdgeKey(task[u]) = EdgeKey(task[t])
    /\ seenEdges' = seenEdges \cup {EdgeKey(task[t])}
    /\ task' = [task EXCEPT ![t].pc = "graph"]
    /\ UNCHANGED <<podCache, envoyCache, topology, handler,
                   events, restarts>>

\* seen.insert(edge_key) under the write lock: exactly one task sees it new.
RecordEdge(t) ==
    /\ At(t, "seen")
    /\ EdgeKey(task[t]) \notin seenEdges
    /\ seenEdges' = seenEdges \cup {EdgeKey(task[t])}
    /\ task' = [task EXCEPT ![t].pc = "graph"]
    /\ UNCHANGED <<podCache, envoyCache, topology, handler,
                   events, restarts>>

AlreadySeen(t) ==
    /\ At(t, "seen")
    /\ EdgeKey(task[t]) \in seenEdges
    /\ Step(t, Idle)

\* Mutant: try_write(), which gives up while a handler heals the graph.
UpdateTopology_TryWrite(t) ==
    /\ At(t, "graph")
    /\ topology' = IF \E h \in Handlers : handler[h] # Idle /\ handler[h].pc = "resolve"
                   THEN topology
                   ELSE RecordCall(topology, FlowOf(task[t]),
                                   task[t].input.src, task[t].input.dst)
    /\ task' = [task EXCEPT ![t] = Idle]
    /\ UNCHANGED <<podCache, envoyCache, seenEdges, handler, events, restarts>>

\* The two nodes and the flow, under one write lock.
UpdateTopology(t) ==
    /\ At(t, "graph")
    /\ topology' = RecordCall(topology, FlowOf(task[t]),
                              task[t].input.src, task[t].input.dst)
    /\ task' = [task EXCEPT ![t] = Idle]
    /\ UNCHANGED <<podCache, envoyCache, seenEdges, handler, events, restarts>>

-----------------------------------------------------------------------------
(* send_pod_event, send_service_pod_map and send_envoy_routes              *)

HandlerAt(h, pc) == handler[h] # Idle /\ handler[h].pc = pc

\* A handler with the entries it has left, or Idle when there are none.
InsertPods(pods) ==
    IF pods = << >> THEN Idle
    ELSE [pc |-> "insert", pods |-> pods, routes |-> << >>]

InsertRoutes(routes) ==
    IF routes = << >> THEN Idle
    ELSE [pc |-> "route", pods |-> << >>, routes |-> routes]

Accept(h, work) ==
    /\ handler[h] = Idle
    /\ handler' = [handler EXCEPT ![h] = work]
    /\ UNCHANGED <<podCache, envoyCache, seenEdges, topology, task,
                   events, restarts>>

SendPodApplied(h) == \E u \in PodUpdates : Accept(h, InsertPods(<<u>>))

SendServicePodMap(h) == \E m \in PodMaps : Accept(h, InsertPods(m))

SendEnvoyRoutes(h) == \E r \in RouteLists : Accept(h, InsertRoutes(r))

\* record_pod_deleted: one cache operation, so it needs no handler state.
SendPodDeleted ==
    /\ \E ip \in Ips : podCache' = [podCache EXCEPT ![ip] = None]
    /\ UNCHANGED <<envoyCache, seenEdges, topology, task, handler, events, restarts>>

\* Mutant: the graph is healed only when the address is new to the cache.
PodCacheInsert_Once(h) ==
    /\ HandlerAt(h, "insert")
    /\ LET pods == handler[h].pods
           ip == Head(pods)[1]
           info == Head(pods)[2]
       IN  /\ podCache' = [podCache EXCEPT ![ip] = info]
           /\ handler' = [handler EXCEPT ![h] =
                            IF info.app # Empty /\ podCache[ip] # info
                            THEN [@ EXCEPT !.pc = "resolve"]
                            ELSE InsertPods(Tail(pods))]
    /\ UNCHANGED <<envoyCache, seenEdges, topology, task,
                   events, restarts>>

\* record_pod_applied, first half: the mapping becomes visible to lookups ...
PodCacheInsert(h) ==
    /\ HandlerAt(h, "insert")
    /\ LET pods == handler[h].pods
           ip == Head(pods)[1]
           info == Head(pods)[2]
       IN  /\ podCache' = [podCache EXCEPT ![ip] = info]
           /\ handler' = [handler EXCEPT ![h] =
                            IF info.app # Empty THEN [@ EXCEPT !.pc = "resolve"]
                            ELSE InsertPods(Tail(pods))]
    /\ UNCHANGED <<envoyCache, seenEdges, topology, task,
                   events, restarts>>

\* ... second half: the graph is healed under the write lock.
ResolveNode(h) ==
    /\ HandlerAt(h, "resolve")
    /\ LET pods == handler[h].pods
           ip == Head(pods)[1]
           info == Head(pods)[2]
       IN  /\ topology' = resolve_unknown_node(topology, ip,
                                               [app |-> info.app, ns |-> info.ns])
           /\ handler' = [handler EXCEPT ![h] = InsertPods(Tail(pods))]
    /\ UNCHANGED <<podCache, envoyCache, seenEdges, task, events, restarts>>

EnvoyInsert(h) ==
    /\ HandlerAt(h, "route")
    /\ LET routes == handler[h].routes
       IN  /\ envoyCache' = [envoyCache EXCEPT ![Head(routes)[1]] = Head(routes)[2]]
           /\ handler' = [handler EXCEPT ![h] = InsertRoutes(Tail(routes))]
    /\ UNCHANGED <<podCache, seenEdges, topology, task,
                   events, restarts>>

-----------------------------------------------------------------------------
\* Core keeps everything in memory: a new process starts from Init.
Restart ==
    /\ restarts < MaxRestarts
    /\ restarts' = restarts + 1
    /\ podCache' = [ip \in Ips |-> None]
    /\ envoyCache' = [h \in Hosts |-> None]
    /\ seenEdges' = {}
    /\ topology' = NewTopology
    /\ task' = [t \in Tasks |-> Idle]
    /\ handler' = [h \in Handlers |-> Idle]
    /\ UNCHANGED events

TaskStep(t) ==
    \/ SkipHealthCheck(t) \/ DropUnresolved(t) \/ ResolveSource(t)
    \/ LookupEnvoy(t) \/ LookupPod(t) \/ LookupService(t)
    \/ RecordEdge(t) \/ AlreadySeen(t) \/ UpdateTopology(t)

HandlerStep(h) == PodCacheInsert(h) \/ ResolveNode(h) \/ EnvoyInsert(h)

Next ==
    \/ \E t \in Tasks : SendEbpfNetworkEvent(t) \/ TaskStep(t)
    \/ \E h \in Handlers : \/ SendPodApplied(h) \/ SendServicePodMap(h)
                           \/ SendEnvoyRoutes(h) \/ HandlerStep(h)
    \/ SendPodDeleted
    \/ Restart

Spec == Init /\ [][Next]_vars

\* The tokio runtime runs every task and handler; the Cluster Agent re-sends
\* the service-pod map every 30 seconds.  Strong fairness of the latter only
\* makes up for the bounded number of handler slots.
Fairness ==
    /\ \A t \in Tasks : WF_vars(TaskStep(t))
    /\ \A h \in Handlers : WF_vars(HandlerStep(h))
    /\ SF_vars(\E h \in Handlers : SendServicePodMap(h))

FairSpec == Spec /\ Fairness

-----------------------------------------------------------------------------
(* Properties                                                              *)

\* After any interleaving of event tasks with pod-map handlers the graph is
\* well formed: upstream and downstream hold the same flows, each under the
\* right key, and no flow has an end that is not a node.  resolve_unknown_node
\* rewrites all three maps, possibly in the middle of record_ebpf_event.
GraphConsistent == WellFormed(topology)

Named(n) == n.app \notin Ips \cup {Empty}

\* Only the source is guaranteed to be named ("drop the event" when the pod
\* cache has no name for it): no caller in the graph, or in a task that got
\* past the lookup, is a raw address or nameless, not even after healing or
\* when the cache entry disappears half way.
NamedSources ==
    /\ \A n \in NodeId : \A f \in Range(topology.downstream[n]) :
          Named(f.source_node)
    /\ \A t \in Tasks :
          (task[t] # Idle /\ ~ At(t, "source")) => Named(task[t].src)

Pending == {t \in Tasks : At(t, "graph")}

\* The places of the flows in the lists of their callers.
FlowSlots(index) == UNION {{n} \X DOMAIN index[n] : n \in NodeId}

\* The answer of seen.insert bounds the graph: every flow, in the graph or
\* about to be added, was paid for by an edge key of its own, however tasks race
\* for a key, and healing creates none.  The graph so shows one of the paths and
\* methods of an edge, although "the topology still gets the flow", as the
\* comment above the code says of the others.
FlowBudget ==
    Cardinality(FlowSlots(topology.downstream)) + Cardinality(Pending)
        <= Cardinality(seenEdges)

IsPair(f, src, dst) == f.source_node = src /\ f.destination_node = dst

\* The graph shows a call from src to dst, or a task is about to add it.
PairKnown(src, dst) ==
    \/ \E f \in Range(topology.downstream[src]) : IsPair(f, src, dst)
    \/ \E t \in Pending : IsPair(FlowOf(task[t]), src, dst)

\* "Only the first event per edge is added to the graph": an event that the
\* dedup cache is about to discard is one whose caller and callee are already
\* connected.  (Destinations in "unknown" are renamed later and not meant.)  It
\* is the least that "the topology still gets the flow" can mean for such an
\* event.
DedupLosesNoPair ==
    \A t \in Tasks :
        (/\ At(t, "seen")
         /\ EdgeKey(task[t]) \in seenEdges
         /\ task[t].dst.ns # Unknown)
            => PairKnown(task[t].src, task[t].dst)

\* What the Cluster Agent ever reports of an address, and of a virtual host.
PodEntries == PodUpdates \cup UNION {Range(m) : m \in PodMaps}
RouteEntries == UNION {Range(r) : r \in RouteLists}
InfosAt(ip) == {u[2] : u \in {v \in PodEntries : v[1] = ip}}
RoutesOf(host) == {r[2] : r \in {v \in RouteEntries : v[1] = host}}

AppNode(info) == [app |-> info.app, ns |-> info.ns]

\* The callees that record_ebpf_event may find for an event, over time: the
\* caches change between its lookups and from one event to the next.
Destinations(input) ==
    RoutesOf(StripPort(input.host))
        \cup {AppNode(i) : i \in {j \in InfosAt(input.dst) : HasApp(j)}}
        \cup {parse_k8s_host(StripPort(input.host))}

\* The service names that may stand for callee d in the edge key.
ServiceNames(input, d) ==
    {d.app} \cup {i.svc : i \in {j \in InfosAt(input.dst) : HasService(j)}}

\* Every edge that some event may be taken for.
ReadingsOf(input, d) ==
    {[src |-> AppNode(i), src_service |-> i.svc, dst |-> d, dst_service |-> s] :
        i \in {j \in InfosAt(input.src) : HasApp(j)}, s \in ServiceNames(input, d)}

Readings ==
    UNION {UNION {ReadingsOf(input, d) : d \in Destinations(input)} : input \in Inputs}

\* The clusters whose services name their applications: the key, made of
\* service names, stands for one caller and one callee.  A proxy that is the
\* address of two callees breaks it.
KeysTellPairsApart ==
    \A e, g \in Readings :
        (EdgeKey(e) = EdgeKey(g) /\ e.dst.ns # Unknown)
            => e.src = g.src /\ e.dst = g.dst

\* Flow f shows from both its ends, which the API reads from the two indexes.
Shown(t, f) == InDownstream(t, f) /\ InUpstream(t, f)

\* Flow f is still in the graph, up to the resolution of one of its ends.
Survives(f) ==
    \/ Shown(topology', f)
    \/ \E ip \in Ips, n \in NodeId :
          /\ StaleId(ip) \in {f.source_node, f.destination_node}
          /\ Shown(topology', Rewired(f, StaleId(ip), n))

\* No step but a restart loses a call that the graph already shows, seen from
\* either end; healing may only rename the unresolved address at one of them.
EdgesNeverLost ==
    [][restarts' = restarts =>
         \A n \in NodeId : \A f \in Range(topology.downstream[n]) :
            Survives(f)]_vars

KnownServices(t) == {n \in NodeId : HasNode(t, n)}

ShownCalls(t) == UNION {Range(t.downstream[n]) : n \in NodeId}

Abstract == INSTANCE ServiceGraph WITH
    Services   <- NodeId,
    Calls      <- Flow,
    Unresolved <- {StaleId(ip) : ip \in Ips},
    MayCall    <- {n \in NodeId : Named(n)},
    known      <- KnownServices(topology),
    calls      <- ShownCalls(topology)

\* The write path implements the abstract service graph: seen from outside,
\* record_ebpf_event adds one whole call of a named caller or does nothing,
\* and record_pod_applied replaces one address everywhere or does nothing.
ImplementsServiceGraph == Abstract!Spec

\* The addresses of pods behind a service, which every resync names.
MappedIps == {ip \in Ips : \A m \in PodMaps : \E i \in DOMAIN m : m[i][1] = ip}

\* A raw address of a running pod never stays in the graph: the periodic
\* service-pod map heals it, whatever order events and mappings arrive in.
StaleHealed ==
    \A ip \in MappedIps :
        HasNode(topology, StaleId(ip)) ~> ~ HasNode(topology, StaleId(ip))

=============================================================================
