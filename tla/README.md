# Qubit: a TLA+ model of the service-graph pipeline

Qubit watches a Kubernetes cluster: eBPF programs on every node capture HTTP
calls, a Cluster Agent follows pods, services, Envoy configurations and other
resources, and Core joins them into a graph of which service calls which, kept in
memory, copied to ClickHouse and shown by a UI and an MCP server. This directory
models that pipeline from the packet filter to the view, checks it with TLC on
small instances, and proves with TLAPS, for all instances, every safety property that
the passing runs check: of Core's write path, persistence, both caches, the informers,
the capture path, the queries and the views.

## 1. Inventory

| Component | State | Operations | Interacts with |
|---|---|---|---|
| eBPF program (`ebpf`) | a perf buffer per CPU | `try_http_filter` for every packet | loader |
| Loader (`ebpf-loader`, `ebpf-common`) | one batch per CPU | read a batch, parse each event, await `record_ebpf_event` | perf buffers, Core |
| Service graph (`core/src/topology`) | `nodes`, `upstream`, `downstream` behind one `RwLock` | `add_node`, `add_flow`, `add_k8s_event`, `resolve_unknown_node`, `get_subgraph` | both aggregators, queries |
| eBPF aggregator (`core/src/aggregator/ebpf_aggregator.rs`) | `seen_edges`; reads both caches | `record_ebpf_event` (one tokio task per event), flush timer | graph, caches, DAO |
| K8s aggregator (`core/src/aggregator/k8s_aggregator.rs`) | `pod_cache`, `service_cache` | `record_pod_applied/deleted`, `record_service_*`, `record_k8s_resource_event` | graph, DAO |
| Envoy cache (`core/src/envoy`) | virtual host → service | `get`, `insert` | eBPF aggregator |
| DAO (`core/src/dao`) | two ClickHouse tables with TTL | `add_events`, `add_k8s_resource_event`, page queries | flush timer, queries |
| gRPC and HTTP servers (`core/src/server`) | none | one handler per RPC or URL | all of the above |
| Cluster Agent watches (`cluster-agent/src/kubernetes`) | `ServiceRegistry` | `on_apply`, `on_delete`, `on_init_apply` per resource type | Kubernetes API, Core |
| Cluster Agent resync (`cluster-agent/src/server/mod.rs`) | none | every 30 s: list services, list pods, send the map; then the Envoy routes | Kubernetes API, Core |
| Envoy parser (`cluster-agent/.../envoy_parser.rs`) | none | YAML → routes | ConfigMap handler, resync |
| MCP server (`mcp-server`) | none | topology, dependencies, events of the last N minutes | Core, ClickHouse |
| UI (`ui/src`) | answers, selection, depth, page | fetch, select, set depth, turn the page | Core's HTTP endpoints |
| Configuration, load tests | – | – | – |

What is hard here: every eBPF event is a task of its own that reads the pod cache
up to three times and takes two locks one after the other; pod mappings arrive in
the middle of that and rewrite the graph; pod, route and event RPCs are sent by
independent tasks, are never retried and overtake each other; the periodic map is
computed from two lists of different age; a flush compares a snapshot with a query
answered before the insert, may fail after it was committed, and meets old rows
after a restart; perf buffers overflow while a call hangs; pages are counted and
read in two queries of a table that changes; answers reach a view whose selection
has moved on. `PROJECT.json` lists these hazards with their lines and the
properties aimed at them.

What makes the components correct:

* capture: Core hears of a request once, in order per CPU, with its method, path and Host header undistorted; whatever it does not hear of was given up at a known place;
* the graph: both indexes hold the same flows, each under its ends; no dangling edge; no call lost by healing; seen from outside, a set of calls that only grows and is renamed;
* ingestion: callers are named; deduplication hides no pair of services; raw addresses are healed eventually;
* persistence: a known key is never stored again; every call reaches the table eventually; attached events stay attached;
* pod and route caches: an entry was true at some time; after any failures the caches converge to the cluster;
* informers: an event makes one row at most, existing objects are reported, a missing custom resource stops nothing;
* queries and views: exactly the right services, drawable answers, no row missed without a reason.

## 2. Modules

| Module | Models |
|---|---|
| `Topology` | the graph as a value, its operations as operators, and what "well formed" means |
| `Ingest` | `record_ebpf_event` tasks against the handlers `send_pod_event`, `send_service_pod_map`, `send_envoy_routes` |
| `ServiceGraph` | abstract specification of the graph, which `Ingest` implements |
| `Store` | the flush timer, `add_events`, resource events, row expiry |
| `PodSync` | cluster, Cluster Agent watches and resync, pod RPCs, Core's pod cache |
| `RouteSync` | ConfigMaps, Envoy parser, watch and resync of routes, Core's route cache |
| `Informers` | the informers of all other kinds, the agent's `select!`, the way of an event to its row |
| `HttpHead`, `Capture` | the HTTP parser; packet filter, perf buffers and loader |
| `Subgraph`, `Views` | queries on the graph; the topology view that asks them |
| `Tables` | both event tables under concurrent writes, paged endpoints and event views, windows of the MCP tools |
| `MC*` | instances for TLC; the `.cfg` files next to them choose constants and properties. `MCIngestDirect` also has TLC evaluate the hypothesis of `DedupKeepsPairs`; `MCConsole` puts `Views` and `Tables` behind the tabs of the UI |
| `TopologyProofs` | theorems about the operations and the queries on a graph (`Topology`, `Subgraph`) |
| `IngestProofs`, `StoreProofs`, `PodSyncProofs`, `RouteSyncProofs`, `InformersProofs`, `CaptureProofs` | theorems about the module of the same name; `IngestProofs` also holds the refinement |
| `ViewsProofs` | theorems about `Views` and about `Tables` |

`Ingest`, `Store`, `Subgraph` and `Views` build on `Topology`: an operation that the
code performs under the lock is one application of its operators inside an action.

**Topology.** Hash maps are total functions, with `NoNode` and `<< >>` for absent
keys (the code never stores an empty `Vec`). `Vec`s of flows stay sequences,
because healing can put equal flows into them. `RecordCall` is the whole lock
section of `record_ebpf_event`; `resolve_unknown_node` is `MoveNode` for the nodes
and `Heal` (re-key, then rewrite every flow) for each index.

**Ingest.** A task is a record of the locals of `record_ebpf_event` with a program
counter; every read of a cache and every lock section is a step: `SkipHealthCheck`,
`DropUnresolved` or `ResolveSource`; `LookupEnvoy`; `LookupPod` (with
`parse_k8s_host` as the last resort); `LookupService`, which reads the pod cache
again; `RecordEdge` or `AlreadySeen`; `UpdateTopology`. A handler loops over the
entries of its request: `PodCacheInsert` makes the mapping visible, `ResolveNode`
heals the graph, `EnvoyInsert` adds a route. `Restart` is a new process: everything
is in memory. A host name is abstracted to its form (address, single label, name
with `.svc`, other name) and the parts the code extracts from it. The
"lock poisoned" branches are left out: nothing that runs under a lock can panic.

**ServiceGraph.** Two sets, `known` and `calls`, and three operations: `Observe` a
whole call, `Identify` an address everywhere at once, `Forget` all. `Ingest` maps
the graph's keys to `known` and the flows of its lists to `calls`.

**Store.** The flush is three steps, with the database's answers between them:
`TakeSnapshot` (a bag of the flows, under the read lock), `SelectExisting` (the
`SELECT DISTINCT` and the filter), `InsertBatch`. `FlushFails` covers an error of
either request, including an insert that was committed although its answer was
lost. `ExpireRow` is the table's TTL. `RecordFlow` and `ResolveAddress` are the two
lock sections of `Ingest`, free to happen at any time, `RecordFlow` once per call as
the dedup cache ensures. `RecordK8sResourceEvent` attaches the event and starts a
task whose write (`WriteK8sResourceEvent`) succeeds or is lost.

**PodSync.** The cluster (external) starts, changes and stops pods and creates,
changes and deletes services; each watch is a queue. `PodHandler` looks up the
registry and hands the RPC to a task: RPCs are a bag, delivered or lost in any
order. The resync task is `ListServices`, `ListPods`, `SendMap`, any of which may
fail. Core applies the map as one step here, since only the cache matters; `Ingest`
has the loop. A watch error ends the agent (`select!`), which is restarted:
`AgentRestart`. `Failures` says what an instance lets fail: Core, the agent, an RPC.

**RouteSync.** A document is its clusters, each with the labels of its first
endpoint's host name, and its virtual hosts; `parse_envoy_routes` makes the two
passes of the code over it. `ConfigMapHandler` starts a task per change,
`ListConfigMaps` and `SendRoutes` are the resync, and Core's handlers insert entry
by entry (`Insert`), several at a time. The domains are those that the documents
mention. The address of an endpoint is taken not to be a wildcard
(`RouteSyncAssumption`), which Envoy would not accept; only the second pass of the
parser looks for wildcards.

**Informers.** One flag and one queue per kind. `Handle` starts a task per event;
`End` is the end of an informer, which takes the agent with it if `select!` waits
for it (`Awaited`); `AgentStarts` replays the objects that exist through
`on_init_apply`. `Deliver`, `Lose` and `Write` are the RPC and Core's database task.

**HttpHead and Capture.** A segment is a sequence of cells (blank, line end, colon,
`Host:`, fragments of words) so that both copies, of `KernelPayload` cells in the
kernel and of `UserPayload` in the loader, can cut it anywhere. A request may say
`Host:` in its path, in other headers' names and in their values (`RequestType`); its
Host header is the one with no other name (`IsHostHeader`). `HttpFilter` puts a
request into its CPU's buffer or drops it when there is no room; each CPU's task
reads a batch (`ReadEvents`), and for every event ignores it or sends it and waits
(`SendEvent`, then `RpcSucceeds` or `RpcFails`, before or after `CoreAccepts`). A
read error changes nothing and is a stuttering step. The eBPF source at this commit
names the map's type `RingB` and imports `Per` (`ebpf/src/main.rs:7` and `:29`),
which aya does not define; the model takes the map to be the `PerfEventArray` that
its initialiser and the loader use.

**Subgraph and Views.** `Bfs` follows the nested loops of `get_subgraph`, each as
a recursive function over its rounds, since the order in which flows are visited
decides which call becomes part of the tree. The answers of the endpoints
and of `get_service_dependencies` are operators on top. What a subgraph answer promises (`IsTree`) has four parts: services hang
on one caller (`HangsByLevel`), calls show at both ends or at none (`ShownAtBothEnds`,
which excepts the calls to the root), nothing shows out of reach (`NothingBeyond`), and
the root shows what the MCP tool lists for it (`RootShowsAll`). `Views` has the state of
the topology view and its requests in flight: an event handler and the effects that React runs after it are one action,
`Serve` is Core's handler, `RawArrives` and `SubgraphArrives` apply an answer in
whichever order they come.

**Tables.** Batches are stamped (`Stamp`) and inserted later (`InsertBatch`);
`CountRows` and `FetchPage` are the two queries of one request. `ORDER BY` leaves rows
of one time in any order: `Slices` are the pages that `LIMIT` and `OFFSET` may yield.
The two tables are read by the same code, so one stands for either.

**Console.** `App` mounts one tab at a time. The topology tab reads the graph and the
event tabs the tables, so a behaviour of `MCConsole` stays with one tab and its part of
Core; what it checks is what `Views` and `Tables` would show on their own.

## 3. Runs

Passing runs:

| Run | Question |
|---|---|
| `ingest_heal` | calls by address and by name, a single pod event that reuses the address, a pod map, deletions: types, `GraphConsistent`, `FlowBudget`, `EdgesNeverLost` |
| `ingest_direct` | every pod behind the service it is named after, no proxy, a pod known without a name, one restart: `NamedSources`, `DedupLosesNoPair`, `StaleHealed`, `ImplementsServiceGraph` |
| `store_flush` | three calls of which two become equal by healing, two resource events, one expiry, one restart, any failures: types, `NeverStoredAgain`, `EventuallyStored`, `EventsStayAttached` |
| `podsync_recover` | two applications taking turns at one address, a service that loses its selector, four cluster changes, one restart of either side: types, `NoForeignInfo`, `CacheRecovers` |
| `capture_delivery` | a request too long, one that fits exactly and carries X-Forwarded-Host behind its Host header, and other segments on two CPUs, full buffers, failing calls, a restart: types, `OrderedPerCpu`, `NoSilentLoss`, `ReportFaithful`, `CpusIndependent` |
| `routes_recover` | two ConfigMaps, a virtual host that moves or is claimed twice, wildcards, unusable clusters, a restart of either side: types, `RoutesGenuine`, `RoutesRecover` |
| `informers` | a native kind, the kind Event, an installed and a missing custom resource, one watch error, a restart of Core: types, `OneRowPerEvent`, `AgentStaysUp`, `ExistingReported` |
| `console` | topology tab: a diamond of calls, a call back and a call by address, one failed or overtaking answer: types, `SubgraphExact`, `SubgraphIsTree`, `AnswersDrawable`, `SelectionShown`; event tabs: three rows written singly and in pairs, pages of one and two rows, expiry, a failed or repeated query: types, `PagingMissesOnlyLate`, `WindowExact` |

Runs that end in a violation, each a statement of a comment or of the README that
the code does not keep (`PROJECT.json`, "findings", has the quotes):

| Run | What TLC shows |
|---|---|
| `ingest_proxied` | two services that Envoy routes to, behind one proxy of another namespace, share an edge key: the call to the second one is discarded, and nothing in the graph shows it |
| `store_namespaces` | a flow of a second namespace is taken for stored and never written |
| `podsync_no_service` | after a restart of Core, the only failure that this instance allows, a pod without a service stays unknown |
| `capture_host` | the host reported of a request with X-Forwarded-Host before its Host header is the former's value |

Consequences of the code that need no run of their own:

* callers without a service have an empty `src_service` and share an edge key like the services behind a proxy;
* healing appends the stale node's flows without looking for equal ones, so a service called by address and by name has one flow twice (flows are deduplicated before they are added, as `topology.rs:12` says, but not when lists are merged); it is then written as two equal rows, since `add_events` compares the batch with the table and not with itself;
* only the *source* of a call is dropped while its address is unknown; a destination called by address is a raw address in the graph until `StaleHealed` comes true;
* a lost or overtaken delete keeps a dead pod's entry until the address is reused, and a domain removed from the Envoy configuration stays routed until Core restarts;
* selectors are matched across namespaces: a pod may be attributed to a service of another one, which is why `NoForeignInfo` allows the namespace of either;
* a selector that is removed from a service stays in the agent's registry; the periodic map, which lists services anew, does not use it;
* a cut path or host is reported like a complete one: `ReportFaithful` allows it when the request does not fit;
* a second path or method between two services is not added to the graph either: `FlowBudget` says that there is at most one flow per edge key, where the comment at `ebpf_aggregator.rs:105-106` lets the topology "still" get the flow;
* a subgraph answer that fails leaves the former subgraph on screen (the comment at `TopologyView.tsx:68` says that the view falls back to the full topology), and one that overtakes another replaces it, since answers are not compared with the selection; when the selected address is healed away, the answer is empty;
* between two pages, rows of one flush, which share their time, may be repeated or missed.

The other side of these violations is checked, too. `FlowBudget` holds because of the
early return that `ingest_proxied` shows: one flow per edge key. `ReportFaithful` speaks
of the host where nothing before the Host header says `Host:` (`HostFirst`), which is
what `capture_host` violates. `CacheRecovers` speaks of pods behind a service, and
`SelectionShown` of behaviours without failed or overtaking answers.

`DedupLosesNoPair` holds or fails depending on the cluster: the passing
configuration states the condition under which the code is right (every pod behind
its service, no proxy), the violating one drops it. `KeysTellPairsApart` states that
condition on the constants; `MCIngestDirect` has TLC evaluate it to true, and it is
false for the proxied cluster.

**Bounds.** Two tasks and one handler give every pairwise interleaving of an event
with another event and with a mapping; three events suffice for a raw address, its
named twin (on another path, so that healing merges two lists that differ) and a
repetition. Two addresses suffice for a caller and a callee.
`ingest_direct` has two events and a restart, since `StaleHealed` needs an event
that is overtaken by a mapping and nothing more. In `store_flush` the three calls
are the smallest set with a pair that healing merges and a pair that differs in
the method only. In `podsync_recover` four changes allow a service to appear and
an address to change hands (start, stop, start). In `capture_delivery` three packets
fill a buffer of two and make a batch of two with one more behind it, and the two
copies cut the long request at different places of its Host header. In `routes_recover`
two changes let one document replace another or contradict it, and two handlers let
their entries interleave. In `informers` three changes let an object come, go and
come again. In `console` four steps suffice for a diamond or for a cycle with healing,
with depths 1 and 2, and for a selection, a change of depth and a refresh. Three rows
give pages beyond the first whose rows an insert before them shifts; a minute lasts
one unit and integers wrap at four, so that windows of zero to three minutes cover fresh, aged and expired rows. `MaxEvents`, `MaxRestarts`, `MaxChanges`,
`MaxErrors`, `MaxExpired`, `MaxResourceEvents`, `MaxPackets`, `MaxSteps`,
`MaxFaults`, `MaxRows`, `MaxTime` and `MaxRefetch` are the only bounds on behaviours;
all are guards of the actions that count. Task slots are symmetric in the run
without liveness properties. Deadlock is not checked where a bounded behaviour may
come to rest: no packet, change, request or tick is left, and nothing in the system
has to go on.

**Fairness.** `Ingest`: every task and handler keeps running (the tokio runtime),
and the service-pod map is sent again and again (the 30 s ticker); strong fairness
of the latter makes up for the bounded number of handler slots. `Store`: the timer
ticks, and neither the query nor the insert fails for ever. `PodSync` and
`RouteSync`: watches, handlers and RPC tasks make progress (an RPC is delivered *or*
lost), the resync ticks, and its requests do not fail for ever (strong fairness:
failures interrupt it). `Informers`: the queues are handled, a refused watch
returns, and Kubernetes starts a stopped agent. `Capture`: the reader task of one CPU
runs and its calls return; nothing is assumed of the other CPUs, whose calls may
hang, nor of the kernel. `Views` and `Tables` have safety properties only. Nothing is
assumed of pods, services, events or restarts.

## 4. Proofs

`TopologyProofs` sees vectors of flows as sets (`Range`) and shows what each
operation does to them: `PushNew` adds the flow; `Rekey` gives a node the flows of
all nodes renamed to it; `Heal` gives it the rewired ones (`HealRange`, and its two
readings `HealedFlow` and `FlowHealed`). From these, `RecordCallFacts`,
`ResolveWellFormed` and `AddK8sEventWellFormed`: each lock section maps well-formed
graphs to well-formed graphs, for all graphs and arguments.

`IngestProofs` proves, for all values of the constants that satisfy
`TopologyAssumption` and `IngestAssumption`:

* `TypeCorrect`: `Spec => []TypeOK`, which includes that a handler inside its loop
  has an entry to work on;
* `GraphAlwaysConsistent`: `Spec => []GraphConsistent`;
* `SourcesNamed`: `Spec => []NamedSources`;
* `EdgesPersist`: `Spec => EdgesNeverLost`, an action property;
* `WritePathRefines`: `Spec => ImplementsServiceGraph`. Its lemmas restate the
  operations on the two sets of the abstract specification: `add_node` and
  `add_flow` add an element, `resolve_unknown_node` replaces one node in both. With
  `StepEffect` and the invariants above, `UpdateTopology` is `Observe` of a call with
  a named caller, `ResolveNode` is `Identify` when the address was a node and no step
  otherwise, `Restart` is `Forget`, and every other step leaves both sets alone;
* `BudgetKept`: `Spec => []FlowBudget`. Its invariant `Paid` adds that the three sets
  it counts are finite. `RecordCall` adds at most one place to the lists
  (`RecordCallSlots`); healing adds none (`HealSlots`: the places after it are the
  image of those before it under a function, so there are no more of them);
* `QueriesFaithful`: in every reachable state, for every root and depth, a subgraph
  answer is exact, a tree below the root and complete at the root. `Views` lets calls and healings happen freely; this says
  the same of the graphs that the write path builds;
* `DedupKeepsPairs`: `KeysTellPairsApart => (Spec => []DedupLosesNoPair)`. The
  hypothesis says that of all edges which some event may be taken for, two with one
  key have the same ends. The invariant `DedupInv` says that the caches hold only what
  some request put there (`CachesKnown`), that the locals of a task are one of those
  readings of its event (`TasksRead`), and that every key of a known callee in
  `seen_edges` belongs to a pair that is in the graph or that a task between the two
  locks is about to put there (`SeenKnown`).

The inductive invariant is `IInv == TypeOK /\ GraphConsistent`. `GraphConsistent`
alone is not inductive: what the next lock section writes depends on the locals of
tasks and handlers, whose types must be known. `NamedSources` speaks of the graph
and of the tasks past the lookup, and is inductive relative to `IInv`; the step for
healing rests on a caller never being a stale id, which is where the assumption
that names are not addresses is used. `EdgesPersist` uses that a flow is listed
under its own source (`KeyedByEndpoint`) to find it again after renaming, and that
the indexes mirror each other after the step to find it in both.
`StepEffect` splits a step by what it does to the graph, one case per action.

`StoreProofs`, under `TopologyAssumption` and `StoreAssumption`: `TypeCorrect`,
`NoKeyStoredAgain` (`Spec => NeverStoredAgain`) and `AttachedForGood`
(`Spec => EventsStayAttached`). The inductive invariant adds two things to the
types. The graph is well formed, or the snapshot need not be a bag: a flow counts
under its source. And `BatchIsNew`: between query and insert, no key of the batch is
in the table. That is what carries the answer of the query over the steps in
between; it survives expiry and failures because the timer's task alone writes rows.
`AttachedForGood` follows one node through each lock section; healing keeps the data
of every node but the stale one, of which the property does not speak.

`PodSyncProofs`, under `PodSyncAssumption`: `TypeCorrect` and `NeverForeign`
(`Spec => []NoForeignInfo`). An entry of the cache can be wrong only if what was sent
was, so the invariant follows the information backwards: what the cluster holds
(`PodsHeld`), the watch (`WatchHeld`), the list of the resync task (`ListHeld`) and the
RPCs (`RpcsTruthful`) was true of the address at some time, and the registry knows
only services with a selector (`RegistrySelects`).

`RouteSyncProofs`, under `RouteSyncAssumption`: `TypeCorrect` and `RoutesStayGenuine`
(`Spec => []RoutesGenuine`). Here too the invariant places the claim wherever a
route is on its way (`SourcesTrue`, `RoutesTrue`, `CacheTrue`); the main lemma,
`ParserTrue`, shows for every document that `parse_envoy_routes` returns only routes
that the document states, through both passes and `cluster_map`.

`InformersProofs`, under `InformersAssumption`: `TypeCorrect` and `NoRowTwice`
(`Spec => []OneRowPerEvent`). The invariant counts, event by event, the copies in the
watch, the calls, Core's tasks and the table against those emitted (`Balanced`); it
needs that a queue holds events of its own kind only and is empty without an informer
(`WatchShape`), that lists are finite, and that deletions of Events are never sent
(`AllSent`).

`CaptureProofs`, under `HttpHeadAssumption` and `CaptureAssumption`: `TypeCorrect`, `CpuOrder`
(`Spec => []OrderedPerCpu`) and `LossAccounted` (`Spec => []NoSilentLoss`). Order at
Core's end says nothing about what comes next, so the invariant orders a CPU's whole
line: its batch before its buffer, both by timestamp (`Queued`), all of it behind what
Core has, except the event of a call that Core has accepted and that has not returned
(`Delivered`); what Core has was captured (`Genuine`), and an accepted call carries
something that Core has (`Answered`), so that finishing it loses nothing.
`ReportsTrue` (`Spec => []ReportFaithful`) has an invariant of its own, `Unaltered`:
every event in a buffer or batch is what the kernel kept of its packet, and every
report follows from such an event. The rest is about the parser. Two cuts, one after
the other, leave a prefix of the request; a word that is sought in a prefix is found
where it is in the whole, or runs to the end; and where nothing before the Host header
says `Host:`, the first `Host:` of a prefix is that header's, unless the cut lies before
it. Method and path need only that they hold no blank (`RequestType`); the host needs
`HostFirst`, and the theorem says nothing of the host of other requests.

`TopologyProofs` also has the queries. A loop over a vector is a recursive function,
and what it computes is shown by induction on its rounds: `Visit` for one flow,
`Expand` for the flows of a node, `Hop` for a frontier, `Bfs` for all rounds. The
invariant of the last one: what is visited after k rounds is what k calls reach, the
frontier is what k calls reach and k - 1 do not, and every visited node but the root
has one edge into it, from a node one call closer. From that, the nodes of an answer
(`SubgraphExactNodes`) and its shape (`SubgraphTree`), for every well-formed graph:
a call along an edge of the tree passes the filter at both of its ends, and the root's
lists are not filtered.

`ViewsProofs`, under `TopologyAssumption` and `ViewsAssumption`: `TypeCorrect`,
`QueriesExact`, `QueriesGiveTrees`, `EverythingDrawable` and `SelectionNeverLost`. The inductive invariant is
`Typed /\ WellFormed(topology) /\ SelectionAwaited`. `Typed` takes drawable
answers as the type of what is stored and under way, since an answer outlives the graph that it was made from.
`SelectionAwaited` is stronger than `SelectionShown`: while nothing has failed or
been overtaken, the *last* subgraph request is for the selection, or there is none
and the selection is shown. Without that, an earlier answer could undo what a later
one brought.

`ViewsProofs` also proves, under `TablesAssumption`, `EventTablesTyped`
(`TablesSpec => []TablesTypeOK`), `PagingSound` (`TablesSpec => []PagingMissesOnlyLate`)
and `WindowsExact` (`TablesSpec => []WindowExact`). The inductive invariant is
`EInv == TablesTypeOK /\ Supply /\ Paged /\ Counted`. `Paged`
says where the rows are that a reader must not miss: behind as many rows of the table
as the pages so far cover. Inserts only push them further back; and a row that expires
is older than one that has not and is still owed, so it stands behind that one and
pulls nothing forward. `Counted` says that a count is too low by no more
than the rows inserted since, which is what the last page can miss. `Supply` counts
rows and pending writes against the rows written, for the types.

Induction over data is done without predicates as parameters, on sets of numbers
(`SetInduction`, `LeastNumber`, `GreatestNumber`, stated where they are used). Counting
over finite sets goes through the library's facts about cardinality.

Only model-checked:

* all liveness (`StaleHealed`, `EventuallyStored`, `CacheRecovers`, `RoutesRecover`,
  `AgentStaysUp`, `ExistingReported`, `CpusIndependent`), which the prover does not
  handle;
* the properties of the four runs that end in a violation. For `DedupLosesNoPair`
  both sides are covered: the proof under its hypothesis, the run without it.

## 5. Not modelled

* `service_cache` and the service RPCs: written, never read. The RPC that reports a ConfigMap's name is only logged.
* `DAO::add_event`, `fetch_events_by_service` and `get_ebpf_events_in_range`: no caller.
* Configuration, start-up and the loading of the eBPF program; the load tests.
* Pods with several or no labels, host-network pods that share an address.
* YAML and protobuf encodings: a document is its parts, or one that does not parse.
* A page size of zero, which the endpoints accept and the views never ask for.
* The network view while it is live: it shows the first page only.
* The buttons of the event views that jump to the first or the last page.
* A call that Core accepts after the client has seen it fail.
* Layout, drawing and wording of the UI and of the MCP tools' text.
* Logging, ports (always 0 in the table), nanoseconds, service types.

## 6. Plan

1. Core write path (`Topology`, `Ingest`), persistence (`Store`), pod cache
   (`PodSync`), proofs of the write path: done.
2. Abstract specification and refinement (`ServiceGraph`, `IngestProofs`): done.
3. Routes (`RouteSync`), other informers (`Informers`), capture (`HttpHead`,
   `Capture`), queries and views (`Subgraph`, `Views`, `Tables`): done.
4. Proofs of all safety properties that passing runs check: done.
5. Not planned: proofs of liveness. Worth adding when the code changes: an abstract
   specification of the event tables, and pods with several labels.
