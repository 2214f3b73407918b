------------------------------- MODULE PodSync -------------------------------
(***************************************************************************)
(* How Core's pod cache follows the cluster: the Cluster Agent watches     *)
(* pods and services, sends one RPC per pod change from a task of its own  *)
(* (so they overtake each other), and every 30 seconds lists services,     *)
(* then pods, and sends the service-pod map.  RPCs fail, the agent and     *)
(* Core restart, pods come and go and their addresses are reused.          *)
(*                                                                         *)
(* A watch delivers the changes of one resource type in order; the two     *)
(* watches are independent.  An error on a watch ends the agent, which is  *)
(* started again: AgentRestart.  Core applies the entries of a map one by  *)
(* one (module Ingest); here, where only the cache counts, as one step.    *)
(* Service RPCs are left out: Core stores them in service_cache, which     *)
(* nothing reads.                                                          *)
(***************************************************************************)
EXTENDS Naturals, Sequences, FiniteSets, Bags

CONSTANTS
    Ips,          \* pod addresses
    Pods,         \* what a pod tells of itself: its namespace and app label
    Services,     \* services: name, namespace, and the app label selected
    None,         \* no pod, no cache entry, no selector
    Empty,        \* the empty string
    MaxChanges,   \* bound on the changes of the cluster
    MaxRestarts,  \* bound on the restarts of Core and the agent together
    Failures      \* what may fail: "core" and "agent" restart, an "rpc" is lost

ASSUME PodSyncAssumption ==
    /\ \A p \in Pods : DOMAIN p = {"ns", "app"}
    /\ \A s \in Services : DOMAIN s = {"name", "ns", "selector"}
    /\ None \notin Pods \cup Services
    /\ MaxChanges \in Nat
    /\ MaxRestarts \in Nat
    /\ Failures \subseteq {"core", "agent", "rpc"}

Names == {s.name : s \in Services} \cup {p.app : p \in Pods} \cup {Empty}
PodInfo == [ns: {p.ns : p \in Pods} \cup {s.ns : s \in Services},
            app: Names, svc: Names]

VARIABLES
    pods,      \* the cluster: which pod runs at an address
    services,  \* the cluster: the services that exist
    podWatch,  \* pod changes the agent has not handled yet: <<ip, pod or None>>
    svcWatch,  \* service changes not handled yet: <<service, exists>>
    registry,  \* the agent's ServiceRegistry
    rpcs,      \* the bag of pod RPCs on their way: <<ip, PodInfo or None>>
    resync,    \* the agent's resync task: its pc and the lists it holds
    podCache,  \* Core's pod cache
    held,      \* history: the pods that ever ran at an address
    changes,   \* how often the cluster changed
    restarts   \* how often Core or the agent was restarted

cluster == <<pods, services, held, changes>>
agent == <<podWatch, svcWatch, registry, resync>>
vars == <<pods, services, podWatch, svcWatch, registry, rpcs, resync, podCache,
          held, changes, restarts>>

Asleep == [pc |-> "sleep", services |-> {}, pods |-> [ip \in Ips |-> None]]

TypeOK ==
    /\ pods \in [Ips -> Pods \cup {None}]
    /\ services \subseteq Services
    /\ podWatch \in Seq(Ips \X (Pods \cup {None}))
    /\ svcWatch \in Seq(Services \X BOOLEAN)
    /\ registry \subseteq Services
    /\ IsABag(rpcs) /\ BagToSet(rpcs) \subseteq Ips \X (PodInfo \cup {None})
    /\ resync \in [pc: {"sleep", "services", "pods"}, services: SUBSET Services,
                   pods: [Ips -> Pods \cup {None}]]
    /\ podCache \in [Ips -> PodInfo \cup {None}]
    /\ held \in [Ips -> SUBSET Pods]
    /\ changes \in 0 .. MaxChanges
    /\ restarts \in 0 .. MaxRestarts

\* The agent and Core start in an empty cluster.
Init ==
    /\ pods = [ip \in Ips |-> None]
    /\ services = {}
    /\ podWatch = << >>
    /\ svcWatch = << >>
    /\ registry = {}
    /\ rpcs = EmptyBag
    /\ resync = Asleep
    /\ podCache = [ip \in Ips |-> None]
    /\ held = [ip \in Ips |-> {}]
    /\ changes = 0
    /\ restarts = 0

-----------------------------------------------------------------------------
(* The cluster                                                             *)

Change ==
    /\ changes < MaxChanges
    /\ changes' = changes + 1
    /\ UNCHANGED <<registry, rpcs, resync, podCache, restarts>>

PodStarts(ip, p) ==
    /\ Change
    /\ pods[ip] = None
    /\ pods' = [pods EXCEPT ![ip] = p]
    /\ held' = [held EXCEPT ![ip] = @ \cup {p}]
    /\ podWatch' = Append(podWatch, <<ip, p>>)
    /\ UNCHANGED <<services, svcWatch>>

\* Any change of a running pod (its status, or its labels) is another "apply".
PodChanges(ip, p) ==
    /\ Change
    /\ pods[ip] # None
    /\ p.ns = pods[ip].ns
    /\ pods' = [pods EXCEPT ![ip] = p]
    /\ held' = [held EXCEPT ![ip] = @ \cup {p}]
    /\ podWatch' = Append(podWatch, <<ip, p>>)
    /\ UNCHANGED <<services, svcWatch>>

PodStops(ip) ==
    /\ Change
    /\ pods[ip] # None
    /\ pods' = [pods EXCEPT ![ip] = None]
    /\ podWatch' = Append(podWatch, <<ip, None>>)
    /\ UNCHANGED <<services, svcWatch, held>>

\* "namespace/name", by which services are told apart.
SameKey(s, r) == s.ns = r.ns /\ s.name = r.name

Without(set, s) == {r \in set : ~ SameKey(s, r)}

\* A service is created, or its selector is changed or removed.
ServiceApplied(s) ==
    /\ Change
    /\ s \notin services
    /\ services' = Without(services, s) \cup {s}
    /\ svcWatch' = Append(svcWatch, <<s, TRUE>>)
    /\ UNCHANGED <<pods, podWatch, held>>

ServiceDeleted(s) ==
    /\ Change
    /\ s \in services
    /\ services' = services \ {s}
    /\ svcWatch' = Append(svcWatch, <<s, FALSE>>)
    /\ UNCHANGED <<pods, podWatch, held>>

-----------------------------------------------------------------------------
(* The agent's watches                                                     *)

\* Mutant: services without a selector are not skipped.
HasSelector_Any(s) == TRUE

\* Services without a selector manage no pods.
HasSelector(s) == s.selector # None

\* Every label of the selector is one of the pod's (of no labels, all are);
\* namespaces are not compared.
Selects(s, p) == s.selector \in {None, p.app}

\* An entry replaces the one of the same key; a service without a selector is
\* ignored, even if it had one before.
register(reg, s) == IF HasSelector(s) THEN Without(reg, s) \cup {s} ELSE reg

deregister(reg, s) == Without(reg, s)

ServiceHandler ==
    /\ svcWatch # << >>
    /\ svcWatch' = Tail(svcWatch)
    /\ LET s == Head(svcWatch)[1]
           exists == Head(svcWatch)[2]
       IN  registry' = IF exists THEN register(registry, s)
                       ELSE deregister(registry, s)
    /\ UNCHANGED <<pods, services, podWatch, rpcs, resync, podCache, held,
                   changes, restarts>>

\* find_service_for_pod returns the first match of a hash map, that is any;
\* without one the name comes from the pod's labels.
InfosOf(p) ==
    LET matching == {s \in registry : Selects(s, p)}
    IN  IF matching = {} THEN {[ns |-> p.ns, app |-> p.app, svc |-> Empty]}
        ELSE {[ns |-> p.ns, app |-> s.name, svc |-> s.name] : s \in matching}

\* on_apply and on_delete: the RPC is sent by a new task.
PodHandler ==
    /\ podWatch # << >>
    /\ podWatch' = Tail(podWatch)
    /\ LET ip == Head(podWatch)[1]
           p == Head(podWatch)[2]
       IN  IF p = None THEN rpcs' = rpcs (+) SetToBag({<<ip, None>>})
           ELSE \E info \in InfosOf(p) :
                   rpcs' = rpcs (+) SetToBag({<<ip, info>>})
    /\ UNCHANGED <<pods, services, svcWatch, registry, resync, podCache, held,
                   changes, restarts>>

-----------------------------------------------------------------------------
(* The RPCs of the watches                                                 *)

\* record_pod_applied or record_pod_deleted, on the cache.
Deliver(m) ==
    /\ m \in BagToSet(rpcs)
    /\ rpcs' = rpcs (-) SetToBag({m})
    /\ podCache' = [podCache EXCEPT ![m[1]] = m[2]]
    /\ UNCHANGED <<pods, services, podWatch, svcWatch, registry, resync, held,
                   changes, restarts>>

\* "Failed to send pod ...": logged, not retried.
Lose(m) ==
    /\ "rpc" \in Failures
    /\ m \in BagToSet(rpcs)
    /\ rpcs' = rpcs (-) SetToBag({m})
    /\ UNCHANGED <<pods, services, podWatch, svcWatch, registry, resync,
                   podCache, held, changes, restarts>>

-----------------------------------------------------------------------------
(* send_initial_pod_service_map, at the start and every 30 seconds         *)

ResyncStep(next) ==
    /\ resync' = next
    /\ UNCHANGED <<pods, services, podWatch, svcWatch, registry, rpcs, held,
                   changes, restarts>>

ListServices ==
    /\ resync.pc = "sleep"
    /\ ResyncStep([resync EXCEPT !.pc = "services", !.services = services])
    /\ UNCHANGED podCache

ListPods ==
    /\ resync.pc = "services"
    /\ ResyncStep([resync EXCEPT !.pc = "pods", !.pods = pods])
    /\ UNCHANGED podCache

\* The services of the map that claim the pod listed at an address.
Claiming(ip) ==
    {s \in resync.services : /\ HasSelector(s)
                             /\ resync.pods[ip] # None
                             /\ Selects(s, resync.pods[ip])}

\* Mutant: name and namespace, both strings, are swapped.
MapInfo_Swapped(s) == [ns |-> s.name, app |-> s.ns, svc |-> s.ns]

\* An entry names the service, also as application, and the service's
\* namespace.  Of several entries for an address the last one stays.
MapInfo(s) == [ns |-> s.ns, app |-> s.name, svc |-> s.name]

\* Which entry stays for each address: any of those claiming it, if any does.
Winners ==
    {w \in [Ips -> Services \cup {None}] :
        \A ip \in Ips : IF Claiming(ip) = {} THEN w[ip] = None
                        ELSE w[ip] \in Claiming(ip)}

\* Mutant: only addresses that the cache does not know are inserted.
SendMap_OnlyNew ==
    /\ resync.pc = "pods"
    /\ \E w \in Winners :
          podCache' = [ip \in Ips |-> IF w[ip] = None \/ podCache[ip] # None
                                      THEN podCache[ip] ELSE MapInfo(w[ip])]
    /\ ResyncStep(Asleep)

SendMap ==
    /\ resync.pc = "pods"
    /\ \E w \in Winners :
          podCache' = [ip \in Ips |-> IF w[ip] = None THEN podCache[ip]
                                      ELSE MapInfo(w[ip])]
    /\ ResyncStep(Asleep)

\* A list or the RPC fails: logged, until the next tick.
ResyncFails ==
    /\ resync.pc # "sleep"
    /\ ResyncStep(Asleep)
    /\ UNCHANGED podCache

-----------------------------------------------------------------------------
(* Restarts                                                                *)

CoreRestart ==
    /\ "core" \in Failures
    /\ restarts < MaxRestarts
    /\ restarts' = restarts + 1
    /\ podCache' = [ip \in Ips |-> None]
    /\ UNCHANGED <<pods, services, podWatch, svcWatch, registry, rpcs, resync,
                   held, changes>>

\* The new agent's watches begin with the existing objects: services are
\* registered (on_init_apply), pods are not sent.  RPC tasks die with it.
AgentRestart ==
    /\ "agent" \in Failures
    /\ restarts < MaxRestarts
    /\ restarts' = restarts + 1
    /\ podWatch' = << >>
    /\ svcWatch' \in {q \in [1 .. Cardinality(services) -> services \X {TRUE}] :
                         {q[i][1] : i \in DOMAIN q} = services}
    /\ registry' = {}
    /\ rpcs' = EmptyBag
    /\ resync' = Asleep
    /\ UNCHANGED <<pods, services, podCache, held, changes>>

Next ==
    \/ \E ip \in Ips : \/ PodStops(ip)
                       \/ \E p \in Pods : PodStarts(ip, p) \/ PodChanges(ip, p)
    \/ \E s \in Services : ServiceApplied(s) \/ ServiceDeleted(s)
    \/ ServiceHandler \/ PodHandler
    \/ \E m \in BagToSet(rpcs) : Deliver(m) \/ Lose(m)
    \/ ListServices \/ ListPods \/ SendMap \/ ResyncFails
    \/ CoreRestart \/ AgentRestart

Spec == Init /\ [][Next]_vars

\* Watches and RPC tasks make progress, the resync timer ticks for ever, and
\* lists and maps that are sent again and again sometimes get through.
FairSpec ==
    /\ Spec
    /\ WF_vars(ServiceHandler)
    /\ WF_vars(PodHandler)
    /\ WF_vars(\E m \in BagToSet(rpcs) : Deliver(m) \/ Lose(m))
    /\ WF_vars(ListServices)
    /\ SF_vars(ListPods)
    /\ SF_vars(SendMap)

-----------------------------------------------------------------------------
(* Properties                                                              *)

\* The services that select the pod at an address, whatever their namespace.
Backers(ip) ==
    {s \in services : pods[ip] # None /\ s.selector = pods[ip].app}

\* Once the cluster is at rest (the changes are bounded, so it will be) the
\* cache maps the address of every pod behind a service to a service that
\* selects it, for good: whatever was lost, overtaken or stale before, and
\* whoever was restarted, the periodic map repairs it.
CacheRecovers ==
    <>[] (\A ip \in Ips : Backers(ip) # {} =>
             podCache[ip] \in {MapInfo(s) : s \in Backers(ip)})

\* An address is never attributed to a pod that did not run there: an entry
\* carries the label of a pod that held the address, or names a service that
\* selects that pod; the namespace is the pod's or, from the map, the
\* service's, and the two differ if a service selects pods of another one.
Describes(info, p) ==
    \/ info = [ns |-> p.ns, app |-> p.app, svc |-> Empty]
    \/ \E s \in Services : /\ s.selector = p.app
                           /\ info.ns \in {p.ns, s.ns}
                           /\ info.app = s.name
                           /\ info.svc = s.name

Truthful(ip, info) == \E p \in held[ip] : Describes(info, p)

NoForeignInfo ==
    \A ip \in Ips : podCache[ip] # None => Truthful(ip, podCache[ip])

\* The map is re-sent "so Core recovers correctly after a restart": a pod that
\* keeps running is in the cache in the end.  Meant for instances in which only
\* Core fails; a lost RPC or a restart of the agent may hide a pod as well.
RunningPodsKnown ==
    \A ip \in Ips : (<>[] (pods[ip] # None)) => <>[] (podCache[ip] # None)
=============================================================================
