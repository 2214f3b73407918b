------------------------------ MODULE RouteSync ------------------------------
(***************************************************************************)
(* How Core's EnvoyDomainCache follows the Envoy configurations of the     *)
(* cluster.  The Cluster Agent watches ConfigMaps; for one that holds an   *)
(* envoy.yaml it parses the routes and sends them to Core from a task of   *)
(* its own.  At its start and every 30 seconds it also lists all           *)
(* ConfigMaps and sends all their routes.  Core inserts the entries of a   *)
(* request one by one, several handlers at a time, and never removes one.  *)
(*                                                                         *)
(* The RPC that only reports a ConfigMap's name is left out: Core logs it. *)
(***************************************************************************)
EXTENDS Naturals, Sequences, SequencesExt, Bags

CONSTANTS
    Star, Svc,    \* the labels "*" and "svc"
    Labels,       \* the labels of host names
    Clusters,     \* names of Envoy clusters
    Empty,        \* the empty string: a cluster without a name
    ConfigMaps,   \* the ConfigMaps, in the order a list returns them
    Configs,      \* the envoy.yaml documents they may hold, see ConfigType
    NoYaml,       \* a ConfigMap without envoy.yaml, or one that does not parse
    Absent,       \* no ConfigMap, no cache entry
    Handlers,     \* slots for concurrent send_envoy_routes handlers
    MaxChanges,   \* bound on the changes of the ConfigMaps
    MaxRestarts   \* bound on the restarts of Core and the agent together

\* A host name is the sequence of its labels.
Host == Seq(Labels)

\* A document: its clusters with the address of the first endpoint, and the
\* virtual hosts of all listeners with the clusters of their routes.
ConfigType == [clusters: Seq([name: Clusters \cup {Empty}, addr: Host]),
               vhosts: Seq([domains: Seq(Host), routes: Seq(Clusters)])]

\* The domains that those documents may route.
Domains ==
    UNION {{c.addr : c \in Range(config.clusters)}
              \cup UNION {Range(vh.domains) : vh \in Range(config.vhosts)} :
           config \in Configs}

Service == [name: Labels, ns: Labels]
EnvoyRoute == [domain: Domains, service: Service]

IsWildcard(domain) == domain # << >> /\ domain[1] = Star

Names == Range(ConfigMaps)

\* Envoy accepts no wildcard as the address of an endpoint.
ASSUME RouteSyncAssumption ==
    /\ {Star, Svc} \subseteq Labels
    /\ Configs \subseteq ConfigType
    /\ \A config \in Configs : \A c \in Range(config.clusters) : ~ IsWildcard(c.addr)
    /\ {Absent, NoYaml} \cap Configs = {}
    /\ Absent \notin Service
    /\ ConfigMaps \in Seq(Names)
    /\ MaxChanges \in Nat
    /\ MaxRestarts \in Nat

-----------------------------------------------------------------------------
(* envoy_parser.rs                                                         *)

\* The two labels before "svc" are the service and its namespace.
svc_namespace_from_fqdn(host) ==
    LET i == SelectInSeq(host, LAMBDA l : l = Svc)
    IN  IF i < 3 THEN Absent ELSE [name |-> host[i - 2], ns |-> host[i - 1]]

Route(domain, service) == [domain |-> domain, service |-> service]

\* Pass 1: the named clusters whose first endpoint is a service.
Usable(cluster) ==
    cluster.name # Empty /\ svc_namespace_from_fqdn(cluster.addr) # Absent

ClusterRoute(cluster) ==
    IF Usable(cluster)
    THEN <<Route(cluster.addr, svc_namespace_from_fqdn(cluster.addr))>> ELSE << >>

ClusterRoutes(config) ==
    FlattenSeq([i \in DOMAIN config.clusters |-> ClusterRoute(config.clusters[i])])

\* cluster_map: of two clusters with one name the later replaces the earlier.
ClusterService(config, name) ==
    LET i == SelectLastInSeq(config.clusters, LAMBDA c : Usable(c) /\ c.name = name)
    IN  IF i = 0 THEN Absent ELSE svc_namespace_from_fqdn(config.clusters[i].addr)

\* Mutant: the routes of a virtual host are not looked up by cluster name.
UpstreamOf_FirstCluster(config, vh) ==
    LET i == SelectInSeq(config.clusters, Usable)
    IN  IF vh.routes = << >> \/ i = 0 THEN Absent
        ELSE svc_namespace_from_fqdn(config.clusters[i].addr)

\* The first route's cluster; "" is no cluster's name.
UpstreamOf(config, vh) ==
    IF vh.routes = << >> THEN Absent ELSE ClusterService(config, vh.routes[1])

\* Wildcards cannot be looked up as hosts.
DomainRoute(domain, service) ==
    IF IsWildcard(domain) THEN << >> ELSE <<Route(domain, service)>>

\* Mutant: virtual hosts of unknown clusters are not passed over.
VhostRoutes_Unchecked(config, vh) ==
    FlattenSeq([i \in DOMAIN vh.domains |->
                   DomainRoute(vh.domains[i], UpstreamOf(config, vh))])

\* Pass 2: the exact domains of a virtual host.
VhostRoutes(config, vh) ==
    IF UpstreamOf(config, vh) = Absent THEN << >>
    ELSE FlattenSeq([i \in DOMAIN vh.domains |->
                        DomainRoute(vh.domains[i], UpstreamOf(config, vh))])

parse_envoy_routes(config) ==
    IF config \in {Absent, NoYaml} THEN << >>
    ELSE ClusterRoutes(config) \o
         FlattenSeq([i \in DOMAIN config.vhosts |-> VhostRoutes(config, config.vhosts[i])])

-----------------------------------------------------------------------------
Contents == Configs \cup {NoYaml, Absent}

\* The parser as a function of what a ConfigMap holds.
RoutesOf == [content \in Contents |-> parse_envoy_routes(content)]

VARIABLES
    configMaps,  \* the cluster: what each ConfigMap holds
    watch,       \* changes the agent has not handled yet: <<ConfigMap, content>>
    rpcs,        \* the bag of route lists whose RPC has not reached Core
    resync,      \* the agent's resync task: Absent, or the routes it collected
    handler,     \* per handler of Core: the routes it has still to insert
    cache,       \* Core's EnvoyDomainCache
    claimed,     \* history: the documents that ever were in the cluster
    changes,     \* how often a ConfigMap changed
    restarts     \* how often Core or the agent was restarted

vars == <<configMaps, watch, rpcs, resync, handler, cache, claimed, changes, restarts>>

TypeOK ==
    /\ configMaps \in [Names -> Contents]
    /\ watch \in Seq(Names \X Contents)
    /\ IsABag(rpcs) /\ BagToSet(rpcs) \subseteq Seq(EnvoyRoute) \ {<< >>}
    /\ resync = Absent \/ resync \in Seq(EnvoyRoute) \ {<< >>}
    /\ handler \in [Handlers -> Seq(EnvoyRoute)]
    /\ cache \in [Domains -> Service \cup {Absent}]
    /\ claimed \subseteq Configs
    /\ changes \in 0 .. MaxChanges
    /\ restarts \in 0 .. MaxRestarts

Init ==
    /\ configMaps = [m \in Names |-> Absent]
    /\ watch = << >>
    /\ rpcs = EmptyBag
    /\ resync = Absent
    /\ handler = [h \in Handlers |-> << >>]
    /\ cache = [d \in Domains |-> Absent]
    /\ claimed = {}
    /\ changes = 0
    /\ restarts = 0

\* A ConfigMap is created, edited or deleted.
ConfigMapChanges(m, content) ==
    /\ changes < MaxChanges
    /\ changes' = changes + 1
    /\ content # configMaps[m]
    /\ configMaps' = [configMaps EXCEPT ![m] = content]
    /\ claimed' = claimed \cup ({content} \cap Configs)
    /\ watch' = Append(watch, <<m, content>>)
    /\ UNCHANGED <<rpcs, resync, handler, cache, restarts>>

\* on_apply, on_init_apply and on_delete: a deletion sends no routes.
ConfigMapHandler ==
    /\ watch # << >>
    /\ watch' = Tail(watch)
    /\ LET routes == RoutesOf[Head(watch)[2]]
       IN  rpcs' = IF routes = << >> THEN rpcs ELSE rpcs (+) SetToBag({routes})
    /\ UNCHANGED <<configMaps, resync, handler, cache, claimed, changes, restarts>>

\* send_envoy_routes_from_configmaps: list and parse ...
AllRoutes ==
    FlattenSeq([i \in DOMAIN ConfigMaps |-> RoutesOf[configMaps[ConfigMaps[i]]]])

ListConfigMaps ==
    /\ resync = Absent
    /\ AllRoutes # << >>
    /\ resync' = AllRoutes
    /\ UNCHANGED <<configMaps, watch, rpcs, handler, cache, claimed, changes, restarts>>

\* Mutant: the routes are sent once only, while the cache is empty.
SendRoutes_Once(h) ==
    /\ resync # Absent
    /\ handler[h] = << >>
    /\ \A d \in Domains : cache[d] = Absent
    /\ handler' = [handler EXCEPT ![h] = resync]
    /\ resync' = Absent
    /\ UNCHANGED <<configMaps, watch, rpcs, cache, claimed, changes, restarts>>

\* ... and send; the call is awaited, its outcome is only logged.
SendRoutes(h) ==
    /\ resync # Absent
    /\ handler[h] = << >>
    /\ handler' = [handler EXCEPT ![h] = resync]
    /\ resync' = Absent
    /\ UNCHANGED <<configMaps, watch, rpcs, cache, claimed, changes, restarts>>

\* The list or the call fails: until the next tick.
ResyncFails ==
    /\ resync # Absent
    /\ resync' = Absent
    /\ UNCHANGED <<configMaps, watch, rpcs, handler, cache, claimed, changes, restarts>>

\* The call of a watch task arrives, or fails and is not repeated.
Arrive(h, routes) ==
    /\ handler[h] = << >>
    /\ rpcs' = rpcs (-) SetToBag({routes})
    /\ handler' = [handler EXCEPT ![h] = routes]
    /\ UNCHANGED <<configMaps, watch, resync, cache, claimed, changes, restarts>>

Lose(routes) ==
    /\ rpcs' = rpcs (-) SetToBag({routes})
    /\ UNCHANGED <<configMaps, watch, resync, handler, cache, claimed, changes, restarts>>

\* One entry of Core's loop.
Insert(h) ==
    /\ handler[h] # << >>
    /\ cache' = [cache EXCEPT ![Head(handler[h]).domain] = Head(handler[h]).service]
    /\ handler' = [handler EXCEPT ![h] = Tail(@)]
    /\ UNCHANGED <<configMaps, watch, rpcs, resync, claimed, changes, restarts>>

\* The cache is in memory only.
CoreRestart ==
    /\ restarts < MaxRestarts
    /\ restarts' = restarts + 1
    /\ cache' = [d \in Domains |-> Absent]
    /\ handler' = [h \in Handlers |-> << >>]
    /\ UNCHANGED <<configMaps, watch, rpcs, resync, claimed, changes>>

Existing == {m \in Names : configMaps[m] # Absent}

\* A watcher error or the end of another informer ends the agent; the new one's
\* watch begins with the ConfigMaps that exist.
AgentRestart ==
    /\ restarts < MaxRestarts
    /\ restarts' = restarts + 1
    /\ \E order \in SetToSeqs(Existing) :
          watch' = [i \in DOMAIN order |-> <<order[i], configMaps[order[i]]>>]
    /\ rpcs' = EmptyBag
    /\ resync' = Absent
    /\ UNCHANGED <<configMaps, handler, cache, claimed, changes>>

Next ==
    \/ \E m \in Names, content \in Contents : ConfigMapChanges(m, content)
    \/ ConfigMapHandler
    \/ ListConfigMaps \/ (\E h \in Handlers : SendRoutes(h)) \/ ResyncFails
    \/ \E routes \in BagToSet(rpcs) : (\E h \in Handlers : Arrive(h, routes)) \/ Lose(routes)
    \/ \E h \in Handlers : Insert(h)
    \/ CoreRestart \/ AgentRestart

Spec == Init /\ [][Next]_vars

\* Watch, tasks and handlers make progress; the timer ticks for ever and a
\* resync that is tried again and again gets through sometimes.
FairSpec ==
    /\ Spec
    /\ WF_vars(ConfigMapHandler)
    /\ WF_vars(\E routes \in BagToSet(rpcs) :
                  (\E h \in Handlers : Arrive(h, routes)) \/ Lose(routes))
    /\ \A h \in Handlers : WF_vars(Insert(h))
    /\ WF_vars(ListConfigMaps)
    /\ SF_vars(\E h \in Handlers : SendRoutes(h))

-----------------------------------------------------------------------------
(* Properties                                                              *)

\* What Envoy itself does with a document: a request for a domain of a virtual
\* host goes to the endpoint of the cluster that its first route names, and the
\* endpoint's own address to the endpoint.
Forwards(config, domain, service) ==
    \E i \in DOMAIN config.clusters :
        LET c == config.clusters[i]
            addr == c.addr
        IN  /\ \E k \in DOMAIN addr : /\ k > 2 /\ addr[k] = Svc
                                      /\ service = [name |-> addr[k - 2], ns |-> addr[k - 1]]
            /\ \/ domain = addr
               \/ \E j \in DOMAIN config.vhosts :
                     LET vh == config.vhosts[j]
                     IN  /\ domain \in Range(vh.domains)
                         /\ vh.routes # << >> /\ vh.routes[1] = c.name

\* However requests overtake each other and restarts cut them short, the cache
\* sends a domain only where some document that was in the cluster sent it; and
\* a wildcard is never taken for a host name.
RoutesGenuine ==
    \A d \in Domains : cache[d] # Absent =>
        /\ ~ IsWildcard(d)
        /\ \E config \in claimed : Forwards(config, d, cache[d])

\* What the ConfigMaps of the moment say about a domain.
ClaimsOn(d) == {r.service : r \in {x \in Range(AllRoutes) : x.domain = d}}

\* The ConfigMaps change MaxChanges times at most, so they are at rest in the
\* end.  From then on a domain on which they agree is sent where they say:
\* lost, late and overtaken requests and restarts of Core or of the agent are
\* repaired by the periodic resync.
RoutesRecover ==
    <>[] (\A d \in Domains : \A s \in ClaimsOn(d) :
             ClaimsOn(d) = {s} => cache[d] = s)
=============================================================================
