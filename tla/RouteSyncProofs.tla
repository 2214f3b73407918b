-------------------------- MODULE RouteSyncProofs --------------------------
(***************************************************************************)
(* Core's route cache, for any documents, ConfigMaps, handlers, changes    *)
(* and restarts: types, and that the cache sends a domain only where some  *)
(* document sent it.                                                       *)
(***************************************************************************)
EXTENDS RouteSync, Integers, NaturalsInduction, WellFoundedInduction, FiniteSetTheorems,
        SequenceTheorems, TLAPS

-----------------------------------------------------------------------------
(* Bags, as sets of their elements                                         *)

\* Adding an element yields a bag with the elements of the old one and it.
LEMMA BagAddFacts ==
    ASSUME NEW B, IsABag(B), NEW x
    PROVE  /\ IsABag(B (+) SetToBag({x}))
           /\ BagToSet(B (+) SetToBag({x})) = BagToSet(B) \cup {x}
  BY DEF IsABag, BagToSet, SetToBag, (+)

\* Removing an element yields a bag and adds no element.
LEMMA BagRemoveFacts ==
    ASSUME NEW B, IsABag(B), NEW x
    PROVE  /\ IsABag(B (-) SetToBag({x}))
           /\ BagToSet(B (-) SetToBag({x})) \subseteq BagToSet(B)
           /\ \A y \in BagToSet(B (-) SetToBag({x})) : (B (-) SetToBag({x}))[y] <= B[y]
  BY DEF IsABag, BagToSet, SetToBag, (-)

\* The empty bag is one, and has no elements.
LEMMA EmptyBagFacts == IsABag(EmptyBag) /\ BagToSet(EmptyBag) = {}
  BY DEF IsABag, BagToSet, EmptyBag, SetToBag

-----------------------------------------------------------------------------
(* Numbers                                                                 *)

LessThan == {p \in Nat \X Nat : p[1] < p[2]}

\* There is no infinite descent in the naturals.
LEMMA LessThanWellFounded == IsWellFoundedOn(LessThan, Nat)
  BY NatLessThanWellFounded, Zenon DEF OpToRel, LessThan

\* A set of numbers that is not empty has a least element.
LEMMA LeastNumber ==
    ASSUME NEW S \in SUBSET Nat, S # {}
    PROVE  \E n \in S : \A m \in S : n <= m
<1>1. PICK x \in S : \A y \in S : <<y, x>> \notin LessThan
  BY LessThanWellFounded, WFMin
<1>2. \A y \in S : ~ (y < x)
  BY <1>1 DEF LessThan
<1> QED
  BY <1>2

\* A set of numbers that is bounded and not empty has a greatest element.
LEMMA GreatestNumber ==
    ASSUME NEW n \in Nat, NEW S \in SUBSET (0 .. n), S # {}
    PROVE  \E m \in S : \A k \in S : m >= k
<1> DEFINE R == {n - k : k \in S}
<1>1. R \in SUBSET Nat /\ R # {}
  <2>1. \A k \in S : k \in Nat /\ k <= n /\ n - k \in Nat
    OBVIOUS
  <2>2. \A r \in R : r \in Nat
    BY <2>1
  <2> QED
    BY <2>2
<1>2. PICK r \in R : \A s \in R : r <= s
  <2> HIDE DEF R
  <2> QED
    BY <1>1, LeastNumber
<1>3. PICK m \in S : r = n - m
  BY <1>2
<1>4. \A k \in S : n - m <= n - k
  BY <1>2, <1>3
<1>5. ASSUME NEW k \in S PROVE m >= k
  <2>1. n - m <= n - k /\ k \in Nat /\ m \in Nat
    BY <1>4
  <2> QED
    BY <2>1
<1> QED
  BY <1>5

\* Induction: a set of numbers that holds 0 and is closed under successor.
LEMMA SetInduction ==
    ASSUME NEW S \in SUBSET Nat, 0 \in S, \A n \in S : n + 1 \in S
    PROVE  S = Nat
<1> SUFFICES ASSUME Nat \ S # {} PROVE FALSE
  OBVIOUS
<1>1. PICK n \in Nat \ S : \A m \in Nat \ S : n <= m
  BY LeastNumber
<1>2. n # 0 /\ n - 1 \in Nat
  BY <1>1
<1>3. n - 1 \in S
  BY <1>1, <1>2
<1> QED
  BY <1>1, <1>2, <1>3

-----------------------------------------------------------------------------
(* Flattening                                                              *)

\* A function whose i-th value concatenates the first i of some sequences.
Flattens(f, n, seqs) ==
    \A i \in 1 .. n : f[i] = IF i = 1 THEN seqs[i] ELSE f[i - 1] \o seqs[i]

\* Such a function exists, by induction on the number of sequences.
LEMMA FlatteningExists ==
    ASSUME NEW S, NEW seqs \in Seq(Seq(S)), NEW n \in 0 .. Len(seqs)
    PROVE  \E f \in [1 .. n -> Seq(S)] : Flattens(f, n, seqs)
<1> DEFINE K == {k \in Nat : k <= Len(seqs) =>
                    \E f \in [1 .. k -> Seq(S)] : Flattens(f, k, seqs)}
<1>1. 0 \in K
  <2>1. [i \in 1 .. 0 |-> << >>] \in [1 .. 0 -> Seq(S)]
    OBVIOUS
  <2>2. Flattens([i \in 1 .. 0 |-> << >>], 0, seqs)
    BY DEF Flattens
  <2> QED
    BY <2>1, <2>2
<1>2. ASSUME NEW k \in K PROVE k + 1 \in K
  <2> SUFFICES ASSUME k + 1 <= Len(seqs)
               PROVE  \E f \in [1 .. k + 1 -> Seq(S)] : Flattens(f, k + 1, seqs)
    OBVIOUS
  <2>1. k \in Nat /\ k <= Len(seqs) /\ Len(seqs) \in Nat
    OBVIOUS
  <2>2. PICK f \in [1 .. k -> Seq(S)] : Flattens(f, k, seqs)
    BY <2>1
  <2> DEFINE last == IF k + 1 = 1 THEN seqs[k + 1] ELSE f[k] \o seqs[k + 1]
             g == [i \in 1 .. k + 1 |-> IF i = k + 1 THEN last ELSE f[i]]
  <2>3. seqs[k + 1] \in Seq(S)
    BY <2>1
  <2>4. last \in Seq(S)
    BY <2>1, <2>3, ConcatProperties
  <2> HIDE DEF last
  <2>5. g \in [1 .. k + 1 -> Seq(S)]
    BY <2>1, <2>4
  <2>6. Flattens(g, k + 1, seqs)
    <3> SUFFICES ASSUME NEW i \in 1 .. k + 1
                 PROVE  g[i] = IF i = 1 THEN seqs[i] ELSE g[i - 1] \o seqs[i]
      BY DEF Flattens
    <3>1. CASE i = k + 1
      <4>1. i # 1 => i - 1 \in 1 .. k + 1 /\ i - 1 # k + 1 /\ i - 1 = k
        BY <2>1, <3>1
      <4>2. g[i] = last /\ (i # 1 => g[i - 1] = f[k])
        BY <3>1, <4>1
      <4> QED
        BY <3>1, <4>2 DEF last
    <3>2. CASE i # k + 1
      <4>1. i \in 1 .. k /\ (i # 1 => i - 1 \in 1 .. k /\ i - 1 \in 1 .. k + 1 /\ i - 1 # k + 1)
        BY <2>1, <3>2
      <4>2. g[i] = f[i] /\ (i # 1 => g[i - 1] = f[i - 1])
        BY <3>2, <4>1
      <4> QED
        BY <2>2, <4>1, <4>2 DEF Flattens
    <3> QED
      BY <3>1, <3>2
  <2> QED
    BY <2>5, <2>6
<1>3. K = Nat
  <2>1. K \in SUBSET Nat
    OBVIOUS
  <2> HIDE DEF K
  <2> QED
    BY <1>1, <1>2, <2>1, SetInduction
<1>4. n \in K
  <2> HIDE DEF K
  <2> QED
    BY <1>3
<1>5. n <= Len(seqs)
  OBVIOUS
<1> QED
  BY <1>4, <1>5

\* What is flattened keeps its elements: FlattenSeq of sequences over S is one.
LEMMA FlattenType ==
    ASSUME NEW S, NEW seqs \in Seq(Seq(S))
    PROVE  FlattenSeq(seqs) \in Seq(S)
<1> DEFINE n == Len(seqs)
           Is(f) == f = [i \in 1 .. n |-> IF i = 1 THEN seqs[i] ELSE f[i - 1] \o seqs[i]]
           flatten == CHOOSE f : Is(f)
<1>1. CASE n = 0
  BY <1>1 DEF FlattenSeq
<1>2. CASE n # 0
  <2>1. n \in Nat /\ n \in 1 .. n /\ n \in 0 .. Len(seqs)
    BY <1>2
  <2>2. PICK g \in [1 .. n -> Seq(S)] : Flattens(g, n, seqs)
    <3> HIDE DEF n
    <3> QED
      BY <2>1, FlatteningExists
  <2>3. Is(g)
    BY <2>2 DEF Flattens
  <2>4. Is(flatten)
    BY <2>3
  <2>5. FlattenSeq(seqs) = flatten[n]
    BY <1>2 DEF FlattenSeq
  <2>6. \A i \in 1 .. n :
           flatten[i] = IF i = 1 THEN seqs[i] ELSE flatten[i - 1] \o seqs[i]
    <3> HIDE DEF flatten, n
    <3> QED
      BY <2>4
  <2> HIDE DEF flatten, Is
  <2> DEFINE K == {k \in Nat : k + 1 <= n => flatten[k + 1] \in Seq(S)}
  <2>7. 0 \in K
    BY <2>1, <2>6
  <2>8. ASSUME NEW k \in K PROVE k + 1 \in K
    <3> SUFFICES ASSUME k + 2 <= n PROVE flatten[k + 2] \in Seq(S)
      OBVIOUS
    <3>1. k \in Nat /\ k + 2 \in 1 .. n /\ k + 2 # 1 /\ (k + 2) - 1 = k + 1 /\ k + 1 <= n
      BY <2>1
    <3>2. flatten[k + 2] = flatten[k + 1] \o seqs[k + 2]
      BY <2>6, <3>1
    <3>3. flatten[k + 1] \in Seq(S) /\ seqs[k + 2] \in Seq(S)
      BY <3>1
    <3> QED
      BY <3>2, <3>3, ConcatProperties
  <2>9. K = Nat
    <3>1. K \in SUBSET Nat
      OBVIOUS
    <3> HIDE DEF K
    <3> QED
      BY <2>7, <2>8, <3>1, SetInduction
  <2>10. n - 1 \in K /\ (n - 1) + 1 = n
    <3> HIDE DEF K
    <3> QED
      BY <1>2, <2>1, <2>9
  <2>11. flatten[n] \in Seq(S)
    BY <2>1, <2>10
  <2> QED
    BY <2>5, <2>11
<1> QED
  BY <1>1, <1>2

-----------------------------------------------------------------------------
(* The parser                                                              *)

\* A host name that names a service has "svc" behind two labels.
LEMMA FqdnFacts ==
    ASSUME NEW host \in Host, svc_namespace_from_fqdn(host) # Absent
    PROVE  \E k \in DOMAIN host :
              /\ k > 2 /\ host[k] = Svc
              /\ svc_namespace_from_fqdn(host) = [name |-> host[k - 2], ns |-> host[k - 1]]
              /\ svc_namespace_from_fqdn(host) \in Service
<1> DEFINE I == {i \in 1 .. Len(host) : host[i] = Svc}
           i == IF I # {} THEN Min(I) ELSE 0
<1>1. svc_namespace_from_fqdn(host) =
         IF i < 3 THEN Absent ELSE [name |-> host[i - 2], ns |-> host[i - 1]]
  BY DEF svc_namespace_from_fqdn, SelectInSeq
<1>2. host \in Seq(Labels) /\ Len(host) \in Nat
  BY DEF Host
<1>3. I # {} => Min(I) \in I
  <2>1. I \in SUBSET Nat
    BY <1>2
  <2> HIDE DEF I
  <2>2. I # {} => \E m \in I : \A j \in I : m <= j
    BY <2>1, LeastNumber
  <2> QED
    BY <2>2 DEF Min
<1>4. ~ (i < 3)
  BY <1>1
<1>5. i \in I
  BY <1>3, <1>4
<1>6. i \in 1 .. Len(host) /\ host[i] = Svc
  BY <1>5
<1> HIDE DEF i
<1>7. i > 2 /\ i - 2 \in 1 .. Len(host) /\ i - 1 \in 1 .. Len(host) /\ i \in DOMAIN host
  BY <1>2, <1>4, <1>6
<1>8. [name |-> host[i - 2], ns |-> host[i - 1]] \in Service
  BY <1>2, <1>7 DEF Service
<1> QED
  BY <1>1, <1>4, <1>6, <1>7, <1>8

\* The routes that a document stands for.
RoutesBy(config) ==
    {r \in EnvoyRoute : ~ IsWildcard(r.domain) /\ Forwards(config, r.domain, r.service)}

\* An element of a sequence.
LEMMA SeqElement ==
    ASSUME NEW S, NEW s \in Seq(S), NEW i \in DOMAIN s
    PROVE  s[i] \in S
  OBVIOUS

DomainsOf(config) ==
    {c.addr : c \in Range(config.clusters)}
       \cup UNION {Range(vh.domains) : vh \in Range(config.vhosts)}

\* The domains of a document.
LEMMA DomainsFact ==
    ASSUME NEW config \in Configs
    PROVE  DomainsOf(config) \subseteq Domains
<1>1. Domains = UNION {DomainsOf(x) : x \in Configs}
  BY Zenon DEF Domains, DomainsOf
<1> QED
  BY <1>1, Zenon

\* The parts of a document have their types.
LEMMA ConfigFacts ==
    ASSUME NEW config \in Configs
    PROVE  /\ config.clusters \in Seq([name: Clusters \cup {Empty}, addr: Host])
           /\ config.vhosts \in Seq([domains: Seq(Host), routes: Seq(Clusters)])
           /\ \A i \in DOMAIN config.clusters :
                 /\ config.clusters[i].addr \in Host \cap Domains
                 /\ ~ IsWildcard(config.clusters[i].addr)
           /\ \A i \in DOMAIN config.vhosts :
                 /\ config.vhosts[i].domains \in Seq(Domains)
                 /\ config.vhosts[i].routes \in Seq(Clusters)
<1>1. config \in ConfigType
  BY RouteSyncAssumption
<1>2. /\ config.clusters \in Seq([name: Clusters \cup {Empty}, addr: Host])
      /\ config.vhosts \in Seq([domains: Seq(Host), routes: Seq(Clusters)])
  BY <1>1 DEF ConfigType
<1>3. ASSUME NEW i \in DOMAIN config.clusters
      PROVE  /\ config.clusters[i].addr \in Host \cap Domains
             /\ ~ IsWildcard(config.clusters[i].addr)
  <2>1. config.clusters[i] \in [name: Clusters \cup {Empty}, addr: Host]
    BY <1>2, SeqElement, Zenon
  <2>2. config.clusters[i] \in Range(config.clusters)
    BY DEF Range
  <2>3. config.clusters[i].addr \in {c.addr : c \in Range(config.clusters)}
    BY <2>2
  <2>4. config.clusters[i].addr \in Domains
    BY <2>3, DomainsFact DEF DomainsOf
  <2> QED
    BY <2>1, <2>2, <2>4, RouteSyncAssumption
<1>4. ASSUME NEW i \in DOMAIN config.vhosts
      PROVE  /\ config.vhosts[i].domains \in Seq(Domains)
             /\ config.vhosts[i].routes \in Seq(Clusters)
  <2> DEFINE vh == config.vhosts[i]
  <2>1. vh \in [domains: Seq(Host), routes: Seq(Clusters)]
    BY <1>2, SeqElement, Zenon
  <2>2. vh \in Range(config.vhosts)
    BY DEF Range
  <2> HIDE DEF vh
  <2>3. \A d \in Range(vh.domains) : d \in Domains
    <3>1. Range(vh.domains) \in {Range(v.domains) : v \in Range(config.vhosts)}
      BY <2>2
    <3>2. Range(vh.domains) \subseteq DomainsOf(config)
      BY <3>1 DEF DomainsOf
    <3> QED
      BY <3>2, DomainsFact
  <2>4. vh.domains \in Seq(Host) /\ vh.routes \in Seq(Clusters)
    BY <2>1
  <2>5. \A k \in 1 .. Len(vh.domains) : vh.domains[k] \in Domains
    BY <2>3, <2>4 DEF Range
  <2>6. vh.domains \in [1 .. Len(vh.domains) -> Domains] /\ Len(vh.domains) \in Nat
    BY <2>4, <2>5
  <2>7. vh.domains \in Seq(Domains)
    BY <2>6
  <2> QED
    BY <2>4, <2>7 DEF vh
<1> QED
  BY <1>2, <1>3, <1>4

\* Pass 1.
LEMMA ClusterRoutesTrue ==
    ASSUME NEW config \in Configs
    PROVE  ClusterRoutes(config) \in Seq(RoutesBy(config))
<1> DEFINE S == RoutesBy(config)
           seqs == [i \in DOMAIN config.clusters |-> ClusterRoute(config.clusters[i])]
<1>1. ASSUME NEW i \in DOMAIN config.clusters
      PROVE  ClusterRoute(config.clusters[i]) \in Seq(S)
  <2> DEFINE c == config.clusters[i]
             service == svc_namespace_from_fqdn(c.addr)
  <2>1. c.addr \in Host /\ c.addr \in Domains /\ ~ IsWildcard(c.addr)
    BY ConfigFacts
  <2>2. CASE ~ Usable(c)
    BY <2>2 DEF ClusterRoute
  <2>3. CASE Usable(c)
    <3>1. service # Absent
      BY <2>3 DEF Usable
    <3>2. PICK k \in DOMAIN c.addr : /\ k > 2 /\ c.addr[k] = Svc
                                     /\ service = [name |-> c.addr[k - 2], ns |-> c.addr[k - 1]]
                                     /\ service \in Service
      BY <2>1, <3>1, FqdnFacts
    <3>3. Forwards(config, c.addr, service)
      BY <3>2 DEF Forwards
    <3>4. Route(c.addr, service) \in S
      BY <2>1, <3>2, <3>3 DEF Route, RoutesBy, EnvoyRoute
    <3>5. ClusterRoute(c) = <<Route(c.addr, service)>>
      BY <2>3 DEF ClusterRoute
    <3> HIDE DEF S, c, service
    <3> QED
      BY <3>4, <3>5 DEF c
  <2> QED
    BY <2>2, <2>3
<1>2. seqs \in Seq(Seq(S))
  <2>1. DOMAIN config.clusters = 1 .. Len(config.clusters) /\ Len(config.clusters) \in Nat
    BY ConfigFacts
  <2>2. seqs \in [1 .. Len(config.clusters) -> Seq(S)]
    BY <1>1, <2>1
  <2> QED
    BY <2>1, <2>2
<1>3. FlattenSeq(seqs) \in Seq(S)
  <2> HIDE DEF seqs, S
  <2> QED
    BY <1>2, FlattenType
<1> QED
  BY <1>3 DEF ClusterRoutes

\* The upstream of a virtual host is the service of a cluster that its first
\* route names.
LEMMA UpstreamFacts ==
    ASSUME NEW config \in Configs, NEW j \in DOMAIN config.vhosts,
           UpstreamOf(config, config.vhosts[j]) # Absent
    PROVE  /\ config.vhosts[j].routes # << >>
           /\ \E i \in DOMAIN config.clusters :
                 /\ Usable(config.clusters[i])
                 /\ config.clusters[i].name = config.vhosts[j].routes[1]
                 /\ UpstreamOf(config, config.vhosts[j]) =
                       svc_namespace_from_fqdn(config.clusters[i].addr)
<1> DEFINE vh == config.vhosts[j]
           cs == config.clusters
           name == vh.routes[1]
           I == {i \in 1 .. Len(cs) : Usable(cs[i]) /\ cs[i].name = name}
           i == IF I # {} THEN Max(I) ELSE 0
<1>1. vh.routes # << >> /\ UpstreamOf(config, vh) = ClusterService(config, name)
  BY DEF UpstreamOf
<1>2. ClusterService(config, name) =
         IF i = 0 THEN Absent ELSE svc_namespace_from_fqdn(cs[i].addr)
  BY DEF ClusterService, SelectLastInSeq
<1>3. DOMAIN cs = 1 .. Len(cs) /\ Len(cs) \in Nat
  BY ConfigFacts
<1>4. I # {} => Max(I) \in I
  <2>1. I \in SUBSET (0 .. Len(cs))
    BY <1>3
  <2> HIDE DEF I, cs
  <2>2. I # {} => \E m \in I : \A k \in I : m >= k
    BY <1>3, <2>1, GreatestNumber
  <2> QED
    BY <2>2 DEF Max
<1>5. i # 0
  BY <1>1, <1>2
<1>6. i \in I
  BY <1>4, <1>5
<1>7. i \in DOMAIN cs /\ Usable(cs[i]) /\ cs[i].name = name
  BY <1>3, <1>6
<1> HIDE DEF i
<1> QED
  BY <1>1, <1>2, <1>5, <1>7

\* Pass 2.
LEMMA VhostRoutesTrue ==
    ASSUME NEW config \in Configs, NEW j \in DOMAIN config.vhosts
    PROVE  VhostRoutes(config, config.vhosts[j]) \in Seq(RoutesBy(config))
<1> DEFINE S == RoutesBy(config)
           vh == config.vhosts[j]
           service == UpstreamOf(config, vh)
           seqs == [k \in DOMAIN vh.domains |-> DomainRoute(vh.domains[k], service)]
<1>1. CASE service = Absent
  BY <1>1 DEF VhostRoutes
<1>2. CASE service # Absent
  <2>1. PICK i \in DOMAIN config.clusters :
           /\ Usable(config.clusters[i])
           /\ config.clusters[i].name = vh.routes[1]
           /\ service = svc_namespace_from_fqdn(config.clusters[i].addr)
    BY <1>2, UpstreamFacts
  <2>2. vh.routes # << >>
    BY <1>2, UpstreamFacts
  <2> DEFINE addr == config.clusters[i].addr
  <2>3. addr \in Host /\ svc_namespace_from_fqdn(addr) # Absent
    BY <2>1, ConfigFacts DEF Usable
  <2>4. PICK k \in DOMAIN addr : /\ k > 2 /\ addr[k] = Svc
                                 /\ service = [name |-> addr[k - 2], ns |-> addr[k - 1]]
                                 /\ service \in Service
    BY <2>1, <2>3, FqdnFacts
  <2>5. vh.domains \in Seq(Domains) /\ DOMAIN vh.domains = 1 .. Len(vh.domains)
        /\ Len(vh.domains) \in Nat
    BY ConfigFacts
  <2>6. ASSUME NEW d \in DOMAIN vh.domains
        PROVE  DomainRoute(vh.domains[d], service) \in Seq(S)
    <3>1. vh.domains[d] \in Domains /\ vh.domains[d] \in Range(vh.domains)
      BY <2>5 DEF Range
    <3>2. CASE IsWildcard(vh.domains[d])
      BY <3>2 DEF DomainRoute
    <3>3. CASE ~ IsWildcard(vh.domains[d])
      <4>1. Forwards(config, vh.domains[d], service)
        BY <2>1, <2>2, <2>4, <3>1 DEF Forwards
      <4>2. Route(vh.domains[d], service) \in S
        BY <2>4, <3>1, <3>3, <4>1 DEF Route, RoutesBy, EnvoyRoute
      <4>3. DomainRoute(vh.domains[d], service) = <<Route(vh.domains[d], service)>>
        BY <3>3 DEF DomainRoute
      <4> HIDE DEF S, vh, service
      <4> QED
        BY <4>2, <4>3
    <3> QED
      BY <3>2, <3>3
  <2>7. seqs \in Seq(Seq(S))
    <3>1. seqs \in [1 .. Len(vh.domains) -> Seq(S)]
      BY <2>5, <2>6
    <3> HIDE DEF seqs, S, vh
    <3> QED
      BY <2>5, <3>1
  <2>8. FlattenSeq(seqs) \in Seq(S)
    <3> HIDE DEF seqs, S
    <3> QED
      BY <2>7, FlattenType
  <2> QED
    BY <1>2, <2>8 DEF VhostRoutes
<1> QED
  BY <1>1, <1>2

\* What is parsed out of a document is what Envoy does with it.
LEMMA ParserTrue ==
    ASSUME NEW config \in Configs
    PROVE  parse_envoy_routes(config) \in Seq(RoutesBy(config))
<1> DEFINE S == RoutesBy(config)
           seqs == [i \in DOMAIN config.vhosts |-> VhostRoutes(config, config.vhosts[i])]
<1>1. seqs \in Seq(Seq(S))
  <2>1. DOMAIN config.vhosts = 1 .. Len(config.vhosts) /\ Len(config.vhosts) \in Nat
    BY ConfigFacts
  <2>2. seqs \in [1 .. Len(config.vhosts) -> Seq(S)]
    BY <2>1, VhostRoutesTrue
  <2> QED
    BY <2>1, <2>2
<1>2. parse_envoy_routes(config) = ClusterRoutes(config) \o FlattenSeq(seqs)
  BY RouteSyncAssumption DEF parse_envoy_routes
<1>3. ClusterRoutes(config) \in Seq(S)
  BY ClusterRoutesTrue
<1> HIDE DEF seqs, S
<1>4. FlattenSeq(seqs) \in Seq(S)
  BY <1>1, FlattenType
<1>5. ClusterRoutes(config) \o FlattenSeq(seqs) \in Seq(S)
  BY <1>3, <1>4, ConcatProperties
<1> QED
  BY <1>2, <1>5 DEF S

-----------------------------------------------------------------------------
(* The invariant                                                           *)

\* What a ConfigMap or a change may hold, and the routes that are genuine, when
\* the documents cl have been in the cluster.
Held(cl) == cl \cup {NoYaml, Absent}

TrueRoutes(cl) ==
    {r \in EnvoyRoute : /\ ~ IsWildcard(r.domain)
                        /\ \E config \in cl : Forwards(config, r.domain, r.service)}

RouteLists(cl) == Seq(TrueRoutes(cl)) \ {<< >>}

TrueEntry(cl, d, s) ==
    s # Absent => ~ IsWildcard(d) /\ \E config \in cl : Forwards(config, d, s)

\* Every route is genuine wherever it is on its way: in the cluster, in a change
\* not yet handled, in a call, in the resync task, in a handler, in the cache.
SourcesTrue ==
    /\ claimed \subseteq Configs
    /\ configMaps \in [Names -> Held(claimed)]
    /\ watch \in Seq(Names \X Held(claimed))

RoutesTrue ==
    /\ IsABag(rpcs)
    /\ BagToSet(rpcs) \subseteq RouteLists(claimed)
    /\ resync = Absent \/ resync \in RouteLists(claimed)
    /\ handler \in [Handlers -> Seq(TrueRoutes(claimed))]

CacheTrue ==
    /\ cache \in [Domains -> Service \cup {Absent}]
    /\ \A d \in Domains : TrueEntry(claimed, d, cache[d])

CountersOK == changes \in 0 .. MaxChanges /\ restarts \in 0 .. MaxRestarts

IInv == SourcesTrue /\ RoutesTrue /\ CacheTrue /\ CountersOK

\* The routes of a document that was in the cluster are genuine; there are no
\* others.
LEMMA RoutesOfTrue ==
    ASSUME NEW cl \in SUBSET Configs, NEW content \in Held(cl)
    PROVE  RoutesOf[content] \in Seq(TrueRoutes(cl))
<1>1. content \in Contents
  BY DEF Held, Contents
<1>2. RoutesOf[content] = parse_envoy_routes(content)
  BY <1>1 DEF RoutesOf
<1>3. CASE content \in {Absent, NoYaml}
  <2>1. parse_envoy_routes(content) = << >>
    BY <1>3 DEF parse_envoy_routes
  <2> QED
    BY <1>2, <2>1
<1>4. CASE content \in cl
  <2>1. parse_envoy_routes(content) \in Seq(RoutesBy(content))
    BY <1>4, ParserTrue
  <2>2. RoutesBy(content) \subseteq TrueRoutes(cl)
    BY <1>4 DEF RoutesBy, TrueRoutes
  <2> QED
    BY <1>2, <2>1, <2>2
<1> QED
  BY <1>3, <1>4 DEF Held

\* More documents, more genuine routes.
LEMMA TrueGrows ==
    ASSUME NEW cl, NEW more, cl \subseteq more
    PROVE  /\ Held(cl) \subseteq Held(more)
           /\ TrueRoutes(cl) \subseteq TrueRoutes(more)
           /\ RouteLists(cl) \subseteq RouteLists(more)
           /\ Seq(TrueRoutes(cl)) \subseteq Seq(TrueRoutes(more))
           /\ \A d, s : TrueEntry(cl, d, s) => TrueEntry(more, d, s)
<1>1. TrueRoutes(cl) \subseteq TrueRoutes(more)
  BY DEF TrueRoutes
<1>2. Seq(TrueRoutes(cl)) \subseteq Seq(TrueRoutes(more))
  BY <1>1
<1>3. Held(cl) \subseteq Held(more)
  BY DEF Held
<1>4. \A d, s : TrueEntry(cl, d, s) => TrueEntry(more, d, s)
  BY DEF TrueEntry
<1> QED
  BY <1>1, <1>2, <1>3, <1>4 DEF RouteLists

\* A list of ConfigMaps has an end.
LEMMA ExistingFinite == Cardinality(Existing) \in Nat
<1>1. Len(ConfigMaps) \in Nat /\ DOMAIN ConfigMaps = 1 .. Len(ConfigMaps)
  BY RouteSyncAssumption
<1>2. ConfigMaps \in Surjection(1 .. Len(ConfigMaps), Names)
  BY <1>1, RouteSyncAssumption DEF Surjection, Names, Range
<1>3. IsFiniteSet(1 .. Len(ConfigMaps))
  BY <1>1, FS_Interval
<1>4. IsFiniteSet(Names)
  BY <1>2, <1>3, FS_Surjection DEF ExistsSurjection
<1>5. Existing \in SUBSET Names
  BY DEF Existing
<1> QED
  BY <1>4, <1>5, FS_Subset, FS_CardinalityType

-----------------------------------------------------------------------------
(* One lemma per group of actions                                          *)

LEMMA ClusterTrue ==
    ASSUME IInv, NEW m \in Names, NEW content \in Contents, ConfigMapChanges(m, content)
    PROVE  IInv'
<1> USE DEF IInv, ConfigMapChanges
<1>1. claimed \subseteq claimed' /\ claimed' \subseteq Configs
  BY DEF SourcesTrue
<1>2. content \in Held(claimed')
  BY DEF Held, Contents
<1>3. SourcesTrue'
  <2>1. configMaps \in [Names -> Held(claimed')] /\ watch \in Seq(Names \X Held(claimed'))
    <3>1. Held(claimed) \subseteq Held(claimed')
      BY <1>1, TrueGrows
    <3>2. configMaps \in [Names -> Held(claimed)] /\ watch \in Seq(Names \X Held(claimed))
      BY DEF SourcesTrue
    <3>3. configMaps \in [Names -> Held(claimed')]
      BY <3>1, <3>2, Zenon
    <3>4. Names \X Held(claimed) \subseteq Names \X Held(claimed')
      BY <3>1
    <3>5. watch \in Seq(Names \X Held(claimed'))
      <4> DEFINE P == Names \X Held(claimed)
                 Q == Names \X Held(claimed')
      <4>1. watch \in Seq(P) /\ P \subseteq Q
        BY <3>2, <3>4
      <4> HIDE DEF P, Q
      <4>2. watch \in Seq(Q)
        BY <4>1
      <4> QED
        BY <4>2 DEF Q
    <3> QED
      BY <3>3, <3>5
  <2>2. <<m, content>> \in Names \X Held(claimed')
    BY <1>2
  <2>3. watch' \in Seq(Names \X Held(claimed'))
    BY <2>1, <2>2, AppendProperties
  <2>4. configMaps' \in [Names -> Held(claimed')]
    BY <1>2, <2>1
  <2> QED
    BY <1>1, <2>3, <2>4 DEF SourcesTrue
<1>4. RoutesTrue'
  <2>1. /\ RouteLists(claimed) \subseteq RouteLists(claimed')
        /\ Seq(TrueRoutes(claimed)) \subseteq Seq(TrueRoutes(claimed'))
    BY <1>1, TrueGrows
  <2> QED
    BY <2>1 DEF RoutesTrue
<1>5. CacheTrue'
  <2>1. \A d, s : TrueEntry(claimed, d, s) => TrueEntry(claimed', d, s)
    BY <1>1, TrueGrows
  <2> QED
    BY <2>1 DEF CacheTrue
<1>6. CountersOK'
  BY RouteSyncAssumption DEF CountersOK
<1> QED
  BY <1>3, <1>4, <1>5, <1>6

\* A handled change sends routes of its document.
LEMMA WatchTrue ==
    ASSUME IInv, ConfigMapHandler
    PROVE  IInv'
<1> USE DEF IInv, ConfigMapHandler
<1>1. CacheTrue' /\ CountersOK'
  BY DEF CacheTrue, CountersOK
<1>2. watch \in Seq(Names \X Held(claimed)) /\ claimed \subseteq Configs
  BY DEF SourcesTrue
<1>3. Head(watch) \in Names \X Held(claimed) /\ Tail(watch) \in Seq(Names \X Held(claimed))
  BY <1>2, HeadTailProperties
<1>4. SourcesTrue'
  BY <1>3 DEF SourcesTrue
<1> DEFINE routes == RoutesOf[Head(watch)[2]]
<1>5. routes \in Seq(TrueRoutes(claimed))
  BY <1>2, <1>3, RoutesOfTrue
<1>6. rpcs' = IF routes = << >> THEN rpcs ELSE rpcs (+) SetToBag({routes})
  OBVIOUS
<1> HIDE DEF routes
<1>7. IsABag(rpcs) /\ BagToSet(rpcs) \subseteq RouteLists(claimed)
  BY DEF RoutesTrue
<1>8. /\ IsABag(rpcs (+) SetToBag({routes}))
      /\ BagToSet(rpcs (+) SetToBag({routes})) = BagToSet(rpcs) \cup {routes}
  BY <1>7, BagAddFacts
<1>9. IsABag(rpcs') /\ BagToSet(rpcs') \subseteq RouteLists(claimed)
  BY <1>5, <1>6, <1>7, <1>8 DEF RouteLists
<1>10. RoutesTrue'
  BY <1>9 DEF RoutesTrue
<1> QED
  BY <1>1, <1>4, <1>10

\* So does the resync, which reads all ConfigMaps.
LEMMA ResyncTrue ==
    ASSUME IInv,
           \/ ListConfigMaps
           \/ \E h \in Handlers : SendRoutes(h)
           \/ ResyncFails
    PROVE  IInv'
<1> USE DEF IInv
<1>1. SourcesTrue' /\ CacheTrue' /\ CountersOK' /\ rpcs' = rpcs /\ claimed' = claimed
  BY DEF SourcesTrue, CacheTrue, CountersOK, ListConfigMaps, SendRoutes, ResyncFails
<1>2. CASE ListConfigMaps
  <2> DEFINE seqs == [i \in DOMAIN ConfigMaps |-> RoutesOf[configMaps[ConfigMaps[i]]]]
             S == TrueRoutes(claimed)
  <2>1. Len(ConfigMaps) \in Nat /\ DOMAIN ConfigMaps = 1 .. Len(ConfigMaps)
    BY RouteSyncAssumption
  <2>2. ASSUME NEW i \in DOMAIN ConfigMaps
        PROVE  RoutesOf[configMaps[ConfigMaps[i]]] \in Seq(S)
    <3>1. ConfigMaps[i] \in Names
      BY DEF Names, Range
    <3>2. configMaps \in [Names -> Held(claimed)] /\ claimed \in SUBSET Configs
      BY DEF SourcesTrue
    <3>3. configMaps[ConfigMaps[i]] \in Held(claimed)
      BY <3>1, <3>2, Zenon
    <3> QED
      BY <3>2, <3>3, RoutesOfTrue
  <2>3. seqs \in [1 .. Len(ConfigMaps) -> Seq(S)]
    BY <2>1, <2>2
  <2>4. AllRoutes = FlattenSeq(seqs)
    BY DEF AllRoutes
  <2> HIDE DEF seqs, S
  <2>5. seqs \in Seq(Seq(S))
    BY <2>1, <2>3
  <2>6. AllRoutes \in Seq(S)
    BY <2>4, <2>5, FlattenType
  <2>7. resync' \in RouteLists(claimed) /\ handler' = handler
    BY <1>2, <2>6 DEF ListConfigMaps, RouteLists, S
  <2> QED
    BY <1>1, <2>7 DEF RoutesTrue
<1>3. CASE \E h \in Handlers : SendRoutes(h)
  <2>1. resync \in Seq(TrueRoutes(claimed))
    BY <1>3 DEF SendRoutes, RoutesTrue, RouteLists
  <2>2. handler' \in [Handlers -> Seq(TrueRoutes(claimed))] /\ resync' = Absent
    BY <1>3, <2>1 DEF SendRoutes, RoutesTrue
  <2> QED
    BY <1>1, <2>2 DEF RoutesTrue
<1>4. CASE ResyncFails
  BY <1>1, <1>4 DEF RoutesTrue, ResyncFails
<1> QED
  BY <1>2, <1>3, <1>4

\* A handler starts with the routes of its request.
LEMMA RpcTrue ==
    ASSUME IInv, NEW routes \in BagToSet(rpcs),
           (\E h \in Handlers : Arrive(h, routes)) \/ Lose(routes)
    PROVE  IInv'
<1> USE DEF IInv
<1>1. SourcesTrue' /\ CacheTrue' /\ CountersOK' /\ claimed' = claimed /\ resync' = resync
  BY DEF SourcesTrue, CacheTrue, CountersOK, Arrive, Lose
<1>2. IsABag(rpcs) /\ BagToSet(rpcs) \subseteq RouteLists(claimed)
  BY DEF RoutesTrue
<1>3. rpcs' = rpcs (-) SetToBag({routes})
  BY DEF Arrive, Lose
<1>4. /\ IsABag(rpcs (-) SetToBag({routes}))
      /\ BagToSet(rpcs (-) SetToBag({routes})) \subseteq BagToSet(rpcs)
  BY <1>2, BagRemoveFacts
<1>5. IsABag(rpcs') /\ BagToSet(rpcs') \subseteq RouteLists(claimed)
  BY <1>2, <1>3, <1>4
<1>6. routes \in Seq(TrueRoutes(claimed))
  BY <1>2 DEF RouteLists
<1>7. handler' \in [Handlers -> Seq(TrueRoutes(claimed))]
  BY <1>6 DEF RoutesTrue, Arrive, Lose
<1> QED
  BY <1>1, <1>5, <1>7 DEF RoutesTrue

\* An inserted entry is the route of a handler.
LEMMA InsertTrue ==
    ASSUME IInv, NEW h \in Handlers, Insert(h)
    PROVE  IInv'
<1> USE DEF IInv, Insert
<1>1. SourcesTrue' /\ CountersOK' /\ claimed' = claimed
  BY DEF SourcesTrue, CountersOK
<1>2. handler[h] \in Seq(TrueRoutes(claimed)) /\ handler[h] # << >>
  BY DEF RoutesTrue
<1>3. /\ Head(handler[h]) \in TrueRoutes(claimed)
      /\ Tail(handler[h]) \in Seq(TrueRoutes(claimed))
  BY <1>2, HeadTailProperties
<1>4. RoutesTrue'
  BY <1>1, <1>3 DEF RoutesTrue
<1> DEFINE d == Head(handler[h]).domain
           s == Head(handler[h]).service
<1>5. d \in Domains /\ s \in Service /\ TrueEntry(claimed, d, s)
  BY <1>3 DEF TrueRoutes, EnvoyRoute, TrueEntry
<1>6. cache' = [cache EXCEPT ![d] = s]
  OBVIOUS
<1> HIDE DEF d, s
<1>7. CacheTrue'
  BY <1>1, <1>5, <1>6 DEF CacheTrue
<1> QED
  BY <1>1, <1>4, <1>7

\* A restart leaves nothing untrue.
LEMMA RestartTrue ==
    ASSUME IInv, CoreRestart \/ AgentRestart
    PROVE  IInv'
<1> USE DEF IInv
<1>1. CountersOK' /\ claimed' = claimed /\ configMaps' = configMaps
  BY RouteSyncAssumption DEF CountersOK, CoreRestart, AgentRestart
<1>2. CASE CoreRestart
  <2>1. SourcesTrue'
    BY <1>2 DEF SourcesTrue, CoreRestart
  <2>2. CacheTrue'
    BY <1>2 DEF CacheTrue, TrueEntry, CoreRestart
  <2>3. << >> \in Seq(TrueRoutes(claimed))
    OBVIOUS
  <2>4. RoutesTrue'
    BY <1>2, <2>3 DEF RoutesTrue, CoreRestart
  <2> QED
    BY <1>1, <2>1, <2>2, <2>4
<1>3. CASE AgentRestart
  <2>1. RoutesTrue'
    BY <1>3, EmptyBagFacts DEF RoutesTrue, AgentRestart
  <2>2. CacheTrue'
    BY <1>3 DEF CacheTrue, AgentRestart
  <2>3. PICK order \in SetToSeqs(Existing) :
            watch' = [i \in DOMAIN order |-> <<order[i], configMaps[order[i]]>>]
    BY <1>3 DEF AgentRestart
  <2>4. order \in [1 .. Cardinality(Existing) -> Existing]
    BY DEF SetToSeqs
  <2>5. \A i \in 1 .. Cardinality(Existing) :
            <<order[i], configMaps[order[i]]>> \in Names \X Held(claimed)
    BY <2>4 DEF Existing, SourcesTrue
  <2>6. watch' \in [1 .. Cardinality(Existing) -> Names \X Held(claimed)]
    BY <2>3, <2>4, <2>5
  <2>7. watch' \in Seq(Names \X Held(claimed))
    BY <2>6, ExistingFinite
  <2>8. SourcesTrue'
    BY <1>1, <2>7 DEF SourcesTrue
  <2> QED
    BY <1>1, <2>1, <2>2, <2>8
<1> QED
  BY <1>2, <1>3

-----------------------------------------------------------------------------
(* The theorems                                                            *)

LEMMA Invariance == Spec => []IInv
<1>1. Init => IInv
  <2> SUFFICES ASSUME Init PROVE IInv
    OBVIOUS
  <2> USE DEF Init
  <2>1. SourcesTrue
    BY DEF SourcesTrue, Held
  <2>2. RoutesTrue
    BY EmptyBagFacts DEF RoutesTrue
  <2>3. CacheTrue /\ CountersOK
    BY RouteSyncAssumption DEF CacheTrue, TrueEntry, CountersOK
  <2> QED
    BY <2>1, <2>2, <2>3 DEF IInv
<1>2. IInv /\ [Next]_vars => IInv'
  <2> SUFFICES ASSUME IInv, [Next]_vars PROVE IInv'
    OBVIOUS
  <2>1. CASE UNCHANGED vars
    BY <2>1 DEF vars, IInv, SourcesTrue, RoutesTrue, CacheTrue, CountersOK
  <2>2. CASE Next
    BY <2>2, ClusterTrue, WatchTrue, ResyncTrue, RpcTrue, InsertTrue, RestartTrue DEF Next
  <2> QED
    BY <2>1, <2>2
<1> QED
  BY <1>1, <1>2, PTL DEF Spec

\* The cluster's, the agent's and Core's state has its type, for any documents:
\* no empty list of routes is ever sent, and what is parsed out of a document
\* names a service.
THEOREM TypeCorrect == Spec => []TypeOK
<1>1. IInv => TypeOK
  <2> SUFFICES ASSUME IInv PROVE TypeOK
    OBVIOUS
  <2> USE DEF IInv
  <2>1. Held(claimed) \subseteq Contents
    BY DEF SourcesTrue, Held, Contents
  <2>2. configMaps \in [Names -> Contents] /\ watch \in Seq(Names \X Contents)
    BY <2>1 DEF SourcesTrue
  <2>3. TrueRoutes(claimed) \subseteq EnvoyRoute
    BY DEF TrueRoutes
  <2>4. Seq(TrueRoutes(claimed)) \subseteq Seq(EnvoyRoute)
    BY <2>3
  <2>5. RouteLists(claimed) \subseteq Seq(EnvoyRoute) \ {<< >>}
    BY <2>4 DEF RouteLists
  <2>6. /\ IsABag(rpcs) /\ BagToSet(rpcs) \subseteq Seq(EnvoyRoute) \ {<< >>}
        /\ resync = Absent \/ resync \in Seq(EnvoyRoute) \ {<< >>}
        /\ handler \in [Handlers -> Seq(EnvoyRoute)]
    BY <2>4, <2>5 DEF RoutesTrue
  <2> QED
    BY <2>2, <2>6 DEF TypeOK, SourcesTrue, CacheTrue, CountersOK
<1> QED
  BY <1>1, Invariance, PTL

\* However requests overtake each other and restarts cut them short, the cache
\* sends a domain only where some document that was in the cluster sent it, and
\* never takes a wildcard for a host name: for any documents, with the parser's
\* two passes taken apart.
THEOREM RoutesStayGenuine == Spec => []RoutesGenuine
<1>1. IInv => RoutesGenuine
  BY DEF IInv, CacheTrue, TrueEntry, RoutesGenuine
<1> QED
  BY <1>1, Invariance, PTL

=============================================================================
