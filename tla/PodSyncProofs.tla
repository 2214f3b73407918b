--------------------------- MODULE PodSyncProofs ---------------------------
(***************************************************************************)
(* Core's pod cache, for any number of addresses, pods, services, changes  *)
(* and restarts: types, and that no entry names a pod that never ran at    *)
(* its address.                                                            *)
(***************************************************************************)
EXTENDS PodSync, FiniteSetTheorems, SequenceTheorems, TLAPS

-----------------------------------------------------------------------------
(* Bags, as sets of their elements                                         *)

\* Adding an element yields a bag with the elements of the old one and it.
LEMMA BagAddFacts ==
    ASSUME NEW B, IsABag(B), NEW x
    PROVE  /\ IsABag(B (+) SetToBag({x}))
           /\ BagToSet(B (+) SetToBag({x})) = BagToSet(B) \cup {x}
  BY DEF IsABag, BagToSet, SetToBag, (+)

\* Removing an element yields a bag and adds no element.
LEMMA BagRemoveFacts ==
    ASSUME NEW B, IsABag(B), NEW x
    PROVE  /\ IsABag(B (-) SetToBag({x}))
           /\ BagToSet(B (-) SetToBag({x})) \subseteq BagToSet(B)
           /\ \A y \in BagToSet(B (-) SetToBag({x})) : (B (-) SetToBag({x}))[y] <= B[y]
  BY DEF IsABag, BagToSet, SetToBag, (-)

\* The empty bag is one, and has no elements.
LEMMA EmptyBagFacts == IsABag(EmptyBag) /\ BagToSet(EmptyBag) = {}
  BY DEF IsABag, BagToSet, EmptyBag, SetToBag

-----------------------------------------------------------------------------
(* The invariant                                                           *)

\* Watches, tasks and lists carry only what was true of the address at some
\* time, and the registry only services that select by a label.
PodsHeld == \A ip \in Ips : pods[ip] # None => pods[ip] \in held[ip]

WatchHeld ==
    \A i \in 1 .. Len(podWatch) :
        podWatch[i][2] # None => podWatch[i][2] \in held[podWatch[i][1]]

ListHeld == \A ip \in Ips : resync.pods[ip] # None => resync.pods[ip] \in held[ip]

RpcsTruthful == \A m \in BagToSet(rpcs) : m[2] # None => Truthful(m[1], m[2])

RegistrySelects == \A s \in registry : HasSelector(s)

Types == TypeOK /\ IsFiniteSet(services)

IInv ==
    /\ Types
    /\ PodsHeld /\ WatchHeld /\ ListHeld /\ RpcsTruthful /\ RegistrySelects
    /\ NoForeignInfo

-----------------------------------------------------------------------------
(* Types                                                                   *)

\* What PodHandler and the map send are entries of the cache.
LEMMA InfoTypes ==
    ASSUME TypeOK
    PROVE  /\ \A p \in Pods : InfosOf(p) \subseteq PodInfo
           /\ \A s \in Services : MapInfo(s) \in PodInfo
<1>1. \A p \in Pods : [ns |-> p.ns, app |-> p.app, svc |-> Empty] \in PodInfo
  BY DEF PodInfo, Names
<1>2. \A p \in Pods, s \in Services : [ns |-> p.ns, app |-> s.name, svc |-> s.name] \in PodInfo
  BY DEF PodInfo, Names
<1>3. \A s \in Services : [ns |-> s.ns, app |-> s.name, svc |-> s.name] \in PodInfo
  BY DEF PodInfo, Names
<1>4. registry \subseteq Services
  BY DEF TypeOK
<1> QED
  BY <1>1, <1>2, <1>3, <1>4 DEF InfosOf, MapInfo

\* The resync task between two ticks.
LEMMA AsleepType ==
    Asleep \in [pc: {"sleep", "services", "pods"}, services: SUBSET Services,
                pods: [Ips -> Pods \cup {None}]]
  BY DEF Asleep

\* The first state has its types.
LEMMA InitTypes == Init => Types
  BY PodSyncAssumption, AsleepType, EmptyBagFacts, FS_EmptySet DEF Init, Types, TypeOK

\* The changes of the cluster.
LEMMA ClusterTypes ==
    ASSUME Types,
           \/ \E ip \in Ips : \/ PodStops(ip)
                              \/ \E p \in Pods : PodStarts(ip, p) \/ PodChanges(ip, p)
           \/ \E s \in Services : ServiceApplied(s) \/ ServiceDeleted(s)
    PROVE  Types'
<1> USE PodSyncAssumption DEF Types
<1>1. CASE \E ip \in Ips : \/ PodStops(ip)
                           \/ \E p \in Pods : PodStarts(ip, p) \/ PodChanges(ip, p)
  <2>1. PICK ip \in Ips, p \in Pods \cup {None} :
           /\ pods' = [pods EXCEPT ![ip] = p]
           /\ podWatch' = Append(podWatch, <<ip, p>>)
           /\ held' \in {held, [held EXCEPT ![ip] = @ \cup {p}]}
           /\ held' # held => p \in Pods
           /\ UNCHANGED <<services, svcWatch>>
           /\ Change
    BY <1>1 DEF PodStops, PodStarts, PodChanges
  <2>2. pods' \in [Ips -> Pods \cup {None}]
    BY <2>1 DEF TypeOK
  <2>3. podWatch' \in Seq(Ips \X (Pods \cup {None}))
    BY <2>1, AppendProperties DEF TypeOK
  <2>4. held' \in [Ips -> SUBSET Pods]
    <3>1. held \in [Ips -> SUBSET Pods]
      BY DEF TypeOK
    <3>2. CASE held' = held
      BY <3>1, <3>2
    <3>3. CASE held' = [held EXCEPT ![ip] = @ \cup {p}] /\ p \in Pods
      BY <3>1, <3>3
    <3> QED
      BY <2>1, <3>2, <3>3
  <2>5. changes' \in 0 .. MaxChanges
    BY <2>1 DEF TypeOK, Change
  <2> QED
    BY <2>1, <2>2, <2>3, <2>4, <2>5 DEF TypeOK, Change
<1>2. CASE \E s \in Services : ServiceApplied(s) \/ ServiceDeleted(s)
  <2>1. PICK s \in Services, e \in BOOLEAN :
           /\ services' \subseteq services \cup {s}
           /\ svcWatch' = Append(svcWatch, <<s, e>>)
           /\ UNCHANGED <<pods, podWatch, held>>
           /\ Change
    BY <1>2 DEF ServiceApplied, ServiceDeleted, Without
  <2>2. services' \subseteq Services
    BY <2>1 DEF TypeOK
  <2>3. IsFiniteSet(services')
    BY <2>1, FS_AddElement, FS_Subset
  <2>4. svcWatch' \in Seq(Services \X BOOLEAN)
    BY <2>1, AppendProperties DEF TypeOK
  <2>5. changes' \in 0 .. MaxChanges
    BY <2>1 DEF TypeOK, Change
  <2> QED
    BY <2>1, <2>2, <2>3, <2>4, <2>5 DEF TypeOK, Change
<1> QED
  BY <1>1, <1>2

\* The handlers of the agent's watches.
LEMMA HandlerTypes ==
    ASSUME Types, ServiceHandler \/ PodHandler
    PROVE  Types'
<1> USE DEF Types
<1>1. CASE ServiceHandler
  <2>1. Head(svcWatch) \in Services \X BOOLEAN /\ svcWatch' \in Seq(Services \X BOOLEAN)
    BY <1>1, HeadTailProperties DEF TypeOK, ServiceHandler
  <2>2. registry' \subseteq registry \cup {Head(svcWatch)[1]}
    BY <1>1 DEF ServiceHandler, register, deregister, Without
  <2>3. registry' \subseteq Services
    BY <2>1, <2>2 DEF TypeOK
  <2> QED
    BY <1>1, <2>1, <2>3 DEF TypeOK, ServiceHandler
<1>2. CASE PodHandler
  <2>1. /\ Head(podWatch) \in Ips \X (Pods \cup {None})
        /\ podWatch' \in Seq(Ips \X (Pods \cup {None}))
    BY <1>2, HeadTailProperties DEF TypeOK, PodHandler
  <2>2. PICK info \in PodInfo \cup {None} :
           rpcs' = rpcs (+) SetToBag({<<Head(podWatch)[1], info>>})
    BY <1>2, <2>1, InfoTypes DEF PodHandler
  <2>3. IsABag(rpcs') /\ BagToSet(rpcs') \subseteq Ips \X (PodInfo \cup {None})
    <3> DEFINE m == <<Head(podWatch)[1], info>>
    <3>1. IsABag(rpcs) /\ BagToSet(rpcs) \subseteq Ips \X (PodInfo \cup {None})
      BY DEF TypeOK
    <3>2. m \in Ips \X (PodInfo \cup {None})
      BY <2>1
    <3>3. rpcs' = rpcs (+) SetToBag({m})
      BY <2>2
    <3> HIDE DEF m
    <3>4. IsABag(rpcs') /\ BagToSet(rpcs') = BagToSet(rpcs) \cup {m}
      BY <3>1, <3>3, BagAddFacts
    <3> QED
      BY <3>1, <3>2, <3>4
  <2> QED
    BY <1>2, <2>1, <2>3 DEF TypeOK, PodHandler
<1> QED
  BY <1>1, <1>2

\* RPCs that arrive or are lost.
LEMMA RpcTypes ==
    ASSUME Types, NEW m \in BagToSet(rpcs), Deliver(m) \/ Lose(m)
    PROVE  Types'
<1>1. m \in Ips \X (PodInfo \cup {None})
  BY DEF Types, TypeOK
<1>2. IsABag(rpcs') /\ BagToSet(rpcs') \subseteq Ips \X (PodInfo \cup {None})
  <2>1. IsABag(rpcs) /\ BagToSet(rpcs) \subseteq Ips \X (PodInfo \cup {None})
    BY DEF Types, TypeOK
  <2>2. rpcs' = rpcs (-) SetToBag({m})
    BY DEF Deliver, Lose
  <2>3. IsABag(rpcs') /\ BagToSet(rpcs') \subseteq BagToSet(rpcs)
    BY <2>1, <2>2, BagRemoveFacts
  <2> QED
    BY <2>1, <2>3
<1>3. podCache' \in [Ips -> PodInfo \cup {None}]
  BY <1>1 DEF Types, TypeOK, Deliver, Lose
<1> QED
  BY <1>2, <1>3 DEF Types, TypeOK, Deliver, Lose

\* The resync task.
LEMMA ResyncTypes ==
    ASSUME Types, ListServices \/ ListPods \/ SendMap \/ ResyncFails
    PROVE  Types'
<1>1. resync' \in [pc: {"sleep", "services", "pods"}, services: SUBSET Services,
                   pods: [Ips -> Pods \cup {None}]]
  BY AsleepType
     DEF Types, TypeOK, ListServices, ListPods, SendMap, ResyncFails, ResyncStep
<1>2. podCache' \in [Ips -> PodInfo \cup {None}]
  <2>1. CASE SendMap
    <3>1. PICK w \in Winners :
             podCache' = [ip \in Ips |-> IF w[ip] = None THEN podCache[ip]
                                         ELSE MapInfo(w[ip])]
      BY <2>1 DEF SendMap
    <3>2. w \in [Ips -> Services \cup {None}]
      BY DEF Winners
    <3>3. \A ip \in Ips : w[ip] # None => MapInfo(w[ip]) \in PodInfo
      BY <3>2, InfoTypes DEF Types
    <3> QED
      BY <3>1, <3>3 DEF Types, TypeOK
  <2>2. CASE ~ SendMap
    BY <2>2 DEF Types, TypeOK, ListServices, ListPods, ResyncFails
  <2> QED
    BY <2>1, <2>2
<1> QED
  BY <1>1, <1>2
     DEF Types, TypeOK, ListServices, ListPods, SendMap, ResyncFails, ResyncStep

\* Restarts of either side.
LEMMA RestartTypes ==
    ASSUME Types, CoreRestart \/ AgentRestart
    PROVE  Types'
<1> USE PodSyncAssumption DEF Types
<1>1. CASE CoreRestart
  BY <1>1 DEF TypeOK, CoreRestart
<1>2. CASE AgentRestart
  <2>1. Cardinality(services) \in Nat
    BY FS_CardinalityType
  <2>2. svcWatch' \in [1 .. Cardinality(services) -> services \X {TRUE}]
    BY <1>2 DEF AgentRestart
  <2>3. svcWatch' \in [1 .. Cardinality(services) -> Services \X BOOLEAN]
    BY <2>2 DEF TypeOK
  <2>4. svcWatch' \in Seq(Services \X BOOLEAN)
    BY <2>1, <2>3
  <2> QED
    BY <1>2, <2>4, AsleepType, EmptyBagFacts, EmptySeq DEF TypeOK, AgentRestart
<1> QED
  BY <1>1, <1>2

\* Every step keeps the types.
LEMMA NextTypes == Types /\ [Next]_vars => Types'
<1> SUFFICES ASSUME Types, [Next]_vars PROVE Types'
  OBVIOUS
<1>1. CASE UNCHANGED vars
  BY <1>1 DEF Types, TypeOK, vars
<1>2. CASE Next
  BY <1>2, ClusterTypes, HandlerTypes, RpcTypes, ResyncTypes, RestartTypes DEF Next
<1> QED
  BY <1>1, <1>2

\* All state of the cluster's, the agent's and Core's part has its type, for
\* any cluster; the lists that a restarted agent begins with are finite.
THEOREM TypeCorrect == Spec => []TypeOK
<1>1. Types => TypeOK
  BY DEF Types
<1> QED
  BY <1>1, InitTypes, NextTypes, PTL DEF Spec

-----------------------------------------------------------------------------
(* No foreign information                                                  *)

\* The history only grows.
LEMMA HeldGrows ==
    ASSUME Types, [Next]_vars
    PROVE  \A ip \in Ips : held[ip] \subseteq held'[ip]
<1>1. held \in [Ips -> SUBSET Pods]
  BY DEF Types, TypeOK
<1>2. held' = held \/ \E ip \in Ips, p \in Pods : held' = [held EXCEPT ![ip] = @ \cup {p}]
  BY DEF Next, vars, PodStops, PodStarts, PodChanges, ServiceApplied, ServiceDeleted,
         ServiceHandler, PodHandler, Deliver, Lose, ListServices, ListPods, SendMap,
         ResyncFails, ResyncStep, CoreRestart, AgentRestart
<1>3. CASE held' = held
  BY <1>3
<1>4. ASSUME NEW ip \in Ips, NEW p \in Pods, held' = [held EXCEPT ![ip] = @ \cup {p}]
      PROVE  \A ip2 \in Ips : held[ip2] \subseteq held'[ip2]
  BY <1>1, <1>4
<1> QED
  BY <1>2, <1>3, <1>4

\* What the registry or the pod's labels say of a pod describes it.
LEMMA HandlerDescribes ==
    ASSUME Types, RegistrySelects, NEW p \in Pods, NEW info \in InfosOf(p)
    PROVE  Describes(info, p)
<1> DEFINE matching == {s \in registry : Selects(s, p)}
<1>1. CASE matching = {}
  BY <1>1 DEF InfosOf, Describes
<1>2. CASE matching # {}
  <2>1. PICK s \in matching : info = [ns |-> p.ns, app |-> s.name, svc |-> s.name]
    BY <1>2 DEF InfosOf
  <2>2. s \in Services /\ s.selector = p.app
    BY DEF Types, TypeOK, RegistrySelects, HasSelector, Selects
  <2> QED
    BY <2>1, <2>2 DEF Describes
<1> QED
  BY <1>1, <1>2

\* An entry of the map describes the pod that was listed.
LEMMA MapDescribes ==
    ASSUME Types, NEW ip \in Ips, NEW s \in Claiming(ip)
    PROVE  resync.pods[ip] # None /\ Describes(MapInfo(s), resync.pods[ip])
<1>1. /\ s \in Services
      /\ resync.pods[ip] # None
      /\ s.selector = resync.pods[ip].app
  BY DEF Types, TypeOK, Claiming, HasSelector, Selects
<1> QED
  BY <1>1 DEF Describes, MapInfo

\* A step that leaves a part alone keeps it, whatever it adds to the history.
LEMMA Untouched ==
    ASSUME IInv, [Next]_vars
    PROVE  /\ UNCHANGED pods => PodsHeld'
           /\ UNCHANGED podWatch => WatchHeld'
           /\ UNCHANGED resync => ListHeld'
           /\ UNCHANGED rpcs => RpcsTruthful'
           /\ UNCHANGED registry => RegistrySelects'
           /\ UNCHANGED podCache => NoForeignInfo'
<1>1. \A ip \in Ips : held[ip] \subseteq held'[ip]
  BY HeldGrows DEF IInv
<1>2. UNCHANGED pods => PodsHeld'
  BY <1>1 DEF IInv, PodsHeld
<1>3. UNCHANGED podWatch => WatchHeld'
  <2>1. \A i \in 1 .. Len(podWatch) : podWatch[i][1] \in Ips
    BY DEF IInv, Types, TypeOK
  <2> QED
    BY <1>1, <2>1 DEF IInv, WatchHeld
<1>4. UNCHANGED resync => ListHeld'
  BY <1>1 DEF IInv, ListHeld
<1>5. UNCHANGED rpcs => RpcsTruthful'
  <2>1. \A m \in BagToSet(rpcs) : m[1] \in Ips
    BY DEF IInv, Types, TypeOK
  <2> QED
    BY <1>1, <2>1 DEF IInv, RpcsTruthful, Truthful
<1>6. UNCHANGED registry => RegistrySelects'
  BY DEF IInv, RegistrySelects
<1>7. UNCHANGED podCache => NoForeignInfo'
  BY <1>1 DEF IInv, NoForeignInfo, Truthful
<1> QED
  BY <1>2, <1>3, <1>4, <1>5, <1>6, <1>7

\* The cluster changes: a pod that starts or changes enters the history
\* before anybody hears of it.
LEMMA ClusterKeeps ==
    ASSUME IInv, Types', Next,
           \/ \E ip \in Ips : \/ PodStops(ip)
                              \/ \E p \in Pods : PodStarts(ip, p) \/ PodChanges(ip, p)
           \/ \E s \in Services : ServiceApplied(s) \/ ServiceDeleted(s)
    PROVE  IInv'
<1>1. UNCHANGED <<registry, rpcs, resync, podCache>>
  BY DEF PodStops, PodStarts, PodChanges, ServiceApplied, ServiceDeleted, Change
<1>2. PodsHeld' /\ WatchHeld'
  <2>1. CASE UNCHANGED <<pods, podWatch>>
    BY <2>1, Untouched
  <2>2. CASE ~ UNCHANGED <<pods, podWatch>>
    <3>1. PICK ip \in Ips, p \in Pods \cup {None} :
             /\ pods' = [pods EXCEPT ![ip] = p]
             /\ podWatch' = Append(podWatch, <<ip, p>>)
             /\ p # None => p \in held'[ip]
      <4>1. CASE \E ip \in Ips : PodStops(ip)
        BY <4>1 DEF PodStops
      <4>2. CASE \E ip \in Ips, p \in Pods : PodStarts(ip, p) \/ PodChanges(ip, p)
        <5>1. PICK ip \in Ips, p \in Pods :
                 /\ pods' = [pods EXCEPT ![ip] = p]
                 /\ podWatch' = Append(podWatch, <<ip, p>>)
                 /\ held' = [held EXCEPT ![ip] = @ \cup {p}]
          BY <4>2 DEF PodStarts, PodChanges
        <5>2. p \in held'[ip]
          BY <5>1 DEF IInv, Types, TypeOK
        <5> QED
          BY <5>1, <5>2
      <4> QED
        BY <2>2, <4>1, <4>2 DEF ServiceApplied, ServiceDeleted
    <3>2. \A ip2 \in Ips : held[ip2] \subseteq held'[ip2]
      BY HeldGrows DEF IInv
    <3>3. PodsHeld'
      BY <3>1, <3>2 DEF IInv, Types, TypeOK, PodsHeld
    <3>4. /\ \A i \in 1 .. Len(podWatch) : podWatch[i][1] \in Ips
          /\ podWatch \in Seq(Ips \X (Pods \cup {None}))
      BY DEF IInv, Types, TypeOK
    <3>5. /\ Len(podWatch') = Len(podWatch) + 1
          /\ \A i \in 1 .. Len(podWatch) : podWatch'[i] = podWatch[i]
          /\ podWatch'[Len(podWatch) + 1] = <<ip, p>>
      BY <3>1, <3>4
    <3>6. WatchHeld'
      BY <3>1, <3>2, <3>4, <3>5 DEF IInv, WatchHeld
    <3> QED
      BY <3>3, <3>6
  <2> QED
    BY <2>1, <2>2
<1> QED
  BY <1>1, <1>2, Untouched DEF IInv

\* The handlers send what describes the pod they were told of.
LEMMA HandlersKeep ==
    ASSUME IInv, Types', Next, ServiceHandler \/ PodHandler
    PROVE  IInv'
<1>1. CASE ServiceHandler
  <2>1. RegistrySelects'
    BY <1>1 DEF ServiceHandler, register, deregister, Without, IInv, RegistrySelects
  <2> QED
    BY <1>1, <2>1, Untouched DEF ServiceHandler, IInv
<1>2. CASE PodHandler
  <2> DEFINE ip == Head(podWatch)[1]
             p == Head(podWatch)[2]
  <2>1. /\ podWatch \in Seq(Ips \X (Pods \cup {None}))
        /\ podWatch # << >> /\ podWatch' = Tail(podWatch) /\ held' = held
    BY <1>2 DEF IInv, Types, TypeOK, PodHandler
  <2>2. /\ Len(podWatch) > 0 /\ Head(podWatch) = podWatch[1]
        /\ ip \in Ips /\ p \in Pods \cup {None}
        /\ Len(podWatch') = Len(podWatch) - 1
        /\ \A i \in 1 .. Len(podWatch') : podWatch'[i] = podWatch[i + 1]
    BY <2>1
  <2>3. WatchHeld'
    BY <2>1, <2>2 DEF IInv, WatchHeld
  <2>4. p # None => p \in held[ip]
    BY <2>2 DEF IInv, WatchHeld
  <2>5. PICK info \in InfosOf(p) \cup {None} :
           /\ p = None => info = None
           /\ rpcs' = rpcs (+) SetToBag({<<ip, info>>})
    BY <1>2 DEF PodHandler
  <2>6. info # None => \E q \in held[ip] : Describes(info, q)
    BY <2>1, <2>2, <2>4, <2>5, HandlerDescribes DEF IInv
  <2> DEFINE m == <<ip, info>>
  <2>7. m[2] # None => \E q \in held[m[1]] : Describes(m[2], q)
    BY <2>6
  <2> HIDE DEF m, ip, p
  <2>8. BagToSet(rpcs') = BagToSet(rpcs) \cup {m}
    BY <2>5, BagAddFacts DEF IInv, Types, TypeOK, m
  <2>9. RpcsTruthful'
    BY <2>1, <2>7, <2>8 DEF IInv, RpcsTruthful, Truthful
  <2> QED
    BY <1>2, <2>3, <2>9, Untouched DEF PodHandler, IInv
<1> QED
  BY <1>1, <1>2

\* Core stores what an RPC carries; the others stay on their way.
LEMMA RpcsKeep ==
    ASSUME IInv, Types', Next, NEW m \in BagToSet(rpcs), Deliver(m) \/ Lose(m)
    PROVE  IInv'
<1>1. IsABag(rpcs) /\ m \in Ips \X (PodInfo \cup {None}) /\ held' = held
  BY DEF IInv, Types, TypeOK, Deliver, Lose
<1>2. rpcs' = rpcs (-) SetToBag({m})
  BY DEF Deliver, Lose
<1>3. BagToSet(rpcs') \subseteq BagToSet(rpcs)
  BY <1>1, <1>2, BagRemoveFacts
<1>4. RpcsTruthful'
  BY <1>1, <1>3 DEF IInv, RpcsTruthful, Truthful
<1>5. NoForeignInfo'
  BY <1>1 DEF Deliver, Lose, IInv, Types, TypeOK, RpcsTruthful, NoForeignInfo, Truthful
<1> QED
  BY <1>4, <1>5, Untouched DEF Deliver, Lose, IInv

\* The task lists pods that run, and its map describes those it listed, even
\* if they are gone when it is applied.
LEMMA ResyncKeeps ==
    ASSUME IInv, Types', Next, ListServices \/ ListPods \/ SendMap \/ ResyncFails
    PROVE  IInv'
<1>1. UNCHANGED <<pods, podWatch, registry, rpcs, held>>
  BY DEF ListServices, ListPods, SendMap, ResyncFails, ResyncStep
<1>2. ListHeld'
  <2>1. \/ resync'.pods = resync.pods
        \/ resync'.pods = pods
        \/ resync'.pods = [ip \in Ips |-> None]
    <3>1. resync \in [pc: {"sleep", "services", "pods"}, services: SUBSET Services,
                      pods: [Ips -> Pods \cup {None}]]
      BY DEF IInv, Types, TypeOK
    <3>2. CASE ListServices
      BY <3>1, <3>2 DEF ListServices, ResyncStep
    <3>3. CASE ListPods
      BY <3>1, <3>3 DEF ListPods, ResyncStep
    <3>4. CASE SendMap \/ ResyncFails
      BY <3>4 DEF SendMap, ResyncFails, ResyncStep, Asleep
    <3> QED
      BY <3>2, <3>3, <3>4
  <2> QED
    BY <1>1, <2>1 DEF IInv, ListHeld, PodsHeld
<1>3. NoForeignInfo'
  <2>1. CASE SendMap
    <3>1. PICK w \in Winners :
             podCache' = [ip \in Ips |-> IF w[ip] = None THEN podCache[ip]
                                         ELSE MapInfo(w[ip])]
      BY <2>1 DEF SendMap
    <3>2. ASSUME NEW ip \in Ips, w[ip] # None
          PROVE  \E p \in held[ip] : Describes(podCache'[ip], p)
      <4>1. w[ip] \in Claiming(ip)
        BY <3>2 DEF Winners
      <4>2. resync.pods[ip] \in held[ip] /\ Describes(MapInfo(w[ip]), resync.pods[ip])
        BY <4>1, MapDescribes DEF IInv, ListHeld
      <4> QED
        BY <3>1, <3>2, <4>2
    <3>3. \A ip \in Ips : w[ip] = None => podCache'[ip] = podCache[ip]
      BY <3>1
    <3> QED
      BY <1>1, <3>2, <3>3 DEF IInv, NoForeignInfo, Truthful
  <2>2. CASE ~ SendMap
    BY <2>2, Untouched DEF ListServices, ListPods, ResyncFails
  <2> QED
    BY <2>1, <2>2
<1> QED
  BY <1>1, <1>2, <1>3, Untouched DEF IInv

\* A restart forgets, and the new agent hears of no pod.
LEMMA RestartsKeep ==
    ASSUME IInv, Types', Next, CoreRestart \/ AgentRestart
    PROVE  IInv'
<1>1. CASE CoreRestart
  <2>1. NoForeignInfo'
    BY <1>1 DEF CoreRestart, NoForeignInfo
  <2> QED
    BY <1>1, <2>1, Untouched DEF CoreRestart, IInv
<1>2. CASE AgentRestart
  <2>1. WatchHeld' /\ ListHeld' /\ RegistrySelects'
    BY <1>2 DEF AgentRestart, Asleep, WatchHeld, ListHeld, RegistrySelects
  <2>2. RpcsTruthful'
    BY <1>2, EmptyBagFacts DEF AgentRestart, RpcsTruthful
  <2> QED
    BY <1>2, <2>1, <2>2, Untouched DEF AgentRestart, IInv
<1> QED
  BY <1>1, <1>2

\* Every step keeps the invariant.
LEMMA NextKeeps == IInv /\ [Next]_vars => IInv'
<1> SUFFICES ASSUME IInv, [Next]_vars PROVE IInv'
  OBVIOUS
<1>1. Types'
  BY NextTypes DEF IInv
<1>2. CASE UNCHANGED vars
  BY <1>1, <1>2, Untouched DEF vars, IInv
<1>3. CASE Next
  BY <1>1, <1>3, ClusterKeeps, HandlersKeep, RpcsKeep, ResyncKeeps, RestartsKeep DEF Next
<1> QED
  BY <1>2, <1>3

\* An address is never attributed to a pod that did not run there, however
\* RPCs overtake each other or the map, whoever is restarted and however
\* stale the lists are that the resync task holds.
THEOREM NeverForeign == Spec => []NoForeignInfo
<1>1. Init => IInv
  <2> SUFFICES ASSUME Init PROVE IInv
    OBVIOUS
  <2>1. PodsHeld /\ WatchHeld /\ ListHeld /\ RegistrySelects /\ NoForeignInfo
    BY DEF Init, Asleep, PodsHeld, WatchHeld, ListHeld, RegistrySelects, NoForeignInfo
  <2>2. RpcsTruthful
    BY EmptyBagFacts DEF Init, RpcsTruthful
  <2> QED
    BY <2>1, <2>2, InitTypes DEF IInv
<1>2. IInv => NoForeignInfo
  BY DEF IInv
<1> QED
  BY <1>1, <1>2, NextKeeps, PTL DEF Spec

=============================================================================
