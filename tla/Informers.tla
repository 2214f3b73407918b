------------------------------ MODULE Informers ------------------------------
(***************************************************************************)
(* The Cluster Agent's informers for resources that only produce events    *)
(* (Deployment, ReplicaSet, Ingress, HPA, Node, Event and four custom      *)
(* resources) and the way of such an event to Core's table.                *)
(*                                                                         *)
(* One informer per kind watches its objects; each change is sent by a     *)
(* task of its own, Core writes each event from a task of its own, and no  *)
(* step is repeated when it fails.  An error on a watch ends its informer. *)
(* The agent waits for the informers of native kinds and stops when one of *)
(* them ends; the informers of custom resources are detached, because the  *)
(* watch of one that is not installed fails at once.  Kubernetes starts a  *)
(* stopped agent again.  The graph's part is in module Store.              *)
(***************************************************************************)
EXTENDS Naturals, Sequences, SequencesExt, Bags

CONSTANTS
    Native,       \* native kinds
    Custom,       \* kinds of custom resources
    Installed,    \* those of them that the cluster knows
    Ephemeral,    \* the kind Event, whose deletions are not sent
    Objects,      \* what may exist: records with a field kind
    MaxChanges,   \* bound on the changes of objects
    MaxErrors,    \* bound on the watch errors of kinds that exist
    MaxRestarts   \* bound on the restarts of Core

Kinds == Native \cup Custom

ASSUME InformersAssumption ==
    /\ Native \cap Custom = {}
    /\ Installed \subseteq Custom
    /\ Ephemeral \subseteq Native
    /\ \A o \in Objects : o.kind \in Native \cup Installed
    /\ MaxChanges \in Nat
    /\ MaxErrors \in Nat
    /\ MaxRestarts \in Nat

VARIABLES
    objects,   \* the cluster: the objects that exist
    up,        \* whether the agent runs
    informer,  \* per kind: whether its informer runs
    watch,     \* per kind: the events its informer has not handled yet
    rpcs,      \* the bag of events on their way to Core
    writers,   \* the bag of events whose database task is running
    rows,      \* the bag of rows of the table k8s_resource_events
    emitted,   \* history: the bag of events that watches delivered
    reported,  \* history: the objects this agent sent an Applied for
    changes, errors, restarts

vars == <<objects, up, informer, watch, rpcs, writers, rows, emitted, reported,
          changes, errors, restarts>>

Event == [object: Objects, type: {"Applied", "Deleted"}]
Applied(o) == [object |-> o, type |-> "Applied"]
Deleted(o) == [object |-> o, type |-> "Deleted"]

EventBag(b) == IsABag(b) /\ BagToSet(b) \subseteq Event

TypeOK ==
    /\ objects \subseteq Objects
    /\ up \in BOOLEAN
    /\ informer \in [Kinds -> BOOLEAN]
    /\ watch \in [Kinds -> Seq(Event)]
    /\ EventBag(rpcs) /\ EventBag(writers) /\ EventBag(rows) /\ EventBag(emitted)
    /\ reported \subseteq Objects
    /\ \A k \in Kinds : informer[k] => up
    /\ changes \in 0 .. MaxChanges
    /\ errors \in 0 .. MaxErrors
    /\ restarts \in 0 .. MaxRestarts

\* An agent that starts in an empty cluster.
Init ==
    /\ objects = {}
    /\ up = TRUE
    /\ informer = [k \in Kinds |-> TRUE]
    /\ watch = [k \in Kinds |-> << >>]
    /\ rpcs = EmptyBag
    /\ writers = EmptyBag
    /\ rows = EmptyBag
    /\ emitted = EmptyBag
    /\ reported = {}
    /\ changes = 0
    /\ errors = 0
    /\ restarts = 0

-----------------------------------------------------------------------------
(* The cluster                                                             *)

\* A watch delivers the changes that happen while its informer runs.
Emit(e) ==
    /\ changes < MaxChanges
    /\ changes' = changes + 1
    /\ IF informer[e.object.kind]
       THEN /\ watch' = [watch EXCEPT ![e.object.kind] = Append(@, e)]
            /\ emitted' = emitted (+) SetToBag({e})
       ELSE UNCHANGED <<watch, emitted>>
    /\ UNCHANGED <<up, informer, rpcs, writers, rows, reported, errors, restarts>>

\* Created or changed.
ObjectApplied(o) == Emit(Applied(o)) /\ objects' = objects \cup {o}

ObjectDeleted(o) == o \in objects /\ Emit(Deleted(o)) /\ objects' = objects \ {o}

-----------------------------------------------------------------------------
(* The agent                                                               *)

\* on_apply, on_delete: K8sEventHandler ignores deletions.
IsSent(e) == e.type = "Applied" \/ e.object.kind \notin Ephemeral

Handle(k) ==
    /\ watch[k] # << >>
    /\ LET e == Head(watch[k])
       IN  /\ rpcs' = IF IsSent(e) THEN rpcs (+) SetToBag({e}) ELSE rpcs
           /\ reported' = IF e.type = "Applied" THEN reported \cup {e.object} ELSE reported
    /\ watch' = [watch EXCEPT ![k] = Tail(@)]
    /\ UNCHANGED <<objects, up, informer, writers, rows, emitted, changes, errors, restarts>>

\* Mutant: the agent waits for every informer.
Awaited_All(k) == k \in Kinds

\* select! waits for these informers, the others are detached.
Awaited(k) == k \in Native

\* Mutant: the other informers go on in a stopped agent.
End_Alone(k) ==
    /\ up' = (up /\ ~ Awaited(k))
    /\ informer' = [informer EXCEPT ![k] = FALSE]
    /\ watch' = [watch EXCEPT ![k] = << >>]
    /\ UNCHANGED <<objects, rpcs, writers, rows, emitted, reported, changes, restarts>>

\* The end of an informer: an awaited one takes the process and its tasks along.
End(k) ==
    LET stops == Awaited(k)
    IN  /\ up' = (up /\ ~ stops)
        /\ informer' = [j \in Kinds |-> informer[j] /\ j # k /\ ~ stops]
        /\ watch' = [j \in Kinds |-> IF j = k \/ stops THEN << >> ELSE watch[j]]
        /\ rpcs' = IF stops THEN EmptyBag ELSE rpcs
        /\ UNCHANGED <<objects, writers, rows, emitted, reported, changes, restarts>>

\* "watcher error": the informer returns, and with it perhaps the agent.
WatchFails(k) ==
    /\ informer[k]
    /\ k \in Native \cup Installed
    /\ errors < MaxErrors
    /\ errors' = errors + 1
    /\ End(k)

\* 404 for a custom resource that is not installed, at every start.
NotInstalled(k) ==
    /\ informer[k]
    /\ k \in Custom \ Installed
    /\ End(k)
    /\ UNCHANGED errors

OfKind(k) == {o \in objects : o.kind = k}

\* Mutant: the trait's default on_init_apply, which does nothing.
InitEvents_None(k) == {<< >>}

\* on_init_apply for every existing object, in any order.
InitEvents(k) == {[i \in DOMAIN s |-> Applied(s[i])] : s \in SetToSeqs(OfKind(k))}

AgentStarts ==
    /\ ~ up
    /\ up' = TRUE
    /\ informer' = [k \in Kinds |-> TRUE]
    /\ watch' \in {w \in [Kinds -> UNION {InitEvents(k) : k \in Kinds}] :
                      \A k \in Kinds : w[k] \in InitEvents(k)}
    /\ emitted' = emitted (+) SetToBag({Applied(o) : o \in objects})
    /\ reported' = {}
    /\ UNCHANGED <<objects, rpcs, writers, rows, changes, errors, restarts>>

-----------------------------------------------------------------------------
(* Core                                                                    *)

\* record_k8s_resource_event starts a task that writes the row.
Deliver(e) ==
    /\ rpcs' = rpcs (-) SetToBag({e})
    /\ writers' = writers (+) SetToBag({e})
    /\ UNCHANGED <<objects, up, informer, watch, rows, emitted, reported, changes, errors, restarts>>

\* Mutant: a failed call is made again although Core may have got it.
Lose_Retry(e) ==
    /\ writers' = writers (+) SetToBag({e})
    /\ UNCHANGED <<objects, up, informer, watch, rpcs, rows, emitted, reported, changes, errors, restarts>>

\* "Failed to send ...": logged.
Lose(e) ==
    /\ rpcs' = rpcs (-) SetToBag({e})
    /\ UNCHANGED <<objects, up, informer, watch, writers, rows, emitted, reported, changes, errors, restarts>>

\* add_k8s_resource_event, or "Failed to persist ...".
Write(e) ==
    /\ writers' = writers (-) SetToBag({e})
    /\ rows' \in {rows, rows (+) SetToBag({e})}
    /\ UNCHANGED <<objects, up, informer, watch, rpcs, emitted, reported, changes, errors, restarts>>

CoreRestart ==
    /\ restarts < MaxRestarts
    /\ restarts' = restarts + 1
    /\ writers' = EmptyBag
    /\ UNCHANGED <<objects, up, informer, watch, rpcs, rows, emitted, reported, changes, errors>>

Next ==
    \/ \E o \in Objects : ObjectApplied(o) \/ ObjectDeleted(o)
    \/ \E k \in Kinds : Handle(k) \/ WatchFails(k) \/ NotInstalled(k)
    \/ AgentStarts
    \/ \E e \in BagToSet(rpcs) : Deliver(e) \/ Lose(e)
    \/ \E e \in BagToSet(writers) : Write(e)
    \/ CoreRestart

Spec == Init /\ [][Next]_vars

\* Informers and the container runtime make progress; a watch that is refused
\* returns.
FairSpec ==
    /\ Spec
    /\ \A k \in Kinds : WF_vars(Handle(k)) /\ WF_vars(NotInstalled(k))
    /\ WF_vars(AgentStarts)

-----------------------------------------------------------------------------
(* Properties                                                              *)

\* How often an event is in a bag, and waits in the watch of its kind.
Copies(e, b) == IF BagIn(e, b) THEN b[e] ELSE 0

Waiting(e) ==
    LET queue == watch[e.object.kind]
    IN  Cardinality({i \in DOMAIN queue : queue[i] = e})

\* A change that a watch delivered, or an object that a new agent found, makes
\* one row at most, through overtaking tasks, lost calls and restarts; and the
\* deletion of an Event makes none.
OneRowPerEvent ==
    /\ \A e \in Event :
          Waiting(e) + Copies(e, rpcs) + Copies(e, writers) + Copies(e, rows)
              <= Copies(e, emitted)
    /\ \A e \in BagToSet(rows) : e.type = "Deleted" => e.object.kind \notin Ephemeral

\* Watch errors of existing kinds are bounded by MaxErrors.  When they are over
\* the agent stays up: a custom resource that is not installed, whose watch
\* fails at every start, "doesn't trigger the select! below and kill the whole
\* server".
AgentStaysUp == <>[] up

\* When all has come to rest the agent has reported every object that exists,
\* also those created before it started, but for custom resources whose
\* informer ended on an error.
ExistingReported ==
    <>[] (\A o \in objects : informer[o.kind] => o \in reported)
=============================================================================
