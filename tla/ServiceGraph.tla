---------------------------- MODULE ServiceGraph ----------------------------
(***************************************************************************)
(* What Core promises of its service graph, without caches, locks, tasks,  *)
(* lists and indexes: a set of services and a set of calls between them.   *)
(* A call is observed as a whole, an unresolved address is replaced by the *)
(* service behind it everywhere at once, and nothing else ever changes     *)
(* but for a restart, which forgets everything.                            *)
(***************************************************************************)

CONSTANTS
    Services,    \* everything that can be a node
    Calls,       \* records with fields source_node and destination_node
    Unresolved,  \* the services that stand for an address
    MayCall      \* the services that may appear as a caller

VARIABLES known, calls

vars == <<known, calls>>

Init == known = {} /\ calls = {}

\* Both ends become known together with the call.
Observe(c) ==
    /\ c.source_node \in MayCall
    /\ known' = known \cup {c.source_node, c.destination_node}
    /\ calls' = calls \cup {c}

Moved(n, old, new) == IF n = old THEN new ELSE n

Redirected(c, old, new) ==
    [c EXCEPT !.source_node = Moved(c.source_node, old, new),
              !.destination_node = Moved(c.destination_node, old, new)]

Identify(old, new) ==
    /\ known' = (known \ {old}) \cup {new}
    /\ calls' = {Redirected(c, old, new) : c \in calls}

Forget == known' = {} /\ calls' = {}

\* A call that was observed, and a service that was identified, are shown
\* from then on.
Next ==
    \/ \E c \in calls' \cap Calls : Observe(c)
    \/ \E old \in known \cap Unresolved, new \in known' \cap Services :
          Identify(old, new)
    \/ Forget

Spec == Init /\ [][Next]_vars

=============================================================================
