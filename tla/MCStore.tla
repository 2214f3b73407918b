------------------------------ MODULE MCStore ------------------------------
(***************************************************************************)
(* Instances of Store for TLC.                                             *)
(***************************************************************************)
EXTENDS Store

CONSTANTS a, b, ip1, blue, green, root, GET, POST, Rollout

Node(n, ns) == [app |-> n, ns |-> ns]
Call(src, dst, method) ==
    [source_node |-> src, destination_node |-> dst,
     path |-> root, method |-> method]

-----------------------------------------------------------------------------
\* Service a calls b by address and by name: two flows until ip1 is resolved,
\* equal ones afterwards; and with two methods.  Deployments of b report
\* rollouts.
FlushCalls == {Call(Node(a, blue), StaleId(ip1), GET),
               Call(Node(a, blue), Node(b, blue), GET),
               Call(Node(a, blue), Node(b, blue), POST)}
HealPods == {<<ip1, Node(b, blue)>>}
Rollouts == {<<Node(b, blue), Rollout>>}

\* The same calls from two namespaces.
NamespaceCalls == {Call(Node(a, blue), Node(b, blue), GET),
                   Call(Node(a, green), Node(b, green), GET)}
=============================================================================
