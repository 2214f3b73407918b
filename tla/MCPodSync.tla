------------------------------ MODULE MCPodSync ------------------------------
(***************************************************************************)
(* Instances of PodSync for TLC.                                           *)
(***************************************************************************)
EXTENDS PodSync

CONSTANTS a, b, blue, green

Pod(n, ns) == [ns |-> ns, app |-> n]
Service(n, ns) == [name |-> n, ns |-> ns, selector |-> n]

-----------------------------------------------------------------------------
\* Two applications take turns at an address, or a pod's label is changed.
\* One of them has a service, whose selector may be removed, and is selected
\* by a service of another namespace, too; the other has none.
RecoverPods == {Pod(a, blue), Pod(b, blue)}
RecoverServices ==
    {Service(a, blue), [Service(a, blue) EXCEPT !.selector = None],
     [Service(b, green) EXCEPT !.selector = a]}

\* An application without a service.
PlainPods == {Pod(b, blue)}
=============================================================================
