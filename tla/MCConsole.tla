------------------------------ MODULE MCConsole ------------------------------
(***************************************************************************)
(* The UI in front of Core, as an instance for TLC.  App mounts one tab at *)
(* a time: the topology view (Views) or an event view (Tables).  Two tabs  *)
(* share no data in Core, so a behaviour stays with the one it begins with *)
(* and leaves out the writers of what only the other one reads.            *)
(*                                                                         *)
(* Topology: a calls d by way of b and of c, d calls back, and b is also   *)
(* called by the address of its pod.  Events: four rows, pages of one and  *)
(* two.                                                                    *)
(***************************************************************************)
EXTENDS Views, Tables

CONSTANTS a, b, c, d, ipB, default, root, GET

VARIABLE activeView

Node(n) == [app |-> n, ns |-> default]

Call(src, dst) == [source_node |-> src, destination_node |-> dst,
                   path |-> root, method |-> GET]

MCCalls == {Call(Node(a), Node(b)), Call(Node(a), Node(c)),
            Call(Node(b), Node(d)), Call(Node(c), Node(d)),
            Call(Node(d), Node(a)), Call(Node(a), StaleId(ipB))}

MCResolved == [ip \in Ips |-> Node(b)]

ConsoleInit == Init /\ TablesInit /\ activeView \in {"topology", "events"}

ConsoleNext ==
    \/ activeView = "topology" /\ Next /\ UNCHANGED <<activeView, tablesVars>>
    \/ activeView = "events" /\ TablesNext /\ UNCHANGED <<activeView, vars>>

ConsoleSpec ==
    ConsoleInit /\ [][ConsoleNext]_<<activeView, vars, tablesVars>>
=============================================================================
