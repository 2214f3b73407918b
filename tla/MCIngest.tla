------------------------------ MODULE MCIngest ------------------------------
(***************************************************************************)
(* Instances of Ingest for TLC: a caller a, a callee b, both behind        *)
(* services, and the traffic, mappings and routes of a small cluster.      *)
(***************************************************************************)
EXTENDS Ingest, TLC

CONSTANTS a, b, c, proxy, ipA, ipB, ipC, default, infra,
          root, other, health, GET

IpHost(ip) == [form |-> "ip", name |-> ip, ns |-> Empty]
Label(n) == [form |-> "label", name |-> n, ns |-> Empty]
Domain(n) == [form |-> "domain", name |-> n, ns |-> Empty]
Svc(n, ns) == [form |-> "svc", name |-> n, ns |-> ns]

TaskSymmetry == Permutations(Tasks)

Node(n) == [app |-> n, ns |-> default]
Info(n) == [ns |-> default, app |-> n, svc |-> n]

Call(src, dst, host, path) ==
    [src |-> src, dst |-> dst, host |-> [name |-> host, port |-> Empty],
     path |-> path, method |-> GET]

-----------------------------------------------------------------------------
\* Healing: ipB is called by address and by name while a single pod event, a
\* pod map and deletions race; ipB may be reused by c.
HealHosts == {IpHost(ipB), Svc(b, default)}
HealInputs == {Call(ipA, ipB, IpHost(ipB), root),
               Call(ipA, ipB, Svc(b, default), other)}
HealUpdates == {<<ipB, Info(c)>>}
HealMaps == {<< <<ipA, Info(a)>>, <<ipB, Info(b)>> >>}

\* Routes: virtual hosts that Envoy maps to b and c, with the proxy's pod, of
\* another namespace, at ipB.
RouteHosts == {Domain(b), Domain(c)}
RouteInputs == {Call(ipA, ipB, Domain(b), root), Call(ipA, ipB, Domain(c), root),
                Call(ipA, ipB, Domain(b), health)}
RouteMaps == {<< <<ipB, [Info(proxy) EXCEPT !.ns = infra]>>, <<ipA, Info(a)>> >>}
RouteTables == {<< <<Domain(b), Node(b)>>, <<Domain(c), Node(c)>> >>}

\* Direct: every pod is behind the service it is named after and keeps its
\* address, but the caller's may be known without a name at first; calls by
\* address, to a host that is public until a route names its service, and
\* health checks; no proxy.
DirectHosts == {IpHost(ipB), Domain(c)}
DirectInputs == {Call(ipA, ipB, IpHost(ipB), root),
                 Call(ipA, ipC, Domain(c), root),
                 Call(ipB, ipC, Domain(c), root),
                 Call(ipA, ipC, Domain(c), health)}
DirectUpdates == {<<ipA, [Info(Empty) EXCEPT !.svc = Empty]>>}
DirectMaps == {<< <<ipA, Info(a)>>, <<ipB, Info(b)>> >>}
DirectRoutes == {<< <<Domain(c), Node(c)>> >>}
=============================================================================
