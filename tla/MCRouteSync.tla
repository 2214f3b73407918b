---------------------------- MODULE MCRouteSync ----------------------------
(***************************************************************************)
(* Instances of RouteSync for TLC: two services a and b and a virtual host *)
(* that moves from one to the other.                                       *)
(***************************************************************************)
EXTENDS RouteSync

CONSTANTS a, b, ns, shop, cm1, cm2, up, other

Fqdn(l) == <<l, ns, Svc>>
Cluster(name, addr) == [name |-> name, addr |-> addr]
Vhost(domains, routes) == [domains |-> domains, routes |-> routes]

\* The shop is at a.  A wildcard, a virtual host without routes and clusters
\* that are nameless or outside the cluster are passed over.
ShopAtA ==
    [clusters |-> <<Cluster(Empty, Fqdn(b)), Cluster(up, Fqdn(a)), Cluster(other, <<shop>>)>>,
     vhosts   |-> <<Vhost(<< <<Star, shop>>, <<shop>> >>, <<up>>),
                    Vhost(<< <<shop>> >>, << >>), Vhost(<< <<shop>> >>, <<other>>)>>]

\* The shop is at b; a is still a cluster, but the second one.
ShopAtB ==
    [clusters |-> <<Cluster(other, Fqdn(a)), Cluster(up, Fqdn(b))>>,
     vhosts   |-> <<Vhost(<< <<shop>> >>, <<up, other>>)>>]

ShopConfigs == {ShopAtA, ShopAtB}
TwoMaps == <<cm1, cm2>>
=============================================================================
