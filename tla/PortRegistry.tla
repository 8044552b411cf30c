---------------------------- MODULE PortRegistry ----------------------------
(***************************************************************************)
(* What port exposure promises to the users of a cluster, without its      *)
(* Services, ConfigMaps and rows: a set of routes from the outside to the  *)
(* ports of instances.  A route of protocol TCP or UDP has an external     *)
(* port of its own; an HTTP route is found by its path and has none.       *)
(* Routes are published and withdrawn one at a time.                       *)
(***************************************************************************)
CONSTANTS Binding,   \* records [key, protocol, external]
          NoPort     \* the external port of an HTTP route

VARIABLE routes

Init == routes = {}

\* An instance port has one route, an external port leads to one instance port.
Publish(r) ==
    /\ \A s \in routes : s.key # r.key
    /\ r.external # NoPort =>
          \A s \in routes : <<s.protocol, s.external>> # <<r.protocol, r.external>>
    /\ routes' = routes \cup {r}

Withdraw(r) == r \in routes /\ routes' = routes \ {r}

Next == \E r \in Binding : Publish(r) \/ Withdraw(r)

Spec == Init /\ [][Next]_routes
=============================================================================
