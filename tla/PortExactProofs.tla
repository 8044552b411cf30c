--------------------------- MODULE PortExactProofs ---------------------------
(***************************************************************************)
(* Proofs about PortExposure when requests are served one after the other  *)
(* and no call has failed: the cluster holds what the table says, but for  *)
(* the pieces of the one route in hand, and routes come and go as          *)
(* PortRegistry has it.                                                    *)
(***************************************************************************)
EXTENDS PortSequentialProofs

\* Exactly one handler.
Serving == Alone /\ Handlers # {}

\* The route in hand, and the rows of all the others.
Own(h) == [key |-> Key(h), protocol |-> protocol[h], external |-> external[h]]
Rest(h) == {b \in bindings : pc[h] \in KeySteps => b.key # Key(h)}

\* Which pieces of the route in hand are there: an opening puts them up one by one, a
\* closing takes them down in the same order.
Closing(h) == req[h].op = "close"
ServiceUp(h) ==
    pc[h] \in {"loadCounter", "storeCounter", "createIngress", "delService"} \cup Given
IngressUp(h) ==
    /\ protocol[h] = "HTTP"
    /\ pc[h] = "commit" \/ (Closing(h) /\ pc[h] \in {"delService", "delIngress"})
EntryUp(h) ==
    /\ protocol[h] # "HTTP"
    /\ \/ pc[h] \in {"getPorts", "putPorts", "commit"}
       \/ Closing(h) /\ pc[h] \in {"delService", "delEntry", "delEntryPut"}
PortUp(h) ==
    /\ protocol[h] # "HTTP"
    /\ \/ pc[h] = "commit"
       \/ Closing(h) /\ pc[h] \in {"delService", "delEntry", "delEntryPut",
                                           "delPortGet", "delPortPut"}

\* The cluster holds the pieces of the other rows, those of the route in hand that are
\* up, and nothing else.
ServicesExact(h) ==
    \A k \in Keys :
        k \in services <=> \/ \E b \in Rest(h) : b.key = k
                           \/ ServiceUp(h) /\ k = Key(h)
IngressesExact(h) ==
    \A k \in Keys :
        k \in ingresses <=> \/ \E b \in Rest(h) : b.protocol = "HTTP" /\ b.key = k
                            \/ IngressUp(h) /\ k = Key(h)
EntriesExact(h) ==
    \A p \in L4, e \in ExternalPorts, k \in Keys :
        configMaps[p][e] = k <=>
            \/ \E b \in Rest(h) : b.protocol = p /\ b.external = e /\ b.key = k
            \/ EntryUp(h) /\ p = protocol[h] /\ e = external[h] /\ k = Key(h)
PortOpen(p, e) == <<p, e>> \in lbPorts["service"]
PortsExact(h) ==
    \A p \in L4, e \in ExternalPorts :
        PortOpen(p, e) <=>
            \/ \E b \in Rest(h) : b.protocol = p /\ b.external = e
            \/ PortUp(h) /\ p = protocol[h] /\ e = external[h]
Exact(h) == ServicesExact(h) /\ IngressesExact(h) /\ EntriesExact(h) /\ PortsExact(h)

\* What a handler has before it when no call fails: an opening works for a port without
\* a row and is rolled back only when there is no external port left, a closing follows
\* its row.
EntrySteps == {"delEntry", "delEntryPut", "delPortGet", "delPortPut"}
Undoing(h) == IF protocol[h] = "HTTP" THEN "delIngress" ELSE "delEntry"
Agenda(h) ==
    /\ pc[h] \in KeySteps => req[h].op \in {"open", "close"}
    /\ pc[h] \in KeySteps /\ ~Closing(h) => RowsOf(Key(h)) = {}
    /\ pc[h] \in KeySteps /\ Closing(h) => Own(h) \in bindings
    /\ pc[h] = "delService" =>
          plan[h] = IF Closing(h) THEN <<Undoing(h), "delRow">> ELSE <<>>
    /\ pc[h] \in EntrySteps \cup {"delIngress"} => Closing(h) /\ plan[h] = <<"delRow">>
    /\ pc[h] = "delRow" => Closing(h)
    /\ pc[h] = "delIngress" => protocol[h] = "HTTP"
    /\ pc[h] \in {"putMap", "delEntryPut"} => MapAccepted(h)
    /\ pc[h] \in {"putPorts", "delPortPut"} => LB!Current(h, "service")

\* A deletion takes the rows away first, and the instance with the next step.
Afterwards == {"listServices", "dropServices", "dropIngresses"}
CaseOK(h) ==
    /\ pc[h] \notin Afterwards
    /\ IF pc[h] = "dropDeployment" THEN \A b \in bindings : Exposed(b)
       ELSE Exact(h) /\ Agenda(h)

\* One row for an instance port; an HTTP row, and no other, is without external port.
RowsDistinct == \A b, c \in bindings : b.key = c.key => b = c
RowsShaped == \A b \in bindings : b.protocol = "HTTP" <=> b.external = NoPort

Intact == faults = 0 => expired = {}
KnownInstance ==
    \A h \in Handlers :
        pc[h] \in {"dropRows", "dropDeployment"} => req[h].instance \in Instances

ExactInv ==
    /\ SequentialInv /\ TallyInv
    /\ RowsDistinct /\ RowsShaped /\ Intact /\ KnownInstance
    /\ Undisturbed => \A h \in Handlers : CaseOK(h)

-----------------------------------------------------------------------------
(* What the steps have in common.                                          *)

Held == {"idle", "validate", "lookup", "served", "dropRows"}

LEMMA Apart ==
    /\ \A s \in Held : s \notin KeySteps /\ s \notin Afterwards /\ s # "dropDeployment"
    /\ \A s \in KeySteps : s \notin Afterwards /\ s # "dropDeployment"
BY DEF Held, KeySteps, OpenSteps, CleanupSteps, Afterwards

LEMMA KeysNamed == \A k \in Keys : k # NoKey
<1> SUFFICES ASSUME NEW i \in Instances, NEW p \in Ports, <<i, p>> = <<>> PROVE FALSE
  BY DEF Keys, NoKey
<1>1. Len(<<i, p>>) = 2 /\ Len(<<>>) = 0
  OBVIOUS
<1>2. QED
  BY <1>1

\* Without a failure every call does what it is asked to.
LEMMA NoneFails ==
    ASSUME IndInv, Intact, NEW h \in Handlers, NEW o \in Outcomes, Call(h, o),
           faults = 0, faults' = 0
    PROVE  o = "ok"
BY DEF Intact, Outcomes, Call

\* Outside the work on one port there are rows alone.
LEMMA AtRest ==
    ASSUME NEW h \in Handlers, pc[h] \in Held, CaseOK(h)
    PROVE  /\ Rest(h) = bindings /\ Exact(h)
           /\ ~ServiceUp(h) /\ ~IngressUp(h) /\ ~EntryUp(h) /\ ~PortUp(h)
<1>1. pc[h] \notin KeySteps /\ pc[h] # "dropDeployment"
  BY Apart
<1>2. QED
  BY <1>1 DEF CaseOK, Rest, ServiceUp, IngressUp, EntryUp, PortUp, Held, Given

LEMMA RestAgain ==
    ASSUME NEW h \in Handlers, pc'[h] \in Held
    PROVE  /\ Rest(h)' = bindings' /\ Agenda(h)'
           /\ ~ServiceUp(h)' /\ ~IngressUp(h)' /\ ~EntryUp(h)' /\ ~PortUp(h)'
           /\ Exact(h)' => CaseOK(h)'
<1>1. pc'[h] \notin KeySteps /\ pc'[h] # "dropDeployment" /\ pc'[h] \notin Afterwards
  BY Apart
<1>2. Rest(h)' = bindings' /\ Agenda(h)'
  BY <1>1 DEF Rest, Agenda, EntrySteps, KeySteps, OpenSteps, CleanupSteps
<1>3. ~ServiceUp(h)' /\ ~IngressUp(h)' /\ ~EntryUp(h)' /\ ~PortUp(h)'
  BY DEF ServiceUp, IngressUp, EntryUp, PortUp, Held, Given
<1>4. QED
  BY <1>1, <1>2, <1>3 DEF CaseOK

LEMMA SamePorts ==
    ASSUME UNCHANGED lbPorts
    PROVE  \A p, e : PortOpen(p, e)' <=> PortOpen(p, e)
BY DEF PortOpen

\* A step that leaves the cluster and the table as they are, between two ports.
LEMMA Resting ==
    ASSUME NEW h \in Handlers, pc[h] \in Held, pc'[h] \in Held, CaseOK(h),
           UNCHANGED <<bindings, services, ingresses, configMaps, lbPorts>>
    PROVE  CaseOK(h)'
<1>1. /\ Rest(h)' = Rest(h) /\ Exact(h)
      /\ ~ServiceUp(h) /\ ~IngressUp(h) /\ ~EntryUp(h) /\ ~PortUp(h)
      /\ ~ServiceUp(h)' /\ ~IngressUp(h)' /\ ~EntryUp(h)' /\ ~PortUp(h)'
  BY AtRest, RestAgain
<1>2. ServicesExact(h)' /\ IngressesExact(h)'
  BY <1>1 DEF Exact, ServicesExact, IngressesExact
<1>3. EntriesExact(h)'
  BY <1>1 DEF Exact, EntriesExact
<1>4. PortsExact(h)'
  BY <1>1, SamePorts DEF Exact, PortsExact
<1>5. QED
  BY <1>2, <1>3, <1>4, RestAgain DEF Exact

\* A step in the work on one port that adds and removes no row.
LEMMA OnTask ==
    ASSUME NEW h \in Handlers, pc[h] \in KeySteps, pc'[h] \in KeySteps,
           UNCHANGED <<bindings, req, pos>>
    PROVE  /\ Key(h)' = Key(h) /\ Rest(h)' = Rest(h) /\ (Closing(h)' <=> Closing(h))
           /\ RowsOf(Key(h))' = RowsOf(Key(h))
           /\ Exact(h)' /\ Agenda(h)' => CaseOK(h)'
<1>1. Key(h)' = Key(h) /\ (Closing(h)' <=> Closing(h))
  BY DEF Key, Config, Closing
<1>2. Rest(h)' = Rest(h) /\ RowsOf(Key(h))' = RowsOf(Key(h))
  BY <1>1 DEF Rest, RowsOf
<1>3. QED
  BY <1>1, <1>2, Apart DEF CaseOK

\* Such a step leaves what it does not touch exact.
LEMMA ServicesStay ==
    ASSUME NEW h \in Handlers, ServicesExact(h), UNCHANGED services, Rest(h)' = Rest(h),
           Key(h)' = Key(h), ServiceUp(h)' <=> ServiceUp(h)
    PROVE  ServicesExact(h)'
BY DEF ServicesExact

LEMMA IngressesStay ==
    ASSUME NEW h \in Handlers, IngressesExact(h), UNCHANGED ingresses, Rest(h)' = Rest(h),
           Key(h)' = Key(h), IngressUp(h)' <=> IngressUp(h)
    PROVE  IngressesExact(h)'
BY DEF IngressesExact

LEMMA EntriesStay ==
    ASSUME NEW h \in Handlers, EntriesExact(h), UNCHANGED configMaps, Rest(h)' = Rest(h),
           Key(h)' = Key(h), EntryUp(h)' <=> EntryUp(h),
           EntryUp(h) => UNCHANGED <<protocol, external>>
    PROVE  EntriesExact(h)'
BY DEF EntriesExact

LEMMA PortsStay ==
    ASSUME NEW h \in Handlers, PortsExact(h), UNCHANGED lbPorts, Rest(h)' = Rest(h),
           PortUp(h)' <=> PortUp(h), PortUp(h) => UNCHANGED <<protocol, external>>
    PROVE  PortsExact(h)'
BY SamePorts DEF PortsExact

\* An accepted Update of a ConfigMap is based on what the server holds.
LEMMA MapFromCurrent ==
    ASSUME IndInv, FreshCopies, NEW h \in Handlers, MapAccepted(h), protocol[h] \in L4,
           NEW v, CM!Put(h, protocol[h], v)
    PROVE  /\ cmCopy[h] = configMaps[protocol[h]] /\ cmCopy[h] \in ConfigMap
           /\ \A p \in L4 : configMaps'[p] = IF p = protocol[h] THEN v ELSE configMaps[p]
<1>1. configMaps \in [L4 -> ConfigMap] /\ cmCopy[h] \in ConfigMap
  BY DEF IndInv, TypeOK, CM!TypeOK
<1>2. cmCopy[h] = configMaps[protocol[h]]
  <2>1. cmHeld[h] = protocol[h] /\ protocol[h] # "none"
    BY DEF MapAccepted, CM!Current, L4
  <2>2. QED
    BY <2>1 DEF FreshCopies, CM!FreshCopy
<1>3. configMaps' = [configMaps EXCEPT ![protocol[h]] = v]
  BY DEF CM!Put
<1>4. QED
  BY <1>1, <1>2, <1>3

\* An accepted Update of the ingress-nginx Service is based on what the server holds.
LEMMA PutFromCurrent ==
    ASSUME IndInv, FreshCopies, NEW h \in Handlers, LB!Current(h, "service"), NEW ports,
           LB!Put(h, "service", ports)
    PROVE  lbPorts'["service"] = ports /\ lbCopy[h] = lbPorts["service"]
<1>1. lbPorts \in [{"service"} -> SUBSET Exposure]
  BY DEF IndInv, TypeOK, LB!TypeOK
<1>2. QED
  BY <1>1 DEF LB!Put, LB!Current, FreshCopies, LB!FreshCopy

\* Where all that is claimed of a route comes from.
LEMMA AtWork ==
    ASSUME ExactInv, Undisturbed, NEW h \in Handlers, pc[h] \in KeySteps
    PROVE  /\ Exact(h) /\ Agenda(h) /\ Key(h) \in Keys /\ RouteOK(h) /\ IndInv
           /\ FreshCopies
           /\ pc[h] \in OpenSteps => ~Closing(h)
           /\ pc \in [Handlers -> Steps] /\ plan \in [Handlers -> Plans]
           /\ protocol \in [Handlers -> Protocols] /\ external \in [Handlers -> MaybePort]
           /\ pc[h] \in PoolSteps => protocol[h] \in L4 /\ external[h] \in ExternalPorts
           /\ Intact /\ faults = 0
<1>1. CaseOK(h) /\ IndInv /\ RouteOK(h) /\ Intact /\ TallyOK(h) /\ faults = 0
      /\ FreshCopies
  BY DEF ExactInv, SequentialInv, TallyInv, Undisturbed
<1>2. Exact(h) /\ Agenda(h)
  BY <1>1, Apart DEF CaseOK
<1>3. pc[h] \in OpenSteps => ~Closing(h)
  BY <1>1 DEF TallyOK, TasksOK, Closing
<1>4. Key(h) \in Keys /\ (pc[h] \in PoolSteps => OwnsPort(h))
  BY <1>1 DEF IndInv, LocalsOK
<1>5. QED
  BY <1>1, <1>2, <1>3, <1>4 DEF IndInv, TypeOK, OwnsPort
-----------------------------------------------------------------------------
(* The request.                                                            *)

LEMMA RequestExact ==
    ASSUME ExactInv, Undisturbed, NEW h \in Handlers,
           Receive(h) \/ Validate(h) \/ Advance(h) \/ UNCHANGED vars
    PROVE  CaseOK(h)'
<1>1. CaseOK(h) /\ pc \in [Handlers -> Steps]
  BY DEF ExactInv, SequentialInv, IndInv, TypeOK
<1>2. ASSUME Receive(h) \/ Validate(h) \/ Advance(h) PROVE CaseOK(h)'
  <2>1. UNCHANGED <<bindings, services, ingresses, configMaps, lbPorts>>
    BY <1>2 DEF Receive, Validate, Advance, clusterVars, cmVars, lbVars
  <2>2. pc[h] \in Held
    BY <1>2 DEF Receive, Validate, Advance, Held
  <2>3. CASE Receive(h) \/ Advance(h)
    BY <1>1, <2>1, <2>2, <2>3, Resting DEF Receive, Advance, Held
  <2>4. CASE Validate(h)
    BY <1>1, <2>1, <2>2, <2>4, Resting DEF Validate, Serve, Held
  <2>5. QED
    BY <1>2, <2>3, <2>4
<1>3. ASSUME UNCHANGED vars PROVE CaseOK(h)'
  <2>1. UNCHANGED <<pc, req, pos, protocol, external, plan>>
    BY <1>3 DEF vars, handlerVars, jobVars
  <2>2. UNCHANGED <<bindings, services, ingresses, configMaps, lbPorts, cmHeld, lbHeld>>
    BY <1>3 DEF vars, clusterVars, cmVars, lbVars
  <2>3. Key(h)' = Key(h) /\ Own(h)' = Own(h)
    BY <2>1 DEF Key, Config, Own
  <2>4. /\ Rest(h)' = Rest(h) /\ (ServiceUp(h)' <=> ServiceUp(h))
        /\ (IngressUp(h)' <=> IngressUp(h)) /\ (EntryUp(h)' <=> EntryUp(h))
        /\ (PortUp(h)' <=> PortUp(h)) /\ (Closing(h)' <=> Closing(h))
    BY <2>1, <2>2, <2>3 DEF Rest, ServiceUp, IngressUp, EntryUp, PortUp, Closing
  <2>5. Exact(h) => Exact(h)'
    BY <2>1, <2>2, <2>3, <2>4, ServicesStay, IngressesStay, EntriesStay, PortsStay DEF Exact
  <2>6. Agenda(h) => Agenda(h)'
    BY <2>1, <2>2, <2>3, <2>4 DEF Agenda, RowsOf, Undoing, MapAccepted, CM!Current,
       LB!Current
  <2>7. \A b : Exposed(b)' <=> Exposed(b)
    BY <2>2 DEF Exposed
  <2>8. QED
    BY <1>1, <2>1, <2>2, <2>5, <2>6, <2>7 DEF CaseOK
<1>4. QED
  BY <1>2, <1>3

\* An opening begins for a port without a row, of which the cluster has nothing; a
\* closing with all that its row stands for.
LEMMA OpeningBegins ==
    ASSUME ExactInv, Undisturbed, NEW h \in Handlers, pc[h] = "lookup",
           req[h].op = "open", RowsOf(Key(h)) = {}, Go(h, "createService"),
           UNCHANGED <<bindings, services, ingresses, configMaps, lbPorts>>
    PROVE  CaseOK(h)'
<1>1. CaseOK(h) /\ IndInv /\ pc[h] \in Held
  BY DEF ExactInv, SequentialInv, Held
<1>2. /\ Rest(h) = bindings /\ Exact(h)
      /\ ~ServiceUp(h) /\ ~IngressUp(h) /\ ~EntryUp(h) /\ ~PortUp(h)
  BY <1>1, AtRest
<1>3. pc'[h] = "createService" /\ UNCHANGED <<req, pos, protocol, external>>
  BY <1>1, GoMoves
<1>4. Key(h)' = Key(h) /\ req'[h].op = "open" /\ ~Closing(h)'
  BY <1>3 DEF Key, Config, Closing
<1>5. RowsOf(Key(h))' = {} /\ Rest(h)' = bindings
  BY <1>4 DEF RowsOf, Rest
<1>6. ~ServiceUp(h)' /\ ~IngressUp(h)' /\ ~EntryUp(h)' /\ ~PortUp(h)'
  BY <1>3, <1>4 DEF ServiceUp, IngressUp, EntryUp, PortUp, Given
<1>7. Exact(h)'
  BY <1>2, <1>4, <1>5, <1>6, ServicesStay, IngressesStay, EntriesStay, PortsStay DEF Exact
<1>8. Agenda(h)'
  BY <1>3, <1>4, <1>5 DEF Agenda, EntrySteps
<1>9. QED
  BY <1>3, <1>7, <1>8 DEF CaseOK, Afterwards

LEMMA ClosingBegins ==
    ASSUME ExactInv, Undisturbed, NEW h \in Handlers, pc[h] = "lookup",
           req[h].op = "close", NEW b \in RowsOf(Key(h)), StartClosing(h, b),
           UNCHANGED <<bindings, services, ingresses, configMaps, lbPorts>>
    PROVE  CaseOK(h)'
<1>1. CaseOK(h) /\ IndInv /\ pc[h] \in Held
  BY DEF ExactInv, SequentialInv, Held
<1>2. /\ Rest(h) = bindings /\ Exact(h)
      /\ ~ServiceUp(h) /\ ~IngressUp(h) /\ ~EntryUp(h) /\ ~PortUp(h)
  BY <1>1, AtRest
<1>3. /\ pc'[h] = "delService" /\ UNCHANGED <<req, pos>>
      /\ protocol'[h] = b.protocol /\ external'[h] = b.external
      /\ plan'[h] = <<IF b.protocol = "HTTP" THEN "delIngress" ELSE "delEntry", "delRow">>
  BY <1>1 DEF StartClosing, IndInv, TypeOK
<1>4. Key(h)' = Key(h) /\ req'[h].op = "close" /\ Closing(h)'
  BY <1>3 DEF Key, Config, Closing
<1>5. b \in bindings /\ b.key = Key(h) /\ b \in Binding
  BY <1>1 DEF RowsOf, IndInv, TypeOK
<1>6. \A c \in bindings : c \in Rest(h)' <=> c # b
  BY <1>3, <1>4, <1>5 DEF Rest, KeySteps, CleanupSteps, ExactInv, RowsDistinct
<1>7. Rest(h)' \subseteq bindings
  BY DEF Rest
<1>8. /\ ServiceUp(h)' /\ (IngressUp(h)' <=> b.protocol = "HTTP")
      /\ (EntryUp(h)' <=> b.protocol # "HTTP") /\ (PortUp(h)' <=> b.protocol # "HTTP")
  BY <1>3, <1>4 DEF ServiceUp, IngressUp, EntryUp, PortUp
<1>9. ServicesExact(h)'
  BY <1>2, <1>4, <1>5, <1>6, <1>7, <1>8 DEF Exact, ServicesExact
<1>10. IngressesExact(h)'
  BY <1>2, <1>4, <1>5, <1>6, <1>7, <1>8 DEF Exact, IngressesExact
<1>11. \A p \in L4 : p # "HTTP"
  BY DEF L4
<1>12. EntriesExact(h)'
  BY <1>2, <1>3, <1>4, <1>5, <1>6, <1>7, <1>8, <1>11 DEF Exact, EntriesExact
<1>13. PortsExact(h)'
  BY <1>2, <1>3, <1>5, <1>6, <1>7, <1>8, <1>11, SamePorts DEF Exact, PortsExact
<1>14. Own(h)' = b
  BY <1>3, <1>4, <1>5 DEF Own, Binding
<1>15. Agenda(h)'
  BY <1>3, <1>4, <1>5, <1>14 DEF Agenda, EntrySteps, Undoing
<1>16. QED
  BY <1>3, <1>9, <1>10, <1>12, <1>13, <1>15 DEF CaseOK, Afterwards, Exact

LEMMA LookupExact ==
    ASSUME ExactInv, Undisturbed, Undisturbed', NEW h \in Handlers, Lookup(h)
    PROVE  CaseOK(h)'
<1>1. /\ CaseOK(h) /\ IndInv /\ pc[h] = "lookup" /\ pc[h] \in Held /\ pc \in [Handlers -> Steps]
      /\ UNCHANGED <<bindings, services, ingresses, configMaps, lbPorts>>
  BY DEF ExactInv, SequentialInv, Held, Lookup, clusterVars, cmVars, lbVars, IndInv, TypeOK
<1>2. req[h].op \in {"open", "close", "delete"}
  BY <1>1, RequestsAssumption DEF IndInv, LocalsOK, Request
<1>3. \/ \E outcome : Serve(h, outcome)
      \/ Go(h, "dropRows")
      \/ req[h].op = "open" /\ RowsOf(Key(h)) = {} /\ Go(h, "createService")
      \/ req[h].op = "close" /\ \E b \in RowsOf(Key(h)) : StartClosing(h, b)
  <2>1. PICK o \in Outcomes :
         IF o # "ok" \/ req[h].instance \notin Instances THEN Serve(h, "failure")
         ELSE CASE req[h].op = "delete" -> Go(h, "dropRows")
                [] req[h].op = "open" -> IF RowsOf(Key(h)) # {} THEN Serve(h, "success")
                                         ELSE Go(h, "createService")
                [] req[h].op = "close" -> IF RowsOf(Key(h)) = {} THEN Serve(h, "success")
                                          ELSE \E b \in RowsOf(Key(h)) : StartClosing(h, b)
    BY DEF Lookup
  <2>2. QED
    BY <1>2, <2>1
<1>4. ASSUME NEW outcome, Serve(h, outcome) PROVE CaseOK(h)'
  BY <1>1, <1>4, Resting DEF Serve, Held
<1>5. CASE Go(h, "dropRows")
  BY <1>1, <1>5, Resting DEF Go, Held
<1>6. QED
  BY <1>1, <1>3, <1>4, <1>5, OpeningBegins, ClosingBegins
-----------------------------------------------------------------------------
(* Opening a port.                                                         *)

\* A step from one step of an opening to another: Rest and Key stay, and what is left
\* to show is about the pieces and the copies.
LEMMA Building1 ==
    ASSUME ExactInv, Undisturbed, NEW h \in Handlers, pc[h] \in OpenSteps,
           pc'[h] \in OpenSteps, UNCHANGED <<bindings, req, pos, protocol>>,
           pc'[h] = "putMap" => MapAccepted(h)',
           pc'[h] = "putPorts" => LB!Current(h, "service")'
    PROVE  /\ Key(h)' = Key(h) /\ Rest(h)' = Rest(h) /\ ~Closing(h) /\ ~Closing(h)'
           /\ Agenda(h)' /\ (Exact(h)' => CaseOK(h)')
<1>1. pc[h] \in KeySteps /\ pc'[h] \in KeySteps
  BY DEF KeySteps
<1>2. ~Closing(h) /\ Agenda(h)
  BY <1>1, AtWork
<1>3. /\ Key(h)' = Key(h) /\ Rest(h)' = Rest(h) /\ ~Closing(h)'
      /\ RowsOf(Key(h))' = RowsOf(Key(h))
  BY <1>1, <1>2, OnTask
<1>4. Agenda(h)'
  BY <1>1, <1>2, <1>3 DEF Agenda, OpenSteps, EntrySteps
<1>5. QED
  BY <1>1, <1>2, <1>3, <1>4, OnTask

\* Where a step leads that moves one piece of the route in hand.
Onward(h, steps) ==
    /\ pc'[h] \in steps /\ Rest(h)' = Rest(h)
    /\ UNCHANGED <<req, pos, protocol, external>>

LEMMA CreateServiceExact ==
    ASSUME ExactInv, Undisturbed, Undisturbed', NEW h \in Handlers, CreateService(h)
    PROVE  CaseOK(h)' /\ Onward(h, {"loadCounter", "createIngress"})
<1>1. pc[h] = "createService" /\ pc[h] \in KeySteps /\ pc[h] \in OpenSteps
  BY DEF CreateService, KeySteps, OpenSteps
<1>2. /\ Exact(h) /\ Agenda(h) /\ Key(h) \in Keys /\ IndInv /\ Intact
      /\ ~Closing(h) /\ protocol[h] \in Protocols
  BY <1>1, AtWork
<1>3. UNCHANGED <<bindings, ingresses, configMaps, lbPorts>>
  BY DEF CreateService, cmVars, lbVars
<1>4. PICK o \in Outcomes :
         /\ Call(h, o)
         /\ services' = IF o = "refused" THEN services ELSE services \cup {Key(h)}
         /\ IF Created(h, o)
            THEN Go(h, IF protocol[h] \in L4 THEN "loadCounter" ELSE "createIngress")
            ELSE Serve(h, "failure")
  BY DEF CreateService
<1>5. o = "ok"
  BY <1>2, <1>4, NoneFails DEF Undisturbed
<1>6. Key(h) \notin services
  BY <1>1, <1>2 DEF Exact, ServicesExact, Rest, ServiceUp, Given
<1>7. /\ pc'[h] \in {"loadCounter", "createIngress"}
      /\ UNCHANGED <<req, pos, protocol, external>>
  BY <1>2, <1>4, <1>5, <1>6, GoMoves DEF Created
<1>8. /\ Key(h)' = Key(h) /\ Rest(h)' = Rest(h) /\ ~Closing(h)'
      /\ (Exact(h)' => CaseOK(h)')
  BY <1>1, <1>3, <1>7, Building1 DEF OpenSteps
<1>9. /\ ServiceUp(h)' /\ ~ServiceUp(h)
      /\ ~IngressUp(h) /\ ~EntryUp(h) /\ ~PortUp(h)
      /\ ~IngressUp(h)' /\ ~EntryUp(h)' /\ ~PortUp(h)'
  BY <1>1, <1>2, <1>7, <1>8 DEF ServiceUp, IngressUp, EntryUp, PortUp, Given
<1>10. ServicesExact(h)'
  BY <1>2, <1>4, <1>5, <1>8, <1>9 DEF Exact, ServicesExact
<1>11. IngressesExact(h)' /\ EntriesExact(h)' /\ PortsExact(h)'
  BY <1>2, <1>3, <1>8, <1>9, IngressesStay, EntriesStay, PortsStay DEF Exact
<1>12. CaseOK(h)'
  BY <1>8, <1>10, <1>11 DEF Exact
<1>13. QED
  BY <1>12, <1>7, <1>8 DEF Onward

LEMMA LoadCounterExact ==
    ASSUME ExactInv, Undisturbed, NEW h \in Handlers, LoadCounter(h)
    PROVE  CaseOK(h)'
<1>1. pc[h] = "loadCounter" /\ pc[h] \in KeySteps /\ pc[h] \in OpenSteps
  BY DEF LoadCounter, KeySteps, OpenSteps
<1>2. /\ Exact(h) /\ Agenda(h) /\ IndInv /\ ~Closing(h) /\ pc \in [Handlers -> Steps]
      /\ plan \in [Handlers -> Plans]
  BY <1>1, AtWork
<1>3. UNCHANGED <<bindings, services, ingresses, configMaps, lbPorts>>
  BY DEF LoadCounter, clusterVars, cmVars, lbVars
<1>4. /\ pc'[h] = "storeCounter" \/ (pc'[h] = "delService" /\ plan'[h] = <<>>)
      /\ UNCHANGED <<req, pos, protocol>>
  <2>1. CASE PoolExhausted
    <3>1. Perform(h, <<"delService">>)
      BY <2>1 DEF LoadCounter, UndoAllocate
    <3>2. QED
      BY <1>2, <3>1 DEF Perform, jobVars
  <2>2. CASE ~PoolExhausted
    BY <1>2, <2>2 DEF LoadCounter
  <2>3. QED
    BY <2>1, <2>2
<1>5. pc'[h] \in KeySteps
  BY <1>4 DEF KeySteps, OpenSteps, CleanupSteps
<1>6. /\ Key(h)' = Key(h) /\ Rest(h)' = Rest(h) /\ ~Closing(h)'
      /\ RowsOf(Key(h))' = RowsOf(Key(h)) /\ (Exact(h)' /\ Agenda(h)' => CaseOK(h)')
  BY <1>1, <1>2, <1>3, <1>4, <1>5, OnTask
<1>7. /\ ServiceUp(h) /\ ServiceUp(h)'
      /\ ~IngressUp(h) /\ ~EntryUp(h) /\ ~PortUp(h)
      /\ ~IngressUp(h)' /\ ~EntryUp(h)' /\ ~PortUp(h)'
  BY <1>1, <1>2, <1>4, <1>6 DEF ServiceUp, IngressUp, EntryUp, PortUp
<1>8. Exact(h)'
  BY <1>2, <1>3, <1>6, <1>7, ServicesStay, IngressesStay, EntriesStay, PortsStay DEF Exact
<1>9. Agenda(h)'
  BY <1>1, <1>2, <1>4, <1>5, <1>6 DEF Agenda, EntrySteps
<1>10. QED
  BY <1>6, <1>8, <1>9

LEMMA StoreCounterExact ==
    ASSUME ExactInv, Undisturbed, NEW h \in Handlers, StoreCounter(h)
    PROVE  CaseOK(h)'
<1>1. pc[h] = "storeCounter" /\ pc[h] \in KeySteps /\ pc[h] \in OpenSteps
  BY DEF StoreCounter, KeySteps, OpenSteps
<1>2. Exact(h) /\ IndInv /\ ~Closing(h)
  BY <1>1, AtWork
<1>3. UNCHANGED <<bindings, services, ingresses, configMaps, lbPorts>>
  BY DEF StoreCounter, clusterVars, cmVars, lbVars
<1>4. pc'[h] = "getMap" /\ UNCHANGED <<req, pos, protocol, external>>
  BY <1>2, GoMoves DEF StoreCounter
<1>5. /\ Key(h)' = Key(h) /\ Rest(h)' = Rest(h) /\ ~Closing(h)'
      /\ (Exact(h)' => CaseOK(h)')
  BY <1>1, <1>3, <1>4, Building1 DEF OpenSteps
<1>6. /\ ServiceUp(h) /\ ServiceUp(h)'
      /\ ~IngressUp(h) /\ ~EntryUp(h) /\ ~PortUp(h)
      /\ ~IngressUp(h)' /\ ~EntryUp(h)' /\ ~PortUp(h)'
  BY <1>1, <1>2, <1>4, <1>5 DEF ServiceUp, IngressUp, EntryUp, PortUp, Given
<1>7. QED
  BY <1>2, <1>3, <1>5, <1>6, ServicesStay, IngressesStay, EntriesStay, PortsStay DEF Exact

LEMMA GetMapExact ==
    ASSUME ExactInv, Undisturbed, Undisturbed', NEW h \in Handlers, GetMap(h)
    PROVE  CaseOK(h)'
<1>1. pc[h] = "getMap" /\ pc[h] \in KeySteps /\ pc[h] \in OpenSteps
  BY DEF GetMap, KeySteps, OpenSteps
<1>2. Exact(h) /\ IndInv /\ Intact /\ ~Closing(h)
  BY <1>1, AtWork
<1>3. UNCHANGED <<bindings, services, ingresses, lbPorts>>
  BY DEF GetMap, lbVars
<1>4. PICK o \in Outcomes :
         /\ Read(h, o)
         /\ IF o = "ok"
            THEN CM!Get(h, protocol[h]) /\ Go(h, "putMap")
            ELSE UNCHANGED cmVars /\ Perform(h, <<"delService">>)
  BY DEF GetMap
<1>5. o = "ok"
  BY <1>2, <1>4, NoneFails DEF Undisturbed, Read
<1>6. pc'[h] = "putMap" /\ UNCHANGED <<req, pos, protocol, external>>
  BY <1>2, <1>4, <1>5, GoMoves
<1>7. UNCHANGED configMaps /\ cmHeld'[h] = protocol[h]
  BY <1>2, <1>4, <1>5 DEF CM!Get, IndInv, TypeOK, CM!TypeOK
<1>8. MapAccepted(h)'
  BY <1>6, <1>7 DEF MapAccepted, CM!Current
<1>9. /\ Key(h)' = Key(h) /\ Rest(h)' = Rest(h) /\ ~Closing(h)'
      /\ (Exact(h)' => CaseOK(h)')
  BY <1>1, <1>3, <1>6, <1>8, Building1 DEF OpenSteps
<1>10. /\ ServiceUp(h) /\ ServiceUp(h)'
      /\ ~IngressUp(h) /\ ~EntryUp(h) /\ ~PortUp(h)
      /\ ~IngressUp(h)' /\ ~EntryUp(h)' /\ ~PortUp(h)'
  BY <1>1, <1>2, <1>6, <1>9 DEF ServiceUp, IngressUp, EntryUp, PortUp, Given
<1>11. QED
  BY <1>2, <1>3, <1>7, <1>9, <1>10, ServicesStay, IngressesStay, EntriesStay, PortsStay
     DEF Exact

\* The entry appears, where there was none and no row has its external port.
LEMMA PutMapExact ==
    ASSUME ExactInv, Undisturbed, Undisturbed', NEW h \in Handlers, PutMap(h)
    PROVE  CaseOK(h)' /\ Onward(h, {"getPorts"})
<1>1. pc[h] = "putMap" /\ pc[h] \in KeySteps /\ pc[h] \in OpenSteps /\ pc[h] \in PoolSteps
  BY DEF PutMap, KeySteps, OpenSteps, PoolSteps
<1>2. /\ Exact(h) /\ Agenda(h) /\ IndInv /\ Intact /\ ~Closing(h) /\ RouteOK(h)
      /\ FreshCopies /\ protocol[h] \in L4 /\ external[h] \in ExternalPorts /\ Key(h) \in Keys
  BY <1>1, AtWork
<1>3. UNCHANGED <<bindings, services, ingresses, lbPorts>>
  BY DEF PutMap, lbVars
<1>4. PICK o \in Outcomes :
         /\ Call(h, o)
         /\ IF o # "refused" /\ MapAccepted(h)
            THEN CM!Put(h, protocol[h], WithEntry(h)) ELSE CM!Drop(h)
         /\ IF o = "ok" /\ MapAccepted(h) THEN Go(h, "getPorts")
            ELSE Perform(h, <<"delService">>)
  BY DEF PutMap
<1>5. o = "ok" /\ MapAccepted(h)
  BY <1>1, <1>2, <1>4, NoneFails DEF Undisturbed, Agenda
<1>6. pc'[h] = "getPorts" /\ UNCHANGED <<req, pos, protocol, external>>
  BY <1>2, <1>4, <1>5, GoMoves
<1>7. /\ Key(h)' = Key(h) /\ Rest(h)' = Rest(h) /\ ~Closing(h)'
      /\ (Exact(h)' => CaseOK(h)')
  BY <1>1, <1>3, <1>6, Building1 DEF OpenSteps
<1>8. \A p \in L4, e \in ExternalPorts :
         configMaps'[p][e] = IF p = protocol[h] /\ e = external[h] THEN Key(h)
                             ELSE configMaps[p][e]
  <2>1. CM!Put(h, protocol[h], WithEntry(h))
    BY <1>4, <1>5
  <2>2. /\ cmCopy[h] = configMaps[protocol[h]] /\ cmCopy[h] \in ConfigMap
        /\ \A p \in L4 : configMaps'[p] = IF p = protocol[h] THEN WithEntry(h)
                                          ELSE configMaps[p]
    BY <1>2, <1>5, <2>1, MapFromCurrent
  <2>3. QED
    BY <1>2, <2>2 DEF WithEntry, ConfigMap
<1>9. \A b \in Rest(h) : b.external # external[h]
  BY <1>1, <1>2 DEF RouteOK, Given, Rest, L4
<1>10. protocol[h] # "HTTP"
  BY <1>2 DEF L4
<1>11. /\ ServiceUp(h) /\ ServiceUp(h)' /\ ~EntryUp(h) /\ EntryUp(h)'
      /\ ~IngressUp(h) /\ ~PortUp(h) /\ ~IngressUp(h)' /\ ~PortUp(h)'
  BY <1>1, <1>2, <1>6, <1>7, <1>10 DEF ServiceUp, IngressUp, EntryUp, PortUp, Given
<1>12. EntriesExact(h)'
  <2> SUFFICES ASSUME NEW p \in L4, NEW e \in ExternalPorts, NEW k \in Keys
               PROVE  configMaps'[p][e] = k <=>
            \/ \E b \in Rest(h) : b.protocol = p /\ b.external = e /\ b.key = k
            \/ p = protocol[h] /\ e = external[h] /\ k = Key(h)
    BY <1>6, <1>7, <1>11 DEF EntriesExact
  <2>1. CASE p = protocol[h] /\ e = external[h]
    BY <1>8, <1>9, <2>1
  <2>2. CASE ~(p = protocol[h] /\ e = external[h])
    BY <1>2, <1>8, <2>2 DEF Exact, EntriesExact
  <2>3. QED
    BY <2>1, <2>2
<1>13. ServicesExact(h)' /\ IngressesExact(h)' /\ PortsExact(h)'
  BY <1>2, <1>3, <1>7, <1>11, ServicesStay, IngressesStay, PortsStay DEF Exact
<1>14. CaseOK(h)'
  BY <1>7, <1>12, <1>13 DEF Exact
<1>15. QED
  BY <1>14, <1>6, <1>7 DEF Onward

LEMMA GetPortsExact ==
    ASSUME ExactInv, Undisturbed, Undisturbed', NEW h \in Handlers, GetPorts(h)
    PROVE  CaseOK(h)'
<1>1. /\ pc[h] = "getPorts" /\ pc[h] \in KeySteps /\ pc[h] \in OpenSteps
      /\ pc[h] \in PoolSteps
  BY DEF GetPorts, KeySteps, OpenSteps, PoolSteps
<1>2. /\ Exact(h) /\ IndInv /\ Intact /\ ~Closing(h) /\ RouteOK(h)
      /\ protocol[h] \in L4 /\ external[h] \in ExternalPorts
  BY <1>1, AtWork
<1>3. UNCHANGED <<bindings, services, ingresses, configMaps>>
  BY DEF GetPorts, cmVars
<1>4. PICK o \in Outcomes :
         /\ Read(h, o)
         /\ CASE o # "ok" -> UNCHANGED lbVars /\ UndoPatch(h)
              [] o = "ok" /\ OwnExposure(h) \in lbPorts["service"] ->
                   UNCHANGED lbVars /\ Go(h, "commit")
              [] o = "ok" /\ OwnExposure(h) \notin lbPorts["service"] ->
                   LB!Get(h, "service") /\ Go(h, "putPorts")
  BY DEF GetPorts
<1>5. o = "ok"
  BY <1>2, <1>4, NoneFails DEF Undisturbed, Read
<1>6. ~PortOpen(protocol[h], external[h])
  <2>1. \A b \in Rest(h) : b.external # external[h]
    BY <1>1, <1>2 DEF RouteOK, Given, Rest, L4
  <2>2. ~PortUp(h)
    BY <1>1, <1>2 DEF PortUp
  <2>3. QED
    BY <1>2, <2>1, <2>2 DEF Exact, PortsExact
<1>7. LB!Get(h, "service") /\ Go(h, "putPorts")
  BY <1>4, <1>5, <1>6 DEF PortOpen, OwnExposure
<1>8. pc'[h] = "putPorts" /\ UNCHANGED <<req, pos, protocol, external>>
  BY <1>2, <1>7, GoMoves
<1>9. UNCHANGED lbPorts /\ LB!Current(h, "service")'
  BY <1>2, <1>7 DEF LB!Get, LB!Current, IndInv, TypeOK, LB!TypeOK
<1>10. /\ Key(h)' = Key(h) /\ Rest(h)' = Rest(h) /\ ~Closing(h)'
       /\ (Exact(h)' => CaseOK(h)')
  BY <1>1, <1>3, <1>8, <1>9, Building1 DEF OpenSteps
<1>11. protocol[h] # "HTTP"
  BY <1>2 DEF L4
<1>12. /\ ServiceUp(h) /\ ServiceUp(h)' /\ EntryUp(h) /\ EntryUp(h)'
       /\ ~IngressUp(h) /\ ~PortUp(h) /\ ~IngressUp(h)' /\ ~PortUp(h)'
  BY <1>1, <1>2, <1>8, <1>10, <1>11 DEF ServiceUp, IngressUp, EntryUp, PortUp, Given
<1>13. QED
  BY <1>2, <1>3, <1>8, <1>9, <1>10, <1>12, ServicesStay, IngressesStay, EntriesStay,
     PortsStay DEF Exact

\* The last piece of a route appears, at a port no row has.
LEMMA PutPortsExact ==
    ASSUME ExactInv, Undisturbed, Undisturbed', NEW h \in Handlers, PutPorts(h)
    PROVE  CaseOK(h)' /\ Onward(h, {"commit"})
<1>1. /\ pc[h] = "putPorts" /\ pc[h] \in KeySteps /\ pc[h] \in OpenSteps
      /\ pc[h] \in PoolSteps
  BY DEF PutPorts, KeySteps, OpenSteps, PoolSteps
<1>2. /\ Exact(h) /\ Agenda(h) /\ IndInv /\ Intact /\ ~Closing(h) /\ FreshCopies
      /\ protocol[h] \in L4 /\ external[h] \in ExternalPorts
  BY <1>1, AtWork
<1>3. UNCHANGED <<bindings, services, ingresses, configMaps>>
  BY DEF PutPorts, cmVars
<1>4. PICK o \in Outcomes :
         /\ Call(h, o)
         /\ IF o # "refused" /\ LB!Current(h, "service")
            THEN LB!Put(h, "service", lbCopy[h] \cup {OwnExposure(h)})
            ELSE LB!Drop(h)
         /\ IF o = "ok" /\ LB!Current(h, "service") THEN Go(h, "commit") ELSE UndoPatch(h)
  BY DEF PutPorts
<1>5. o = "ok" /\ LB!Current(h, "service")
  BY <1>1, <1>2, <1>4, NoneFails DEF Undisturbed, Agenda
<1>6. pc'[h] = "commit" /\ UNCHANGED <<req, pos, protocol, external>>
  BY <1>2, <1>4, <1>5, GoMoves
<1>7. lbPorts'["service"] = lbPorts["service"] \cup {<<protocol[h], external[h]>>}
  BY <1>2, <1>4, <1>5, PutFromCurrent DEF OwnExposure
<1>8. \A p, e : PortOpen(p, e)' <=>
                   PortOpen(p, e) \/ (p = protocol[h] /\ e = external[h])
  BY <1>7 DEF PortOpen
<1>9. /\ Key(h)' = Key(h) /\ Rest(h)' = Rest(h) /\ ~Closing(h)'
      /\ (Exact(h)' => CaseOK(h)')
  BY <1>1, <1>3, <1>6, Building1 DEF OpenSteps
<1>10. protocol[h] # "HTTP"
  BY <1>2 DEF L4
<1>11. /\ ServiceUp(h) /\ ServiceUp(h)' /\ EntryUp(h) /\ EntryUp(h)'
       /\ ~IngressUp(h) /\ ~PortUp(h) /\ ~IngressUp(h)' /\ PortUp(h)'
  BY <1>1, <1>2, <1>6, <1>9, <1>10 DEF ServiceUp, IngressUp, EntryUp, PortUp, Given
<1>12. PortsExact(h)'
  BY <1>2, <1>6, <1>8, <1>9, <1>11 DEF Exact, PortsExact
<1>13. ServicesExact(h)' /\ IngressesExact(h)' /\ EntriesExact(h)'
  BY <1>2, <1>3, <1>6, <1>9, <1>11, ServicesStay, IngressesStay, EntriesStay DEF Exact
<1>14. CaseOK(h)'
  BY <1>9, <1>12, <1>13 DEF Exact
<1>15. QED
  BY <1>14, <1>6, <1>9 DEF Onward

LEMMA CreateIngressExact ==
    ASSUME ExactInv, Undisturbed, Undisturbed', NEW h \in Handlers, CreateIngress(h)
    PROVE  CaseOK(h)' /\ Onward(h, {"commit"})
<1>1. pc[h] = "createIngress" /\ pc[h] \in KeySteps /\ pc[h] \in OpenSteps
  BY DEF CreateIngress, KeySteps, OpenSteps
<1>2. /\ Exact(h) /\ IndInv /\ Intact /\ ~Closing(h) /\ Key(h) \in Keys
      /\ protocol[h] = "HTTP"
  BY <1>1, AtWork DEF IndInv, LocalsOK
<1>3. UNCHANGED <<bindings, services, configMaps, lbPorts>>
  BY DEF CreateIngress, cmVars, lbVars
<1>4. PICK o \in Outcomes :
         /\ Call(h, o)
         /\ ingresses' = IF o = "refused" THEN ingresses ELSE ingresses \cup {Key(h)}
         /\ IF o # "ok" \/ Key(h) \in ingresses THEN Perform(h, <<"delService">>)
            ELSE Go(h, "commit")
  BY DEF CreateIngress
<1>5. o = "ok"
  BY <1>2, <1>4, NoneFails DEF Undisturbed
<1>6. Key(h) \notin ingresses
  BY <1>1, <1>2 DEF Exact, IngressesExact, Rest, IngressUp
<1>7. pc'[h] = "commit" /\ UNCHANGED <<req, pos, protocol, external>>
  BY <1>2, <1>4, <1>5, <1>6, GoMoves
<1>8. /\ Key(h)' = Key(h) /\ Rest(h)' = Rest(h) /\ ~Closing(h)'
      /\ (Exact(h)' => CaseOK(h)')
  BY <1>1, <1>3, <1>7, Building1 DEF OpenSteps
<1>9. /\ ServiceUp(h) /\ ServiceUp(h)' /\ ~EntryUp(h) /\ ~EntryUp(h)'
      /\ ~IngressUp(h) /\ IngressUp(h)' /\ ~PortUp(h) /\ ~PortUp(h)'
  BY <1>1, <1>2, <1>7, <1>8 DEF ServiceUp, IngressUp, EntryUp, PortUp, Given
<1>10. IngressesExact(h)'
  BY <1>2, <1>4, <1>5, <1>8, <1>9 DEF Exact, IngressesExact
<1>11. ServicesExact(h)' /\ EntriesExact(h)' /\ PortsExact(h)'
  BY <1>2, <1>3, <1>8, <1>9, ServicesStay, EntriesStay, PortsStay DEF Exact
<1>12. CaseOK(h)'
  BY <1>8, <1>10, <1>11 DEF Exact
<1>13. QED
  BY <1>12, <1>7, <1>8 DEF Onward

\* The row takes the place of the route in hand.
LEMMA CommitExact ==
    ASSUME ExactInv, Undisturbed, Undisturbed', NEW h \in Handlers, Commit(h)
    PROVE  CaseOK(h)' /\ bindings' = bindings \cup {Own(h)} /\ pc'[h] = "served"
<1>1. pc[h] = "commit" /\ pc[h] \in KeySteps /\ pc[h] \in OpenSteps
  BY DEF Commit, KeySteps, OpenSteps
<1>2. /\ Exact(h) /\ Agenda(h) /\ IndInv /\ Intact /\ ~Closing(h) /\ Key(h) \in Keys
      /\ pc \in [Handlers -> Steps]
  BY <1>1, AtWork
<1>3. UNCHANGED <<services, ingresses, configMaps, lbPorts>>
  BY DEF Commit, clusterVars, cmVars, lbVars
<1>4. RowsOf(Key(h)) = {}
  BY <1>1, <1>2 DEF Agenda
<1>5. PICK o \in Outcomes :
         /\ Call(h, o)
         /\ bindings' = IF o = "refused" \/ RowsOf(Key(h)) # {} THEN bindings
                        ELSE bindings \cup {Own(h)}
         /\ o = "ok" /\ RowsOf(Key(h)) = {} => Serve(h, "success")
  BY DEF Commit, Own
<1>6. o = "ok"
  BY <1>2, <1>5, NoneFails DEF Undisturbed
<1>7. bindings' = bindings \cup {Own(h)} /\ Serve(h, "success")
  BY <1>4, <1>5, <1>6
<1>8. pc'[h] = "served" /\ pc'[h] \in Held
  BY <1>2, <1>7 DEF Serve, Held
<1>9. /\ Own(h).key = Key(h) /\ Own(h).protocol = protocol[h]
      /\ Own(h).external = external[h]
  BY DEF Own
<1>10. Rest(h) = bindings
  BY <1>4 DEF Rest, RowsOf
<1>11. /\ Rest(h)' = bindings' /\ (Exact(h)' => CaseOK(h)')
       /\ ~ServiceUp(h)' /\ ~IngressUp(h)' /\ ~EntryUp(h)' /\ ~PortUp(h)'
  BY <1>8, RestAgain
<1>12. /\ ServiceUp(h) /\ (IngressUp(h) <=> protocol[h] = "HTTP")
       /\ (EntryUp(h) <=> protocol[h] # "HTTP") /\ (PortUp(h) <=> protocol[h] # "HTTP")
  BY <1>1, <1>2 DEF ServiceUp, IngressUp, EntryUp, PortUp, Given
<1>13. \A p \in L4 : p # "HTTP"
  BY DEF L4
<1> DEFINE own == Own(h)
<1>14. /\ Rest(h)' = Rest(h) \cup {own} /\ own.key = Key(h)
       /\ own.protocol = protocol[h] /\ own.external = external[h]
  BY <1>7, <1>9, <1>10, <1>11
<1> HIDE DEF own
<1>15. ServicesExact(h)'
  BY <1>2, <1>3, <1>11, <1>12, <1>14 DEF Exact, ServicesExact
<1>16. IngressesExact(h)'
  BY <1>2, <1>3, <1>11, <1>12, <1>14 DEF Exact, IngressesExact
<1>17. EntriesExact(h)'
  BY <1>2, <1>3, <1>11, <1>12, <1>13, <1>14 DEF Exact, EntriesExact
<1>18. PortsExact(h)'
  BY <1>2, <1>3, <1>11, <1>12, <1>13, <1>14, SamePorts DEF Exact, PortsExact
<1>19. QED
  BY <1>7, <1>8, <1>11, <1>15, <1>16, <1>17, <1>18 DEF Exact
-----------------------------------------------------------------------------
(* Closing a port, and undoing an opening that got no external port.       *)

LEMMA DelServiceExact ==
    ASSUME ExactInv, Undisturbed, Undisturbed', NEW h \in Handlers, DelService(h)
    PROVE  CaseOK(h)' /\ Onward(h, {"served", "delIngress", "delEntry"})
<1>1. pc[h] = "delService" /\ pc[h] \in KeySteps
  BY DEF DelService, KeySteps, CleanupSteps
<1>2. /\ Exact(h) /\ Agenda(h) /\ IndInv /\ Intact /\ Key(h) \in Keys
      /\ pc \in [Handlers -> Steps] /\ plan \in [Handlers -> Plans]
      /\ protocol[h] \in Protocols
  BY <1>1, AtWork
<1>3. UNCHANGED <<bindings, ingresses, configMaps, lbPorts>>
  BY DEF DelService, cmVars, lbVars
<1>4. PICK o \in Outcomes :
         /\ Call(h, o)
         /\ services' = IF o = "refused" THEN services ELSE services \ {Key(h)}
  BY DEF DelService
<1>5. services' = services \ {Key(h)}
  BY <1>2, <1>4, NoneFails DEF Undisturbed
<1>6. \A b \in Rest(h) : b.key # Key(h)
  BY <1>1 DEF Rest
<1>7. ServiceUp(h)
  BY <1>1 DEF ServiceUp
<1>8. CASE ~Closing(h)
  <2>1. plan[h] = <<>> /\ RowsOf(Key(h)) = {}
    BY <1>1, <1>2, <1>8 DEF Agenda
  <2>2. Serve(h, "failure")
    BY <2>1 DEF DelService, NextCleanup, Perform
  <2>3. /\ pc'[h] = "served" /\ pc'[h] \in Held
        /\ UNCHANGED <<req, pos, protocol, external>>
    BY <1>2, <2>2 DEF Serve, Held, jobVars
  <2>4. Rest(h) = bindings
    BY <2>1 DEF Rest, RowsOf
  <2>5. /\ Rest(h)' = bindings /\ (Exact(h)' => CaseOK(h)')
        /\ ~ServiceUp(h)' /\ ~IngressUp(h)' /\ ~EntryUp(h)' /\ ~PortUp(h)'
    BY <1>3, <2>3, RestAgain
  <2>6. ~IngressUp(h) /\ ~EntryUp(h) /\ ~PortUp(h)
    BY <1>1, <1>8 DEF IngressUp, EntryUp, PortUp
  <2>7. ServicesExact(h)'
    BY <1>2, <1>5, <1>6, <1>7, <2>4, <2>5 DEF Exact, ServicesExact
  <2>8. IngressesExact(h)'
    BY <1>2, <1>3, <2>4, <2>5, <2>6 DEF Exact, IngressesExact
  <2>9. EntriesExact(h)'
    BY <1>2, <1>3, <2>4, <2>5, <2>6 DEF Exact, EntriesExact
  <2>10. PortsExact(h)'
    BY <1>2, <1>3, <2>4, <2>5, <2>6, SamePorts DEF Exact, PortsExact
  <2>11. QED
    BY <2>3, <2>4, <2>5, <2>7, <2>8, <2>9, <2>10 DEF Exact, Onward
<1>9. CASE Closing(h)
  <2>1. plan[h] = <<Undoing(h), "delRow">>
    BY <1>1, <1>2, <1>9 DEF Agenda
  <2>2. /\ pc'[h] = Undoing(h) /\ plan'[h] = <<"delRow">>
        /\ UNCHANGED <<req, pos, protocol, external>>
    BY <1>2, <2>1 DEF DelService, NextCleanup, Perform, jobVars
  <2>3. pc'[h] \in KeySteps
    BY <2>2 DEF Undoing, KeySteps, CleanupSteps
  <2>4. /\ Key(h)' = Key(h) /\ Rest(h)' = Rest(h) /\ Closing(h)'
        /\ (Exact(h)' /\ Agenda(h)' => CaseOK(h)')
    BY <1>1, <1>3, <1>9, <2>2, <2>3, OnTask
  <2>5. /\ ~ServiceUp(h)' /\ (IngressUp(h)' <=> IngressUp(h))
        /\ (EntryUp(h)' <=> EntryUp(h)) /\ (PortUp(h)' <=> PortUp(h))
    BY <1>1, <1>9, <2>2, <2>4 DEF ServiceUp, IngressUp, EntryUp, PortUp, Undoing, Given
  <2>6. ServicesExact(h)'
    BY <1>2, <1>5, <1>6, <1>7, <2>4, <2>5 DEF Exact, ServicesExact
  <2>7. IngressesExact(h)' /\ EntriesExact(h)' /\ PortsExact(h)'
    BY <1>2, <1>3, <2>2, <2>4, <2>5, IngressesStay, EntriesStay, PortsStay DEF Exact
  <2>8. Own(h)' = Own(h) /\ Undoing(h)' = Undoing(h) /\ req'[h].op = req[h].op
    BY <2>2, <2>4 DEF Own, Undoing
  <2>9. Agenda(h)'
    BY <1>1, <1>2, <1>3, <1>9, <2>2, <2>3, <2>4, <2>8 DEF Agenda, EntrySteps, Undoing
  <2>10. QED
    BY <2>2, <2>4, <2>6, <2>7, <2>9 DEF Exact, Onward, Undoing
<1>10. QED
  BY <1>8, <1>9

\* A step from one of a closing's to another, its row still in the table.
LEMMA Dismantling ==
    ASSUME ExactInv, Undisturbed, NEW h \in Handlers,
           pc[h] \in EntrySteps \cup {"delIngress"}, pc'[h] \in EntrySteps \cup {"delRow"},
           UNCHANGED <<bindings, req, pos, protocol, external>>,
           pc'[h] \in EntrySteps => UNCHANGED plan,
           pc'[h] = "delEntryPut" => MapAccepted(h)',
           pc'[h] = "delPortPut" => LB!Current(h, "service")'
    PROVE  /\ Key(h)' = Key(h) /\ Rest(h)' = Rest(h) /\ Closing(h) /\ Closing(h)'
           /\ Agenda(h)' /\ (Exact(h)' => CaseOK(h)')
<1>1. pc[h] \in KeySteps /\ pc'[h] \in KeySteps
  BY DEF KeySteps, EntrySteps, CleanupSteps
<1>2. Agenda(h)
  BY <1>1, AtWork
<1>3. Closing(h) /\ plan[h] = <<"delRow">>
  BY <1>2 DEF Agenda
<1>4. /\ Key(h)' = Key(h) /\ Rest(h)' = Rest(h) /\ Closing(h)'
      /\ RowsOf(Key(h))' = RowsOf(Key(h)) /\ (Exact(h)' /\ Agenda(h)' => CaseOK(h)')
  BY <1>1, <1>3, OnTask
<1>5. Own(h)' = Own(h)
  BY <1>4 DEF Own
<1>6. Agenda(h)'
  BY <1>1, <1>2, <1>3, <1>4, <1>5 DEF Agenda, EntrySteps
<1>7. QED
  BY <1>3, <1>4, <1>6

\* After the last of the pieces the row.
LEMMA RowNext ==
    ASSUME IndInv, NEW h \in Handlers, plan[h] = <<"delRow">>, NextCleanup(h)
    PROVE  pc'[h] = "delRow" /\ UNCHANGED <<req, pos, protocol, external>>
BY DEF IndInv, TypeOK, NextCleanup, Perform, jobVars

LEMMA DelIngressExact ==
    ASSUME ExactInv, Undisturbed, Undisturbed', NEW h \in Handlers, DelIngress(h)
    PROVE  CaseOK(h)' /\ Onward(h, {"delRow"})
<1>1. pc[h] = "delIngress" /\ pc[h] \in KeySteps
  BY DEF DelIngress, KeySteps, CleanupSteps
<1>2. /\ Exact(h) /\ Agenda(h) /\ IndInv /\ Intact /\ Key(h) \in Keys
  BY <1>1, AtWork
<1>3. plan[h] = <<"delRow">> /\ protocol[h] = "HTTP"
  BY <1>1, <1>2 DEF Agenda
<1>4. UNCHANGED <<bindings, services, configMaps, lbPorts>>
  BY DEF DelIngress, cmVars, lbVars
<1>5. PICK o \in Outcomes :
         /\ Call(h, o)
         /\ ingresses' = IF o = "refused" THEN ingresses ELSE ingresses \ {Key(h)}
  BY DEF DelIngress
<1>6. ingresses' = ingresses \ {Key(h)}
  BY <1>2, <1>5, NoneFails DEF Undisturbed
<1>7. pc'[h] = "delRow" /\ UNCHANGED <<req, pos, protocol, external>>
  BY <1>2, <1>3, RowNext DEF DelIngress
<1>8. /\ Key(h)' = Key(h) /\ Rest(h)' = Rest(h) /\ (Exact(h)' => CaseOK(h)')
      /\ Closing(h)
  BY <1>1, <1>4, <1>7, Dismantling DEF EntrySteps
<1>9. /\ ~ServiceUp(h) /\ ~ServiceUp(h)' /\ ~EntryUp(h) /\ ~EntryUp(h)'
      /\ IngressUp(h) /\ ~IngressUp(h)' /\ ~PortUp(h) /\ ~PortUp(h)'
  BY <1>1, <1>3, <1>7, <1>8 DEF ServiceUp, IngressUp, EntryUp, PortUp, Given
<1>10. \A b \in Rest(h) : b.key # Key(h)
  BY <1>1 DEF Rest
<1>11. IngressesExact(h)'
  BY <1>2, <1>6, <1>8, <1>9, <1>10 DEF Exact, IngressesExact
<1>12. ServicesExact(h)' /\ EntriesExact(h)' /\ PortsExact(h)'
  BY <1>2, <1>4, <1>8, <1>9, ServicesStay, EntriesStay, PortsStay DEF Exact
<1>13. CaseOK(h)'
  BY <1>8, <1>11, <1>12 DEF Exact
<1>14. QED
  BY <1>13, <1>7, <1>8 DEF Onward

LEMMA DelEntryExact ==
    ASSUME ExactInv, Undisturbed, Undisturbed', NEW h \in Handlers, DelEntry(h)
    PROVE  CaseOK(h)'
<1>1. /\ pc[h] = "delEntry" /\ pc[h] \in KeySteps /\ pc[h] \in PoolSteps
      /\ pc[h] \in EntrySteps
  BY DEF DelEntry, KeySteps, CleanupSteps, PoolSteps, EntrySteps
<1>2. /\ Exact(h) /\ Agenda(h) /\ IndInv /\ Intact /\ Key(h) \in Keys
      /\ protocol[h] \in L4 /\ external[h] \in ExternalPorts
  BY <1>1, AtWork
<1>3. UNCHANGED <<bindings, services, ingresses, lbPorts>>
  BY DEF DelEntry, lbVars
<1>4. PICK o \in Outcomes :
         /\ Read(h, o)
         /\ CASE o # "ok" -> UNCHANGED cmVars /\ NextCleanup(h)
              [] o = "ok" /\ configMaps[protocol[h]] = EmptyMap ->
                   UNCHANGED cmVars /\ Go(h, "delPortGet")
              [] o = "ok" /\ configMaps[protocol[h]] # EmptyMap ->
                   CM!Get(h, protocol[h]) /\ Go(h, "delEntryPut")
  BY DEF DelEntry
<1>5. o = "ok"
  BY <1>2, <1>4, NoneFails DEF Undisturbed, Read
<1>6. Closing(h) /\ protocol[h] # "HTTP" /\ EntryUp(h) /\ PortUp(h)
  BY <1>1, <1>2 DEF Agenda, EntryUp, PortUp, L4
<1>7. configMaps[protocol[h]] # EmptyMap
  <2>1. configMaps[protocol[h]][external[h]] = Key(h)
    BY <1>2, <1>6 DEF Exact, EntriesExact
  <2>2. Key(h) # NoKey
    BY <1>2, KeysNamed
  <2>3. QED
    BY <1>2, <2>1, <2>2 DEF EmptyMap
<1>8. CM!Get(h, protocol[h]) /\ Go(h, "delEntryPut")
  BY <1>4, <1>5, <1>7
<1>9. pc'[h] = "delEntryPut" /\ UNCHANGED <<req, pos, protocol, external, plan>>
  BY <1>2, <1>8, GoMoves DEF Go
<1>10. UNCHANGED configMaps /\ cmHeld'[h] = protocol[h]
  BY <1>2, <1>8 DEF CM!Get, IndInv, TypeOK, CM!TypeOK
<1>11. MapAccepted(h)'
  BY <1>9, <1>10 DEF MapAccepted, CM!Current
<1>12. /\ Key(h)' = Key(h) /\ Rest(h)' = Rest(h) /\ (Exact(h)' => CaseOK(h)')
       /\ Closing(h)'
  BY <1>1, <1>3, <1>9, <1>11, Dismantling DEF EntrySteps
<1>13. /\ ~ServiceUp(h) /\ ~ServiceUp(h)' /\ EntryUp(h)'
       /\ ~IngressUp(h) /\ ~IngressUp(h)' /\ PortUp(h)'
  BY <1>1, <1>6, <1>9, <1>12 DEF ServiceUp, IngressUp, EntryUp, PortUp, Given
<1>14. QED
  BY <1>2, <1>3, <1>6, <1>9, <1>10, <1>12, <1>13, ServicesStay, IngressesStay, EntriesStay,
     PortsStay DEF Exact

\* No other row has the external port of the row that is being closed.
LEMMA OwnPortOnly ==
    ASSUME ExactInv, NEW h \in Handlers, pc[h] \in KeySteps, Own(h) \in bindings,
           protocol[h] \in L4, external[h] \in ExternalPorts
    PROVE  \A b \in Rest(h) : ~(b.protocol = protocol[h] /\ b.external = external[h])
<1> SUFFICES ASSUME NEW b \in Rest(h), b.protocol = protocol[h], b.external = external[h]
             PROVE  FALSE
  OBVIOUS
<1>1. b \in bindings /\ b.key # Key(h)
  BY DEF Rest
<1>2. /\ Own(h).key = Key(h) /\ Own(h).protocol = protocol[h]
      /\ Own(h).external = external[h]
  BY DEF Own
<1>3. external[h] # NoPort
  BY RangeAssumption DEF ExternalPorts, NoPort
<1>4. b = Own(h)
  BY <1>1, <1>2, <1>3 DEF ExactInv, SequentialInv, UniqueExternal
<1>5. QED
  BY <1>1, <1>2, <1>4

\* The entry goes, and with it what the row of no one else needs.
LEMMA DelEntryPutExact ==
    ASSUME ExactInv, Undisturbed, Undisturbed', NEW h \in Handlers, DelEntryPut(h)
    PROVE  CaseOK(h)' /\ Onward(h, {"delPortGet"})
<1>1. /\ pc[h] = "delEntryPut" /\ pc[h] \in KeySteps /\ pc[h] \in PoolSteps
      /\ pc[h] \in EntrySteps
  BY DEF DelEntryPut, KeySteps, PoolSteps, EntrySteps
<1>2. /\ Exact(h) /\ Agenda(h) /\ IndInv /\ Intact /\ Key(h) \in Keys /\ FreshCopies
      /\ protocol[h] \in L4 /\ external[h] \in ExternalPorts
  BY <1>1, AtWork
<1>3. UNCHANGED <<bindings, services, ingresses, lbPorts>>
  BY DEF DelEntryPut, lbVars
<1> DEFINE without == [cmCopy[h] EXCEPT ![external[h]] = NoKey]
<1>4. PICK o \in Outcomes :
         /\ Call(h, o)
         /\ IF o # "refused" /\ MapAccepted(h)
            THEN CM!Put(h, protocol[h], without) ELSE CM!Drop(h)
         /\ IF o = "ok" /\ MapAccepted(h) THEN Go(h, "delPortGet") ELSE NextCleanup(h)
  BY DEF DelEntryPut
<1>5. o = "ok" /\ MapAccepted(h)
  BY <1>1, <1>2, <1>4, NoneFails DEF Undisturbed, Agenda
<1>6. pc'[h] = "delPortGet" /\ UNCHANGED <<req, pos, protocol, external, plan>>
  BY <1>2, <1>4, <1>5, GoMoves DEF Go
<1>7. /\ Key(h)' = Key(h) /\ Rest(h)' = Rest(h) /\ (Exact(h)' => CaseOK(h)')
      /\ Closing(h) /\ Closing(h)'
  BY <1>1, <1>3, <1>6, Dismantling DEF EntrySteps
<1>8. \A p \in L4, e \in ExternalPorts :
         configMaps'[p][e] = IF p = protocol[h] /\ e = external[h] THEN NoKey
                             ELSE configMaps[p][e]
  <2>1. CM!Put(h, protocol[h], without)
    BY <1>4, <1>5
  <2>2. without = [cmCopy[h] EXCEPT ![external[h]] = NoKey]
    OBVIOUS
  <2> HIDE DEF without
  <2>3. /\ cmCopy[h] = configMaps[protocol[h]] /\ cmCopy[h] \in ConfigMap
        /\ \A p \in L4 : configMaps'[p] = IF p = protocol[h] THEN without
                                          ELSE configMaps[p]
    BY <1>2, <1>5, <2>1, MapFromCurrent
  <2>4. QED
    BY <1>2, <2>2, <2>3 DEF ConfigMap
<1>9. \A b \in Rest(h) : ~(b.protocol = protocol[h] /\ b.external = external[h])
  BY <1>1, <1>2, <1>7, OwnPortOnly DEF Agenda
<1>10. protocol[h] # "HTTP"
  BY <1>2 DEF L4
<1>11. /\ ~ServiceUp(h) /\ ~ServiceUp(h)' /\ EntryUp(h) /\ ~EntryUp(h)'
       /\ ~IngressUp(h) /\ ~IngressUp(h)' /\ PortUp(h) /\ PortUp(h)'
  BY <1>1, <1>6, <1>7, <1>10 DEF ServiceUp, IngressUp, EntryUp, PortUp, Given
<1>12. EntriesExact(h)'
  <2> SUFFICES ASSUME NEW p \in L4, NEW e \in ExternalPorts, NEW k \in Keys
               PROVE  configMaps'[p][e] = k <=>
                         \E b \in Rest(h) : b.protocol = p /\ b.external = e /\ b.key = k
    BY <1>7, <1>11 DEF EntriesExact
  <2>1. CASE p = protocol[h] /\ e = external[h]
    <3>1. k # NoKey
      BY KeysNamed
    <3>2. QED
      BY <1>8, <1>9, <2>1, <3>1
  <2>2. CASE ~(p = protocol[h] /\ e = external[h])
    BY <1>2, <1>8, <2>2 DEF Exact, EntriesExact
  <2>3. QED
    BY <2>1, <2>2
<1>13. ServicesExact(h)' /\ IngressesExact(h)' /\ PortsExact(h)'
  BY <1>2, <1>3, <1>6, <1>7, <1>11, ServicesStay, IngressesStay, PortsStay DEF Exact
<1>14. CaseOK(h)'
  BY <1>7, <1>12, <1>13 DEF Exact
<1>15. QED
  BY <1>14, <1>6, <1>7 DEF Onward

LEMMA DelPortGetExact ==
    ASSUME ExactInv, Undisturbed, Undisturbed', NEW h \in Handlers, DelPortGet(h)
    PROVE  CaseOK(h)'
<1>1. /\ pc[h] = "delPortGet" /\ pc[h] \in KeySteps /\ pc[h] \in PoolSteps
      /\ pc[h] \in EntrySteps
  BY DEF DelPortGet, KeySteps, PoolSteps, EntrySteps
<1>2. /\ Exact(h) /\ Agenda(h) /\ IndInv /\ Intact
      /\ protocol[h] \in L4 /\ external[h] \in ExternalPorts
  BY <1>1, AtWork
<1>3. UNCHANGED <<bindings, services, ingresses, configMaps>>
  BY DEF DelPortGet, cmVars
<1>4. PICK o \in Outcomes :
         /\ Read(h, o)
         /\ IF o = "ok" /\ OwnExposure(h) \in lbPorts["service"]
            THEN LB!Get(h, "service") /\ Go(h, "delPortPut")
            ELSE UNCHANGED lbVars /\ NextCleanup(h)
  BY DEF DelPortGet
<1>5. o = "ok"
  BY <1>2, <1>4, NoneFails DEF Undisturbed, Read
<1>6. Closing(h) /\ protocol[h] # "HTTP" /\ PortUp(h)
  BY <1>1, <1>2 DEF Agenda, PortUp, L4
<1>7. PortOpen(protocol[h], external[h])
  BY <1>2, <1>6 DEF Exact, PortsExact
<1>8. LB!Get(h, "service") /\ Go(h, "delPortPut")
  BY <1>4, <1>5, <1>7 DEF PortOpen, OwnExposure
<1>9. pc'[h] = "delPortPut" /\ UNCHANGED <<req, pos, protocol, external, plan>>
  BY <1>2, <1>8, GoMoves DEF Go
<1>10. UNCHANGED lbPorts /\ LB!Current(h, "service")'
  BY <1>2, <1>8 DEF LB!Get, LB!Current, IndInv, TypeOK, LB!TypeOK
<1>11. /\ Key(h)' = Key(h) /\ Rest(h)' = Rest(h) /\ (Exact(h)' => CaseOK(h)')
       /\ Closing(h)'
  BY <1>1, <1>3, <1>9, <1>10, Dismantling DEF EntrySteps
<1>12. /\ ~ServiceUp(h) /\ ~ServiceUp(h)' /\ ~EntryUp(h) /\ ~EntryUp(h)'
       /\ ~IngressUp(h) /\ ~IngressUp(h)' /\ PortUp(h)'
  BY <1>1, <1>6, <1>9, <1>11 DEF ServiceUp, IngressUp, EntryUp, PortUp, Given
<1>13. QED
  BY <1>2, <1>3, <1>6, <1>9, <1>10, <1>11, <1>12, ServicesStay, IngressesStay, EntriesStay,
     PortsStay DEF Exact

LEMMA DelPortPutExact ==
    ASSUME ExactInv, Undisturbed, Undisturbed', NEW h \in Handlers, DelPortPut(h)
    PROVE  CaseOK(h)' /\ Onward(h, {"delRow"})
<1>1. /\ pc[h] = "delPortPut" /\ pc[h] \in KeySteps /\ pc[h] \in PoolSteps
      /\ pc[h] \in EntrySteps
  BY DEF DelPortPut, KeySteps, PoolSteps, EntrySteps
<1>2. /\ Exact(h) /\ Agenda(h) /\ IndInv /\ Intact /\ FreshCopies
      /\ protocol[h] \in L4 /\ external[h] \in ExternalPorts
  BY <1>1, AtWork
<1>3. UNCHANGED <<bindings, services, ingresses, configMaps>>
  BY DEF DelPortPut, cmVars
<1>4. PICK o \in Outcomes :
         /\ Call(h, o)
         /\ IF o # "refused" /\ LB!Current(h, "service")
            THEN LB!Put(h, "service", lbCopy[h] \ {OwnExposure(h)})
            ELSE LB!Drop(h)
  BY DEF DelPortPut
<1>5. o = "ok" /\ LB!Current(h, "service")
  BY <1>1, <1>2, <1>4, NoneFails DEF Undisturbed, Agenda
<1>6. plan[h] = <<"delRow">>
  BY <1>1, <1>2 DEF Agenda
<1>7. pc'[h] = "delRow" /\ UNCHANGED <<req, pos, protocol, external>>
  BY <1>2, <1>6, RowNext DEF DelPortPut
<1>8. /\ Key(h)' = Key(h) /\ Rest(h)' = Rest(h) /\ (Exact(h)' => CaseOK(h)')
      /\ Closing(h) /\ Closing(h)'
  BY <1>1, <1>3, <1>7, Dismantling DEF EntrySteps
<1>9. lbPorts'["service"] = lbPorts["service"] \ {<<protocol[h], external[h]>>}
  BY <1>2, <1>4, <1>5, PutFromCurrent DEF OwnExposure
<1>10. \A p, e : PortOpen(p, e)' <=>
                    PortOpen(p, e) /\ ~(p = protocol[h] /\ e = external[h])
  BY <1>9 DEF PortOpen
<1>11. \A b \in Rest(h) : ~(b.protocol = protocol[h] /\ b.external = external[h])
  BY <1>1, <1>2, <1>8, OwnPortOnly DEF Agenda
<1>12. protocol[h] # "HTTP"
  BY <1>2 DEF L4
<1>13. /\ ~ServiceUp(h) /\ ~ServiceUp(h)' /\ ~EntryUp(h) /\ ~EntryUp(h)'
       /\ ~IngressUp(h) /\ ~IngressUp(h)' /\ PortUp(h) /\ ~PortUp(h)'
  BY <1>1, <1>7, <1>8, <1>12 DEF ServiceUp, IngressUp, EntryUp, PortUp, Given
<1>14. PortsExact(h)'
  <2> SUFFICES ASSUME NEW p \in L4, NEW e \in ExternalPorts
               PROVE  PortOpen(p, e)' <=>
                         \E b \in Rest(h) : b.protocol = p /\ b.external = e
    BY <1>8, <1>13 DEF PortsExact
  <2>1. CASE p = protocol[h] /\ e = external[h]
    BY <1>10, <1>11, <2>1
  <2>2. CASE ~(p = protocol[h] /\ e = external[h])
    BY <1>2, <1>10, <2>2 DEF Exact, PortsExact
  <2>3. QED
    BY <2>1, <2>2
<1>15. ServicesExact(h)' /\ IngressesExact(h)' /\ EntriesExact(h)'
  BY <1>2, <1>3, <1>8, <1>13, ServicesStay, IngressesStay, EntriesStay DEF Exact
<1>16. CaseOK(h)'
  BY <1>8, <1>14, <1>15 DEF Exact
<1>17. QED
  BY <1>16, <1>7, <1>8 DEF Onward

\* Nothing is left of the route when its row goes.
LEMMA DelRowExact ==
    ASSUME ExactInv, Undisturbed, Undisturbed', NEW h \in Handlers, DelRow(h)
    PROVE  CaseOK(h)' /\ bindings' = Rest(h) /\ pc'[h] = "served"
<1>1. pc[h] = "delRow" /\ pc[h] \in KeySteps
  BY DEF DelRow, KeySteps, CleanupSteps
<1>2. /\ Exact(h) /\ IndInv /\ Intact /\ pc \in [Handlers -> Steps]
  BY <1>1, AtWork
<1>3. UNCHANGED <<services, ingresses, configMaps, lbPorts>>
  BY DEF DelRow, clusterVars, cmVars, lbVars
<1>4. PICK o \in Outcomes :
         /\ Call(h, o)
         /\ bindings' = IF o = "refused" THEN bindings ELSE bindings \ RowsOf(Key(h))
         /\ Serve(h, RowDeleted(h, o))
  BY DEF DelRow
<1>5. bindings' = bindings \ RowsOf(Key(h))
  BY <1>2, <1>4, NoneFails DEF Undisturbed
<1>6. bindings' = Rest(h)
  BY <1>1, <1>5 DEF Rest, RowsOf
<1>7. pc'[h] = "served" /\ pc'[h] \in Held
  BY <1>2, <1>4 DEF Serve, Held
<1>8. /\ Rest(h)' = Rest(h) /\ (Exact(h)' => CaseOK(h)')
      /\ ~ServiceUp(h)' /\ ~IngressUp(h)' /\ ~EntryUp(h)' /\ ~PortUp(h)'
  BY <1>6, <1>7, RestAgain
<1>9. ~ServiceUp(h) /\ ~IngressUp(h) /\ ~EntryUp(h) /\ ~PortUp(h)
  BY <1>1 DEF ServiceUp, IngressUp, EntryUp, PortUp, Given
<1>10. ServicesExact(h)' /\ IngressesExact(h)'
  BY <1>2, <1>3, <1>8, <1>9 DEF Exact, ServicesExact, IngressesExact
<1>11. EntriesExact(h)'
  BY <1>2, <1>3, <1>8, <1>9 DEF Exact, EntriesExact
<1>12. PortsExact(h)'
  BY <1>2, <1>3, <1>8, <1>9, SamePorts DEF Exact, PortsExact
<1>13. QED
  BY <1>6, <1>7, <1>8, <1>10, <1>11, <1>12 DEF Exact
-----------------------------------------------------------------------------
(* Every step.                                                             *)

\* The rows other than that of the route in hand carry traffic.
LEMMA RestExposed ==
    ASSUME IndInv, NEW h \in Handlers, Exact(h)
    PROVE  \A b \in Rest(h) : Exposed(b)
<1> SUFFICES ASSUME NEW b \in Rest(h) PROVE Exposed(b)
  OBVIOUS
<1>1. b \in bindings /\ b.key \in Keys /\ b.protocol \in Protocols
  BY DEF Rest, IndInv, TypeOK, Binding
<1>2. b.key \in services
  BY <1>1 DEF Exact, ServicesExact
<1>3. CASE b.protocol = "HTTP"
  BY <1>1, <1>2, <1>3 DEF Exact, IngressesExact, Exposed
<1>4. CASE b.protocol # "HTTP"
  <2>1. b.protocol \in L4 /\ b.external \in ExternalPorts
    BY <1>1, <1>4 DEF Protocols, IndInv, RowsOK
  <2>2. configMaps[b.protocol][b.external] = b.key
    BY <1>1, <2>1 DEF Exact, EntriesExact
  <2>3. PortOpen(b.protocol, b.external)
    BY <2>1 DEF Exact, PortsExact
  <2>4. QED
    BY <1>2, <1>4, <2>2, <2>3 DEF PortOpen, Exposed
<1>5. QED
  BY <1>3, <1>4

\* The rows of an instance go before anything else of it.
LEMMA DropRowsExact ==
    ASSUME ExactInv, Undisturbed, NEW h \in Handlers, DropRows(h)
    PROVE  CaseOK(h)'
<1>1. CaseOK(h) /\ IndInv /\ pc[h] = "dropRows" /\ pc[h] \in Held
  BY DEF ExactInv, SequentialInv, Held, DropRows
<1>2. \A b \in bindings : Exposed(b)
  BY <1>1, AtRest, RestExposed
<1>3. bindings' \subseteq bindings /\ UNCHANGED <<services, ingresses, configMaps, lbPorts>>
  BY DEF DropRows, clusterVars, cmVars, lbVars
<1>4. pc'[h] = "dropDeployment"
  BY <1>1, GoMoves DEF DropRows
<1>5. \A b \in bindings' : Exposed(b)'
  BY <1>2, <1>3 DEF Exposed
<1>6. QED
  BY <1>4, <1>5 DEF CaseOK, Afterwards

\* What comes next in a deletion takes an instance away, or fails.
LEMMA NotDeleted ==
    ASSUME ExactInv, Undisturbed, Undisturbed', NEW h \in Handlers,
           DropDeployment(h) \/ ListServices(h) \/ DropServices(h) \/ DropIngresses(h)
    PROVE  FALSE
<1>1. pc[h] \notin Afterwards
  BY DEF ExactInv, CaseOK
<1>2. DropDeployment(h)
  BY <1>1 DEF ListServices, DropServices, DropIngresses, Afterwards
<1>3. req[h].instance \in Instances
  BY <1>2 DEF DropDeployment, ExactInv, KnownInstance
<1>4. PICK o \in Outcomes :
         /\ Call(h, o)
         /\ deployments' = IF o = "refused" THEN deployments
                           ELSE deployments \ {req[h].instance}
  BY <1>2 DEF DropDeployment
<1>5. o = "ok"
  BY <1>4, NoneFails DEF ExactInv, SequentialInv, Undisturbed
<1>6. QED
  BY <1>3, <1>4, <1>5 DEF Undisturbed

\* Neither a failure nor a deletion is forgotten.
LEMMA FaultsRemembered ==
    ASSUME IndInv, NEW h \in Handlers, faults' = 0,
           Receive(h) \/ Progress(h) \/ Expire(h) \/ UNCHANGED vars
    PROVE  faults = 0
<1>1. faults \in Nat
  BY BoundsAssumption DEF IndInv, TypeOK
<1>2. ASSUME NEW o, Call(h, o) PROVE faults = 0
  BY <1>1, <1>2 DEF Call
<1>3. CASE Receive(h) \/ Validate(h) \/ Advance(h) \/ LoadCounter(h) \/ StoreCounter(h)
           \/ Expire(h) \/ UNCHANGED vars
  BY <1>1, <1>3 DEF Receive, Validate, Advance, LoadCounter, StoreCounter, Expire, vars
<1>4. CASE Lookup(h) \/ GetMap(h) \/ GetPorts(h) \/ DelEntry(h) \/ DelPortGet(h)
           \/ ListServices(h)
  BY <1>2, <1>4 DEF Lookup, GetMap, GetPorts, DelEntry, DelPortGet, ListServices, Read
<1>5. CASE CreateService(h) \/ PutMap(h) \/ PutPorts(h) \/ CreateIngress(h) \/ Commit(h)
           \/ DelService(h) \/ DelIngress(h) \/ DelEntryPut(h) \/ DelPortPut(h)
           \/ DelRow(h)
  BY <1>2, <1>5 DEF CreateService, PutMap, PutPorts, CreateIngress, Commit, DelService,
     DelIngress, DelEntryPut, DelPortPut, DelRow
<1>6. CASE DropRows(h) \/ DropDeployment(h) \/ DropServices(h) \/ DropIngresses(h)
  BY <1>2, <1>6 DEF DropRows, DropDeployment, DropServices, DropIngresses
<1>7. QED
  BY <1>3, <1>4, <1>5, <1>6 DEF Progress

LEMMA StillUndisturbed ==
    ASSUME IndInv, NEW h \in Handlers, Undisturbed',
           Receive(h) \/ Progress(h) \/ Expire(h) \/ UNCHANGED vars
    PROVE  Undisturbed
<1>1. faults = 0 /\ deployments \subseteq Instances
  BY FaultsRemembered DEF Undisturbed, IndInv, TypeOK
<1>2. deployments = Instances
  <2>1. CASE Receive(h) \/ Validate(h) \/ Advance(h) \/ Lookup(h) \/ LoadCounter(h)
             \/ StoreCounter(h) \/ Commit(h) \/ DelRow(h) \/ DropRows(h)
             \/ ListServices(h) \/ Expire(h) \/ UNCHANGED vars
    BY <2>1 DEF Receive, Validate, Advance, Lookup, LoadCounter, StoreCounter, Commit,
       DelRow, DropRows, ListServices, Expire, vars, clusterVars, Undisturbed
  <2>2. CASE CreateService(h) \/ GetMap(h) \/ PutMap(h) \/ GetPorts(h) \/ PutPorts(h)
             \/ CreateIngress(h) \/ DelService(h) \/ DelIngress(h) \/ DelEntry(h)
             \/ DelEntryPut(h) \/ DelPortGet(h) \/ DelPortPut(h) \/ DropServices(h)
             \/ DropIngresses(h)
    BY <2>2 DEF CreateService, GetMap, PutMap, GetPorts, PutPorts, CreateIngress,
       DelService, DelIngress, DelEntry, DelEntryPut, DelPortGet, DelPortPut, DropServices,
       DropIngresses, Undisturbed
  <2>3. CASE DropDeployment(h)
    BY <1>1, <2>3 DEF DropDeployment, Undisturbed
  <2>4. QED
    BY <2>1, <2>2, <2>3 DEF Progress
<1>3. QED
  BY <1>1, <1>2 DEF Undisturbed

LEMMA CaseStep ==
    ASSUME ExactInv, NEW h \in Handlers, Undisturbed',
           Receive(h) \/ Progress(h) \/ Expire(h) \/ UNCHANGED vars
    PROVE  CaseOK(h)'
<1>1. Undisturbed
  BY StillUndisturbed DEF ExactInv, SequentialInv
<1>2. ~Expire(h)
  BY <1>1 DEF Expire, Undisturbed
<1>3. CASE Receive(h) \/ Validate(h) \/ Advance(h) \/ UNCHANGED vars
  BY <1>1, <1>3, RequestExact
<1>4. CASE Lookup(h) \/ CreateService(h) \/ LoadCounter(h) \/ StoreCounter(h) \/ GetMap(h)
           \/ PutMap(h)
  BY <1>1, <1>4, LookupExact, CreateServiceExact, LoadCounterExact, StoreCounterExact,
     GetMapExact, PutMapExact
<1>5. CASE GetPorts(h) \/ PutPorts(h) \/ CreateIngress(h) \/ Commit(h)
  BY <1>1, <1>5, GetPortsExact, PutPortsExact, CreateIngressExact, CommitExact
<1>6. CASE DelService(h) \/ DelIngress(h) \/ DelEntry(h) \/ DelEntryPut(h)
           \/ DelPortGet(h) \/ DelPortPut(h) \/ DelRow(h)
  BY <1>1, <1>6, DelServiceExact, DelIngressExact, DelEntryExact, DelEntryPutExact,
     DelPortGetExact, DelPortPutExact, DelRowExact
<1>7. CASE DropRows(h) \/ DropDeployment(h) \/ ListServices(h) \/ DropServices(h)
           \/ DropIngresses(h)
  BY <1>1, <1>7, DropRowsExact, NotDeleted
<1>8. QED
  BY <1>2, <1>3, <1>4, <1>5, <1>6, <1>7 DEF Progress

\* Only the lookup of an instance leads to its deletion.
LEMMA CleanupGoesOn ==
    ASSUME IndInv, NEW h \in Handlers, NEW deletions \in Plans, Perform(h, deletions)
    PROVE  pc'[h] \in CleanupSteps \cup {"served"}
<1>1. pc \in [Handlers -> Steps]
  BY DEF IndInv, TypeOK
<1>2. CASE deletions = <<>>
  BY <1>1, <1>2 DEF Perform, Serve
<1>3. CASE deletions # <<>>
  <2>1. pc'[h] = Head(deletions)
    BY <1>1, <1>3 DEF Perform
  <2>2. Head(deletions) \in CleanupSteps
    BY <1>3 DEF Plans
  <2>3. QED
    BY <2>1, <2>2
<1>4. QED
  BY <1>2, <1>3

LEMMA NotDropping ==
    ASSUME IndInv, NEW h \in Handlers, Receive(h) \/ Progress(h), ~Lookup(h), ~DropRows(h)
    PROVE  pc'[h] \notin {"dropRows", "dropDeployment"}
<1>1. pc \in [Handlers -> Steps] /\ plan[h] \in Plans
  BY DEF IndInv, TypeOK
<1>2. ASSUME NEW outcome, Serve(h, outcome) PROVE pc'[h] = "served"
  BY <1>1, <1>2 DEF Serve
<1>3. ASSUME NEW step, Go(h, step) PROVE pc'[h] = step
  BY <1>1, <1>3 DEF Go
<1>4. ASSUME NextCleanup(h) \/ UndoAllocate(h) \/ UndoPatch(h)
               \/ Perform(h, <<"delService">>)
               \/ \E x \in {"delIngress", "delEntry"} : Perform(h, <<"delService", x>>)
      PROVE  pc'[h] \notin {"dropRows", "dropDeployment"}
  <2>1. pc'[h] \in CleanupSteps \cup {"served"}
    BY <1>1, <1>4, CleanupGoesOn, Rollbacks DEF NextCleanup, UndoAllocate, UndoPatch
  <2>2. QED
    BY <2>1 DEF CleanupSteps
<1>5. CASE Receive(h) \/ Validate(h) \/ Advance(h)
  BY <1>1, <1>2, <1>5 DEF Receive, Validate, Advance
<1>6. CASE CreateService(h) \/ LoadCounter(h) \/ StoreCounter(h)
  BY <1>1, <1>2, <1>3, <1>4, <1>6 DEF CreateService, LoadCounter, StoreCounter
<1>7. CASE GetMap(h) \/ PutMap(h)
  BY <1>3, <1>4, <1>7 DEF GetMap, PutMap
<1>8. CASE GetPorts(h)
  BY <1>3, <1>4, <1>8 DEF GetPorts
<1>9. CASE PutPorts(h) \/ CreateIngress(h)
  BY <1>3, <1>4, <1>9 DEF PutPorts, CreateIngress
<1>10. CASE Commit(h)
  <2>1. Serve(h, "success") \/ \E x \in {"delIngress", "delEntry"} :
                                  Perform(h, <<"delService", x>>)
    BY <1>10 DEF Commit
  <2>2. QED
    BY <1>2, <1>4, <2>1
<1>11. CASE DelService(h) \/ DelIngress(h) \/ DelPortPut(h)
  BY <1>4, <1>11 DEF DelService, DelIngress, DelPortPut
<1>12. CASE DelEntry(h)
  BY <1>3, <1>4, <1>12 DEF DelEntry
<1>13. CASE DelEntryPut(h) \/ DelPortGet(h)
  BY <1>3, <1>4, <1>13 DEF DelEntryPut, DelPortGet
<1>14. CASE DelRow(h) \/ DropIngresses(h) \/ DropDeployment(h)
  BY <1>2, <1>3, <1>14 DEF DelRow, DropIngresses, DropDeployment
<1>15. CASE ListServices(h) \/ DropServices(h)
  BY <1>1, <1>15 DEF ListServices, DropServices
<1>16. QED
  BY <1>5, <1>6, <1>7, <1>8, <1>9, <1>10, <1>11, <1>12, <1>13, <1>14, <1>15 DEF Progress

LEMMA KnownStep ==
    ASSUME ExactInv, NEW h \in Handlers,
           Receive(h) \/ Progress(h) \/ Expire(h) \/ UNCHANGED vars,
           pc'[h] \in {"dropRows", "dropDeployment"}
    PROVE  req'[h].instance \in Instances
<1>1. IndInv
  BY DEF ExactInv, SequentialInv
<1>2. CASE Lookup(h)
  <2>1. PICK o \in Outcomes :
         IF o # "ok" \/ req[h].instance \notin Instances THEN Serve(h, "failure")
         ELSE CASE req[h].op = "delete" -> Go(h, "dropRows")
                [] req[h].op = "open" -> IF RowsOf(Key(h)) # {} THEN Serve(h, "success")
                                         ELSE Go(h, "createService")
                [] req[h].op = "close" -> IF RowsOf(Key(h)) = {} THEN Serve(h, "success")
                                          ELSE \E b \in RowsOf(Key(h)) : StartClosing(h, b)
    BY <1>2 DEF Lookup
  <2>2. ~Serve(h, "failure")
    BY <1>1 DEF Serve, IndInv, TypeOK
  <2>3. req[h].instance \in Instances
    BY <2>1, <2>2
  <2>4. UNCHANGED req
    <3>1. pc[h] = "lookup" /\ req[h].op \in {"open", "close", "delete"}
      BY <1>1, <1>2, RequestsAssumption DEF Lookup, IndInv, LocalsOK, Request
    <3>2. \/ \E outcome : Serve(h, outcome)
          \/ \E step : Go(h, step)
          \/ \E b : StartClosing(h, b)
      BY <2>1, <3>1
    <3>3. QED
      BY <3>2 DEF Serve, Go, StartClosing, jobVars
  <2>5. QED
    BY <2>3, <2>4
<1>3. CASE DropRows(h)
  BY <1>1, <1>3, GoMoves DEF DropRows, ExactInv, KnownInstance
<1>4. CASE Expire(h) \/ UNCHANGED vars
  BY <1>4 DEF Expire, vars, handlerVars, jobVars, ExactInv, KnownInstance
<1>5. CASE (Receive(h) \/ Progress(h)) /\ ~Lookup(h) /\ ~DropRows(h)
  BY <1>1, <1>5, NotDropping
<1>6. QED
  BY <1>2, <1>3, <1>4, <1>5

\* Deadlines are faults.
LEMMA IntactStep ==
    ASSUME ExactInv, NEW h \in Handlers,
           Receive(h) \/ Progress(h) \/ Expire(h) \/ UNCHANGED vars
    PROVE  Intact'
<1> SUFFICES ASSUME faults' = 0 PROVE expired' = {}
  BY DEF Intact
<1>1. faults = 0 /\ expired = {}
  BY FaultsRemembered DEF ExactInv, SequentialInv, Intact
<1>2. ~Expire(h)
  BY <1>1 DEF Expire
<1>3. ASSUME \/ \E step : Go(h, step)
             \/ \E outcome : Serve(h, outcome)
             \/ \E deletions : Perform(h, deletions)
      PROVE  UNCHANGED expired
  BY <1>3 DEF Go, Serve, Perform, jobVars
<1>4. expired' \subseteq expired
  <2>1. CASE Receive(h) \/ Validate(h) \/ Advance(h) \/ UNCHANGED vars
    BY <1>3, <2>1 DEF Receive, Validate, Advance, vars, handlerVars, jobVars
  <2>2. CASE Lookup(h)
    <3>1. req[h].op \in {"open", "close", "delete"}
      BY <2>2, RequestsAssumption DEF Lookup, ExactInv, SequentialInv, IndInv, LocalsOK,
         Request
    <3>2. \/ \E outcome : Serve(h, outcome)
          \/ \E step : Go(h, step)
          \/ \E b : StartClosing(h, b)
      BY <2>2, <3>1 DEF Lookup
    <3>3. QED
      BY <1>3, <3>2 DEF StartClosing
  <2>3. CASE CreateService(h) \/ LoadCounter(h) \/ StoreCounter(h)
    BY <1>3, <2>3 DEF CreateService, LoadCounter, StoreCounter, UndoAllocate
  <2>4. CASE GetMap(h) \/ PutMap(h) \/ GetPorts(h)
    BY <1>3, <2>4 DEF GetMap, PutMap, GetPorts, UndoPatch
  <2>5. CASE PutPorts(h) \/ CreateIngress(h) \/ Commit(h)
    BY <1>3, <2>5 DEF PutPorts, CreateIngress, Commit, UndoPatch
  <2>6. CASE DelService(h) \/ DelIngress(h) \/ DelEntry(h) \/ DelEntryPut(h)
    BY <1>3, <2>6 DEF DelService, DelIngress, DelEntry, DelEntryPut, NextCleanup
  <2>7. CASE DelPortGet(h) \/ DelPortPut(h) \/ DelRow(h)
    BY <1>3, <2>7 DEF DelPortGet, DelPortPut, DelRow, NextCleanup
  <2>8. CASE DropRows(h) \/ DropDeployment(h) \/ ListServices(h) \/ DropServices(h)
             \/ DropIngresses(h)
    BY <1>3, <2>8 DEF DropRows, DropDeployment, ListServices, DropServices, DropIngresses
  <2>9. QED
    BY <1>2, <2>1, <2>2, <2>3, <2>4, <2>5, <2>6, <2>7, <2>8 DEF Progress
<1>5. QED
  BY <1>1, <1>4

\* A new row is the only one of its instance port, and has an external port if and only
\* if its protocol calls for one.
LEMMA RowsStep ==
    ASSUME ExactInv, NEW h \in Handlers,
           Receive(h) \/ Progress(h) \/ Expire(h) \/ UNCHANGED vars
    PROVE  RowsDistinct' /\ RowsShaped'
<1>1. CASE bindings' \subseteq bindings
  BY <1>1 DEF ExactInv, RowsDistinct, RowsShaped
<1>2. CASE ~(bindings' \subseteq bindings)
  <2>1. Commit(h)
    BY <1>2, RowsStay
  <2>2. pc[h] = "commit" /\ RouteOK(h) /\ IndInv
    BY <2>1 DEF Commit, ExactInv, SequentialInv
  <2>3. bindings' = bindings \cup {Own(h)} /\ RowsOf(Key(h)) = {}
    BY <1>2, <2>1 DEF Commit, Own
  <2>4. /\ Own(h).key = Key(h) /\ Own(h).protocol = protocol[h]
        /\ Own(h).external = external[h]
    BY DEF Own
  <2>5. protocol[h] = "HTTP" <=> external[h] = NoPort
    <3>1. protocol[h] = "HTTP" => external[h] = NoPort
      BY <2>2 DEF RouteOK
    <3>2. protocol[h] # "HTTP" => external[h] \in ExternalPorts
      BY <2>2 DEF IndInv, LocalsOK, OwnsPort
    <3>3. QED
      BY <3>1, <3>2, RangeAssumption DEF ExternalPorts, NoPort
  <2>6. RowsDistinct'
    BY <2>3, <2>4 DEF ExactInv, RowsDistinct, RowsOf
  <2>7. RowsShaped'
    BY <2>3, <2>4, <2>5 DEF ExactInv, RowsShaped
  <2>8. QED
    BY <2>6, <2>7
<1>3. QED
  BY <1>1, <1>2

LEMMA ExactStep ==
    ASSUME Alone, ExactInv, [Next]_vars
    PROVE  ExactInv'
<1>1. SequentialInv' /\ TallyInv'
  BY SequentialStep, TallyStep DEF ExactInv
<1>2. UNCHANGED vars \/ \E h \in Handlers : Receive(h) \/ Progress(h) \/ Expire(h)
  BY OneMoves DEF ExactInv
<1>3. CASE Handlers = {}
  <2>1. UNCHANGED <<bindings, expired, faults>>
    BY <1>2, <1>3 DEF vars, handlerVars, jobVars
  <2>2. QED
    BY <1>1, <1>3, <2>1 DEF ExactInv, RowsDistinct, RowsShaped, Intact, KnownInstance
<1>4. ASSUME NEW h \in Handlers
      PROVE  Receive(h) \/ Progress(h) \/ Expire(h) \/ UNCHANGED vars
  BY <1>2 DEF Alone
<1>5. ASSUME NEW h \in Handlers
      PROVE  /\ RowsDistinct' /\ RowsShaped' /\ Intact'
             /\ pc'[h] \in {"dropRows", "dropDeployment"} => req'[h].instance \in Instances
             /\ Undisturbed' => CaseOK(h)'
  BY <1>4, RowsStep, IntactStep, KnownStep, CaseStep
<1>6. CASE Handlers # {}
  <2>1. RowsDistinct' /\ RowsShaped' /\ Intact' /\ KnownInstance'
    BY <1>5, <1>6 DEF KnownInstance
  <2>2. Undisturbed' => \A h \in Handlers : CaseOK(h)'
    BY <1>5
  <2>3. QED
    BY <1>1, <2>1, <2>2 DEF ExactInv
<1>7. QED
  BY <1>3, <1>6

LEMMA ExactInit == ASSUME Init PROVE ExactInv
<1>1. SequentialInv /\ TallyInv
  BY SequentialInit, TallyInit
<1>2. RowsDistinct /\ RowsShaped /\ Intact /\ KnownInstance
  BY DEF Init, RowsDistinct, RowsShaped, Intact, KnownInstance
<1>3. ASSUME NEW h \in Handlers PROVE CaseOK(h)
  <2>1. pc[h] = "idle" /\ pc[h] \in Held /\ bindings = {} /\ services = {} /\ ingresses = {}
    BY DEF Init, Held
  <2>2. /\ pc[h] \notin KeySteps /\ pc[h] \notin Afterwards /\ pc[h] # "dropDeployment"
        /\ pc[h] \notin EntrySteps
    BY <2>1, Apart DEF EntrySteps
  <2>3. Rest(h) = {}
    BY <2>1 DEF Rest
  <2>4. ~ServiceUp(h) /\ ~IngressUp(h) /\ ~EntryUp(h) /\ ~PortUp(h)
    BY <2>1 DEF ServiceUp, IngressUp, EntryUp, PortUp, Given
  <2>5. ServicesExact(h) /\ IngressesExact(h)
    BY <2>1, <2>3, <2>4 DEF ServicesExact, IngressesExact
  <2>6. EntriesExact(h)
    <3>1. \A p \in L4, e \in ExternalPorts : configMaps[p][e] = NoKey
      BY DEF Init, CM!Init0, EmptyMap
    <3>2. QED
      BY <2>3, <2>4, <3>1, KeysNamed DEF EntriesExact
  <2>7. PortsExact(h)
    <3>1. lbPorts["service"] = {}
      BY DEF Init, LB!Init0
    <3>2. QED
      BY <2>3, <2>4, <3>1 DEF PortsExact, PortOpen
  <2>8. Agenda(h)
    BY <2>1, <2>2 DEF Agenda
  <2>9. QED
    BY <2>2, <2>5, <2>6, <2>7, <2>8 DEF CaseOK, Exact
<1>4. QED
  BY <1>1, <1>2, <1>3 DEF ExactInv

\* As long as requests are served one after the other, no call has failed and no instance
\* has been deleted, the cluster holds at every step what the table says, but for the
\* pieces of the one route in hand, which come and go in a fixed order.
THEOREM ExactInductive == ASSUME Alone PROVE Spec => []ExactInv
BY ExactInit, ExactStep, PTL DEF Spec
-----------------------------------------------------------------------------
(* What follows for the cluster and its users.                             *)

\* A row whose port nobody is closing has a complete route: an opening publishes its row
\* last, a closing takes its own down first, and neither touches another's pieces.
THEOREM BoundServed == ASSUME Serving PROVE Spec => []ServedWhileBound
<1>1. ExactInv => ServedWhileBound
  <2> SUFFICES ASSUME ExactInv, Undisturbed, NEW b \in bindings, ~Exposed(b)
               PROVE  \E h \in Handlers : /\ req[h].op = "close"
                                          /\ pc[h] \notin {"validate", "lookup"}
                                          /\ Key(h) = b.key
    BY DEF ServedWhileBound
  <2>1. PICK h \in Handlers : TRUE
    BY DEF Serving
  <2>2. CaseOK(h) /\ IndInv
    BY DEF ExactInv, SequentialInv
  <2>3. Exact(h) /\ Agenda(h)
    BY <2>2 DEF CaseOK
  <2>4. b \notin Rest(h)
    BY <2>2, <2>3, RestExposed
  <2>5. pc[h] \in KeySteps /\ b.key = Key(h)
    BY <2>4 DEF Rest
  <2>6. Closing(h)
    BY <2>3, <2>5 DEF Agenda, RowsOf
  <2>7. pc[h] \notin {"validate", "lookup"}
    BY <2>5, Apart DEF Held
  <2>8. QED
    BY <2>5, <2>6, <2>7 DEF Closing
<1>2. QED
  BY <1>1, ExactInductive, PTL DEF Serving

\* Between requests the cluster holds what the table says and nothing else.
THEOREM QuietExact == ASSUME Serving PROVE Spec => []ExactWhenQuiet
<1>1. ExactInv => ExactWhenQuiet
  <2> SUFFICES ASSUME ExactInv, Quiet, Undisturbed
               PROVE  /\ \A b \in bindings : Exposed(b)
                      /\ services = {b.key : b \in bindings}
                      /\ ingresses = {b.key : b \in {r \in bindings : r.protocol = "HTTP"}}
                      /\ \A p \in L4, e \in ExternalPorts :
                            LET owners == {b.key : b \in {r \in bindings :
                                              r.protocol = p /\ r.external = e}} IN
                            /\ configMaps[p][e] \in IF owners = {} THEN {NoKey} ELSE owners
                            /\ (<<p, e>> \in lbPorts["service"]) <=> owners # {}
    BY DEF ExactWhenQuiet
  <2>1. PICK h \in Handlers : TRUE
    BY DEF Serving
  <2>2. pc[h] \in Held /\ CaseOK(h) /\ IndInv
    BY DEF Quiet, Held, ExactInv, SequentialInv
  <2>3. /\ Rest(h) = bindings /\ Exact(h)
        /\ ~ServiceUp(h) /\ ~IngressUp(h) /\ ~EntryUp(h) /\ ~PortUp(h)
    BY <2>2, AtRest
  <2>4. \A b \in bindings : Exposed(b) /\ b.key \in Keys
    BY <2>2, <2>3, RestExposed DEF IndInv, TypeOK, Binding
  <2>5. services \subseteq Keys /\ ingresses \subseteq Keys
    BY <2>2 DEF IndInv, TypeOK
  <2>6. services = {b.key : b \in bindings}
    BY <2>3, <2>4, <2>5 DEF Exact, ServicesExact
  <2>7. ingresses = {b.key : b \in {r \in bindings : r.protocol = "HTTP"}}
    BY <2>3, <2>4, <2>5 DEF Exact, IngressesExact
  <2>8. ASSUME NEW p \in L4, NEW e \in ExternalPorts
        PROVE  LET owners == {b.key : b \in {r \in bindings :
                                 r.protocol = p /\ r.external = e}} IN
               /\ configMaps[p][e] \in IF owners = {} THEN {NoKey} ELSE owners
               /\ (<<p, e>> \in lbPorts["service"]) <=> owners # {}
    <3> DEFINE owners == {b.key : b \in {r \in bindings :
                                            r.protocol = p /\ r.external = e}}
    <3>1. \A k : k \in owners <=>
                    \E b \in bindings : b.protocol = p /\ b.external = e /\ b.key = k
      OBVIOUS
    <3>2. owners # {} <=> \E b \in bindings : b.protocol = p /\ b.external = e
      OBVIOUS
    <3> HIDE DEF owners
    <3>3. configMaps[p][e] \in Keys \cup {NoKey}
      BY <2>2 DEF IndInv, TypeOK, CM!TypeOK, ConfigMap
    <3>4. \A k \in Keys : configMaps[p][e] = k <=> k \in owners
      BY <2>3, <3>1 DEF Exact, EntriesExact
    <3>5. \A k \in owners : k \in Keys
      BY <2>4, <3>1
    <3>6. configMaps[p][e] \in IF owners = {} THEN {NoKey} ELSE owners
      BY <3>3, <3>4, <3>5
    <3>7. PortOpen(p, e) <=> owners # {}
      BY <2>3, <3>2 DEF Exact, PortsExact
    <3>8. QED
      BY <3>6, <3>7 DEF owners, PortOpen
  <2>9. QED
    BY <2>4, <2>6, <2>7, <2>8
<1>2. QED
  BY <1>1, ExactInductive, PTL DEF Serving
-----------------------------------------------------------------------------
(* The routes, and the registry they implement.                            *)

\* The route in hand carries traffic.
Complete(h) == pc[h] = "commit" \/ (pc[h] = "delService" /\ Closing(h))

\* The route of a row, or of the record in hand, is of its protocol's shape.
LEMMA RowsAreRoutes ==
    ASSUME ExactInv, NEW b \in bindings
    PROVE  /\ b \in Binding /\ b.key \in Keys
           /\ b.protocol = "HTTP" <=> b.external = NoPort
           /\ b.protocol # "HTTP" => b.protocol \in L4 /\ b.external \in ExternalPorts
<1>1. b \in Binding /\ RowsOK
  BY DEF ExactInv, SequentialInv, IndInv, TypeOK
<1>2. b.key \in Keys /\ b.protocol \in Protocols
  BY <1>1 DEF Binding
<1>3. QED
  BY <1>1, <1>2 DEF ExactInv, RowsShaped, RowsOK, Protocols

LEMMA OwnIsRoute ==
    ASSUME ExactInv, Undisturbed, NEW h \in Handlers, Complete(h)
    PROVE  /\ Own(h) \in Binding /\ pc[h] \in KeySteps
           /\ protocol[h] = "HTTP" <=> external[h] = NoPort
           /\ protocol[h] # "HTTP" => protocol[h] \in L4 /\ external[h] \in ExternalPorts
<1>1. pc[h] \in KeySteps
  BY DEF Complete, KeySteps, OpenSteps, CleanupSteps
<1>2. /\ Agenda(h) /\ Key(h) \in Keys /\ RouteOK(h) /\ IndInv
      /\ protocol[h] \in Protocols /\ external[h] \in MaybePort
  BY <1>1, AtWork
<1>3. Own(h) \in Binding
  BY <1>2 DEF Own, Binding
<1>4. CASE pc[h] = "commit"
  <2>1. protocol[h] = "HTTP" => external[h] = NoPort
    BY <1>2, <1>4 DEF RouteOK
  <2>2. protocol[h] # "HTTP" => protocol[h] \in L4 /\ external[h] \in ExternalPorts
    BY <1>2, <1>4 DEF IndInv, LocalsOK, OwnsPort
  <2>3. QED
    BY <1>1, <1>3, <2>1, <2>2, RangeAssumption DEF ExternalPorts, NoPort
<1>5. CASE pc[h] = "delService" /\ Closing(h)
  <2>1. Own(h) \in bindings
    BY <1>1, <1>2, <1>5 DEF Agenda
  <2>2. Own(h).protocol = protocol[h] /\ Own(h).external = external[h]
    BY DEF Own
  <2>3. QED
    BY <1>1, <1>3, <2>1, <2>2, RowsAreRoutes
<1>6. QED
  BY <1>4, <1>5 DEF Complete

LEMMA OwnExposed ==
    ASSUME ExactInv, Undisturbed, NEW h \in Handlers, Complete(h)
    PROVE  Exposed(Own(h))
<1>1. pc[h] \in KeySteps
  BY OwnIsRoute
<1>2. Exact(h) /\ Key(h) \in Keys /\ ~(pc[h] = "commit" /\ Closing(h))
  BY <1>1, AtWork DEF OpenSteps
<1>3. /\ ServiceUp(h) /\ (protocol[h] = "HTTP" => IngressUp(h))
      /\ (protocol[h] # "HTTP" => EntryUp(h) /\ PortUp(h))
  BY DEF Complete, ServiceUp, IngressUp, EntryUp, PortUp, Given
<1>4. /\ Own(h).key = Key(h) /\ Own(h).protocol = protocol[h]
      /\ Own(h).external = external[h]
  BY DEF Own
<1>5. Key(h) \in services
  BY <1>2, <1>3 DEF Exact, ServicesExact
<1>6. CASE protocol[h] = "HTTP"
  BY <1>2, <1>3, <1>4, <1>5, <1>6 DEF Exact, IngressesExact, Exposed
<1>7. CASE protocol[h] # "HTTP"
  <2>1. protocol[h] \in L4 /\ external[h] \in ExternalPorts
    BY <1>7, OwnIsRoute
  <2>2. configMaps[protocol[h]][external[h]] = Key(h)
    BY <1>2, <1>3, <1>7, <2>1 DEF Exact, EntriesExact
  <2>3. PortOpen(protocol[h], external[h])
    BY <1>2, <1>3, <1>7, <2>1 DEF Exact, PortsExact
  <2>4. QED
    BY <1>4, <1>5, <1>7, <2>2, <2>3 DEF Exposed, PortOpen
<1>8. QED
  BY <1>6, <1>7

\* Two records of the same key, protocol and external port are one.
LEMMA SameBinding ==
    ASSUME NEW b \in Binding, NEW c \in Binding, b.key = c.key, b.protocol = c.protocol,
           b.external = c.external
    PROVE  b = c
BY DEF Binding

\* What carries traffic beside the rows of the others is the complete route in hand.
LEMMA OtherRoutes ==
    ASSUME ExactInv, Undisturbed, NEW h \in Handlers, Exact(h),
           NEW b \in Routes, b \notin Rest(h)
    PROVE  Complete(h) /\ b = Own(h)
<1>1. /\ b \in Binding /\ b.key \in Keys /\ b.protocol \in Protocols /\ Exposed(b)
      /\ b.protocol = "HTTP" <=> b.external = NoPort
  BY DEF Routes, Binding
<1>2. \A c \in Rest(h) : c \in bindings /\ (pc[h] \in KeySteps => c.key # Key(h))
  BY DEF Rest
<1>3. \A c \in Rest(h) : c.key = b.key /\ c.protocol = b.protocol =>
                            c.external # b.external
  BY <1>1, <1>2, RowsAreRoutes, SameBinding
<1>4. /\ Own(h).key = Key(h) /\ Own(h).protocol = protocol[h]
      /\ Own(h).external = external[h]
  BY DEF Own
<1>5. CASE b.protocol = "HTTP"
  <2>1. b.key \in ingresses /\ b.external = NoPort
    BY <1>1, <1>5 DEF Exposed
  <2>2. \A c \in Rest(h) : ~(c.protocol = "HTTP" /\ c.key = b.key)
    BY <1>2, <1>3, <1>5, <2>1, RowsAreRoutes
  <2>3. IngressUp(h) /\ b.key = Key(h)
    BY <1>1, <2>1, <2>2 DEF Exact, IngressesExact
  <2>4. pc[h] \in KeySteps
    BY <2>3 DEF IngressUp, KeySteps, OpenSteps, CleanupSteps
  <2>5. ServiceUp(h)
    BY <1>1, <1>2, <2>3, <2>4 DEF Exposed, Exact, ServicesExact
  <2>6. Complete(h)
    BY <2>3, <2>5 DEF Complete, IngressUp, ServiceUp, Given
  <2>7. protocol[h] = "HTTP"
    BY <2>3 DEF IngressUp
  <2>8. external[h] = NoPort /\ Own(h) \in Binding
    BY <2>6, <2>7, OwnIsRoute
  <2>9. QED
    BY <1>1, <1>4, <1>5, <2>1, <2>3, <2>6, <2>7, <2>8, SameBinding
<1>6. CASE b.protocol # "HTTP"
  <2>1. b.protocol \in L4
    BY <1>1, <1>6 DEF Protocols
  <2>2. b.external \in ExternalPorts
    BY <1>1, <1>6 DEF Binding, MaybePort
  <2>3. b.key \in services /\ configMaps[b.protocol][b.external] = b.key
        /\ PortOpen(b.protocol, b.external)
    BY <1>1, <1>6 DEF Exposed, PortOpen
  <2>4. /\ EntryUp(h) /\ b.key = Key(h)
        /\ b.protocol = protocol[h] /\ b.external = external[h]
    BY <1>1, <1>3, <2>1, <2>2, <2>3 DEF Exact, EntriesExact
  <2>5. pc[h] \in KeySteps
    BY <2>4 DEF EntryUp, KeySteps, OpenSteps, CleanupSteps
  <2>6. ServiceUp(h)
    BY <1>1, <1>2, <2>3, <2>4, <2>5 DEF Exact, ServicesExact
  <2>7. pc[h] \notin {"getPorts", "putPorts"}
    <3>1. SUFFICES ASSUME pc[h] \in {"getPorts", "putPorts"} PROVE FALSE
      OBVIOUS
    <3>2. RouteOK(h) /\ pc[h] \in OpenSteps /\ ~Closing(h)
      BY <2>5, <3>1, AtWork DEF OpenSteps
    <3>3. ~PortUp(h) /\ \A c \in bindings : c.external # external[h]
      BY <2>1, <2>4, <3>1, <3>2 DEF RouteOK, Given, PortUp
    <3>4. QED
      BY <1>2, <2>1, <2>2, <2>3, <2>4, <3>3 DEF Exact, PortsExact
  <2>8. Complete(h)
    BY <2>4, <2>6, <2>7 DEF Complete, EntryUp, ServiceUp, Given
  <2>9. Own(h) \in Binding
    BY <2>8, OwnIsRoute
  <2>10. QED
    BY <1>1, <1>4, <2>4, <2>8, <2>9, SameBinding
<1>7. QED
  BY <1>5, <1>6

\* The routes that carry traffic are those of the rows and, when it is complete, that of
\* the work in hand.
LEMMA RoutesAre ==
    ASSUME ExactInv, Undisturbed, NEW h \in Handlers, Exact(h)
    PROVE  Routes = Rest(h) \cup (IF Complete(h) THEN {Own(h)} ELSE {})
<1>1. \A b \in Rest(h) : b \in Routes
  <2> SUFFICES ASSUME NEW b \in Rest(h) PROVE b \in Routes
    OBVIOUS
  <2>1. b \in bindings /\ Exposed(b)
    BY RestExposed DEF Rest, ExactInv, SequentialInv
  <2>2. QED
    BY <2>1, RowsAreRoutes DEF Routes
<1>2. Complete(h) => Own(h) \in Routes
  <2>1. Own(h).protocol = protocol[h] /\ Own(h).external = external[h]
    BY DEF Own
  <2>2. QED
    BY <2>1, OwnIsRoute, OwnExposed DEF Routes
<1>3. \A b \in Routes : b \in Rest(h) \/ (Complete(h) /\ b = Own(h))
  BY OtherRoutes
<1>4. QED
  BY <1>1, <1>2, <1>3

RoutesListed ==
    \A h \in Handlers :
        Exact(h) => Routes = Rest(h) \cup (IF Complete(h) THEN {Own(h)} ELSE {})
LEMMA RoutesKnown == ExactInv /\ Undisturbed => RoutesListed
BY RoutesAre DEF RoutesListed

\* Without a change in the cluster no route changes.
LEMMA RoutesStay ==
    ASSUME UNCHANGED <<services, ingresses, configMaps, lbPorts>>
    PROVE  UNCHANGED Routes
<1>1. \A b : Exposed(b)' <=> Exposed(b)
  BY DEF Exposed
<1>2. QED
  BY <1>1 DEF Routes

\* The steps that leave the pieces of all routes where they are.
LEMMA RoutesTouched ==
    ASSUME NEW h \in Handlers, Receive(h) \/ Progress(h) \/ Expire(h) \/ UNCHANGED vars,
           ~UNCHANGED Routes
    PROVE  \/ CreateService(h) \/ PutMap(h) \/ PutPorts(h) \/ CreateIngress(h)
           \/ DelService(h) \/ DelIngress(h) \/ DelEntryPut(h) \/ DelPortPut(h)
           \/ DropServices(h) \/ DropIngresses(h)
<1> DEFINE Still == UNCHANGED <<services, ingresses, configMaps, lbPorts>>
<1>1. ~Still
  BY RoutesStay
<1>2. ASSUME Receive(h) \/ Validate(h) \/ Advance(h) \/ Lookup(h) \/ LoadCounter(h)
               \/ StoreCounter(h) \/ Commit(h) \/ DelRow(h) \/ DropRows(h)
               \/ ListServices(h) \/ Expire(h) \/ UNCHANGED vars
      PROVE  Still
  BY <1>2 DEF Receive, Validate, Advance, Lookup, LoadCounter, StoreCounter, Commit,
              DelRow, DropRows, ListServices, Expire, vars, clusterVars, cmVars, lbVars
<1>3. ASSUME DropDeployment(h) PROVE Still
  BY <1>3 DEF DropDeployment, cmVars, lbVars
<1>4. ASSUME GetMap(h) \/ DelEntry(h) PROVE Still
  <2>1. UNCHANGED <<services, ingresses, lbPorts>>
    BY <1>4 DEF GetMap, DelEntry, lbVars
  <2>2. CM!Get(h, protocol[h]) \/ UNCHANGED cmVars
    BY <1>4 DEF GetMap, DelEntry
  <2>3. QED
    BY <2>1, <2>2 DEF CM!Get, cmVars
<1>5. ASSUME GetPorts(h) \/ DelPortGet(h) PROVE Still
  <2>1. UNCHANGED <<services, ingresses, configMaps>>
    BY <1>5 DEF GetPorts, DelPortGet, cmVars
  <2>2. LB!Get(h, "service") \/ UNCHANGED lbVars
    BY <1>5 DEF GetPorts, DelPortGet
  <2>3. QED
    BY <2>1, <2>2 DEF LB!Get, lbVars
<1>6. QED
  BY <1>1, <1>2, <1>3, <1>4, <1>5 DEF Progress

\* A route is published by the last piece of an opening, and by nothing else.
LEMMA Publishes ==
    ASSUME ExactInv, Undisturbed, RoutesListed', NEW h \in Handlers, Exact(h)',
           pc[h] \in {"putPorts", "createIngress"}, Onward(h, {"commit"})
    PROVE  Registry!Publish(Own(h)) /\ Own(h) \in Binding
<1>1. pc[h] \in KeySteps /\ ~Complete(h) /\ Complete(h)'
  BY DEF KeySteps, OpenSteps, Complete, Onward
<1>2. Exact(h) /\ RouteOK(h)
  BY <1>1, AtWork
<1>3. Routes = Rest(h)
  BY <1>1, <1>2, RoutesAre
<1>4. Own(h)' = Own(h)
  BY DEF Own, Key, Config, Onward
<1>5. Routes' = Routes \cup {Own(h)}
  BY <1>1, <1>3, <1>4 DEF RoutesListed, Onward
<1>6. /\ Own(h).key = Key(h) /\ Own(h).protocol = protocol[h]
      /\ Own(h).external = external[h]
  BY DEF Own
<1>7. \A s \in Routes : s.key # Own(h).key
  BY <1>1, <1>3, <1>6 DEF Rest
<1>8. Own(h).external # NoPort =>
         \A s \in Routes : <<s.protocol, s.external>> # <<Own(h).protocol, Own(h).external>>
  <2> SUFFICES ASSUME external[h] # NoPort, NEW s \in Routes PROVE s.external # external[h]
    BY <1>6
  <2>1. pc[h] = "putPorts"
    BY <1>2 DEF RouteOK, Early
  <2>2. protocol[h] \in L4 /\ s \in bindings
    BY <1>1, <1>3, <2>1, AtWork DEF PoolSteps, Rest
  <2>3. QED
    BY <1>2, <2>1, <2>2 DEF RouteOK, Given
<1>9. Own(h) \in Binding
  BY <1>1, AtWork DEF Own, Binding, IndInv, TypeOK
<1>10. QED
  BY <1>5, <1>7, <1>8, <1>9 DEF Registry!Publish

LEMMA RegistryStep ==
    ASSUME Serving, ExactInv, ExactInv', [Next]_vars, Undisturbed'
    PROVE  [Registry!Next]_Routes
<1> SUFFICES ASSUME ~UNCHANGED Routes PROVE Registry!Next
  OBVIOUS
<1>1. PICK h \in Handlers : TRUE
  BY DEF Serving
<1>2. Receive(h) \/ Progress(h) \/ Expire(h) \/ UNCHANGED vars
  <2>1. UNCHANGED vars \/ \E g \in Handlers : Receive(g) \/ Progress(g) \/ Expire(g)
    BY OneMoves DEF Serving, ExactInv
  <2>2. QED
    BY <1>1, <2>1 DEF Serving, Alone
<1>3. Undisturbed
  BY <1>2, StillUndisturbed DEF ExactInv, SequentialInv
<1>4. RoutesListed'
  BY RoutesKnown, PTL
<1>5. CaseOK(h)'
  BY DEF ExactInv
<1>6. ASSUME NEW steps, Onward(h, steps), "dropDeployment" \notin steps PROVE Exact(h)'
  BY <1>5, <1>6 DEF CaseOK, Onward
<1>7. ASSUME pc[h] \in KeySteps, ~Complete(h), NEW steps, Onward(h, steps),
             "dropDeployment" \notin steps, "commit" \notin steps,
             "delService" \notin steps
      PROVE  FALSE
  <2>1. ~Complete(h)' /\ Exact(h)'
    BY <1>6, <1>7 DEF Complete, Onward
  <2>2. Exact(h)
    BY <1>3, <1>7, AtWork
  <2>3. Routes = Rest(h) /\ Routes' = Rest(h)
    BY <1>3, <1>4, <1>7, <2>1, <2>2, RoutesAre DEF RoutesListed, Onward
  <2>4. QED
    BY <2>3
<1>8. CASE PutPorts(h) \/ CreateIngress(h)
  <2>1. pc[h] \in {"putPorts", "createIngress"} /\ Onward(h, {"commit"})
    BY <1>3, <1>8, PutPortsExact, CreateIngressExact DEF PutPorts, CreateIngress
  <2>2. Exact(h)'
    BY <1>6, <2>1
  <2>3. Registry!Publish(Own(h)) /\ Own(h) \in Binding
    BY <1>3, <1>4, <2>1, <2>2, Publishes
  <2>4. QED
    BY <2>3 DEF Registry!Next
<1>9. CASE DelService(h)
  <2>1. /\ pc[h] = "delService" /\ pc[h] \in KeySteps
        /\ Onward(h, {"served", "delIngress", "delEntry"})
    BY <1>3, <1>9, DelServiceExact DEF DelService, KeySteps, CleanupSteps
  <2>2. Exact(h) /\ Exact(h)' /\ ~Complete(h)'
    BY <1>3, <1>6, <2>1, AtWork DEF Complete, Onward
  <2>3. Complete(h)
    BY <1>7, <2>1
  <2>4. Routes = Rest(h) \cup {Own(h)} /\ Routes' = Rest(h)
    BY <1>3, <1>4, <2>1, <2>2, <2>3, RoutesAre DEF RoutesListed, Onward
  <2>5. Own(h) \notin Rest(h)
    BY <2>1 DEF Rest, Own
  <2>6. Registry!Withdraw(Own(h))
    BY <2>4, <2>5 DEF Registry!Withdraw
  <2>7. Own(h) \in Binding
    BY <1>3, <2>3, OwnIsRoute
  <2>8. QED
    BY <2>6, <2>7 DEF Registry!Next
<1>10. CASE CreateService(h) \/ PutMap(h)
  <2>1. /\ pc[h] \in KeySteps /\ ~Complete(h)
        /\ Onward(h, {"loadCounter", "createIngress"}) \/ Onward(h, {"getPorts"})
    BY <1>3, <1>10, CreateServiceExact, PutMapExact DEF CreateService, PutMap, Complete,
       KeySteps, OpenSteps
  <2>2. QED
    BY <1>7, <2>1
<1>11. CASE DelIngress(h) \/ DelEntryPut(h) \/ DelPortPut(h)
  <2>1. /\ pc[h] \in KeySteps /\ ~Complete(h)
        /\ Onward(h, {"delRow"}) \/ Onward(h, {"delPortGet"})
    BY <1>3, <1>11, DelIngressExact, DelEntryPutExact, DelPortPutExact DEF DelIngress,
       DelEntryPut, DelPortPut, Complete, KeySteps, CleanupSteps
  <2>2. QED
    BY <1>7, <2>1
<1>12. CASE DropServices(h) \/ DropIngresses(h)
  BY <1>3, <1>12, NotDeleted
<1>13. QED
  BY <1>2, <1>8, <1>9, <1>10, <1>11, <1>12, RoutesTouched

\* As long as requests are served one after the other, the handlers implement the
\* registry until a call fails or an instance is deleted: routes are published and
\* withdrawn one at a time, each with an instance port and an external port of its own.
THEOREM RegistryImplemented == ASSUME Serving PROVE Spec => ImplementsRegistry
<1>1. Init => Registry!Init
  BY DEF Init, Registry!Init, Routes, Exposed
<1>2. ExactInv /\ ExactInv' /\ [Next]_vars =>
         [Undisturbed' => [Registry!Next]_Routes]_vars
  BY RegistryStep
<1>3. QED
  BY <1>1, <1>2, ExactInductive, PTL DEF Spec, ImplementsRegistry, Serving
=============================================================================
