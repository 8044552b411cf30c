------------------------ MODULE PortSequentialProofs ------------------------
(***************************************************************************)
(* Proofs about PortExposure when requests are served one after the other: *)
(* one handler, whatever the requests, and any number of failed calls and  *)
(* deadlines, but no restart, for the counter does not survive one.        *)
(***************************************************************************)
EXTENDS PortExposureProofs

Alone == (\A g, h \in Handlers : g = h) /\ MaxRestarts = 0

\* Every external port that is in use, or was, is below the counter.
CounterOK ==
    /\ \A b \in bindings : b.external < nextPort
    /\ \A p \in L4, e \in ExternalPorts : e >= nextPort => configMaps[p][e] = NoKey

\* Steps of an opening, before and after it has been given its external port.
Early == {"idle", "validate", "lookup", "createService", "loadCounter", "createIngress"}
Given == {"getMap", "putMap", "getPorts", "putPorts", "commit"}

\* How far the route of the opening in hand has been built.
RouteOK(h) ==
    /\ pc[h] \in Early => external[h] = NoPort
    /\ pc[h] \in {"loadCounter", "storeCounter", "createIngress"} \cup Given =>
          Key(h) \in services
    /\ pc[h] = "storeCounter" => external[h] = nextPort
    /\ pc[h] # "storeCounter" => external[h] < nextPort
    /\ pc[h] \in Given /\ protocol[h] \in L4 =>
          \A b \in bindings : b.external # external[h]
    /\ pc[h] \in {"getMap", "putMap"} => configMaps[protocol[h]][external[h]] = NoKey
    /\ pc[h] \in {"getPorts", "putPorts", "commit"} /\ protocol[h] \in L4 =>
          configMaps[protocol[h]][external[h]] = Key(h)
    /\ pc[h] = "commit" /\ protocol[h] \in L4 => OwnExposure(h) \in lbPorts["service"]
    /\ pc[h] = "commit" /\ protocol[h] = "HTTP" =>
          external[h] = NoPort /\ Key(h) \in ingresses

SequentialInv ==
    /\ IndInv
    /\ FreshCopies
    /\ CounterOK
    /\ UniqueExternal
    /\ \A h \in Handlers : RouteOK(h)

-----------------------------------------------------------------------------
(* What the steps have in common.                                          *)

\* At these steps nothing is claimed of the route.
Passive == Steps \ (Early \cup Given \cup {"storeCounter"})

LEMMA Sizes ==
    ASSUME IndInv
    PROVE  /\ nextPort \in Int /\ NoPort < nextPort
           /\ \A h \in Handlers : external[h] \in Int
           /\ \A b \in bindings : b.external \in Int
<1>1. nextPort \in ExternalPorts \cup {RangeStart, RangeEnd + 1}
  BY DEF IndInv, TypeOK
<1>2. external \in [Handlers -> MaybePort] /\ bindings \subseteq Binding
  BY DEF IndInv, TypeOK
<1>3. QED
  BY <1>1, <1>2, RangeAssumption DEF ExternalPorts, NoPort, MaybePort, Binding

\* A step that does not set the counter back keeps what lies above it free, for an
\* entry changes only at the external port of a handler that was given one.
LEMMA AboveIsFree ==
    ASSUME SequentialInv, [Next]_vars, nextPort' \in Int, nextPort' >= nextPort
    PROVE  \A p \in L4, e \in ExternalPorts : e >= nextPort' => configMaps'[p][e] = NoKey
<1> SUFFICES ASSUME NEW p \in L4, NEW e \in ExternalPorts, e >= nextPort'
             PROVE  configMaps'[p][e] = NoKey
  OBVIOUS
<1>1. e \in Int /\ nextPort \in Int /\ e >= nextPort
  BY Sizes DEF SequentialInv, ExternalPorts
<1>2. configMaps[p][e] = NoKey
  BY <1>1 DEF SequentialInv, CounterOK
<1>3. ASSUME configMaps'[p][e] # configMaps[p][e] PROVE FALSE
  <2>1. PICK h \in Handlers : Moves(h, {"putMap", "delEntryPut"}) /\ external[h] = e
    BY <1>3, MapUpdates DEF SequentialInv
  <2>2. external[h] < nextPort
    BY <2>1 DEF Moves, SequentialInv, RouteOK
  <2>3. QED
    BY <1>1, <2>1, <2>2
<1>4. QED
  BY <1>2, <1>3

\* A step that adds no row and leaves the counter alone.
LEMMA NoNewRow ==
    ASSUME SequentialInv, [Next]_vars, bindings' \subseteq bindings, UNCHANGED nextPort
    PROVE  CounterOK' /\ UniqueExternal'
<1>1. nextPort' \in Int /\ nextPort' >= nextPort
  BY Sizes DEF SequentialInv
<1>2. CounterOK'
  BY <1>1, AboveIsFree DEF SequentialInv, CounterOK
<1>3. UniqueExternal'
  BY DEF SequentialInv, UniqueExternal
<1>4. QED
  BY <1>2, <1>3

\* Where nothing is claimed of the route.
LEMMA PassiveRoute ==
    ASSUME NEW h \in Handlers, pc'[h] \in Passive, external'[h] < nextPort'
    PROVE  RouteOK(h)'
BY DEF RouteOK, Passive, Early, Given

LEMMA ServeRetreats ==
    ASSUME IndInv, NEW h \in Handlers, NEW outcome, Serve(h, outcome)
    PROVE  pc'[h] \in Passive /\ UNCHANGED external
BY DEF IndInv, TypeOK, Serve, jobVars, Passive, Early, Given, Steps

LEMMA GoMoves ==
    ASSUME IndInv, NEW h \in Handlers, NEW step, Go(h, step)
    PROVE  pc'[h] = step /\ UNCHANGED <<external, protocol, req, pos>>
BY DEF IndInv, TypeOK, Go, jobVars

LEMMA PerformRetreats ==
    ASSUME IndInv, NEW h \in Handlers, NEW deletions \in Plans, Perform(h, deletions)
    PROVE  pc'[h] \in Passive /\ UNCHANGED external
<1>1. CASE deletions = <<>>
  BY <1>1, ServeRetreats DEF Perform
<1>2. CASE deletions # <<>>
  <2>1. pc'[h] = Head(deletions) /\ UNCHANGED external
    BY <1>2 DEF IndInv, TypeOK, Perform, jobVars
  <2>2. Head(deletions) \in CleanupSteps
    BY <1>2 DEF Plans
  <2>3. QED
    BY <2>1, <2>2 DEF CleanupSteps, Passive, Early, Given, Steps
<1>3. QED
  BY <1>1, <1>2

LEMMA CleanupRetreats ==
    ASSUME IndInv, NEW h \in Handlers, NextCleanup(h)
    PROVE  pc'[h] \in Passive /\ UNCHANGED external
BY PerformRetreats DEF IndInv, TypeOK, NextCleanup

LEMMA UndoRetreats ==
    ASSUME IndInv, NEW h \in Handlers,
           UndoAllocate(h) \/ UndoPatch(h) \/ Perform(h, <<"delService">>)
    PROVE  pc'[h] \in Passive /\ UNCHANGED external
BY PerformRetreats, Rollbacks DEF UndoAllocate, UndoPatch
-----------------------------------------------------------------------------
(* Cleanups and deletions.                                                 *)

\* They add no row and claim nothing of a route.
LEMMA RemovalRoute ==
    ASSUME SequentialInv, [Next]_vars, NEW h \in Handlers,
           \/ DelService(h) \/ DelIngress(h) \/ DelEntry(h) \/ DelEntryPut(h)
           \/ DelPortGet(h) \/ DelPortPut(h) \/ DelRow(h)
           \/ DropRows(h) \/ DropDeployment(h) \/ ListServices(h) \/ DropServices(h)
           \/ DropIngresses(h)
    PROVE  CounterOK' /\ UniqueExternal' /\ RouteOK(h)'
<1>1. IndInv /\ pc \in [Handlers -> Steps]
  BY DEF SequentialInv, IndInv, TypeOK
<1>2. UNCHANGED nextPort /\ bindings' \subseteq bindings
  BY DEF DelService, DelIngress, DelEntry, DelEntryPut, DelPortGet, DelPortPut, DelRow,
         DropRows, DropDeployment, ListServices, DropServices, DropIngresses, RowsOf
<1>3. pc[h] # "storeCounter"
  BY DEF DelService, DelIngress, DelEntry, DelEntryPut, DelPortGet, DelPortPut, DelRow,
         DropRows, DropDeployment, ListServices, DropServices, DropIngresses
<1>4. ASSUME Go(h, "delEntryPut") \/ Go(h, "delPortGet") \/ Go(h, "delPortPut")
               \/ Go(h, "dropDeployment") \/ Go(h, "listServices")
      PROVE  pc'[h] \in Passive /\ UNCHANGED external
  BY <1>1, <1>4, GoMoves DEF Passive, Early, Given, Steps, CleanupSteps, DeleteSteps
<1>5. pc'[h] \in Passive /\ UNCHANGED external
  <2>1. CASE DelService(h) \/ DelIngress(h) \/ DelPortPut(h)
    BY <1>1, <2>1, CleanupRetreats DEF DelService, DelIngress, DelPortPut
  <2>2. CASE DelEntry(h)
    BY <1>1, <1>4, <2>2, CleanupRetreats DEF DelEntry
  <2>3. CASE DelEntryPut(h)
    BY <1>1, <1>4, <2>3, CleanupRetreats DEF DelEntryPut
  <2>4. CASE DelPortGet(h)
    BY <1>1, <1>4, <2>4, CleanupRetreats DEF DelPortGet
  <2>5. CASE DelRow(h) \/ DropIngresses(h)
    BY <1>1, <2>5, ServeRetreats DEF DelRow, DropIngresses
  <2>6. CASE DropRows(h)
    BY <1>4, <2>6 DEF DropRows
  <2>7. CASE DropDeployment(h)
    BY <1>1, <1>4, <2>7, ServeRetreats DEF DropDeployment
  <2>8. CASE ListServices(h) \/ DropServices(h)
    BY <1>1, <2>8 DEF ListServices, DropServices, Passive, Early, Given, Steps, DeleteSteps
  <2>9. QED
    BY <2>1, <2>2, <2>3, <2>4, <2>5, <2>6, <2>7, <2>8
<1>6. external'[h] < nextPort'
  BY <1>2, <1>3, <1>5 DEF SequentialInv, RouteOK
<1>7. QED
  BY <1>2, <1>5, <1>6, NoNewRow, PassiveRoute
-----------------------------------------------------------------------------
(* The request, up to the decision what to do.                             *)

LEMMA RequestRoute ==
    ASSUME SequentialInv, [Next]_vars, NEW h \in Handlers,
           Receive(h) \/ Validate(h) \/ Advance(h)
    PROVE  CounterOK' /\ UniqueExternal' /\ RouteOK(h)'
<1>1. IndInv /\ pc \in [Handlers -> Steps] /\ external \in [Handlers -> MaybePort]
  BY DEF SequentialInv, IndInv, TypeOK
<1>2. UNCHANGED nextPort /\ UNCHANGED bindings
  BY DEF Receive, Validate, Advance
<1> SUFFICES RouteOK(h)'
  BY <1>2, NoNewRow
<1>3. ASSUME pc'[h] \in {"idle", "validate", "lookup"}, external'[h] = NoPort
      PROVE  RouteOK(h)'
  <2>1. external'[h] < nextPort'
    BY <1>1, <1>2, <1>3, Sizes
  <2>2. QED
    BY <1>3, <2>1 DEF RouteOK, Early, Given
<1>4. CASE Receive(h)
  BY <1>1, <1>3, <1>4 DEF Receive, SequentialInv, RouteOK, Early
<1>5. CASE Validate(h)
  <2>1. external[h] = NoPort
    BY <1>5 DEF Validate, SequentialInv, RouteOK, Early
  <2>2. CASE Valid(Config(h))
    BY <1>1, <1>3, <1>5, <2>1, <2>2 DEF Validate
  <2>3. CASE ~Valid(Config(h))
    BY <1>1, <1>2, <1>5, <2>1, <2>3, ServeRetreats, PassiveRoute, Sizes DEF Validate
  <2>4. QED
    BY <2>2, <2>3
<1>6. CASE Advance(h)
  BY <1>1, <1>3, <1>6 DEF Advance
<1>7. QED
  BY <1>4, <1>5, <1>6

LEMMA LookupRoute ==
    ASSUME SequentialInv, [Next]_vars, NEW h \in Handlers, Lookup(h)
    PROVE  CounterOK' /\ UniqueExternal' /\ RouteOK(h)'
<1>1. IndInv /\ pc \in [Handlers -> Steps] /\ external \in [Handlers -> MaybePort]
  BY DEF SequentialInv, IndInv, TypeOK
<1>2. UNCHANGED nextPort /\ UNCHANGED bindings /\ pc[h] = "lookup"
  BY DEF Lookup
<1> SUFFICES RouteOK(h)'
  BY <1>2, NoNewRow
<1>3. external[h] = NoPort /\ external[h] < nextPort'
  BY <1>2 DEF SequentialInv, RouteOK, Early
<1>4. req[h].op \in {"open", "close", "delete"}
  BY <1>1, <1>2, RequestsAssumption DEF IndInv, LocalsOK, Request
<1>5. PICK o \in Outcomes :
         IF o # "ok" \/ req[h].instance \notin Instances THEN Serve(h, "failure")
         ELSE CASE req[h].op = "delete" -> Go(h, "dropRows")
                [] req[h].op = "open" -> IF RowsOf(Key(h)) # {} THEN Serve(h, "success")
                                         ELSE Go(h, "createService")
                [] req[h].op = "close" -> IF RowsOf(Key(h)) = {} THEN Serve(h, "success")
                                          ELSE \E b \in RowsOf(Key(h)) : StartClosing(h, b)
  BY DEF Lookup
<1>6. CASE Serve(h, "success") \/ Serve(h, "failure")
  BY <1>1, <1>3, <1>6, ServeRetreats, PassiveRoute
<1>7. CASE Go(h, "dropRows")
  BY <1>1, <1>3, <1>7, GoMoves, PassiveRoute DEF Passive, Early, Given, Steps, DeleteSteps
<1>8. CASE Go(h, "createService")
  <2>1. pc'[h] = "createService" /\ external'[h] = NoPort
    BY <1>1, <1>3, <1>8, GoMoves
  <2>2. QED
    BY <1>3, <2>1 DEF RouteOK, Given
<1>9. ASSUME NEW b \in RowsOf(Key(h)), StartClosing(h, b) PROVE RouteOK(h)'
  <2>1. pc'[h] = "delService" /\ external'[h] = b.external
    BY <1>1, <1>9 DEF StartClosing
  <2>2. b.external < nextPort'
    BY <1>2 DEF RowsOf, SequentialInv, CounterOK
  <2>3. QED
    BY <2>1, <2>2, PassiveRoute DEF Passive, Early, Given, Steps, CleanupSteps
<1>10. QED
  BY <1>4, <1>5, <1>6, <1>7, <1>8, <1>9
-----------------------------------------------------------------------------
(* Opening a port.                                                         *)

LEMMA CreateServiceRoute ==
    ASSUME SequentialInv, [Next]_vars, NEW h \in Handlers, CreateService(h)
    PROVE  CounterOK' /\ UniqueExternal' /\ RouteOK(h)'
<1>1. IndInv /\ UNCHANGED <<nextPort, bindings>> /\ pc[h] = "createService"
  BY DEF SequentialInv, CreateService
<1> SUFFICES RouteOK(h)'
  BY <1>1, NoNewRow
<1>2. external[h] = NoPort /\ external[h] < nextPort'
  BY <1>1 DEF SequentialInv, RouteOK, Early
<1>3. PICK o \in Outcomes :
         /\ services' = IF o = "refused" THEN services ELSE services \cup {Key(h)}
         /\ IF Created(h, o)
            THEN Go(h, IF protocol[h] \in L4 THEN "loadCounter" ELSE "createIngress")
            ELSE Serve(h, "failure")
  BY DEF CreateService
<1>4. CASE ~Created(h, o)
  BY <1>1, <1>2, <1>3, <1>4, ServeRetreats, PassiveRoute
<1>5. CASE Created(h, o)
  <2>1. /\ pc'[h] \in {"loadCounter", "createIngress"}
        /\ UNCHANGED <<external, protocol, req, pos>>
    BY <1>1, <1>3, <1>5, GoMoves
  <2>2. Key(h)' = Key(h) /\ Key(h) \in services'
    BY <1>3, <1>5, <2>1 DEF Created, Key, Config
  <2>3. QED
    BY <1>2, <2>1, <2>2 DEF RouteOK, Given
<1>6. QED
  BY <1>4, <1>5

LEMMA LoadCounterRoute ==
    ASSUME SequentialInv, [Next]_vars, NEW h \in Handlers, LoadCounter(h)
    PROVE  CounterOK' /\ UniqueExternal' /\ RouteOK(h)'
<1>1. IndInv /\ UNCHANGED <<nextPort, bindings, services>> /\ pc[h] = "loadCounter"
  BY DEF SequentialInv, LoadCounter, clusterVars
<1> SUFFICES RouteOK(h)'
  BY <1>1, NoNewRow
<1>2. external[h] < nextPort' /\ Key(h) \in services'
  BY <1>1 DEF SequentialInv, RouteOK, Early
<1>3. CASE PoolExhausted
  BY <1>1, <1>2, <1>3, UndoRetreats, PassiveRoute DEF LoadCounter
<1>4. CASE ~PoolExhausted
  <2>1. /\ pc'[h] = "storeCounter" /\ external'[h] = nextPort
        /\ UNCHANGED <<protocol, req, pos>>
    BY <1>1, <1>4 DEF LoadCounter, IndInv, TypeOK
  <2>2. Key(h)' = Key(h)
    BY <2>1 DEF Key, Config
  <2>3. QED
    BY <1>1, <1>2, <2>1, <2>2 DEF RouteOK, Early, Given
<1>5. QED
  BY <1>3, <1>4

\* The counter goes past the port that is given away, which nothing uses yet.
LEMMA StoreCounterRoute ==
    ASSUME SequentialInv, [Next]_vars, NEW h \in Handlers, StoreCounter(h)
    PROVE  CounterOK' /\ UniqueExternal' /\ RouteOK(h)'
<1>1. /\ IndInv /\ UNCHANGED <<bindings, services, configMaps>>
      /\ pc[h] = "storeCounter" /\ nextPort' = external[h] + 1
      /\ pc'[h] = "getMap" /\ UNCHANGED <<external, protocol, req, pos>>
  BY GoMoves DEF SequentialInv, StoreCounter, clusterVars, cmVars
<1>2. /\ external[h] = nextPort /\ nextPort \in Int /\ nextPort' = nextPort + 1
      /\ Key(h) \in services /\ Key(h)' = Key(h)
  BY <1>1, Sizes DEF SequentialInv, RouteOK, Key, Config
<1>3. OwnsPort(h) /\ external[h] \in ExternalPorts
  BY <1>1 DEF IndInv, LocalsOK, PoolSteps, OwnsPort
<1>4. \A b \in bindings : b.external \in Int /\ b.external < nextPort
  BY <1>1, Sizes DEF SequentialInv, CounterOK
<1>5. CounterOK'
  <2>1. nextPort' \in Int /\ nextPort' >= nextPort
    BY <1>2
  <2>2. \A b \in bindings' : b.external < nextPort'
    BY <1>1, <1>2, <1>4
  <2>3. QED
    BY <2>1, <2>2, AboveIsFree DEF CounterOK
<1>6. UniqueExternal'
  BY <1>1 DEF SequentialInv, UniqueExternal
<1>7. configMaps[protocol[h]][external[h]] = NoKey
  BY <1>2, <1>3 DEF SequentialInv, CounterOK, OwnsPort
<1>8. RouteOK(h)'
  <2>1. external'[h] < nextPort' /\ \A b \in bindings' : b.external # external'[h]
    BY <1>1, <1>2, <1>4
  <2>2. QED
    BY <1>1, <1>2, <1>7, <2>1 DEF RouteOK, Early
<1>9. QED
  BY <1>5, <1>6, <1>8

LEMMA GetMapRoute ==
    ASSUME SequentialInv, [Next]_vars, NEW h \in Handlers, GetMap(h)
    PROVE  CounterOK' /\ UniqueExternal' /\ RouteOK(h)'
<1>1. IndInv /\ UNCHANGED <<nextPort, bindings, services>> /\ pc[h] = "getMap"
  BY DEF SequentialInv, GetMap
<1> SUFFICES RouteOK(h)'
  BY <1>1, NoNewRow
<1>2. external[h] < nextPort'
  BY <1>1 DEF SequentialInv, RouteOK
<1>3. CASE UNCHANGED cmVars /\ Perform(h, <<"delService">>)
  BY <1>1, <1>2, <1>3, UndoRetreats, PassiveRoute
<1>4. CASE CM!Get(h, protocol[h]) /\ Go(h, "putMap")
  <2>1. /\ pc'[h] = "putMap" /\ UNCHANGED <<external, protocol, req, pos>>
        /\ UNCHANGED configMaps
    BY <1>1, <1>4, GoMoves DEF CM!Get
  <2>2. Key(h)' = Key(h)
    BY <2>1 DEF Key, Config
  <2>3. QED
    BY <1>1, <1>2, <2>1, <2>2 DEF SequentialInv, RouteOK, Early, Given
<1>5. QED
  BY <1>3, <1>4 DEF GetMap

LEMMA PutMapRoute ==
    ASSUME SequentialInv, [Next]_vars, NEW h \in Handlers, PutMap(h)
    PROVE  CounterOK' /\ UniqueExternal' /\ RouteOK(h)'
<1>1. IndInv /\ UNCHANGED <<nextPort, bindings, services>> /\ pc[h] = "putMap"
  BY DEF SequentialInv, PutMap
<1> SUFFICES RouteOK(h)'
  BY <1>1, NoNewRow
<1>2. external[h] < nextPort' /\ OwnsPort(h)
  BY <1>1 DEF SequentialInv, RouteOK, IndInv, LocalsOK, PoolSteps
<1>3. PICK o \in Outcomes :
         /\ IF o # "refused" /\ MapAccepted(h)
            THEN CM!Put(h, protocol[h], WithEntry(h)) ELSE CM!Drop(h)
         /\ IF o = "ok" /\ MapAccepted(h) THEN Go(h, "getPorts")
            ELSE Perform(h, <<"delService">>)
  BY DEF PutMap
<1>4. CASE ~(o = "ok" /\ MapAccepted(h))
  BY <1>1, <1>2, <1>3, <1>4, UndoRetreats, PassiveRoute
<1>5. CASE o = "ok" /\ MapAccepted(h)
  <2>1. pc'[h] = "getPorts" /\ UNCHANGED <<external, protocol, req, pos>>
    BY <1>1, <1>3, <1>5, GoMoves
  <2>2. Key(h)' = Key(h)
    BY <2>1 DEF Key, Config
  <2>3. configMaps' = [configMaps EXCEPT ![protocol[h]] = WithEntry(h)]
    BY <1>3, <1>5 DEF CM!Put
  <2>4. configMaps'[protocol[h]][external[h]] = Key(h)
    BY <1>1, <1>2, <2>3 DEF IndInv, TypeOK, CM!TypeOK, ConfigMap, WithEntry, OwnsPort
  <2>5. QED
    BY <1>1, <1>2, <2>1, <2>2, <2>4 DEF SequentialInv, RouteOK, Early, Given
<1>6. QED
  BY <1>4, <1>5

LEMMA GetPortsRoute ==
    ASSUME SequentialInv, [Next]_vars, NEW h \in Handlers, GetPorts(h)
    PROVE  CounterOK' /\ UniqueExternal' /\ RouteOK(h)'
<1>1. /\ IndInv /\ UNCHANGED <<nextPort, bindings, services, configMaps>>
      /\ pc[h] = "getPorts"
  BY DEF SequentialInv, GetPorts, cmVars
<1> SUFFICES RouteOK(h)'
  BY <1>1, NoNewRow
<1>2. external[h] < nextPort' /\ OwnsPort(h) /\ protocol[h] # "HTTP"
  BY <1>1 DEF SequentialInv, RouteOK, IndInv, LocalsOK, PoolSteps, OwnsPort, L4
<1>3. \/ UndoPatch(h)
      \/ OwnExposure(h) \in lbPorts["service"] /\ UNCHANGED lbVars /\ Go(h, "commit")
      \/ Go(h, "putPorts")
  BY DEF GetPorts
<1>4. CASE UndoPatch(h)
  BY <1>1, <1>2, <1>4, UndoRetreats, PassiveRoute
<1>5. ASSUME NEW step \in {"putPorts", "commit"}, Go(h, step),
             step = "commit" => OwnExposure(h) \in lbPorts'["service"]
      PROVE  RouteOK(h)'
  <2>1. pc'[h] = step /\ UNCHANGED <<external, protocol, req, pos>>
    BY <1>1, <1>5, GoMoves
  <2>2. Key(h)' = Key(h) /\ OwnExposure(h)' = OwnExposure(h)
    BY <2>1 DEF Key, Config, OwnExposure
  <2>3. QED
    BY <1>1, <1>2, <1>5, <2>1, <2>2 DEF SequentialInv, RouteOK, Early, Given
<1>6. QED
  BY <1>3, <1>4, <1>5 DEF lbVars

LEMMA PutPortsRoute ==
    ASSUME SequentialInv, [Next]_vars, NEW h \in Handlers, PutPorts(h)
    PROVE  CounterOK' /\ UniqueExternal' /\ RouteOK(h)'
<1>1. /\ IndInv /\ UNCHANGED <<nextPort, bindings, services, configMaps>>
      /\ pc[h] = "putPorts"
  BY DEF SequentialInv, PutPorts, cmVars
<1> SUFFICES RouteOK(h)'
  BY <1>1, NoNewRow
<1>2. external[h] < nextPort' /\ OwnsPort(h) /\ protocol[h] # "HTTP"
  BY <1>1 DEF SequentialInv, RouteOK, IndInv, LocalsOK, PoolSteps, OwnsPort, L4
<1>3. \/ UndoPatch(h)
      \/ /\ LB!Put(h, "service", lbCopy[h] \cup {OwnExposure(h)})
         /\ Go(h, "commit")
  BY DEF PutPorts
<1>4. CASE UndoPatch(h)
  BY <1>1, <1>2, <1>4, UndoRetreats, PassiveRoute
<1>5. CASE LB!Put(h, "service", lbCopy[h] \cup {OwnExposure(h)}) /\ Go(h, "commit")
  <2>1. pc'[h] = "commit" /\ UNCHANGED <<external, protocol, req, pos>>
    BY <1>1, <1>5, GoMoves
  <2>2. Key(h)' = Key(h) /\ OwnExposure(h)' = OwnExposure(h)
    BY <2>1 DEF Key, Config, OwnExposure
  <2>3. OwnExposure(h) \in lbPorts'["service"]
    BY <1>1, <1>5 DEF LB!Put, IndInv, TypeOK, LB!TypeOK
  <2>4. QED
    BY <1>1, <1>2, <2>1, <2>2, <2>3 DEF SequentialInv, RouteOK, Early, Given
<1>6. QED
  BY <1>3, <1>4, <1>5

LEMMA CreateIngressRoute ==
    ASSUME SequentialInv, [Next]_vars, NEW h \in Handlers, CreateIngress(h)
    PROVE  CounterOK' /\ UniqueExternal' /\ RouteOK(h)'
<1>1. IndInv /\ UNCHANGED <<nextPort, bindings, services>> /\ pc[h] = "createIngress"
  BY DEF SequentialInv, CreateIngress
<1> SUFFICES RouteOK(h)'
  BY <1>1, NoNewRow
<1>2. /\ external[h] = NoPort /\ external[h] < nextPort'
      /\ protocol[h] = "HTTP" /\ protocol[h] \notin L4
  BY <1>1 DEF SequentialInv, RouteOK, Early, IndInv, LocalsOK, L4
<1>3. \/ Perform(h, <<"delService">>)
      \/ Go(h, "commit") /\ ingresses' = ingresses \cup {Key(h)}
  BY DEF CreateIngress
<1>4. CASE Perform(h, <<"delService">>)
  BY <1>1, <1>2, <1>4, UndoRetreats, PassiveRoute
<1>5. CASE Go(h, "commit") /\ ingresses' = ingresses \cup {Key(h)}
  <2>1. pc'[h] = "commit" /\ UNCHANGED <<external, protocol, req, pos>>
    BY <1>1, <1>5, GoMoves
  <2>2. Key(h)' = Key(h)
    BY <2>1 DEF Key, Config
  <2>3. QED
    BY <1>1, <1>2, <1>5, <2>1, <2>2 DEF SequentialInv, RouteOK, Early, Given
<1>6. QED
  BY <1>3, <1>4, <1>5

\* The new row has an external port that no row has, or none.
LEMMA CommitRoute ==
    ASSUME SequentialInv, [Next]_vars, NEW h \in Handlers, Commit(h)
    PROVE  CounterOK' /\ UniqueExternal' /\ RouteOK(h)'
<1> DEFINE row == [key |-> Key(h), protocol |-> protocol[h], external |-> external[h]]
<1>1. IndInv /\ UNCHANGED nextPort /\ pc[h] = "commit"
  BY DEF SequentialInv, Commit
<1>2. bindings' \subseteq bindings \cup {row}
  BY DEF Commit
<1>3. external[h] < nextPort /\ nextPort' \in Int /\ nextPort' >= nextPort
  BY <1>1, Sizes DEF SequentialInv, RouteOK
<1>4. external[h] = NoPort \/ \A b \in bindings : b.external # external[h]
  BY <1>1 DEF SequentialInv, RouteOK, Given, IndInv, LocalsOK, OwnsPort
<1>5. CounterOK'
  <2>1. \A b \in bindings' : b.external < nextPort'
    BY <1>1, <1>2, <1>3 DEF SequentialInv, CounterOK
  <2>2. QED
    BY <1>3, <2>1, AboveIsFree DEF CounterOK
<1>6. UniqueExternal'
  BY <1>2, <1>4 DEF SequentialInv, UniqueExternal
<1>7. RouteOK(h)'
  <2>1. \/ Serve(h, "success")
        \/ \E x \in {"delIngress", "delEntry"} : Perform(h, <<"delService", x>>)
    BY DEF Commit
  <2>2. pc'[h] \in Passive /\ UNCHANGED external
    BY <1>1, <2>1, ServeRetreats, PerformRetreats, Rollbacks
  <2>3. QED
    BY <1>1, <1>3, <2>2, PassiveRoute
<1>8. QED
  BY <1>5, <1>6, <1>7

\* What a handler relies on is not changed by the deadline or by a step of nobody.
LEMMA IdleRoute ==
    ASSUME SequentialInv, [Next]_vars, NEW h \in Handlers, Expire(h) \/ UNCHANGED vars
    PROVE  CounterOK' /\ UniqueExternal' /\ RouteOK(h)'
<1>1. /\ UNCHANGED <<pc, req, pos, protocol, external, nextPort, bindings>>
      /\ UNCHANGED <<services, ingresses, configMaps, lbPorts>>
  BY DEF Expire, vars, handlerVars, jobVars, clusterVars, cmVars, lbVars
<1>2. RouteOK(h)'
  BY <1>1 DEF SequentialInv, RouteOK, Key, Config, OwnExposure
<1>3. QED
  BY <1>1, <1>2, NoNewRow
-----------------------------------------------------------------------------
(* The theorems.                                                           *)

LEMMA SequentialInit == ASSUME Init PROVE SequentialInv
<1>1. IndInv
  BY InitInv
<1>2. FreshCopies
  BY DEF Init, CM!Init0, LB!Init0, FreshCopies, CM!FreshCopy, LB!FreshCopy
<1>3. CounterOK
  BY DEF Init, CM!Init0, CounterOK, EmptyMap
<1>4. UniqueExternal
  BY DEF Init, UniqueExternal
<1>5. ASSUME NEW h \in Handlers PROVE RouteOK(h)
  <2>1. pc[h] = "idle" /\ external[h] = NoPort
    BY DEF Init
  <2>2. NoPort < nextPort
    BY <1>1, Sizes
  <2>3. QED
    BY <2>1, <2>2 DEF RouteOK, Given
<1>6. QED
  BY <1>1, <1>2, <1>3, <1>4, <1>5 DEF SequentialInv

LEMMA SequentialStep ==
    ASSUME Alone, SequentialInv, [Next]_vars
    PROVE  SequentialInv'
<1>1. IndInv' /\ FreshCopies'
  BY NextInv, FreshStep DEF SequentialInv
<1>2. ~Restart
  <2>1. restarts \in 0 .. 0
    BY DEF Alone, SequentialInv, IndInv, TypeOK
  <2>2. QED
    BY <2>1 DEF Restart, Alone
<1>3. ASSUME NEW h \in Handlers PROVE CounterOK' /\ UniqueExternal' /\ RouteOK(h)'
  <2>1. Receive(h) \/ Progress(h) \/ Expire(h) \/ UNCHANGED vars
    BY <1>2 DEF Alone, Next
  <2>2. CASE Receive(h) \/ Expire(h) \/ UNCHANGED vars
    BY <2>2, RequestRoute, IdleRoute
  <2>3. CASE Progress(h)
    BY <2>3, RequestRoute, LookupRoute, CreateServiceRoute, LoadCounterRoute,
       StoreCounterRoute, GetMapRoute, PutMapRoute, GetPortsRoute, PutPortsRoute,
       CreateIngressRoute, CommitRoute, RemovalRoute DEF Progress
  <2>4. QED
    BY <2>1, <2>2, <2>3
<1>4. CASE Handlers = {}
  <2>1. UNCHANGED vars
    BY <1>2, <1>4 DEF Next
  <2>2. UNCHANGED <<nextPort, bindings>>
    BY <2>1 DEF vars
  <2>3. QED
    BY <1>1, <1>4, <2>2, NoNewRow DEF SequentialInv
<1>5. CASE Handlers # {}
  BY <1>1, <1>3, <1>5 DEF SequentialInv
<1>6. QED
  BY <1>4, <1>5

THEOREM SequentialInductive == ASSUME Alone PROVE Spec => []SequentialInv
BY SequentialInit, SequentialStep, PTL DEF Spec

\* As long as requests are served one after the other, no two rows of a protocol
\* share an external port, however many calls of openings, closings and rollbacks
\* fail: ports are given away in increasing order and never again.
THEOREM PortsUnique == ASSUME Alone PROVE Spec => []UniqueExternal
<1>1. SequentialInv => UniqueExternal
  BY DEF SequentialInv
<1>2. QED
  BY <1>1, SequentialInductive, PTL

\* The steps of an opening that complete a route, and those that take one back.
LEMMA MapsStay ==
    ASSUME NEW h \in Handlers, Receive(h) \/ Progress(h) \/ Expire(h) \/ UNCHANGED vars,
           configMaps' # configMaps
    PROVE  PutMap(h) \/ DelEntryPut(h)
<1>1. ASSUME Receive(h) \/ Validate(h) \/ Advance(h) \/ Lookup(h) \/ LoadCounter(h)
               \/ StoreCounter(h) \/ Commit(h) \/ DelRow(h) \/ DropRows(h)
               \/ ListServices(h) \/ Expire(h) \/ UNCHANGED vars
      PROVE  FALSE
  BY <1>1 DEF Receive, Validate, Advance, Lookup, LoadCounter, StoreCounter, Commit,
              DelRow, DropRows, ListServices, Expire, vars, clusterVars, cmVars
<1>2. ASSUME CreateService(h) \/ GetPorts(h) \/ PutPorts(h) \/ CreateIngress(h)
               \/ DelService(h) \/ DelIngress(h) \/ DelPortGet(h) \/ DelPortPut(h)
               \/ DropDeployment(h) \/ DropServices(h) \/ DropIngresses(h)
      PROVE  FALSE
  BY <1>2 DEF CreateService, GetPorts, PutPorts, CreateIngress, DelService, DelIngress,
              DelPortGet, DelPortPut, DropDeployment, DropServices, DropIngresses, cmVars
<1>3. ASSUME GetMap(h) PROVE FALSE
  <2>1. CM!Get(h, protocol[h]) \/ UNCHANGED cmVars
    BY <1>3 DEF GetMap
  <2>2. QED
    BY <2>1 DEF CM!Get, cmVars
<1>4. ASSUME DelEntry(h) PROVE FALSE
  <2>1. CM!Get(h, protocol[h]) \/ UNCHANGED cmVars
    BY <1>4 DEF DelEntry
  <2>2. QED
    BY <2>1 DEF CM!Get, cmVars
<1>5. QED
  BY <1>1, <1>2, <1>3, <1>4 DEF Progress

LEMMA RowsStay ==
    ASSUME NEW h \in Handlers, Receive(h) \/ Progress(h) \/ Expire(h) \/ UNCHANGED vars,
           ~(bindings' \subseteq bindings)
    PROVE  Commit(h)
<1>1. ASSUME Receive(h) \/ Validate(h) \/ Advance(h) \/ Lookup(h) \/ LoadCounter(h)
               \/ StoreCounter(h) \/ DelRow(h) \/ DropRows(h) \/ ListServices(h)
               \/ Expire(h) \/ UNCHANGED vars
      PROVE  FALSE
  BY <1>1 DEF Receive, Validate, Advance, Lookup, LoadCounter, StoreCounter, DelRow,
              DropRows, ListServices, Expire, vars, RowsOf
<1>2. ASSUME CreateService(h) \/ GetMap(h) \/ PutMap(h) \/ GetPorts(h) \/ PutPorts(h)
               \/ CreateIngress(h) \/ DelService(h) \/ DelIngress(h) \/ DelEntry(h)
               \/ DelEntryPut(h) \/ DelPortGet(h) \/ DelPortPut(h)
               \/ DropDeployment(h) \/ DropServices(h) \/ DropIngresses(h)
      PROVE  FALSE
  BY <1>2 DEF CreateService, GetMap, PutMap, GetPorts, PutPorts, CreateIngress, DelService,
              DelIngress, DelEntry, DelEntryPut, DelPortGet, DelPortPut, DropDeployment,
              DropServices, DropIngresses
<1>3. QED
  BY <1>1, <1>2 DEF Progress

LEMMA OneMoves ==
    ASSUME Alone, SequentialInv, [Next]_vars
    PROVE  \/ UNCHANGED vars
           \/ \E h \in Handlers : Receive(h) \/ Progress(h) \/ Expire(h)
<1>1. restarts \in 0 .. 0 /\ MaxRestarts = 0
  BY DEF Alone, SequentialInv, IndInv, TypeOK
<1>2. QED
  BY <1>1 DEF Next, Restart

\* A ConfigMap entry is only ever taken from NoKey to a port of an instance and back,
\* as long as requests are served one after the other: an opening writes at a counter
\* above everything in use, and a cleanup only removes.
THEOREM NeverHijacked == ASSUME Alone PROVE Spec => NoHijack
<1> DEFINE Step ==
      \A p \in L4, e \in ExternalPorts :
          configMaps[p][e] # NoKey => configMaps'[p][e] \in {configMaps[p][e], NoKey}
<1>1. ASSUME SequentialInv, [Next]_vars PROVE Step
  <2> SUFFICES ASSUME NEW p \in L4, NEW e \in ExternalPorts, configMaps[p][e] # NoKey,
                      configMaps'[p][e] # configMaps[p][e]
               PROVE  configMaps'[p][e] = NoKey
    OBVIOUS
  <2>1. PICK h \in Handlers : /\ Moves(h, {"putMap", "delEntryPut"})
                              /\ protocol[h] = p /\ external[h] = e
    BY <1>1, MapUpdates DEF SequentialInv
  <2>2. pc[h] # "putMap"
    BY <1>1, <2>1 DEF SequentialInv, RouteOK
  <2>3. PICK g \in Handlers : PutMap(g) \/ DelEntryPut(g)
    <3>1. configMaps' # configMaps /\ ~UNCHANGED vars
      BY DEF vars, clusterVars, cmVars
    <3>2. QED
      BY <1>1, <3>1, OneMoves, MapsStay
  <2>4. g = h /\ DelEntryPut(h)
    BY <2>2, <2>3 DEF Alone, PutMap
  <2>5. CM!Put(h, p, [cmCopy[h] EXCEPT ![e] = NoKey])
    <3>1. CM!Put(h, p, [cmCopy[h] EXCEPT ![e] = NoKey]) \/ CM!Drop(h)
      BY <2>1, <2>4 DEF DelEntryPut
    <3>2. QED
      BY <3>1 DEF CM!Drop
  <2>6. configMaps \in [L4 -> ConfigMap] /\ cmCopy[h] \in ConfigMap
    BY <1>1 DEF SequentialInv, IndInv, TypeOK, CM!TypeOK
  <2>7. QED
    BY <2>5, <2>6 DEF CM!Put, ConfigMap
<1>2. SequentialInv /\ [Next]_vars => [Step]_vars
  BY <1>1
<1>3. QED
  BY <1>2, SequentialInductive, PTL DEF Spec, NoHijack

\* A row appears only when the route it promises is complete, whichever calls failed on
\* the way, as long as requests are served one after the other.
THEOREM NewRowsExposed == ASSUME Alone PROVE Spec => NewRowIsExposed
<1> DEFINE Step == \A b \in bindings' \ bindings : Exposed(b)
<1>1. ASSUME SequentialInv, [Next]_vars PROVE Step
  <2> SUFFICES ASSUME NEW b \in bindings', b \notin bindings PROVE Exposed(b)
    OBVIOUS
  <2>1. PICK h \in Handlers : Commit(h)
    <3>1. ~(bindings' \subseteq bindings) /\ ~UNCHANGED vars
      BY DEF vars
    <3>2. QED
      BY <1>1, <3>1, OneMoves, RowsStay
  <2>2. pc[h] = "commit" /\ RouteOK(h) /\ IndInv
    BY <1>1, <2>1 DEF Commit, SequentialInv
  <2>3. b = [key |-> Key(h), protocol |-> protocol[h], external |-> external[h]]
    BY <2>1 DEF Commit
  <2>4. Key(h) \in services
    BY <2>2 DEF RouteOK, Given
  <2>5. CASE protocol[h] = "HTTP"
    BY <2>2, <2>3, <2>4, <2>5 DEF RouteOK, Exposed
  <2>6. CASE protocol[h] # "HTTP"
    <3>1. OwnsPort(h)
      BY <2>2, <2>6 DEF IndInv, LocalsOK
    <3>2. QED
      BY <2>2, <2>3, <2>4, <2>6, <3>1 DEF RouteOK, Exposed, OwnsPort, OwnExposure
  <2>7. QED
    BY <2>5, <2>6
<1>2. SequentialInv /\ [Next]_vars => [Step]_vars
  BY <1>1
<1>3. QED
  BY <1>2, SequentialInductive, PTL DEF Spec, NewRowIsExposed
-----------------------------------------------------------------------------
(* Replies.                                                                *)

\* The rows of config i of the request, which are as the request asks for.
Row(h, i) == RowsOf(<<req[h].instance, req[h].configs[i].port>>)
Done(h, i) ==
    /\ req[h].op = "open" => Row(h, i) # {}
    /\ req[h].op = "close" => Row(h, i) = {}

HasDelRow(deletions) == \E i \in 1 .. Len(deletions) : deletions[i] = "delRow"

\* Which steps a handler takes for which request: an opening deletes no row, a closing
\* adds none.
TasksOK(h) ==
    /\ pc[h] \in OpenSteps => req[h].op = "open"
    /\ pc[h] = "delRow" \/ HasDelRow(plan[h]) => req[h].op = "close"
    /\ pc[h] \in DeleteSteps => req[h].op = "delete"

\* As many configs have succeeded as were begun, at most; then all of them are done.
TallyOK(h) ==
    /\ TasksOK(h)
    /\ pc[h] = "idle" => success[h] = 0
    /\ pc[h] # "idle" =>
          /\ success[h] < pos[h]
          /\ req[h].op = "delete" => pos[h] = 1
          /\ req[h].op # "delete" => pos[h] \in 1 .. Len(req[h].configs)
          /\ success[h] = pos[h] - 1 => \A i \in 1 .. pos[h] - 1 : Done(h, i)
    /\ pc[h] = "served" /\ answer[h] = "success" /\ req[h].op # "delete" => Done(h, pos[h])

TallyInv == IndInv /\ \A h \in Handlers : TallyOK(h)

LocalShapes ==
    /\ pc \in [Handlers -> Steps] /\ answer \in [Handlers -> Answers]
    /\ plan \in [Handlers -> Plans] /\ req \in [Handlers -> MaybeRequest]
    /\ pos \in [Handlers -> Nat] /\ success \in [Handlers -> Nat]

LEMMA Shaped == ASSUME IndInv PROVE LocalShapes
BY DEF IndInv, TypeOK, LocalShapes

\* A step in the course of one config.
LEMMA WithinConfig ==
    ASSUME TallyInv, NEW h \in Handlers, UNCHANGED <<req, pos, success>>,
           pc[h] # "idle", pc'[h] # "idle", TasksOK(h)',
           req[h].op = "open" => bindings \subseteq bindings',
           req[h].op = "close" => bindings' \subseteq bindings,
           pc'[h] = "served" /\ answer'[h] = "success" /\ req[h].op # "delete" =>
              Done(h, pos[h])'
    PROVE  TallyOK(h)'
<1>1. ASSUME NEW i \in 1 .. pos[h] - 1, Done(h, i) PROVE Done(h, i)'
  BY <1>1 DEF Done, Row, RowsOf
<1>2. /\ success'[h] = success[h] /\ pos'[h] = pos[h] /\ req'[h] = req[h]
  OBVIOUS
<1>3. /\ success'[h] < pos'[h]
      /\ req'[h].op = "delete" => pos'[h] = 1
      /\ req'[h].op # "delete" => pos'[h] \in 1 .. Len(req'[h].configs)
  BY <1>2 DEF TallyInv, TallyOK
<1>4. success'[h] = pos'[h] - 1 => \A i \in 1 .. pos'[h] - 1 : Done(h, i)'
  BY <1>1, <1>2 DEF TallyInv, TallyOK
<1>5. pc'[h] = "served" /\ answer'[h] = "success" /\ req'[h].op # "delete" =>
         Done(h, pos[h])'
  BY <1>2
<1>6. QED
  BY <1>2, <1>3, <1>4, <1>5 DEF TallyOK

LEMMA ServeTally ==
    ASSUME IndInv, NEW h \in Handlers, NEW outcome, Serve(h, outcome)
    PROVE  /\ UNCHANGED <<req, pos, success>>
           /\ pc'[h] = "served" /\ answer'[h] = outcome /\ TasksOK(h)'
<1>1. pc'[h] = "served" /\ answer'[h] = outcome /\ plan'[h] = <<>>
  BY Shaped DEF LocalShapes, Serve
<1>2. QED
  BY <1>1 DEF Serve, jobVars, TasksOK, HasDelRow, OpenSteps, DeleteSteps

LEMMA GoTally ==
    ASSUME TallyInv, NEW h \in Handlers, NEW step, Go(h, step),
           step # "served", step # "delRow",
           step \in OpenSteps => req[h].op = "open",
           step \in DeleteSteps => req[h].op = "delete"
    PROVE  UNCHANGED <<req, pos, success>> /\ pc'[h] = step /\ TasksOK(h)'
<1>1. pc'[h] = step /\ UNCHANGED <<req, pos, success, plan>>
  BY Shaped DEF TallyInv, LocalShapes, Go, jobVars
<1>2. QED
  BY <1>1 DEF TallyInv, TallyOK, TasksOK

LEMMA PerformTally ==
    ASSUME IndInv, NEW h \in Handlers, NEW deletions \in Plans, Perform(h, deletions),
           HasDelRow(deletions) => req[h].op = "close"
    PROVE  /\ UNCHANGED <<req, pos, success>> /\ TasksOK(h)'
           /\ pc'[h] # "idle" /\ (pc'[h] = "served" => answer'[h] = "failure")
<1>1. CASE deletions = <<>>
  BY <1>1, ServeTally DEF Perform
<1>2. CASE deletions # <<>>
  <2>1. /\ pc'[h] = Head(deletions) /\ plan'[h] = Tail(deletions)
        /\ UNCHANGED <<req, pos, success>>
    BY <1>2, Shaped DEF LocalShapes, Perform, jobVars
  <2>2. /\ Head(deletions) = deletions[1] /\ 1 \in 1 .. Len(deletions)
        /\ Head(deletions) \in CleanupSteps
        /\ \A i \in 1 .. Len(Tail(deletions)) :
              Tail(deletions)[i] = deletions[i + 1] /\ i + 1 \in 1 .. Len(deletions)
    BY <1>2 DEF Plans
  <2>3. HasDelRow(Tail(deletions)) \/ Head(deletions) = "delRow" => HasDelRow(deletions)
    BY <2>2 DEF HasDelRow
  <2>4. QED
    BY <2>1, <2>2, <2>3 DEF TasksOK, CleanupSteps, OpenSteps, DeleteSteps
<1>3. QED
  BY <1>1, <1>2

\* The lists of a rollback spare the row.
LEMMA RollbackTally ==
    ASSUME IndInv, NEW h \in Handlers,
           \/ UndoAllocate(h) \/ UndoPatch(h) \/ Perform(h, <<"delService">>)
           \/ \E x \in {"delIngress", "delEntry"} : Perform(h, <<"delService", x>>)
    PROVE  /\ UNCHANGED <<req, pos, success>> /\ TasksOK(h)'
           /\ pc'[h] # "idle" /\ (pc'[h] = "served" => answer'[h] = "failure")
<1>1. /\ ~HasDelRow(<<"delService">>) /\ ~HasDelRow(<<"delEntry", "delService">>)
      /\ \A x \in {"delIngress", "delEntry"} : ~HasDelRow(<<"delService", x>>)
  BY DEF HasDelRow
<1>2. QED
  BY <1>1, PerformTally, Rollbacks DEF UndoAllocate, UndoPatch

LEMMA CleanupTally ==
    ASSUME TallyInv, NEW h \in Handlers, NextCleanup(h)
    PROVE  /\ UNCHANGED <<req, pos, success>> /\ TasksOK(h)'
           /\ pc'[h] # "idle" /\ (pc'[h] = "served" => answer'[h] = "failure")
<1>1. plan[h] \in Plans
  BY Shaped DEF TallyInv, LocalShapes
<1>2. QED
  BY <1>1, PerformTally DEF TallyInv, TallyOK, TasksOK, NextCleanup

\* Between two configs.
LEMMA RequestTally ==
    ASSUME TallyInv, NEW h \in Handlers, Receive(h) \/ Validate(h)
    PROVE  TallyOK(h)'
<1>1. IndInv /\ LocalShapes /\ UNCHANGED <<bindings, plan>> /\ pc[h] \in {"idle", "validate"}
        /\ plan[h] = <<>>
  <2>1. IndInv /\ LocalShapes /\ pc[h] \in {"idle", "validate"}
    BY Shaped DEF TallyInv, Receive, Validate
  <2>2. plan[h] = <<>>
    BY <2>1 DEF IndInv, LocalsOK, KeySteps, OpenSteps, CleanupSteps
  <2>3. plan' = plan \/ plan' = [plan EXCEPT ![h] = <<>>]
    BY DEF Receive, Validate, Serve
  <2>4. plan' = plan
    BY <2>1, <2>2, <2>3 DEF LocalShapes
  <2>5. QED
    BY <2>1, <2>2, <2>4 DEF Receive, Validate
<1>2. CASE Receive(h)
  <2>1. PICK r \in Requests :
           /\ r.instance # 0
           /\ r.op # "delete" => r.configs # <<>>
           /\ req' = [req EXCEPT ![h] = r]
           /\ pos' = [pos EXCEPT ![h] = 1]
           /\ pc' = [pc EXCEPT ![h] = IF r.op = "delete" THEN "lookup" ELSE "validate"]
    BY <1>2 DEF Receive
  <2>2. /\ req'[h] = r /\ pos'[h] = 1 /\ pc'[h] \in {"lookup", "validate"}
        /\ success'[h] = 0
    BY <1>1, <1>2, <2>1 DEF LocalShapes, Receive, TallyInv, TallyOK
  <2>3. r.op # "delete" => 1 \in 1 .. Len(r.configs)
    BY <2>1, RequestsTyped
  <2>4. TasksOK(h)'
    BY <1>1, <2>2 DEF TasksOK, HasDelRow, OpenSteps, DeleteSteps
  <2>5. QED
    BY <2>2, <2>3, <2>4 DEF TallyOK
<1>3. CASE Validate(h)
  <2>1. CASE Valid(Config(h))
    <3>1. pc'[h] = "lookup" /\ UNCHANGED <<req, pos, success>>
      BY <1>1, <1>3, <2>1 DEF LocalShapes, Validate
    <3>2. TasksOK(h)'
      BY <1>1, <3>1 DEF TasksOK, HasDelRow, OpenSteps, DeleteSteps
    <3>3. QED
      BY <1>1, <1>3, <3>1, <3>2, WithinConfig DEF Validate
  <2>2. CASE ~Valid(Config(h))
    BY <1>1, <1>3, <2>2, ServeTally, WithinConfig DEF Validate
  <2>3. QED
    BY <2>1, <2>2
<1>4. QED
  BY <1>2, <1>3

LEMMA AdvanceTally ==
    ASSUME TallyInv, NEW h \in Handlers, Advance(h)
    PROVE  TallyOK(h)'
<1> DEFINE more == pos[h] < Len(req[h].configs)
<1>1. IndInv /\ LocalShapes /\ pc[h] = "served" /\ UNCHANGED <<bindings, plan>>
  BY Shaped DEF TallyInv, Advance
<1>2. plan[h] = <<>> /\ req[h] \in Requests
  BY <1>1 DEF IndInv, LocalsOK, KeySteps, OpenSteps, CleanupSteps
<1>3. /\ pc'[h] = IF more THEN "validate" ELSE "idle"
      /\ req'[h] = IF more THEN req[h] ELSE NoRequest
      /\ pos'[h] = IF more THEN pos[h] + 1 ELSE 0
      /\ success'[h] = IF more THEN Successes(h) ELSE 0
  BY <1>1 DEF LocalShapes, Advance
<1>4. TasksOK(h)'
  BY <1>1, <1>2, <1>3 DEF TasksOK, HasDelRow, OpenSteps, DeleteSteps
<1>5. CASE ~more
  BY <1>3, <1>4, <1>5 DEF TallyOK
<1>6. CASE more
  <2>1. /\ success[h] \in Nat /\ pos[h] \in Nat /\ Len(req[h].configs) \in Nat
        /\ success[h] < pos[h]
    BY <1>1, <1>2, RequestsTyped DEF LocalShapes, TallyInv, TallyOK
  <2>2. req[h].op # "delete"
    <3>1. req[h].op = "delete" => Len(req[h].configs) = 0
      BY <1>2, DeletionsAssumption
    <3>2. QED
      BY <1>6, <2>1, <3>1
  <2>3. success'[h] = success[h] + (IF answer[h] = "success" THEN 1 ELSE 0)
    BY <1>3, <1>6 DEF Successes
  <2>4. ASSUME success'[h] = pos'[h] - 1, NEW i \in 1 .. pos[h] PROVE Done(h, i)
    <3>1. success[h] = pos[h] - 1 /\ answer[h] = "success"
      BY <1>3, <1>6, <2>1, <2>3, <2>4
    <3>2. CASE i = pos[h]
      BY <1>1, <2>2, <3>1, <3>2 DEF TallyInv, TallyOK
    <3>3. CASE i # pos[h]
      <4>1. i \in 1 .. pos[h] - 1
        BY <2>1, <3>3
      <4>2. QED
        BY <1>1, <3>1, <4>1 DEF TallyInv, TallyOK
    <3>4. QED
      BY <3>2, <3>3
  <2>5. success'[h] < pos'[h] /\ pos'[h] \in 1 .. Len(req'[h].configs)
    BY <1>3, <1>6, <2>1, <2>3
  <2>6. \A i : Done(h, i)' <=> Done(h, i)
    BY <1>1, <1>3, <1>6 DEF Done, Row, RowsOf
  <2>7. success'[h] = pos'[h] - 1 => \A i \in 1 .. pos'[h] - 1 : Done(h, i)'
    <3>1. pos'[h] - 1 = pos[h]
      BY <1>3, <1>6, <2>1
    <3>2. QED
      BY <2>4, <2>6, <3>1
  <2>8. pc'[h] = "validate" /\ req'[h].op # "delete"
    BY <1>3, <1>6, <2>2
  <2>9. QED
    BY <1>4, <2>5, <2>7, <2>8 DEF TallyOK
<1>7. QED
  BY <1>5, <1>6

LEMMA LookupTally ==
    ASSUME TallyInv, NEW h \in Handlers, Lookup(h)
    PROVE  TallyOK(h)'
<1>1. IndInv /\ LocalShapes /\ pc[h] = "lookup" /\ UNCHANGED bindings
  BY Shaped DEF TallyInv, Lookup
<1>2. req[h].op \in {"open", "close", "delete"} /\ plan[h] = <<>>
  BY <1>1, RequestsAssumption DEF IndInv, LocalsOK, Request, KeySteps, OpenSteps, CleanupSteps
<1>3. Row(h, pos[h]) = RowsOf(Key(h))
  BY DEF Row, Key, Config
<1>4. \/ Serve(h, "failure")
      \/ req[h].op = "delete" /\ Go(h, "dropRows")
      \/ req[h].op = "open" /\ RowsOf(Key(h)) # {} /\ Serve(h, "success")
      \/ req[h].op = "open" /\ Go(h, "createService")
      \/ req[h].op = "close" /\ RowsOf(Key(h)) = {} /\ Serve(h, "success")
      \/ req[h].op = "close" /\ \E b \in RowsOf(Key(h)) : StartClosing(h, b)
  <2>1. PICK o \in Outcomes :
         IF o # "ok" \/ req[h].instance \notin Instances THEN Serve(h, "failure")
         ELSE CASE req[h].op = "delete" -> Go(h, "dropRows")
                [] req[h].op = "open" -> IF RowsOf(Key(h)) # {} THEN Serve(h, "success")
                                         ELSE Go(h, "createService")
                [] req[h].op = "close" -> IF RowsOf(Key(h)) = {} THEN Serve(h, "success")
                                          ELSE \E b \in RowsOf(Key(h)) : StartClosing(h, b)
    BY DEF Lookup
  <2>2. QED
    BY <1>2, <2>1
<1>5. CASE Serve(h, "failure")
  BY <1>1, <1>5, ServeTally, WithinConfig
<1>6. CASE Serve(h, "success") /\ (req[h].op = "open" => RowsOf(Key(h)) # {})
                               /\ (req[h].op = "close" => RowsOf(Key(h)) = {})
  <2>1. pc'[h] = "served" /\ UNCHANGED <<req, pos, success>> /\ TasksOK(h)'
    BY <1>1, <1>6, ServeTally
  <2>2. Done(h, pos[h])'
    BY <1>1, <1>3, <1>6, <2>1 DEF Done, Row, RowsOf
  <2>3. QED
    BY <1>1, <2>1, <2>2, WithinConfig
<1>7. CASE req[h].op = "delete" /\ Go(h, "dropRows")
  BY <1>1, <1>7, GoTally, WithinConfig DEF OpenSteps, DeleteSteps
<1>8. CASE req[h].op = "open" /\ Go(h, "createService")
  BY <1>1, <1>8, GoTally, WithinConfig DEF OpenSteps, DeleteSteps
<1>9. ASSUME NEW b, StartClosing(h, b), req[h].op = "close" PROVE TallyOK(h)'
  <2>1. pc'[h] = "delService" /\ UNCHANGED <<req, pos, success>>
    BY <1>1, <1>9 DEF LocalShapes, StartClosing
  <2>2. TasksOK(h)'
    BY <1>9, <2>1 DEF TasksOK, OpenSteps, DeleteSteps
  <2>3. QED
    BY <1>1, <2>1, <2>2, WithinConfig
<1>10. QED
  BY <1>4, <1>5, <1>6, <1>7, <1>8, <1>9

\* The steps of an opening but the last.
LEMMA OpeningTally ==
    ASSUME TallyInv, NEW h \in Handlers,
           \/ CreateService(h) \/ LoadCounter(h) \/ StoreCounter(h) \/ GetMap(h)
           \/ PutMap(h) \/ GetPorts(h) \/ PutPorts(h) \/ CreateIngress(h)
    PROVE  TallyOK(h)'
<1>1. /\ IndInv /\ LocalShapes /\ UNCHANGED bindings /\ pc[h] \in OpenSteps
  BY Shaped DEF TallyInv, OpenSteps, CreateService, LoadCounter, StoreCounter, GetMap,
     PutMap, GetPorts, PutPorts, CreateIngress
<1>2. req[h].op = "open" /\ pc[h] # "idle" /\ pc[h] # "served" /\ pc[h] # "delRow"
  BY <1>1 DEF TallyInv, TallyOK, TasksOK, OpenSteps
<1>3. \/ Serve(h, "failure")
      \/ UndoAllocate(h) \/ UndoPatch(h) \/ Perform(h, <<"delService">>)
      \/ \E step \in OpenSteps : Go(h, step)
      \/ pc' = [pc EXCEPT ![h] = "storeCounter"] /\ UNCHANGED <<req, pos, success, plan>>
  <2>1. CASE CreateService(h)
    BY <2>1 DEF CreateService, OpenSteps
  <2>2. CASE LoadCounter(h) \/ StoreCounter(h)
    BY <2>2 DEF LoadCounter, StoreCounter, OpenSteps
  <2>3. CASE GetMap(h) \/ PutMap(h)
    BY <2>3 DEF GetMap, PutMap, OpenSteps
  <2>4. CASE GetPorts(h)
    BY <2>4 DEF GetPorts, OpenSteps
  <2>5. CASE PutPorts(h) \/ CreateIngress(h)
    BY <2>5 DEF PutPorts, CreateIngress, OpenSteps
  <2>6. QED
    BY <2>1, <2>2, <2>3, <2>4, <2>5
<1>4. CASE Serve(h, "failure")
  BY <1>1, <1>2, <1>4, ServeTally, WithinConfig
<1>5. CASE UndoAllocate(h) \/ UndoPatch(h) \/ Perform(h, <<"delService">>)
  BY <1>1, <1>2, <1>5, RollbackTally, WithinConfig
<1>6. ASSUME NEW step \in OpenSteps, Go(h, step) PROVE TallyOK(h)'
  <2>1. step \notin {"served", "delRow", "idle"} /\ step \notin DeleteSteps
    BY DEF OpenSteps, DeleteSteps
  <2>2. QED
    BY <1>1, <1>2, <1>6, <2>1, GoTally, WithinConfig
<1>7. CASE pc' = [pc EXCEPT ![h] = "storeCounter"] /\ UNCHANGED <<req, pos, success, plan>>
  <2>1. pc'[h] = "storeCounter"
    BY <1>1, <1>7 DEF LocalShapes
  <2>2. TasksOK(h)'
    BY <1>2, <1>7, <2>1 DEF TallyInv, TallyOK, TasksOK, DeleteSteps
  <2>3. QED
    BY <1>1, <1>2, <1>7, <2>1, <2>2, WithinConfig
<1>8. QED
  BY <1>3, <1>4, <1>5, <1>6, <1>7

\* An opening succeeds with its row.
LEMMA CommitTally ==
    ASSUME TallyInv, NEW h \in Handlers, Commit(h)
    PROVE  TallyOK(h)'
<1>1. IndInv /\ LocalShapes /\ pc[h] = "commit" /\ bindings \subseteq bindings'
  BY Shaped DEF TallyInv, Commit
<1>2. req[h].op = "open"
  BY <1>1 DEF TallyInv, TallyOK, TasksOK, OpenSteps
<1>3. \/ /\ Serve(h, "success")
         /\ bindings' = bindings \cup {[key |-> Key(h), protocol |-> protocol[h],
                                        external |-> external[h]]}
      \/ \E x \in {"delIngress", "delEntry"} : Perform(h, <<"delService", x>>)
  BY DEF Commit
<1>4. CASE Serve(h, "success")
           /\ bindings' = bindings \cup {[key |-> Key(h), protocol |-> protocol[h],
                                          external |-> external[h]]}
  <2>1. pc'[h] = "served" /\ UNCHANGED <<req, pos, success>> /\ TasksOK(h)'
    BY <1>1, <1>4, ServeTally
  <2>2. Row(h, pos[h])' # {}
    <3> DEFINE row == [key |-> Key(h), protocol |-> protocol[h], external |-> external[h]]
    <3>0. row \in bindings' /\ row.key = Key(h)
      BY <1>4
    <3> HIDE DEF row
    <3>1. PICK b \in bindings' : b.key = Key(h)
      BY <3>0
    <3>2. b.key = <<req[h].instance, req[h].configs[pos[h]].port>>'
      BY <2>1, <3>1 DEF Key, Config
    <3>3. QED
      BY <3>2 DEF Row, RowsOf
  <2>3. Done(h, pos[h])'
    BY <1>2, <2>1, <2>2 DEF Done
  <2>4. QED
    BY <1>1, <1>2, <2>1, <2>3, WithinConfig
<1>5. CASE \E x \in {"delIngress", "delEntry"} : Perform(h, <<"delService", x>>)
  BY <1>1, <1>2, <1>5, RollbackTally, WithinConfig
<1>6. QED
  BY <1>3, <1>4, <1>5

\* Cleanups: only the row of a closing is deleted, and by the last of them.
LEMMA CleaningTally ==
    ASSUME TallyInv, NEW h \in Handlers,
           \/ DelService(h) \/ DelIngress(h) \/ DelEntry(h) \/ DelEntryPut(h)
           \/ DelPortGet(h) \/ DelPortPut(h)
    PROVE  TallyOK(h)'
<1>1. /\ IndInv /\ UNCHANGED bindings
      /\ pc[h] \in CleanupSteps \cup {"delEntryPut", "delPortGet", "delPortPut"}
  BY DEF TallyInv, IndInv, CleanupSteps, DelService, DelIngress, DelEntry, DelEntryPut,
         DelPortGet, DelPortPut
<1>2. pc[h] # "idle"
  BY <1>1 DEF CleanupSteps
<1>3. \/ NextCleanup(h)
      \/ \E step \in {"delEntryPut", "delPortGet", "delPortPut"} : Go(h, step)
  <2>1. CASE DelService(h) \/ DelIngress(h) \/ DelPortPut(h)
    BY <2>1 DEF DelService, DelIngress, DelPortPut
  <2>2. CASE DelEntry(h)
    BY <2>2 DEF DelEntry
  <2>3. CASE DelEntryPut(h) \/ DelPortGet(h)
    BY <2>3 DEF DelEntryPut, DelPortGet
  <2>4. QED
    BY <2>1, <2>2, <2>3
<1>4. CASE NextCleanup(h)
  BY <1>1, <1>2, <1>4, CleanupTally, WithinConfig
<1>5. ASSUME NEW step \in {"delEntryPut", "delPortGet", "delPortPut"}, Go(h, step)
      PROVE  TallyOK(h)'
  <2>1. step \notin {"served", "delRow", "idle"} \cup OpenSteps \cup DeleteSteps
    BY DEF OpenSteps, DeleteSteps
  <2>2. QED
    BY <1>1, <1>2, <1>5, <2>1, GoTally, WithinConfig
<1>6. QED
  BY <1>3, <1>4, <1>5

\* A closing succeeds when its row is gone.
LEMMA DelRowTally ==
    ASSUME TallyInv, NEW h \in Handlers, DelRow(h)
    PROVE  TallyOK(h)'
<1>1. IndInv /\ pc[h] = "delRow" /\ bindings' \subseteq bindings
  BY DEF TallyInv, DelRow
<1>2. req[h].op = "close"
  BY <1>1 DEF TallyInv, TallyOK, TasksOK
<1>3. PICK o \in Outcomes :
         /\ bindings' = IF o = "refused" THEN bindings ELSE bindings \ RowsOf(Key(h))
         /\ Serve(h, RowDeleted(h, o))
  BY DEF DelRow
<1>4. /\ UNCHANGED <<req, pos, success>> /\ TasksOK(h)'
      /\ pc'[h] = "served" /\ answer'[h] = RowDeleted(h, o)
  BY <1>1, <1>3, ServeTally
<1>5. answer'[h] = "success" => Done(h, pos[h])'
  <2>1. answer'[h] = "success" => o = "ok"
    BY <1>4 DEF RowDeleted
  <2>2. answer'[h] = "success" => Row(h, pos[h])' = {}
    BY <1>3, <1>4, <2>1 DEF Row, RowsOf, Key, Config
  <2>3. QED
    BY <1>2, <1>4, <2>2 DEF Done
<1>6. QED
  BY <1>1, <1>2, <1>4, <1>5, WithinConfig

\* A deletion has no configs.
LEMMA DeletionTally ==
    ASSUME TallyInv, NEW h \in Handlers,
           DropRows(h) \/ DropDeployment(h) \/ ListServices(h) \/ DropServices(h)
             \/ DropIngresses(h)
    PROVE  TallyOK(h)'
<1>1. /\ IndInv /\ LocalShapes /\ pc[h] \in DeleteSteps
      /\ pc[h] # "dropRows" => UNCHANGED bindings
  BY Shaped DEF TallyInv, DeleteSteps, DropRows, DropDeployment, ListServices,
     DropServices, DropIngresses
<1>2. req[h].op = "delete" /\ pc[h] # "idle"
  BY <1>1 DEF TallyInv, TallyOK, TasksOK, DeleteSteps
<1>3. \/ \E outcome \in {"success", "failure"} : Serve(h, outcome)
      \/ Go(h, "dropDeployment") \/ Go(h, "listServices")
      \/ /\ pc'[h] \in {"dropServices", "dropIngresses"}
         /\ UNCHANGED <<req, pos, success, plan>>
  <2>1. CASE DropRows(h) \/ DropDeployment(h) \/ DropIngresses(h)
    BY <2>1 DEF DropRows, DropDeployment, DropIngresses
  <2>2. CASE ListServices(h) \/ DropServices(h)
    BY <1>1, <2>2 DEF LocalShapes, ListServices, DropServices
  <2>3. QED
    BY <2>1, <2>2
<1>4. ASSUME NEW outcome, Serve(h, outcome) PROVE TallyOK(h)'
  BY <1>2, <1>4, ServeTally, WithinConfig DEF TallyInv
<1>5. ASSUME NEW step \in {"dropDeployment", "listServices"}, Go(h, step)
      PROVE  TallyOK(h)'
  <2>1. step \notin {"served", "delRow", "idle"} \cup OpenSteps
    BY DEF OpenSteps
  <2>2. QED
    BY <1>2, <1>5, <2>1, GoTally, WithinConfig
<1>6. CASE /\ pc'[h] \in {"dropServices", "dropIngresses"}
           /\ UNCHANGED <<req, pos, success, plan>>
  <2>1. TasksOK(h)'
    BY <1>2, <1>6 DEF TallyInv, TallyOK, TasksOK, OpenSteps
  <2>2. QED
    BY <1>2, <1>6, <2>1, WithinConfig
<1>7. QED
  BY <1>3, <1>4, <1>5, <1>6

LEMMA IdleTally ==
    ASSUME TallyInv, NEW h \in Handlers, Expire(h) \/ UNCHANGED vars
    PROVE  TallyOK(h)'
<1>1. UNCHANGED <<pc, req, pos, success, answer, plan, bindings>>
  BY DEF Expire, vars, handlerVars, jobVars
<1>2. QED
  BY <1>1 DEF TallyInv, TallyOK, TasksOK, Done, Row, RowsOf

LEMMA TallyStep ==
    ASSUME Alone, TallyInv, [Next]_vars
    PROVE  TallyInv'
<1>1. IndInv'
  BY NextInv DEF TallyInv
<1>2. ~Restart
  <2>1. restarts \in 0 .. 0 /\ MaxRestarts = 0
    BY DEF Alone, TallyInv, IndInv, TypeOK
  <2>2. QED
    BY <2>1 DEF Restart
<1>3. ASSUME NEW h \in Handlers PROVE TallyOK(h)'
  <2>1. Receive(h) \/ Progress(h) \/ Expire(h) \/ UNCHANGED vars
    BY <1>2 DEF Alone, Next
  <2>2. CASE Receive(h) \/ Expire(h) \/ UNCHANGED vars
    BY <2>2, RequestTally, IdleTally
  <2>3. CASE Progress(h)
    BY <2>3, RequestTally, AdvanceTally, LookupTally, OpeningTally, CommitTally,
       CleaningTally, DelRowTally, DeletionTally DEF Progress
  <2>4. QED
    BY <2>1, <2>2, <2>3
<1>4. QED
  BY <1>1, <1>3 DEF TallyInv

LEMMA TallyInit == ASSUME Init PROVE TallyInv
BY InitInv DEF Init, TallyInv, TallyOK, TasksOK, HasDelRow, OpenSteps, DeleteSteps

\* A reply with Success = true is true of every config of the request, as long as
\* requests are served one after the other: what an earlier config has opened or closed
\* is not undone by the failure of a later one.
THEOREM RepliesTrue == ASSUME Alone PROVE Spec => []TruthfulReply
<1>1. TallyInv => TruthfulReply
  <2> SUFFICES ASSUME TallyInv, NEW h \in Handlers, pc[h] = "served",
                      Successes(h) = Len(req[h].configs),
                      NEW i \in 1 .. Len(req[h].configs)
               PROVE  Done(h, i)
    BY DEF TruthfulReply, Done, Row
  <2>1. req[h] \in Requests /\ success[h] \in Nat /\ pos[h] \in Nat
    BY Shaped DEF TallyInv, LocalShapes, IndInv, LocalsOK
  <2>2. req[h].op # "delete"
    BY <2>1, DeletionsAssumption
  <2>3. Len(req[h].configs) \in Nat
    BY <2>1, RequestsTyped
  <2>4. success[h] < pos[h] /\ pos[h] \in 1 .. Len(req[h].configs)
    BY <2>2 DEF TallyInv, TallyOK
  <2>5. /\ answer[h] = "success" /\ success[h] = pos[h] - 1
        /\ pos[h] = Len(req[h].configs)
    BY <2>1, <2>3, <2>4 DEF Successes
  <2>6. CASE i = pos[h]
    BY <2>2, <2>5, <2>6 DEF TallyInv, TallyOK
  <2>7. CASE i # pos[h]
    <3>1. i \in 1 .. pos[h] - 1
      BY <2>1, <2>5, <2>7
    <3>2. QED
      BY <2>5, <3>1 DEF TallyInv, TallyOK
  <2>8. QED
    BY <2>6, <2>7
<1>2. QED
  BY <1>1, TallyInit, TallyStep, PTL DEF Spec
=============================================================================
