------------------------- MODULE PortExposureProofs -------------------------
(***************************************************************************)
(* Proofs about PortExposure, for any number of handlers, instances, ports *)
(* and faults.                                                             *)
(***************************************************************************)
EXTENDS PortExposure, TLAPS

\* The types of the handlers' locals.
LocalTypes ==
    /\ pc \in [Handlers -> Steps]
    /\ req \in [Handlers -> MaybeRequest]
    /\ pos \in [Handlers -> Nat]
    /\ success \in [Handlers -> Nat]
    /\ answer \in [Handlers -> Answers]
    /\ expired \subseteq Handlers
    /\ protocol \in [Handlers -> Protocols]
    /\ external \in [Handlers -> MaybePort]
    /\ plan \in [Handlers -> Plans]
    /\ victims \in [Handlers -> SUBSET Keys]

HandlersOK == LocalTypes /\ \A h \in Handlers : LocalsOK(h)
-----------------------------------------------------------------------------
\* Requests have a list of port configs.
LEMMA RequestsTyped ==
    \A r \in Requests : r.configs \in Seq(PortConfig) /\ r.instance \in Nat
BY RequestsAssumption DEF Request

\* What a handler's invariant says depends on its own locals only.
LEMMA Untouched ==
    ASSUME NEW g \in Handlers, LocalsOK(g),
           pc'[g] = pc[g], req'[g] = req[g], pos'[g] = pos[g],
           protocol'[g] = protocol[g], external'[g] = external[g], plan'[g] = plan[g]
    PROVE  LocalsOK(g)'
BY DEF LocalsOK, OwnsPort, Key, Config

\* Ending a config keeps the locals well formed.
LEMMA ServeOK ==
    ASSUME HandlersOK, NEW h \in Handlers, NEW outcome \in Answers,
           pc[h] # "idle", Serve(h, outcome)
    PROVE  HandlersOK'
<1>1. LocalTypes'
  <2>1. "served" \in Steps /\ <<>> \in Plans
    BY DEF Steps, Plans
  <2>2. QED
    BY <2>1 DEF HandlersOK, LocalTypes, Serve, jobVars
<1>2. ASSUME NEW g \in Handlers PROVE LocalsOK(g)'
  <2>1. CASE g # h
    BY <2>1, Untouched DEF HandlersOK, LocalTypes, Serve, jobVars
  <2>2. CASE g = h
    <3>1. pc'[h] = "served" /\ plan'[h] = <<>> /\ req'[h] = req[h]
      BY DEF HandlersOK, LocalTypes, Serve, jobVars
    <3>2. req[h] \in Requests
      BY DEF HandlersOK, LocalsOK
    <3>3. QED
      BY <2>2, <3>1, <3>2 DEF LocalsOK, KeySteps, OpenSteps, CleanupSteps, PoolSteps
  <2>3. QED
    BY <2>1, <2>2
<1>3. QED
  BY <1>1, <1>2 DEF HandlersOK

\* Going to a step whose demands are met keeps the locals well formed.
LEMMA GoOK ==
    ASSUME HandlersOK, NEW h \in Handlers, NEW step \in Steps,
           pc[h] # "idle", plan[h] # <<>> => step \in KeySteps,
           step \notin {"validate", "lookup"},
           step \in KeySteps => Key(h) \in Keys,
           step = "loadCounter" => protocol[h] \in L4,
           step = "createIngress" => protocol[h] = "HTTP",
           step \in PoolSteps => OwnsPort(h),
           step = "commit" => protocol[h] = "HTTP" \/ OwnsPort(h),
           Go(h, step)
    PROVE  HandlersOK'
<1>1. LocalTypes'
  BY DEF HandlersOK, LocalTypes, Go, jobVars
<1>2. ASSUME NEW g \in Handlers PROVE LocalsOK(g)'
  <2>1. CASE g # h
    BY <2>1, Untouched DEF HandlersOK, LocalTypes, Go, jobVars
  <2>2. CASE g = h
    <3>1. /\ pc'[h] = step /\ plan'[h] = plan[h] /\ req'[h] = req[h] /\ pos'[h] = pos[h]
          /\ protocol'[h] = protocol[h] /\ external'[h] = external[h]
      BY DEF HandlersOK, LocalTypes, Go, jobVars
    <3>2. LocalsOK(h)
      BY DEF HandlersOK
    <3>3. Key(h)' = Key(h) /\ (OwnsPort(h)' <=> OwnsPort(h))
      BY <3>1 DEF Key, Config, OwnsPort
    <3>4. LocalsOK(h)'
      BY <3>1, <3>2, <3>3 DEF LocalsOK
    <3>5. QED
      BY <2>2, <3>4
  <2>3. QED
    BY <2>1, <2>2
<1>3. QED
  BY <1>1, <1>2 DEF HandlersOK

\* Starting a list of deletions on a well-formed key keeps the locals well formed.
LEMMA PerformOK ==
    ASSUME HandlersOK, NEW h \in Handlers, NEW deletions \in Plans, pc[h] \in KeySteps,
           \A i \in 1 .. Len(deletions) : deletions[i] = "delEntry" => OwnsPort(h),
           Perform(h, deletions)
    PROVE  HandlersOK'
<1>1. CASE deletions = <<>>
  BY <1>1, ServeOK DEF Perform, Answers, KeySteps, OpenSteps, CleanupSteps
<1>2. CASE deletions # <<>>
  <2>1. /\ Head(deletions) \in CleanupSteps /\ Head(deletions) = deletions[1]
        /\ 1 \in 1 .. Len(deletions)
        /\ Tail(deletions) \in Plans
        /\ \A i \in 1 .. Len(Tail(deletions)) :
              Tail(deletions)[i] = deletions[i + 1] /\ i + 1 \in 1 .. Len(deletions)
    BY <1>2 DEF Plans
  <2>2. /\ pc' = [pc EXCEPT ![h] = Head(deletions)]
        /\ plan' = [plan EXCEPT ![h] = Tail(deletions)]
        /\ UNCHANGED <<answer, jobVars>>
    BY <1>2 DEF Perform
  <2>3. LocalTypes'
    <3>1. Head(deletions) \in Steps
      BY <2>1 DEF Steps
    <3>2. QED
      BY <2>1, <2>2, <3>1 DEF HandlersOK, LocalTypes, jobVars
  <2>4. ASSUME NEW g \in Handlers PROVE LocalsOK(g)'
    <3>1. CASE g # h
      BY <2>2, <3>1, Untouched DEF HandlersOK, LocalTypes, jobVars
    <3>2. CASE g = h
      <4>1. /\ pc'[h] = Head(deletions) /\ plan'[h] = Tail(deletions)
            /\ req'[h] = req[h] /\ pos'[h] = pos[h]
            /\ protocol'[h] = protocol[h] /\ external'[h] = external[h]
        BY <2>2 DEF HandlersOK, LocalTypes, jobVars
      <4>2. LocalsOK(h)
        BY DEF HandlersOK
      <4>3. Key(h)' = Key(h) /\ (OwnsPort(h)' <=> OwnsPort(h))
        BY <4>1 DEF Key, Config, OwnsPort
      <4>4. Key(h) \in Keys /\ req[h] \in Requests
        BY <4>2 DEF LocalsOK, KeySteps, OpenSteps, CleanupSteps
      <4>5. pc'[h] = "delEntry" => OwnsPort(h)
        BY <2>1, <4>1
      <4>6. \A i \in 1 .. Len(plan'[h]) : plan'[h][i] = "delEntry" => OwnsPort(h)
        BY <2>1, <4>1
      <4>7. pc'[h] \in CleanupSteps
        BY <2>1, <4>1
      <4>8. LocalsOK(h)'
        BY <4>1, <4>3, <4>4, <4>5, <4>6, <4>7
        DEF LocalsOK, KeySteps, CleanupSteps, PoolSteps
      <4>9. QED
        BY <3>2, <4>8
    <3>3. QED
      BY <3>1, <3>2
  <2>5. QED
    BY <2>3, <2>4 DEF HandlersOK
<1>3. QED
  BY <1>1, <1>2

\* Going on with the deletions still planned keeps the locals well formed.
LEMMA NextCleanupOK ==
    ASSUME HandlersOK, NEW h \in Handlers, pc[h] \in KeySteps, NextCleanup(h)
    PROVE  HandlersOK'
<1>1. plan[h] \in Plans
  BY DEF HandlersOK, LocalTypes
<1>2. \A i \in 1 .. Len(plan[h]) : plan[h][i] = "delEntry" => OwnsPort(h)
  BY DEF HandlersOK, LocalsOK
<1>3. QED
  BY <1>1, <1>2, PerformOK DEF NextCleanup
-----------------------------------------------------------------------------
\* The types of everything but the locals.
CounterTypes ==
    /\ nextPort \in ExternalPorts \cup {RangeStart, RangeEnd + 1}
    /\ faults \in 0 .. MaxFaults
    /\ restarts \in 0 .. MaxRestarts
TableTypes == bindings \subseteq Binding /\ RowsOK
ClusterTypes ==
    /\ deployments \subseteq Instances
    /\ services \subseteq Keys
    /\ ingresses \subseteq Keys
    /\ CM!TypeOK(ConfigMap)
    /\ LB!TypeOK(SUBSET Exposure)

\* The inductive invariant, in the parts the actions are proved to keep.
LEMMA IndInvParts ==
    IndInv <=> HandlersOK /\ CounterTypes /\ TableTypes /\ ClusterTypes
BY DEF IndInv, TypeOK, HandlersOK, LocalTypes, CounterTypes, TableTypes, ClusterTypes

\* The same for the next state.
LEMMA IndInvPartsPrimed ==
    IndInv' <=> HandlersOK' /\ CounterTypes' /\ TableTypes' /\ ClusterTypes'
BY DEF IndInv, TypeOK, HandlersOK, LocalTypes, CounterTypes, TableTypes, ClusterTypes

\* Counting a fault keeps within the bound.
LEMMA CallTyped ==
    ASSUME CounterTypes, NEW h \in Handlers, NEW o, Call(h, o)
    PROVE  faults' \in 0 .. MaxFaults
BY BoundsAssumption DEF CounterTypes, Call

\* A step that leaves the cluster alone keeps its types.
LEMMA SameCluster ==
    ASSUME ClusterTypes, UNCHANGED clusterVars
    PROVE  ClusterTypes'
BY DEF ClusterTypes, clusterVars, cmVars, lbVars, CM!TypeOK, LB!TypeOK

\* A step that leaves the table alone keeps its types.
LEMMA SameTable ==
    ASSUME TableTypes, UNCHANGED bindings
    PROVE  TableTypes'
BY DEF TableTypes, RowsOK

\* A step that leaves the locals alone keeps them well formed.
LEMMA SameHandlers ==
    ASSUME HandlersOK, UNCHANGED handlerVars
    PROVE  HandlersOK'
<1>1. LocalTypes'
  BY DEF HandlersOK, LocalTypes, handlerVars, jobVars
<1>2. \A g \in Handlers : LocalsOK(g)'
  BY Untouched DEF HandlersOK, handlerVars, jobVars
<1>3. QED
  BY <1>1, <1>2 DEF HandlersOK
-----------------------------------------------------------------------------
(* The ConfigMaps and the ingress-nginx Service.                           *)

\* An access to a ConfigMap that writes a ConfigMap keeps it one.
LEMMA MapAccess ==
    ASSUME CM!TypeOK(ConfigMap), NEW h \in Handlers, NEW p \in L4, NEW v \in ConfigMap,
           CM!Get(h, p) \/ CM!Put(h, p, v) \/ CM!Drop(h) \/ CM!DropAll \/ UNCHANGED cmVars
    PROVE  CM!TypeOK(ConfigMap)'
<1>1. EmptyMap \in ConfigMap
  BY DEF EmptyMap, ConfigMap
<1>2. CASE UNCHANGED cmVars
  BY <1>2 DEF cmVars, CM!TypeOK
<1>3. QED
  BY <1>1, <1>2, CM!AccessTyped

\* The same for the ports of the ingress-nginx Service.
LEMMA PortsAccess ==
    ASSUME LB!TypeOK(SUBSET Exposure), NEW h \in Handlers, NEW v \in SUBSET Exposure,
           LB!Get(h, "service") \/ LB!Put(h, "service", v) \/ LB!Drop(h) \/ LB!DropAll
              \/ UNCHANGED lbVars
    PROVE  LB!TypeOK(SUBSET Exposure)'
<1>1. {} \in SUBSET Exposure /\ "service" \in {"service"}
  OBVIOUS
<1>2. CASE UNCHANGED lbVars
  BY <1>2 DEF lbVars, LB!TypeOK
<1>3. QED
  BY <1>1, <1>2, LB!AccessTyped
-----------------------------------------------------------------------------
(* One lemma per action.                                                   *)

\* Taking a request up: the first config is in range, a deletion has none.
LEMMA ReceiveInv ==
    ASSUME HandlersOK, CounterTypes, TableTypes, ClusterTypes,
           NEW h \in Handlers, Receive(h)
    PROVE  HandlersOK' /\ CounterTypes' /\ TableTypes' /\ ClusterTypes'
<1>1. PICK r \in Requests :
         /\ r.op # "delete" => r.configs # <<>>
         /\ req' = [req EXCEPT ![h] = r]
         /\ pos' = [pos EXCEPT ![h] = 1]
         /\ pc' = [pc EXCEPT ![h] = IF r.op = "delete" THEN "lookup" ELSE "validate"]
  BY DEF Receive
<1>2. /\ pc[h] = "idle"
      /\ UNCHANGED <<success, answer, expired, protocol, external, plan, victims>>
      /\ UNCHANGED <<nextPort, bindings, clusterVars, faults, restarts>>
  BY DEF Receive
<1>3. r.configs \in Seq(PortConfig)
  BY <1>1, RequestsTyped
<1>4. r.op # "delete" => 1 \in 1 .. Len(r.configs)
  BY <1>1, <1>3
<1>5. LocalTypes'
  BY <1>1, <1>2 DEF HandlersOK, LocalTypes, Steps, MaybeRequest
<1>6. ASSUME NEW g \in Handlers PROVE LocalsOK(g)'
  <2>1. CASE g # h
    BY <1>1, <1>2, <2>1, Untouched DEF HandlersOK, LocalTypes
  <2>2. CASE g = h
    <3>1. /\ pc'[h] = IF r.op = "delete" THEN "lookup" ELSE "validate"
          /\ req'[h] = r /\ pos'[h] = 1 /\ plan'[h] = <<>>
      BY <1>1, <1>2 DEF HandlersOK, LocalTypes, LocalsOK, KeySteps, OpenSteps, CleanupSteps
    <3>2. QED
      BY <1>4, <2>2, <3>1
      DEF LocalsOK, KeySteps, OpenSteps, CleanupSteps, PoolSteps
  <2>3. QED
    BY <2>1, <2>2
<1>7. CounterTypes'
  BY <1>2 DEF CounterTypes
<1>8. QED
  BY <1>2, <1>5, <1>6, <1>7, SameTable, SameCluster DEF HandlersOK

\* A config that passes the checks of the handler names a valid port.
LEMMA ValidateInv ==
    ASSUME HandlersOK, CounterTypes, TableTypes, ClusterTypes,
           NEW h \in Handlers, Validate(h)
    PROVE  HandlersOK' /\ CounterTypes' /\ TableTypes' /\ ClusterTypes'
<1>1. pc[h] = "validate" /\ UNCHANGED <<nextPort, bindings, clusterVars, faults, restarts>>
  BY DEF Validate
<1>2. HandlersOK'
  <2>1. CASE ~Valid(Config(h))
    BY <1>1, <2>1, ServeOK DEF Validate, Answers
  <2>2. CASE Valid(Config(h))
    <3>1. /\ protocol' = [protocol EXCEPT ![h] = Effective(Config(h))]
          /\ pc' = [pc EXCEPT ![h] = "lookup"]
          /\ UNCHANGED <<req, pos, success, answer, expired, external, plan, victims>>
      BY <2>2 DEF Validate
    <3>2. LocalTypes'
      <4>1. Effective(Config(h)) \in Protocols /\ "lookup" \in Steps
        BY <2>2 DEF Valid, Steps
      <4>2. QED
        BY <3>1, <4>1 DEF HandlersOK, LocalTypes
    <3>3. LocalsOK(h)
      BY DEF HandlersOK
    <3>4. plan[h] = <<>>
      BY <1>1, <3>3 DEF LocalsOK, KeySteps, OpenSteps, CleanupSteps
    <3>5. Config(h).port \in Ports
      <4>1. req[h] \in Requests /\ pos[h] \in 1 .. Len(req[h].configs)
        BY <1>1, <3>3 DEF LocalsOK
      <4>2. Config(h).port \in ValidPorts
        BY <2>2 DEF Valid
      <4>3. QED
        BY <4>1, <4>2, NamedPortsAssumption DEF Config
    <3>6. ASSUME NEW g \in Handlers PROVE LocalsOK(g)'
      <4>1. CASE g # h
        BY <3>1, <4>1, Untouched DEF HandlersOK, LocalTypes
      <4>2. CASE g = h
        <5>1. /\ pc'[h] = "lookup" /\ plan'[h] = <<>>
              /\ req'[h] = req[h] /\ pos'[h] = pos[h] /\ Config(h)' = Config(h)
          BY <3>1, <3>4 DEF HandlersOK, LocalTypes, Config
        <5>2. QED
          BY <1>1, <3>3, <3>5, <4>2, <5>1
          DEF LocalsOK, KeySteps, OpenSteps, CleanupSteps, PoolSteps
      <4>3. QED
        BY <4>1, <4>2
    <3>7. QED
      BY <3>2, <3>6 DEF HandlersOK
  <2>3. QED
    BY <2>1, <2>2
<1>3. CounterTypes'
  BY <1>1 DEF CounterTypes
<1>4. QED
  BY <1>1, <1>2, <1>3, SameTable, SameCluster

\* Going on to the next config, or replying.
LEMMA AdvanceInv ==
    ASSUME HandlersOK, CounterTypes, TableTypes, ClusterTypes,
           NEW h \in Handlers, Advance(h)
    PROVE  HandlersOK' /\ CounterTypes' /\ TableTypes' /\ ClusterTypes'
<1> DEFINE more == pos[h] < Len(req[h].configs)
<1>1. /\ pc[h] = "served"
      /\ pc' = [pc EXCEPT ![h] = IF more THEN "validate" ELSE "idle"]
      /\ req' = [req EXCEPT ![h] = IF more THEN req[h] ELSE NoRequest]
      /\ pos' = [pos EXCEPT ![h] = IF more THEN pos[h] + 1 ELSE 0]
      /\ success' = [success EXCEPT ![h] = IF more THEN Successes(h) ELSE 0]
      /\ expired' = IF more THEN expired ELSE expired \ {h}
      /\ answer' = [answer EXCEPT ![h] = "none"]
      /\ protocol' = [protocol EXCEPT ![h] = "HTTP"]
      /\ external' = [external EXCEPT ![h] = NoPort]
      /\ UNCHANGED <<plan, victims>>
      /\ UNCHANGED <<nextPort, bindings, clusterVars, faults, restarts>>
  BY DEF Advance
<1> HIDE DEF more
<1>2. LocalsOK(h) /\ req[h] \in Requests
  BY <1>1 DEF HandlersOK, LocalsOK
<1>3. plan[h] = <<>>
  BY <1>1, <1>2 DEF LocalsOK, KeySteps, OpenSteps, CleanupSteps
<1>4. LocalTypes'
  <2>1. Successes(h) \in Nat
    BY DEF HandlersOK, LocalTypes, Successes
  <2>2. "none" \in Answers /\ "HTTP" \in Protocols /\ NoPort \in MaybePort
        /\ NoRequest \in MaybeRequest /\ {"validate", "idle"} \subseteq Steps
    BY DEF Answers, Protocols, MaybePort, MaybeRequest, Steps
  <2>3. QED
    BY <1>1, <2>1, <2>2 DEF HandlersOK, LocalTypes
<1>5. ASSUME NEW g \in Handlers PROVE LocalsOK(g)'
  <2>1. CASE g # h
    BY <1>1, <2>1, Untouched DEF HandlersOK, LocalTypes
  <2>2. CASE g = h
    <3>1. /\ pc'[h] = (IF more THEN "validate" ELSE "idle") /\ plan'[h] = <<>>
          /\ more => req'[h] = req[h] /\ pos'[h] = pos[h] + 1
      BY <1>1, <1>3 DEF HandlersOK, LocalTypes
    <3>2. more => req[h].op # "delete" /\ pos[h] + 1 \in 1 .. Len(req[h].configs)
      <4>1. /\ req[h].configs \in Seq(PortConfig)
            /\ req[h].op = "delete" => req[h].configs = <<>>
        BY <1>2, RequestsTyped, DeletionsAssumption
      <4>2. pos[h] \in Nat
        BY DEF HandlersOK, LocalTypes
      <4>3. QED
        BY <4>1, <4>2 DEF more
    <3>3. QED
      BY <1>2, <2>2, <3>1, <3>2
      DEF LocalsOK, KeySteps, OpenSteps, CleanupSteps, PoolSteps
  <2>3. QED
    BY <2>1, <2>2
<1>6. CounterTypes'
  BY <1>1 DEF CounterTypes
<1>7. QED
  BY <1>1, <1>4, <1>5, <1>6, SameTable, SameCluster DEF HandlersOK

\* What the locals say at the steps that work on an instance port.
LEMMA AtKeyStep ==
    ASSUME HandlersOK, NEW h \in Handlers
    PROVE  /\ pc[h] \in KeySteps => Key(h) \in Keys
           /\ pc[h] \in PoolSteps => OwnsPort(h)
           /\ pc[h] = "loadCounter" => protocol[h] \in L4
           /\ pc[h] = "createIngress" => protocol[h] = "HTTP"
           /\ pc[h] = "commit" => protocol[h] = "HTTP" \/ OwnsPort(h)
           /\ protocol[h] \in Protocols /\ external[h] \in MaybePort
           /\ plan[h] # <<>> => pc[h] \in KeySteps
BY DEF HandlersOK, LocalTypes, LocalsOK

\* The lists of deletions the rollbacks consist of.
LEMMA Rollbacks ==
    /\ <<"delService">> \in Plans
    /\ <<"delEntry", "delService">> \in Plans
    /\ \A x \in {"delIngress", "delEntry"} :
          <<"delService", x>> \in Plans /\ <<x, "delRow">> \in Plans
BY DEF Plans, CleanupSteps

\* Creating the Service.
LEMMA CreateServiceInv ==
    ASSUME HandlersOK, CounterTypes, TableTypes, ClusterTypes,
           NEW h \in Handlers, CreateService(h)
    PROVE  HandlersOK' /\ CounterTypes' /\ TableTypes' /\ ClusterTypes'
<1>1. pc[h] = "createService" /\ Key(h) \in Keys
  BY AtKeyStep DEF CreateService, KeySteps, OpenSteps
<1>2. PICK o \in Outcomes :
         /\ Call(h, o)
         /\ services' = IF o = "refused" THEN services ELSE services \cup {Key(h)}
         /\ IF Created(h, o)
            THEN Go(h, IF protocol[h] \in L4 THEN "loadCounter" ELSE "createIngress")
            ELSE Serve(h, "failure")
  BY DEF CreateService
<1>3. UNCHANGED <<nextPort, bindings, deployments, ingresses, cmVars, lbVars, restarts>>
  BY DEF CreateService
<1>4. HandlersOK'
  <2>1. CASE Created(h, o)
    BY <1>1, <1>2, <2>1, GoOK, AtKeyStep DEF Steps, KeySteps, OpenSteps, PoolSteps, Protocols
  <2>2. CASE ~Created(h, o)
    BY <1>1, <1>2, <2>2, ServeOK DEF Answers
  <2>3. QED
    BY <2>1, <2>2
<1>5. CounterTypes'
  BY <1>2, <1>3, CallTyped DEF CounterTypes
<1>6. ClusterTypes'
  BY <1>1, <1>2, <1>3 DEF ClusterTypes, cmVars, lbVars, CM!TypeOK, LB!TypeOK
<1>7. QED
  BY <1>3, <1>4, <1>5, <1>6, SameTable

\* Reading the counter yields a port of the range, or none is left.
LEMMA LoadCounterInv ==
    ASSUME HandlersOK, CounterTypes, TableTypes, ClusterTypes,
           NEW h \in Handlers, LoadCounter(h)
    PROVE  HandlersOK' /\ CounterTypes' /\ TableTypes' /\ ClusterTypes'
<1>1. pc[h] = "loadCounter" /\ Key(h) \in Keys /\ protocol[h] \in L4
      /\ UNCHANGED <<nextPort, bindings, clusterVars, faults, restarts>>
  BY AtKeyStep DEF LoadCounter, KeySteps, OpenSteps
<1>2. CASE PoolExhausted
  <2>1. Perform(h, <<"delService">>)
    BY <1>2 DEF LoadCounter, UndoAllocate
  <2>2. HandlersOK'
    BY <1>1, <2>1, PerformOK, Rollbacks DEF KeySteps, OpenSteps
  <2>3. QED
    BY <1>1, <2>2, SameTable, SameCluster DEF CounterTypes
<1>3. CASE ~PoolExhausted
  <2>1. /\ external' = [external EXCEPT ![h] = nextPort]
        /\ pc' = [pc EXCEPT ![h] = "storeCounter"]
        /\ UNCHANGED <<req, pos, success, answer, expired, protocol, plan, victims>>
    BY <1>3 DEF LoadCounter
  <2>2. nextPort \in ExternalPorts
    BY <1>3, RangeAssumption DEF PoolExhausted, CounterTypes, ExternalPorts
  <2>3. LocalTypes'
    <3>1. nextPort \in MaybePort /\ "storeCounter" \in Steps
      BY <2>2 DEF MaybePort, Steps, OpenSteps
    <3>2. QED
      BY <2>1, <3>1 DEF HandlersOK, LocalTypes
  <2>4. ASSUME NEW g \in Handlers PROVE LocalsOK(g)'
    <3>1. CASE g # h
      BY <2>1, <3>1, Untouched DEF HandlersOK, LocalTypes
    <3>2. CASE g = h
      <4>1. /\ pc'[h] = "storeCounter" /\ external'[h] = nextPort
            /\ req'[h] = req[h] /\ pos'[h] = pos[h] /\ plan'[h] = plan[h]
            /\ protocol'[h] = protocol[h]
        BY <2>1 DEF HandlersOK, LocalTypes
      <4>2. OwnsPort(h)' /\ Key(h)' = Key(h)
        BY <1>1, <2>2, <4>1 DEF OwnsPort, Key, Config, ExternalPorts
      <4>3. LocalsOK(h)
        BY DEF HandlersOK
      <4>4. QED
        BY <1>1, <3>2, <4>1, <4>2, <4>3
        DEF LocalsOK, KeySteps, OpenSteps, CleanupSteps, PoolSteps
    <3>3. QED
      BY <3>1, <3>2
  <2>5. QED
    BY <1>1, <2>3, <2>4, SameTable, SameCluster DEF HandlersOK, CounterTypes
<1>4. QED
  BY <1>2, <1>3

\* The counter stays within one of the range.
LEMMA StoreCounterInv ==
    ASSUME HandlersOK, CounterTypes, TableTypes, ClusterTypes,
           NEW h \in Handlers, StoreCounter(h)
    PROVE  HandlersOK' /\ CounterTypes' /\ TableTypes' /\ ClusterTypes'
<1>1. /\ pc[h] = "storeCounter" /\ Key(h) \in Keys /\ OwnsPort(h)
      /\ nextPort' = external[h] + 1 /\ Go(h, "getMap")
      /\ UNCHANGED <<bindings, clusterVars, faults, restarts>>
  BY AtKeyStep DEF StoreCounter, KeySteps, OpenSteps, PoolSteps
<1>2. HandlersOK'
  BY <1>1, GoOK DEF Steps, KeySteps, OpenSteps, PoolSteps
<1>3. nextPort' \in ExternalPorts \cup {RangeStart, RangeEnd + 1}
  BY <1>1, RangeAssumption DEF OwnsPort, ExternalPorts
<1>4. QED
  BY <1>1, <1>2, <1>3, SameTable, SameCluster DEF CounterTypes

\* Reading a ConfigMap.
LEMMA GetMapInv ==
    ASSUME HandlersOK, CounterTypes, TableTypes, ClusterTypes,
           NEW h \in Handlers, GetMap(h)
    PROVE  HandlersOK' /\ CounterTypes' /\ TableTypes' /\ ClusterTypes'
<1>1. /\ pc[h] = "getMap" /\ Key(h) \in Keys /\ OwnsPort(h)
      /\ UNCHANGED <<nextPort, bindings, deployments, services, ingresses, lbVars, restarts>>
  BY AtKeyStep DEF GetMap, KeySteps, OpenSteps, PoolSteps
<1>2. PICK o \in Outcomes :
         /\ Read(h, o)
         /\ IF o = "ok" THEN CM!Get(h, protocol[h]) /\ Go(h, "putMap")
            ELSE UNCHANGED cmVars /\ Perform(h, <<"delService">>)
  BY DEF GetMap
<1>3. HandlersOK'
  <2>1. CASE o = "ok"
    BY <1>1, <1>2, <2>1, GoOK DEF Steps, KeySteps, OpenSteps, PoolSteps
  <2>2. CASE o # "ok"
    BY <1>1, <1>2, <2>2, PerformOK, Rollbacks DEF KeySteps, OpenSteps
  <2>3. QED
    BY <2>1, <2>2
<1>4. CM!TypeOK(ConfigMap)'
  <2>1. EmptyMap \in ConfigMap
    BY DEF EmptyMap, ConfigMap
  <2>2. CM!Get(h, protocol[h]) \/ UNCHANGED cmVars
    BY <1>2
  <2>3. QED
    BY <1>1, <2>1, <2>2, MapAccess DEF ClusterTypes, OwnsPort
<1>5. CounterTypes'
  BY <1>1, <1>2, CallTyped DEF CounterTypes, Read
<1>6. ClusterTypes'
  BY <1>1, <1>4 DEF ClusterTypes, lbVars, LB!TypeOK
<1>7. QED
  BY <1>1, <1>3, <1>5, <1>6, SameTable

\* Writing a ConfigMap with an entry more.
LEMMA PutMapInv ==
    ASSUME HandlersOK, CounterTypes, TableTypes, ClusterTypes,
           NEW h \in Handlers, PutMap(h)
    PROVE  HandlersOK' /\ CounterTypes' /\ TableTypes' /\ ClusterTypes'
<1> DEFINE p == protocol[h]
           content == [cmCopy[h] EXCEPT ![external[h]] = Key(h)]
           accepted == MapAccepted(h)
<1>1. /\ pc[h] = "putMap" /\ Key(h) \in Keys /\ OwnsPort(h)
      /\ UNCHANGED <<nextPort, bindings, deployments, services, ingresses, lbVars, restarts>>
  BY AtKeyStep DEF PutMap, KeySteps, OpenSteps, PoolSteps
<1>2. PICK o \in Outcomes :
         /\ Call(h, o)
         /\ IF o # "refused" /\ accepted THEN CM!Put(h, p, content) ELSE CM!Drop(h)
         /\ IF o = "ok" /\ accepted THEN Go(h, "getPorts") ELSE Perform(h, <<"delService">>)
  BY DEF PutMap, WithEntry
<1>3. content \in ConfigMap
  <2>1. cmCopy[h] \in ConfigMap
    BY DEF ClusterTypes, CM!TypeOK
  <2>2. QED
    BY <1>1, <2>1 DEF ConfigMap, OwnsPort
<1> HIDE DEF p, content, accepted
<1>4. HandlersOK'
  <2>1. CASE o = "ok" /\ accepted
    BY <1>1, <1>2, <2>1, GoOK DEF Steps, KeySteps, OpenSteps, PoolSteps
  <2>2. CASE ~(o = "ok" /\ accepted)
    BY <1>1, <1>2, <2>2, PerformOK, Rollbacks DEF KeySteps, OpenSteps
  <2>3. QED
    BY <2>1, <2>2
<1>5. CM!TypeOK(ConfigMap)'
  <2>1. CM!Put(h, p, content) \/ CM!Drop(h)
    BY <1>2
  <2>2. QED
    BY <1>1, <1>3, <2>1, MapAccess DEF ClusterTypes, OwnsPort, p
<1>6. CounterTypes'
  BY <1>1, <1>2, CallTyped DEF CounterTypes
<1>7. ClusterTypes'
  BY <1>1, <1>5 DEF ClusterTypes, lbVars, LB!TypeOK
<1>8. QED
  BY <1>1, <1>4, <1>6, <1>7, SameTable

\* Writing a ConfigMap with an entry less.
LEMMA DelEntryPutInv ==
    ASSUME HandlersOK, CounterTypes, TableTypes, ClusterTypes,
           NEW h \in Handlers, DelEntryPut(h)
    PROVE  HandlersOK' /\ CounterTypes' /\ TableTypes' /\ ClusterTypes'
<1> DEFINE p == protocol[h]
           content == [cmCopy[h] EXCEPT ![external[h]] = NoKey]
           accepted == MapAccepted(h)
<1>1. /\ pc[h] = "delEntryPut" /\ Key(h) \in Keys /\ OwnsPort(h)
      /\ UNCHANGED <<nextPort, bindings, deployments, services, ingresses, lbVars, restarts>>
  BY AtKeyStep DEF DelEntryPut, KeySteps, OpenSteps, PoolSteps
<1>2. PICK o \in Outcomes :
         /\ Call(h, o)
         /\ IF o # "refused" /\ accepted THEN CM!Put(h, p, content) ELSE CM!Drop(h)
         /\ IF o = "ok" /\ accepted THEN Go(h, "delPortGet") ELSE NextCleanup(h)
  BY DEF DelEntryPut
<1>3. content \in ConfigMap
  <2>1. cmCopy[h] \in ConfigMap
    BY DEF ClusterTypes, CM!TypeOK
  <2>2. QED
    BY <1>1, <2>1 DEF ConfigMap, OwnsPort
<1> HIDE DEF p, content, accepted
<1>4. HandlersOK'
  <2>1. CASE o = "ok" /\ accepted
    BY <1>1, <1>2, <2>1, GoOK DEF Steps, KeySteps, OpenSteps, PoolSteps
  <2>2. CASE ~(o = "ok" /\ accepted)
    BY <1>1, <1>2, <2>2, NextCleanupOK DEF KeySteps, OpenSteps
  <2>3. QED
    BY <2>1, <2>2
<1>5. CM!TypeOK(ConfigMap)'
  <2>1. CM!Put(h, p, content) \/ CM!Drop(h)
    BY <1>2
  <2>2. QED
    BY <1>1, <1>3, <2>1, MapAccess DEF ClusterTypes, OwnsPort, p
<1>6. CounterTypes'
  BY <1>1, <1>2, CallTyped DEF CounterTypes
<1>7. ClusterTypes'
  BY <1>1, <1>5 DEF ClusterTypes, lbVars, LB!TypeOK
<1>8. QED
  BY <1>1, <1>4, <1>6, <1>7, SameTable


\* The ports of the ingress-nginx Service with one more or one less.
LEMMA PortsContent ==
    ASSUME ClusterTypes, NEW h \in Handlers, OwnsPort(h)
    PROVE  /\ lbCopy[h] \cup {OwnExposure(h)} \in SUBSET Exposure
           /\ lbCopy[h] \ {OwnExposure(h)} \in SUBSET Exposure
BY DEF ClusterTypes, LB!TypeOK, OwnsPort, OwnExposure, Exposure

\* Reading the ingress-nginx Service.
LEMMA GetPortsInv ==
    ASSUME HandlersOK, CounterTypes, TableTypes, ClusterTypes,
           NEW h \in Handlers, GetPorts(h)
    PROVE  HandlersOK' /\ CounterTypes' /\ TableTypes' /\ ClusterTypes'
<1>1. /\ pc[h] = "getPorts" /\ Key(h) \in Keys /\ OwnsPort(h)
      /\ UNCHANGED <<nextPort, bindings, deployments, services, ingresses, cmVars, restarts>>
  BY AtKeyStep DEF GetPorts, KeySteps, OpenSteps, PoolSteps
<1>2. PICK o \in Outcomes :
         /\ Read(h, o)
         /\ \/ UNCHANGED lbVars /\ UndoPatch(h)
            \/ UNCHANGED lbVars /\ Go(h, "commit")
            \/ LB!Get(h, "service") /\ Go(h, "putPorts")
  BY DEF GetPorts
<1>3. HandlersOK'
  <2>1. CASE UndoPatch(h)
    BY <1>1, <2>1, PerformOK, Rollbacks DEF UndoPatch, KeySteps, OpenSteps
  <2>2. CASE Go(h, "commit")
    BY <1>1, <2>2, GoOK DEF Steps, KeySteps, OpenSteps, PoolSteps
  <2>3. CASE Go(h, "putPorts")
    BY <1>1, <2>3, GoOK DEF Steps, KeySteps, OpenSteps, PoolSteps
  <2>4. QED
    BY <1>2, <2>1, <2>2, <2>3
<1>4. {} \in SUBSET Exposure
  OBVIOUS
<1>5. LB!TypeOK(SUBSET Exposure)'
  BY <1>2, <1>4, PortsAccess DEF ClusterTypes
<1>6. CounterTypes'
  BY <1>1, <1>2, CallTyped DEF CounterTypes, Read
<1>7. ClusterTypes'
  BY <1>1, <1>5 DEF ClusterTypes, cmVars, CM!TypeOK
<1>8. QED
  BY <1>1, <1>3, <1>6, <1>7, SameTable

\* Writing the ingress-nginx Service with a port more.
LEMMA PutPortsInv ==
    ASSUME HandlersOK, CounterTypes, TableTypes, ClusterTypes,
           NEW h \in Handlers, PutPorts(h)
    PROVE  HandlersOK' /\ CounterTypes' /\ TableTypes' /\ ClusterTypes'
<1> DEFINE content == lbCopy[h] \cup {OwnExposure(h)}
<1>1. /\ pc[h] = "putPorts" /\ Key(h) \in Keys /\ OwnsPort(h)
      /\ UNCHANGED <<nextPort, bindings, deployments, services, ingresses, cmVars, restarts>>
  BY AtKeyStep DEF PutPorts, KeySteps, OpenSteps, PoolSteps
<1>2. PICK o \in Outcomes :
         /\ Call(h, o)
         /\ LB!Put(h, "service", content) \/ LB!Drop(h)
         /\ Go(h, "commit") \/ UndoPatch(h)
  BY DEF PutPorts
<1>3. HandlersOK'
  <2>1. CASE UndoPatch(h)
    BY <1>1, <2>1, PerformOK, Rollbacks DEF UndoPatch, KeySteps, OpenSteps
  <2>2. CASE Go(h, "commit")
    BY <1>1, <2>2, GoOK DEF Steps, KeySteps, OpenSteps, PoolSteps
  <2>3. QED
    BY <1>2, <2>1, <2>2
<1>4. content \in SUBSET Exposure
  BY <1>1, PortsContent
<1> HIDE DEF content
<1>5. LB!TypeOK(SUBSET Exposure)'
  BY <1>2, <1>4, PortsAccess DEF ClusterTypes
<1>6. CounterTypes'
  BY <1>1, <1>2, CallTyped DEF CounterTypes, Read
<1>7. ClusterTypes'
  BY <1>1, <1>5 DEF ClusterTypes, cmVars, CM!TypeOK
<1>8. QED
  BY <1>1, <1>3, <1>6, <1>7, SameTable

\* Reading the ingress-nginx Service in order to remove a port.
LEMMA DelPortGetInv ==
    ASSUME HandlersOK, CounterTypes, TableTypes, ClusterTypes,
           NEW h \in Handlers, DelPortGet(h)
    PROVE  HandlersOK' /\ CounterTypes' /\ TableTypes' /\ ClusterTypes'
<1>1. /\ pc[h] = "delPortGet" /\ Key(h) \in Keys /\ OwnsPort(h)
      /\ UNCHANGED <<nextPort, bindings, deployments, services, ingresses, cmVars, restarts>>
  BY AtKeyStep DEF DelPortGet, KeySteps, PoolSteps
<1>2. PICK o \in Outcomes :
         /\ Read(h, o)
         /\ \/ LB!Get(h, "service") /\ Go(h, "delPortPut")
            \/ UNCHANGED lbVars /\ NextCleanup(h)
  BY DEF DelPortGet
<1>3. HandlersOK'
  <2>1. CASE NextCleanup(h)
    BY <1>1, <2>1, NextCleanupOK DEF KeySteps
  <2>2. CASE Go(h, "delPortPut")
    BY <1>1, <2>2, GoOK DEF Steps, KeySteps, PoolSteps
  <2>3. QED
    BY <1>2, <2>1, <2>2
<1>4. {} \in SUBSET Exposure
  OBVIOUS
<1>5. LB!TypeOK(SUBSET Exposure)'
  BY <1>2, <1>4, PortsAccess DEF ClusterTypes
<1>6. CounterTypes'
  BY <1>1, <1>2, CallTyped DEF CounterTypes, Read
<1>7. ClusterTypes'
  BY <1>1, <1>5 DEF ClusterTypes, cmVars, CM!TypeOK
<1>8. QED
  BY <1>1, <1>3, <1>6, <1>7, SameTable

\* Writing the ingress-nginx Service with a port less.
LEMMA DelPortPutInv ==
    ASSUME HandlersOK, CounterTypes, TableTypes, ClusterTypes,
           NEW h \in Handlers, DelPortPut(h)
    PROVE  HandlersOK' /\ CounterTypes' /\ TableTypes' /\ ClusterTypes'
<1> DEFINE content == lbCopy[h] \ {OwnExposure(h)}
<1>1. /\ pc[h] = "delPortPut" /\ OwnsPort(h) /\ NextCleanup(h)
      /\ UNCHANGED <<nextPort, bindings, deployments, services, ingresses, cmVars, restarts>>
  BY AtKeyStep DEF DelPortPut, PoolSteps
<1>2. PICK o \in Outcomes :
         Call(h, o) /\ (LB!Put(h, "service", content) \/ LB!Drop(h))
  BY DEF DelPortPut
<1>3. HandlersOK'
  BY <1>1, NextCleanupOK DEF KeySteps
<1>4. content \in SUBSET Exposure
  BY <1>1, PortsContent
<1> HIDE DEF content
<1>5. LB!TypeOK(SUBSET Exposure)'
  BY <1>2, <1>4, PortsAccess DEF ClusterTypes
<1>6. CounterTypes'
  BY <1>1, <1>2, CallTyped DEF CounterTypes, Read
<1>7. ClusterTypes'
  BY <1>1, <1>5 DEF ClusterTypes, cmVars, CM!TypeOK
<1>8. QED
  BY <1>1, <1>3, <1>6, <1>7, SameTable

\* Reading a ConfigMap in order to remove an entry.
LEMMA DelEntryInv ==
    ASSUME HandlersOK, CounterTypes, TableTypes, ClusterTypes,
           NEW h \in Handlers, DelEntry(h)
    PROVE  HandlersOK' /\ CounterTypes' /\ TableTypes' /\ ClusterTypes'
<1>1. /\ pc[h] = "delEntry" /\ Key(h) \in Keys /\ OwnsPort(h)
      /\ UNCHANGED <<nextPort, bindings, deployments, services, ingresses, lbVars, restarts>>
  BY AtKeyStep DEF DelEntry, KeySteps, CleanupSteps, PoolSteps
<1>2. PICK o \in Outcomes :
         /\ Read(h, o)
         /\ \/ UNCHANGED cmVars /\ NextCleanup(h)
            \/ UNCHANGED cmVars /\ Go(h, "delPortGet")
            \/ CM!Get(h, protocol[h]) /\ Go(h, "delEntryPut")
  BY DEF DelEntry
<1>3. HandlersOK'
  <2>1. CASE NextCleanup(h)
    BY <1>1, <2>1, NextCleanupOK DEF KeySteps, CleanupSteps
  <2>2. CASE Go(h, "delPortGet")
    BY <1>1, <2>2, GoOK DEF Steps, KeySteps, PoolSteps
  <2>3. CASE Go(h, "delEntryPut")
    BY <1>1, <2>3, GoOK DEF Steps, KeySteps, PoolSteps
  <2>4. QED
    BY <1>2, <2>1, <2>2, <2>3
<1>4. CM!TypeOK(ConfigMap)'
  <2>1. EmptyMap \in ConfigMap
    BY DEF EmptyMap, ConfigMap
  <2>2. CM!Get(h, protocol[h]) \/ UNCHANGED cmVars
    BY <1>2
  <2>3. QED
    BY <1>1, <2>1, <2>2, MapAccess DEF ClusterTypes, OwnsPort
<1>5. CounterTypes'
  BY <1>1, <1>2, CallTyped DEF CounterTypes, Read
<1>6. ClusterTypes'
  BY <1>1, <1>4 DEF ClusterTypes, lbVars, LB!TypeOK
<1>7. QED
  BY <1>1, <1>3, <1>5, <1>6, SameTable

\* Creating the Ingress.
LEMMA CreateIngressInv ==
    ASSUME HandlersOK, CounterTypes, TableTypes, ClusterTypes,
           NEW h \in Handlers, CreateIngress(h)
    PROVE  HandlersOK' /\ CounterTypes' /\ TableTypes' /\ ClusterTypes'
<1>1. /\ pc[h] = "createIngress" /\ Key(h) \in Keys
      /\ UNCHANGED <<nextPort, bindings, deployments, services, cmVars, lbVars, restarts>>
  BY AtKeyStep DEF CreateIngress, KeySteps, OpenSteps
<1>2. PICK o \in Outcomes :
         /\ Call(h, o)
         /\ ingresses' = IF o = "refused" THEN ingresses ELSE ingresses \cup {Key(h)}
         /\ Perform(h, <<"delService">>) \/ Go(h, "commit")
  BY DEF CreateIngress
<1>3. HandlersOK'
  <2>1. CASE Perform(h, <<"delService">>)
    BY <1>1, <2>1, PerformOK, Rollbacks DEF KeySteps, OpenSteps
  <2>2. CASE Go(h, "commit")
    BY <1>1, <2>2, GoOK, AtKeyStep DEF Steps, KeySteps, OpenSteps, PoolSteps
  <2>3. QED
    BY <1>2, <2>1, <2>2
<1>4. CounterTypes'
  BY <1>1, <1>2, CallTyped DEF CounterTypes
<1>5. ClusterTypes'
  BY <1>1, <1>2 DEF ClusterTypes, cmVars, lbVars, CM!TypeOK, LB!TypeOK
<1>6. QED
  BY <1>1, <1>3, <1>4, <1>5, SameTable

\* What the use case finds decides the step; a row that is closed has a well-formed
\* key and, unless it is HTTP, an external port.
LEMMA LookupInv ==
    ASSUME HandlersOK, CounterTypes, TableTypes, ClusterTypes,
           NEW h \in Handlers, Lookup(h)
    PROVE  HandlersOK' /\ CounterTypes' /\ TableTypes' /\ ClusterTypes'
<1>1. pc[h] = "lookup" /\ UNCHANGED <<nextPort, bindings, clusterVars, restarts>>
  BY DEF Lookup
<1>2. PICK o \in Outcomes :
         /\ Read(h, o)
         /\ \/ Serve(h, "failure")
            \/ Serve(h, "success")
            \/ Go(h, "dropRows")
            \/ /\ req[h].instance \in Instances
               /\ req[h].op # "delete"
               /\ Go(h, "createService")
            \/ /\ req[h].instance \in Instances
               /\ req[h].op # "delete"
               /\ \E b \in RowsOf(Key(h)) : StartClosing(h, b)
  <2>1. PICK o \in Outcomes :
           /\ Read(h, o)
           /\ IF o # "ok" \/ req[h].instance \notin Instances
              THEN Serve(h, "failure")
              ELSE CASE req[h].op = "delete" -> Go(h, "dropRows")
                     [] req[h].op = "open" ->
                          IF RowsOf(Key(h)) # {} THEN Serve(h, "success")
                          ELSE Go(h, "createService")
                     [] req[h].op = "close" ->
                          IF RowsOf(Key(h)) = {} THEN Serve(h, "success")
                          ELSE \E b \in RowsOf(Key(h)) : StartClosing(h, b)
    BY DEF Lookup
  <2>2. req[h].op \in {"open", "close", "delete"}
    BY <1>1, RequestsAssumption DEF HandlersOK, LocalsOK, Request
  <2>3. QED
    BY <2>1, <2>2
<1>3. /\ LocalsOK(h) /\ req[h] \in Requests /\ plan[h] = <<>>
      /\ req[h].op # "delete" => Config(h).port \in Ports
  BY <1>1 DEF HandlersOK, LocalsOK, KeySteps, OpenSteps, CleanupSteps
<1>4. req[h].op # "delete" /\ req[h].instance \in Instances => Key(h) \in Keys
  BY <1>3 DEF Key, Keys
<1>5. HandlersOK'
  <2>1. CASE Serve(h, "failure")
    BY <1>1, <2>1, ServeOK DEF Answers
  <2>2. CASE Serve(h, "success")
    BY <1>1, <2>2, ServeOK DEF Answers
  <2>3. CASE Go(h, "dropRows")
    BY <1>1, <1>3, <2>3, GoOK
    DEF Steps, DeleteSteps, KeySteps, OpenSteps, CleanupSteps, PoolSteps
  <2>4. CASE /\ req[h].instance \in Instances /\ req[h].op # "delete"
             /\ Go(h, "createService")
    BY <1>1, <1>3, <1>4, <2>4, GoOK
    DEF Steps, KeySteps, OpenSteps, CleanupSteps, PoolSteps
  <2>5. CASE /\ req[h].instance \in Instances /\ req[h].op # "delete"
             /\ \E b \in RowsOf(Key(h)) : StartClosing(h, b)
    <3>1. PICK b \in RowsOf(Key(h)) : StartClosing(h, b)
      BY <2>5
    <3>2. /\ b.protocol \in Protocols /\ b.external \in MaybePort
          /\ b.protocol \in L4 => b.external \in ExternalPorts
      BY DEF RowsOf, TableTypes, RowsOK, Binding
    <3>3. Key(h) \in Keys
      BY <1>4, <2>5
    <3> DEFINE deletions ==
                 <<IF b.protocol = "HTTP" THEN "delIngress" ELSE "delEntry", "delRow">>
    <3>4. /\ protocol' = [protocol EXCEPT ![h] = b.protocol]
          /\ external' = [external EXCEPT ![h] = b.external]
          /\ pc' = [pc EXCEPT ![h] = "delService"]
          /\ plan' = [plan EXCEPT ![h] = deletions]
          /\ UNCHANGED <<req, pos, success, answer, expired, victims>>
      BY <3>1 DEF StartClosing
    <3>5. /\ deletions \in Plans
          /\ \A i \in 1 .. Len(deletions) : deletions[i] = "delEntry" => b.protocol # "HTTP"
      BY DEF Plans, CleanupSteps
    <3> HIDE DEF deletions
    <3>6. LocalTypes'
      <4>1. "delService" \in Steps
        BY DEF Steps, CleanupSteps
      <4>2. QED
        BY <3>2, <3>4, <3>5, <4>1 DEF HandlersOK, LocalTypes
    <3>7. ASSUME NEW g \in Handlers PROVE LocalsOK(g)'
      <4>1. CASE g # h
        BY <3>4, <4>1, Untouched DEF HandlersOK, LocalTypes
      <4>2. CASE g = h
        <5>1. /\ pc'[h] = "delService" /\ plan'[h] = deletions
              /\ protocol'[h] = b.protocol /\ external'[h] = b.external
              /\ req'[h] = req[h] /\ pos'[h] = pos[h]
          BY <3>4 DEF HandlersOK, LocalTypes
        <5>2. Key(h)' = Key(h)
          BY <5>1 DEF Key, Config
        <5>3. b.protocol # "HTTP" => OwnsPort(h)'
          BY <3>2, <5>1 DEF OwnsPort, Protocols
        <5>4. QED
          BY <1>3, <3>3, <3>5, <4>2, <5>1, <5>2, <5>3
          DEF LocalsOK, KeySteps, CleanupSteps, PoolSteps
      <4>3. QED
        BY <4>1, <4>2
    <3>8. QED
      BY <3>6, <3>7 DEF HandlersOK
  <2>6. QED
    BY <1>2, <2>1, <2>2, <2>3, <2>4, <2>5
<1>6. CounterTypes'
  BY <1>1, <1>2, CallTyped DEF CounterTypes, Read
<1>7. QED
  BY <1>1, <1>5, <1>6, SameTable, SameCluster

\* A committed row is a well-formed binding.
LEMMA CommitInv ==
    ASSUME HandlersOK, CounterTypes, TableTypes, ClusterTypes,
           NEW h \in Handlers, Commit(h)
    PROVE  HandlersOK' /\ CounterTypes' /\ TableTypes' /\ ClusterTypes'
<1> DEFINE row == [key |-> Key(h), protocol |-> protocol[h], external |-> external[h]]
           other == IF protocol[h] = "HTTP" THEN "delIngress" ELSE "delEntry"
<1>1. /\ pc[h] = "commit" /\ Key(h) \in Keys /\ (protocol[h] = "HTTP" \/ OwnsPort(h))
      /\ protocol[h] \in Protocols /\ external[h] \in MaybePort
      /\ UNCHANGED <<nextPort, clusterVars, restarts>>
  BY AtKeyStep DEF Commit, KeySteps, OpenSteps
<1>2. PICK o \in Outcomes :
         /\ Call(h, o)
         /\ bindings' = bindings \/ bindings' = bindings \cup {row}
         /\ Serve(h, "success") \/ Perform(h, <<"delService", other>>)
  BY DEF Commit
<1>3. HandlersOK'
  <2>1. CASE Serve(h, "success")
    BY <1>1, <2>1, ServeOK DEF Answers
  <2>2. CASE Perform(h, <<"delService", other>>)
    <3>1. other \in {"delIngress", "delEntry"} /\ (other = "delEntry" => OwnsPort(h))
      BY <1>1
    <3>2. <<"delService", other>> \in Plans
      BY <3>1, Rollbacks
    <3> HIDE DEF other
    <3>3. QED
      BY <1>1, <2>2, <3>1, <3>2, PerformOK DEF KeySteps, OpenSteps
  <2>3. QED
    BY <1>2, <2>1, <2>2
<1>4. row \in Binding /\ (row.protocol \in L4 => row.external \in ExternalPorts)
  BY <1>1 DEF Binding, OwnsPort, L4
<1> HIDE DEF row
<1>5. TableTypes'
  BY <1>2, <1>4 DEF TableTypes, RowsOK
<1>6. CounterTypes'
  BY <1>1, <1>2, CallTyped DEF CounterTypes
<1>7. QED
  BY <1>1, <1>3, <1>5, <1>6, SameCluster

\* Deleting the Service.
LEMMA DelServiceInv ==
    ASSUME HandlersOK, CounterTypes, TableTypes, ClusterTypes,
           NEW h \in Handlers, DelService(h)
    PROVE  HandlersOK' /\ CounterTypes' /\ TableTypes' /\ ClusterTypes'
<1>1. /\ pc[h] = "delService" /\ NextCleanup(h)
      /\ UNCHANGED <<nextPort, bindings, deployments, ingresses, cmVars, lbVars, restarts>>
  BY DEF DelService
<1>2. PICK o \in Outcomes : Call(h, o) /\ services' \subseteq services
  BY DEF DelService
<1>3. HandlersOK'
  BY <1>1, NextCleanupOK DEF KeySteps, CleanupSteps
<1>4. CounterTypes'
  BY <1>1, <1>2, CallTyped DEF CounterTypes
<1>5. ClusterTypes'
  BY <1>1, <1>2 DEF ClusterTypes, cmVars, lbVars, CM!TypeOK, LB!TypeOK
<1>6. QED
  BY <1>1, <1>3, <1>4, <1>5, SameTable

\* Deleting the Ingress.
LEMMA DelIngressInv ==
    ASSUME HandlersOK, CounterTypes, TableTypes, ClusterTypes,
           NEW h \in Handlers, DelIngress(h)
    PROVE  HandlersOK' /\ CounterTypes' /\ TableTypes' /\ ClusterTypes'
<1>1. /\ pc[h] = "delIngress" /\ NextCleanup(h)
      /\ UNCHANGED <<nextPort, bindings, deployments, services, cmVars, lbVars, restarts>>
  BY DEF DelIngress
<1>2. PICK o \in Outcomes : Call(h, o) /\ ingresses' \subseteq ingresses
  BY DEF DelIngress
<1>3. HandlersOK'
  BY <1>1, NextCleanupOK DEF KeySteps, CleanupSteps
<1>4. CounterTypes'
  BY <1>1, <1>2, CallTyped DEF CounterTypes
<1>5. ClusterTypes'
  BY <1>1, <1>2 DEF ClusterTypes, cmVars, lbVars, CM!TypeOK, LB!TypeOK
<1>6. QED
  BY <1>1, <1>3, <1>4, <1>5, SameTable

\* Deleting the row.
LEMMA DelRowInv ==
    ASSUME HandlersOK, CounterTypes, TableTypes, ClusterTypes,
           NEW h \in Handlers, DelRow(h)
    PROVE  HandlersOK' /\ CounterTypes' /\ TableTypes' /\ ClusterTypes'
<1>1. pc[h] = "delRow" /\ UNCHANGED <<nextPort, clusterVars, restarts>>
  BY DEF DelRow
<1>2. PICK o \in Outcomes :
         Call(h, o) /\ bindings' \subseteq bindings /\ Serve(h, RowDeleted(h, o))
  BY DEF DelRow
<1>3. HandlersOK'
  BY <1>1, <1>2, ServeOK DEF RowDeleted, Answers
<1>4. TableTypes'
  BY <1>2 DEF TableTypes, RowsOK
<1>5. CounterTypes'
  BY <1>1, <1>2, CallTyped DEF CounterTypes
<1>6. QED
  BY <1>1, <1>3, <1>4, <1>5, SameCluster

\* Deleting the rows of an instance.
LEMMA DropRowsInv ==
    ASSUME HandlersOK, CounterTypes, TableTypes, ClusterTypes,
           NEW h \in Handlers, DropRows(h)
    PROVE  HandlersOK' /\ CounterTypes' /\ TableTypes' /\ ClusterTypes'
<1>1. /\ pc[h] = "dropRows" /\ Go(h, "dropDeployment")
      /\ UNCHANGED <<nextPort, clusterVars, restarts>>
  BY DEF DropRows
<1>2. PICK o \in Outcomes : Call(h, o) /\ bindings' \subseteq bindings
  BY DEF DropRows
<1>3. plan[h] = <<>>
  BY <1>1, AtKeyStep DEF KeySteps, OpenSteps, CleanupSteps
<1>4. HandlersOK'
  BY <1>1, <1>3, GoOK DEF Steps, DeleteSteps, KeySteps, OpenSteps, CleanupSteps, PoolSteps
<1>5. TableTypes'
  BY <1>2 DEF TableTypes, RowsOK
<1>6. CounterTypes'
  BY <1>1, <1>2, CallTyped DEF CounterTypes
<1>7. QED
  BY <1>1, <1>4, <1>5, <1>6, SameCluster

\* Deleting the Deployment.
LEMMA DropDeploymentInv ==
    ASSUME HandlersOK, CounterTypes, TableTypes, ClusterTypes,
           NEW h \in Handlers, DropDeployment(h)
    PROVE  HandlersOK' /\ CounterTypes' /\ TableTypes' /\ ClusterTypes'
<1>1. /\ pc[h] = "dropDeployment"
      /\ UNCHANGED <<nextPort, bindings, services, ingresses, cmVars, lbVars, restarts>>
  BY DEF DropDeployment
<1>2. PICK o \in Outcomes :
         /\ Call(h, o)
         /\ deployments' \subseteq deployments
         /\ Go(h, "listServices") \/ Serve(h, "failure")
  BY DEF DropDeployment
<1>3. plan[h] = <<>>
  BY <1>1, AtKeyStep DEF KeySteps, OpenSteps, CleanupSteps
<1>4. HandlersOK'
  <2>1. CASE Go(h, "listServices")
    BY <1>1, <1>3, <2>1, GoOK
    DEF Steps, DeleteSteps, KeySteps, OpenSteps, CleanupSteps, PoolSteps
  <2>2. CASE Serve(h, "failure")
    BY <1>1, <2>2, ServeOK DEF Answers
  <2>3. QED
    BY <1>2, <2>1, <2>2
<1>5. CounterTypes'
  BY <1>1, <1>2, CallTyped DEF CounterTypes
<1>6. ClusterTypes'
  BY <1>1, <1>2 DEF ClusterTypes, cmVars, lbVars, CM!TypeOK, LB!TypeOK
<1>7. QED
  BY <1>1, <1>4, <1>5, <1>6, SameTable

\* Going on to a later step of a deletion, with another list of victims, keeps
\* the locals well formed.
LEMMA DeletionOK ==
    ASSUME HandlersOK, NEW h \in Handlers, NEW step \in {"dropServices", "dropIngresses"},
           NEW found \in SUBSET Keys, pc[h] \in DeleteSteps,
           pc' = [pc EXCEPT ![h] = step], victims' = [victims EXCEPT ![h] = found],
           UNCHANGED <<req, pos, success, answer, expired, protocol, external, plan>>
    PROVE  HandlersOK'
<1>1. LocalTypes'
  <2>1. step \in Steps
    BY DEF Steps, DeleteSteps
  <2>2. QED
    BY <2>1 DEF HandlersOK, LocalTypes
<1>2. ASSUME NEW g \in Handlers PROVE LocalsOK(g)'
  <2>1. CASE g # h
    BY <2>1, Untouched DEF HandlersOK, LocalTypes
  <2>2. CASE g = h
    <3>1. plan[h] = <<>> /\ req[h] \in Requests
      BY AtKeyStep DEF HandlersOK, LocalsOK, DeleteSteps, KeySteps, OpenSteps, CleanupSteps
    <3>2. pc'[h] = step /\ plan'[h] = <<>> /\ req'[h] = req[h]
      BY <3>1 DEF HandlersOK, LocalTypes
    <3>3. QED
      BY <2>2, <3>1, <3>2 DEF LocalsOK, KeySteps, OpenSteps, CleanupSteps, PoolSteps
  <2>3. QED
    BY <2>1, <2>2
<1>3. QED
  BY <1>1, <1>2 DEF HandlersOK

\* Listing the Services to delete.
LEMMA ListServicesInv ==
    ASSUME HandlersOK, CounterTypes, TableTypes, ClusterTypes,
           NEW h \in Handlers, ListServices(h)
    PROVE  HandlersOK' /\ CounterTypes' /\ TableTypes' /\ ClusterTypes'
<1>1. /\ pc[h] = "listServices"
      /\ UNCHANGED <<req, pos, success, answer, expired, protocol, external, plan>>
      /\ UNCHANGED <<nextPort, bindings, clusterVars, restarts>>
  BY DEF ListServices
<1>2. PICK o \in Outcomes :
         /\ Read(h, o)
         /\ \E found \in SUBSET services, step \in {"dropServices", "dropIngresses"} :
               /\ victims' = [victims EXCEPT ![h] = found]
               /\ pc' = [pc EXCEPT ![h] = step]
  BY DEF ListServices, Of
<1>3. services \in SUBSET Keys
  BY DEF ClusterTypes
<1>4. HandlersOK'
  BY <1>1, <1>2, <1>3, DeletionOK DEF DeleteSteps
<1>5. CounterTypes'
  BY <1>1, <1>2, CallTyped DEF CounterTypes, Read
<1>6. QED
  BY <1>1, <1>4, <1>5, SameTable, SameCluster

\* Deleting one Service of the list.
LEMMA DropServicesInv ==
    ASSUME HandlersOK, CounterTypes, TableTypes, ClusterTypes,
           NEW h \in Handlers, DropServices(h)
    PROVE  HandlersOK' /\ CounterTypes' /\ TableTypes' /\ ClusterTypes'
<1>1. /\ pc[h] = "dropServices"
      /\ UNCHANGED <<req, pos, success, answer, expired, protocol, external, plan>>
      /\ UNCHANGED <<nextPort, bindings, deployments, ingresses, cmVars, lbVars, restarts>>
  BY DEF DropServices
<1>2. PICK k \in victims[h], o \in Outcomes :
         /\ Call(h, o)
         /\ services' \subseteq services
         /\ victims' = [victims EXCEPT ![h] = victims[h] \ {k}]
         /\ pc' = [pc EXCEPT ![h] = IF victims[h] = {k} THEN "dropIngresses" ELSE pc[h]]
  BY DEF DropServices
<1>3. victims[h] \ {k} \in SUBSET Keys
  BY DEF HandlersOK, LocalTypes
<1>4. HandlersOK'
  <2>1. CASE victims[h] = {k}
    BY <1>1, <1>2, <1>3, <2>1, DeletionOK DEF DeleteSteps
  <2>2. CASE victims[h] # {k}
    BY <1>1, <1>2, <1>3, <2>2, DeletionOK DEF DeleteSteps
  <2>3. QED
    BY <2>1, <2>2
<1>5. CounterTypes'
  BY <1>1, <1>2, CallTyped DEF CounterTypes
<1>6. ClusterTypes'
  BY <1>1, <1>2 DEF ClusterTypes, cmVars, lbVars, CM!TypeOK, LB!TypeOK
<1>7. QED
  BY <1>1, <1>4, <1>5, <1>6, SameTable

\* Deleting the Ingresses of an instance.
LEMMA DropIngressesInv ==
    ASSUME HandlersOK, CounterTypes, TableTypes, ClusterTypes,
           NEW h \in Handlers, DropIngresses(h)
    PROVE  HandlersOK' /\ CounterTypes' /\ TableTypes' /\ ClusterTypes'
<1>1. /\ pc[h] = "dropIngresses" /\ Serve(h, "success")
      /\ UNCHANGED <<nextPort, bindings, deployments, services, cmVars, lbVars, restarts>>
  BY DEF DropIngresses
<1>2. PICK o \in Outcomes : Call(h, o) /\ ingresses' \subseteq ingresses
  BY DEF DropIngresses
<1>3. HandlersOK'
  BY <1>1, ServeOK DEF Answers
<1>4. CounterTypes'
  BY <1>1, <1>2, CallTyped DEF CounterTypes
<1>5. ClusterTypes'
  BY <1>1, <1>2 DEF ClusterTypes, cmVars, lbVars, CM!TypeOK, LB!TypeOK
<1>6. QED
  BY <1>1, <1>3, <1>4, <1>5, SameTable

\* The deadline passes.
LEMMA ExpireInv ==
    ASSUME HandlersOK, CounterTypes, TableTypes, ClusterTypes,
           NEW h \in Handlers, Expire(h)
    PROVE  HandlersOK' /\ CounterTypes' /\ TableTypes' /\ ClusterTypes'
<1>1. /\ faults < MaxFaults /\ faults' = faults + 1 /\ expired' = expired \cup {h}
      /\ UNCHANGED <<pc, req, pos, success, answer, protocol, external, plan, victims>>
      /\ UNCHANGED <<nextPort, bindings, clusterVars, restarts>>
  BY DEF Expire
<1>2. LocalTypes'
  BY <1>1 DEF HandlersOK, LocalTypes
<1>3. \A g \in Handlers : LocalsOK(g)'
  BY <1>1, Untouched DEF HandlersOK
<1>4. CounterTypes'
  BY <1>1, BoundsAssumption DEF CounterTypes
<1>5. QED
  BY <1>1, <1>2, <1>3, <1>4, SameTable, SameCluster DEF HandlersOK

\* The process starts again: every local has its initial value.
LEMMA RestartInv ==
    ASSUME HandlersOK, CounterTypes, TableTypes, ClusterTypes, Restart
    PROVE  HandlersOK' /\ CounterTypes' /\ TableTypes' /\ ClusterTypes'
<1>1. LocalTypes'
  BY DEF Restart, LocalTypes, Steps, MaybeRequest, Answers, Protocols, MaybePort, Plans
<1>2. ASSUME NEW g \in Handlers PROVE LocalsOK(g)'
  <2>1. pc'[g] = "idle" /\ plan'[g] = <<>>
    BY DEF Restart
  <2>2. QED
    BY <2>1 DEF LocalsOK, KeySteps, OpenSteps, CleanupSteps, PoolSteps
<1>3. CounterTypes'
  BY BoundsAssumption DEF Restart, CounterTypes
<1>4. ClusterTypes'
  <2>1. EmptyMap \in ConfigMap /\ {} \in SUBSET Exposure
    BY DEF EmptyMap, ConfigMap
  <2>2. CM!TypeOK(ConfigMap)'
    BY <2>1 DEF Restart, ClusterTypes, CM!DropAll, CM!TypeOK
  <2>3. LB!TypeOK(SUBSET Exposure)'
    BY <2>1 DEF Restart, ClusterTypes, LB!DropAll, LB!TypeOK
  <2>4. QED
    BY <2>2, <2>3 DEF Restart, ClusterTypes
<1>5. QED
  BY <1>1, <1>2, <1>3, <1>4, SameTable DEF HandlersOK, Restart
-----------------------------------------------------------------------------
(* Type correctness.                                                       *)

\* The initial state is well formed: no handler has a request, the counter stands
\* at the beginning of the range.
LEMMA InitInv == Init => IndInv
<1> SUFFICES ASSUME Init PROVE IndInv
  OBVIOUS
<1>1. LocalTypes
  BY DEF Init, LocalTypes, Steps, MaybeRequest, Answers, Protocols, MaybePort, Plans
<1>2. ASSUME NEW g \in Handlers PROVE LocalsOK(g)
  <2>1. pc[g] = "idle" /\ plan[g] = <<>>
    BY DEF Init
  <2>2. QED
    BY <2>1 DEF LocalsOK, KeySteps, OpenSteps, CleanupSteps, PoolSteps
<1>3. CounterTypes
  BY BoundsAssumption DEF Init, CounterTypes
<1>4. TableTypes
  BY DEF Init, TableTypes, RowsOK
<1>5. ClusterTypes
  <2>1. EmptyMap \in ConfigMap /\ {} \in SUBSET Exposure
    BY DEF EmptyMap, ConfigMap
  <2>2. CM!TypeOK(ConfigMap)
    BY <2>1 DEF Init, CM!Init0, CM!TypeOK
  <2>3. LB!TypeOK(SUBSET Exposure)
    BY <2>1 DEF Init, LB!Init0, LB!TypeOK
  <2>4. QED
    BY <2>2, <2>3 DEF Init, ClusterTypes
<1>6. QED
  BY <1>1, <1>2, <1>3, <1>4, <1>5, IndInvParts DEF HandlersOK

\* Every step keeps the inductive invariant.
LEMMA NextInv == IndInv /\ [Next]_vars => IndInv'
<1> SUFFICES ASSUME IndInv, [Next]_vars PROVE IndInv'
  OBVIOUS
<1>1. HandlersOK /\ CounterTypes /\ TableTypes /\ ClusterTypes
  BY IndInvParts
<1>2. SUFFICES HandlersOK' /\ CounterTypes' /\ TableTypes' /\ ClusterTypes'
  BY IndInvPartsPrimed
<1>3. CASE UNCHANGED vars
  <2>1. /\ UNCHANGED handlerVars /\ UNCHANGED bindings /\ UNCHANGED clusterVars
        /\ UNCHANGED <<nextPort, faults, restarts>>
    BY <1>3 DEF vars
  <2>2. QED
    BY <1>1, <2>1, SameHandlers, SameTable, SameCluster DEF CounterTypes
<1>4. ASSUME NEW h \in Handlers, Receive(h) \/ Validate(h) \/ Advance(h) \/ Lookup(h)
                                   \/ Expire(h)
      PROVE  HandlersOK' /\ CounterTypes' /\ TableTypes' /\ ClusterTypes'
  BY <1>1, <1>4, ReceiveInv, ValidateInv, AdvanceInv, LookupInv, ExpireInv
<1>5. ASSUME NEW h \in Handlers,
             CreateService(h) \/ LoadCounter(h) \/ StoreCounter(h) \/ GetMap(h)
               \/ PutMap(h) \/ GetPorts(h) \/ PutPorts(h) \/ CreateIngress(h) \/ Commit(h)
      PROVE  HandlersOK' /\ CounterTypes' /\ TableTypes' /\ ClusterTypes'
  BY <1>1, <1>5, CreateServiceInv, LoadCounterInv, StoreCounterInv, GetMapInv,
     PutMapInv, GetPortsInv, PutPortsInv, CreateIngressInv, CommitInv
<1>6. ASSUME NEW h \in Handlers,
             DelService(h) \/ DelIngress(h) \/ DelEntry(h) \/ DelEntryPut(h)
               \/ DelPortGet(h) \/ DelPortPut(h) \/ DelRow(h)
      PROVE  HandlersOK' /\ CounterTypes' /\ TableTypes' /\ ClusterTypes'
  BY <1>1, <1>6, DelServiceInv, DelIngressInv, DelEntryInv, DelEntryPutInv,
     DelPortGetInv, DelPortPutInv, DelRowInv
<1>7. ASSUME NEW h \in Handlers,
             DropRows(h) \/ DropDeployment(h) \/ ListServices(h) \/ DropServices(h)
               \/ DropIngresses(h)
      PROVE  HandlersOK' /\ CounterTypes' /\ TableTypes' /\ ClusterTypes'
  BY <1>1, <1>7, DropRowsInv, DropDeploymentInv, ListServicesInv, DropServicesInv,
     DropIngressesInv
<1>8. CASE Restart
  BY <1>1, <1>8, RestartInv
<1>9. QED
  BY <1>3, <1>4, <1>5, <1>6, <1>7, <1>8 DEF Next, Progress

\* The locals of every handler fit the step it is at, throughout every behaviour.
THEOREM Inductive == Spec => []IndInv
BY InitInv, NextInv, PTL DEF Spec

\* Every variable keeps its type, whatever calls fail, however handlers interleave
\* and whenever the process restarts: in particular the counter of
\* allocateExternalPort never passes the end of the range by more than one, and no
\* row is written with a port out of the range.
THEOREM TypeCorrect == Spec => []TypeOK
<1>1. IndInv => TypeOK
  BY DEF IndInv
<1>2. QED
  BY <1>1, Inductive, PTL
-----------------------------------------------------------------------------
(* No update of a shared object is lost.                                   *)

\* What a step may do to the ConfigMaps, and to the ingress-nginx Service.
MapAccesses ==
    \/ UNCHANGED cmVars
    \/ CM!DropAll
    \/ \E h \in Handlers : CM!Drop(h)
    \/ \E h \in Handlers, p \in L4 : CM!Get(h, p)
    \/ \E h \in Handlers :
          /\ Moves(h, {"putMap", "delEntryPut"}) /\ OwnsPort(h) /\ MapAccepted(h)
          /\ \E k \in Keys \cup {NoKey} :
                CM!Put(h, protocol[h], [cmCopy[h] EXCEPT ![external[h]] = k])

PortAccesses ==
    \/ UNCHANGED lbVars
    \/ LB!DropAll
    \/ \E h \in Handlers : LB!Drop(h)
    \/ \E h \in Handlers : LB!Get(h, "service")
    \/ \E h \in Handlers :
          /\ Moves(h, {"putPorts", "delPortPut"}) /\ LB!Current(h, "service")
          /\ \/ LB!Put(h, "service", lbCopy[h] \cup {OwnExposure(h)})
             \/ LB!Put(h, "service", lbCopy[h] \ {OwnExposure(h)})

\* Going on with the deletions leaves the step a handler is at.
LEMMA CleanupMoves ==
    ASSUME HandlersOK, NEW h \in Handlers, pc[h] \in {"delEntryPut", "delPortPut"},
           NextCleanup(h)
    PROVE  pc'[h] # pc[h]
<1>1. plan[h] \in Seq(CleanupSteps) /\ pc \in [Handlers -> Steps]
  BY DEF HandlersOK, LocalTypes, Plans
<1>2. CASE plan[h] = <<>>
  BY <1>1, <1>2 DEF NextCleanup, Perform, Serve
<1>3. CASE plan[h] # <<>>
  <2>1. Head(plan[h]) \in CleanupSteps /\ pc'[h] = Head(plan[h])
    BY <1>1, <1>3 DEF NextCleanup, Perform
  <2>2. QED
    BY <2>1 DEF CleanupSteps
<1>4. QED
  BY <1>2, <1>3

\* A step accesses the ConfigMaps only by the protocol of Get and Update, and an
\* accepted Update changes one entry of the copy, that of its own external port.
LEMMA MapsAccessed == IndInv /\ [Next]_vars => MapAccesses
<1> SUFFICES ASSUME IndInv, [Next]_vars PROVE MapAccesses
  OBVIOUS
<1>1. HandlersOK
  BY IndInvParts
<1>2. CASE UNCHANGED vars
  BY <1>2 DEF vars, clusterVars, MapAccesses
<1>3. CASE Restart
  BY <1>3 DEF Restart, MapAccesses
<1>4. ASSUME NEW h \in Handlers, GetMap(h) PROVE MapAccesses
  <2>1. OwnsPort(h) /\ (UNCHANGED cmVars \/ CM!Get(h, protocol[h]))
    BY <1>1, <1>4, AtKeyStep DEF GetMap, PoolSteps
  <2>2. QED
    BY <2>1 DEF MapAccesses, OwnsPort
<1>5. ASSUME NEW h \in Handlers, DelEntry(h) PROVE MapAccesses
  <2>1. OwnsPort(h) /\ (UNCHANGED cmVars \/ CM!Get(h, protocol[h]))
    BY <1>1, <1>5, AtKeyStep DEF DelEntry, PoolSteps
  <2>2. QED
    BY <2>1 DEF MapAccesses, OwnsPort
<1>6. ASSUME NEW h \in Handlers, PutMap(h) PROVE MapAccesses
  <2>1. OwnsPort(h) /\ Key(h) \in Keys /\ pc[h] = "putMap"
    BY <1>1, <1>6, AtKeyStep DEF PutMap, PoolSteps, KeySteps, OpenSteps
  <2>2. Go(h, "getPorts") \/ Perform(h, <<"delService">>)
    BY <1>6 DEF PutMap
  <2>3. pc'[h] # pc[h]
    BY <1>1, <2>1, <2>2 DEF HandlersOK, LocalTypes, Go, Perform, Serve
  <2>4. \/ /\ MapAccepted(h)
           /\ CM!Put(h, protocol[h], [cmCopy[h] EXCEPT ![external[h]] = Key(h)])
        \/ CM!Drop(h)
    BY <1>6 DEF PutMap, WithEntry
  <2>5. QED
    BY <2>1, <2>3, <2>4 DEF MapAccesses, Moves
<1>7. ASSUME NEW h \in Handlers, DelEntryPut(h) PROVE MapAccesses
  <2>1. OwnsPort(h) /\ pc[h] = "delEntryPut"
    BY <1>1, <1>7, AtKeyStep DEF DelEntryPut, PoolSteps
  <2>2. Go(h, "delPortGet") \/ NextCleanup(h)
    BY <1>7 DEF DelEntryPut
  <2>3. pc'[h] # pc[h]
    BY <1>1, <2>1, <2>2, CleanupMoves DEF HandlersOK, LocalTypes, Go
  <2>4. \/ /\ MapAccepted(h)
           /\ CM!Put(h, protocol[h], [cmCopy[h] EXCEPT ![external[h]] = NoKey])
        \/ CM!Drop(h)
    BY <1>7 DEF DelEntryPut
  <2>5. QED
    BY <2>1, <2>3, <2>4 DEF MapAccesses, Moves
<1>8. ASSUME NEW h \in Handlers,
             \/ Receive(h) \/ Validate(h) \/ Advance(h) \/ Lookup(h) \/ Expire(h)
             \/ CreateService(h) \/ LoadCounter(h) \/ StoreCounter(h) \/ GetPorts(h)
             \/ PutPorts(h) \/ CreateIngress(h) \/ Commit(h) \/ DelService(h)
             \/ DelIngress(h) \/ DelPortGet(h) \/ DelPortPut(h) \/ DelRow(h)
             \/ DropRows(h) \/ DropDeployment(h) \/ ListServices(h) \/ DropServices(h)
             \/ DropIngresses(h)
      PROVE  MapAccesses
  <2>1. UNCHANGED cmVars
    BY <1>8
    DEF Receive, Validate, Advance, Lookup, Expire, CreateService, LoadCounter,
        StoreCounter, GetPorts, PutPorts, CreateIngress, Commit, DelService, DelIngress,
        DelPortGet, DelPortPut, DelRow, DropRows, DropDeployment, ListServices,
        DropServices, DropIngresses, clusterVars
  <2>2. QED
    BY <2>1 DEF MapAccesses
<1>9. QED
  BY <1>2, <1>3, <1>4, <1>5, <1>6, <1>7, <1>8 DEF Next, Progress

\* The same for the ports of the ingress-nginx Service.
LEMMA PortsAccessed == IndInv /\ [Next]_vars => PortAccesses
<1> SUFFICES ASSUME IndInv, [Next]_vars PROVE PortAccesses
  OBVIOUS
<1>1. HandlersOK
  BY IndInvParts
<1>2. CASE UNCHANGED vars
  BY <1>2 DEF vars, clusterVars, PortAccesses
<1>3. CASE Restart
  BY <1>3 DEF Restart, PortAccesses
<1>4. ASSUME NEW h \in Handlers, GetPorts(h) \/ DelPortGet(h) PROVE PortAccesses
  <2>1. UNCHANGED lbVars \/ LB!Get(h, "service")
    BY <1>4 DEF GetPorts, DelPortGet
  <2>2. QED
    BY <2>1 DEF PortAccesses
<1>5. ASSUME NEW h \in Handlers, PutPorts(h) PROVE PortAccesses
  <2>1. pc[h] = "putPorts" /\ (Go(h, "commit") \/ UndoPatch(h))
    BY <1>5 DEF PutPorts
  <2>2. pc'[h] # pc[h]
    BY <1>1, <2>1 DEF HandlersOK, LocalTypes, Go, UndoPatch, Perform, Serve
  <2>3. \/ /\ LB!Current(h, "service")
           /\ LB!Put(h, "service", lbCopy[h] \cup {OwnExposure(h)})
        \/ LB!Drop(h)
    BY <1>5 DEF PutPorts
  <2>4. QED
    BY <2>1, <2>2, <2>3 DEF PortAccesses, Moves
<1>6. ASSUME NEW h \in Handlers, DelPortPut(h) PROVE PortAccesses
  <2>1. pc[h] = "delPortPut" /\ NextCleanup(h)
    BY <1>6 DEF DelPortPut
  <2>2. pc'[h] # pc[h]
    BY <1>1, <2>1, CleanupMoves
  <2>3. \/ /\ LB!Current(h, "service")
           /\ LB!Put(h, "service", lbCopy[h] \ {OwnExposure(h)})
        \/ LB!Drop(h)
    BY <1>6 DEF DelPortPut
  <2>4. QED
    BY <2>1, <2>2, <2>3 DEF PortAccesses, Moves
<1>7. ASSUME NEW h \in Handlers,
             \/ Receive(h) \/ Validate(h) \/ Advance(h) \/ Lookup(h) \/ Expire(h)
             \/ CreateService(h) \/ LoadCounter(h) \/ StoreCounter(h) \/ GetMap(h)
             \/ PutMap(h) \/ CreateIngress(h) \/ Commit(h) \/ DelService(h)
             \/ DelIngress(h) \/ DelEntry(h) \/ DelEntryPut(h) \/ DelRow(h)
             \/ DropRows(h) \/ DropDeployment(h) \/ ListServices(h) \/ DropServices(h)
             \/ DropIngresses(h)
      PROVE  PortAccesses
  <2>1. UNCHANGED lbVars
    BY <1>7
    DEF Receive, Validate, Advance, Lookup, Expire, CreateService, LoadCounter,
        StoreCounter, GetMap, PutMap, CreateIngress, Commit, DelService, DelIngress,
        DelEntry, DelEntryPut, DelRow, DropRows, DropDeployment, ListServices,
        DropServices, DropIngresses, clusterVars
  <2>2. QED
    BY <2>1 DEF PortAccesses
<1>8. QED
  BY <1>2, <1>3, <1>4, <1>5, <1>6, <1>7 DEF Next, Progress

\* No access makes a version that is still current stand for other content.
LEMMA FreshStep == IndInv /\ FreshCopies /\ [Next]_vars => FreshCopies'
<1> SUFFICES ASSUME IndInv, FreshCopies, [Next]_vars PROVE FreshCopies'
  OBVIOUS
<1>1. CM!TypeOK(ConfigMap) /\ LB!TypeOK(SUBSET Exposure)
  BY DEF IndInv, TypeOK
<1>2. "none" \notin L4 /\ "none" \notin {"service"} /\ "TCP" \in L4
  BY DEF L4
<1>3. CM!FreshCopy'
  <2>1. MapAccesses /\ CM!FreshCopy
    BY MapsAccessed DEF FreshCopies
  <2>2. CASE UNCHANGED cmVars
    BY <2>1, <2>2 DEF cmVars, CM!FreshCopy
  <2>3. CASE CM!DropAll
    BY <2>3 DEF CM!DropAll, CM!FreshCopy
  <2>4. ASSUME NEW h \in Handlers, CM!Drop(h) PROVE CM!FreshCopy'
    BY <1>1, <1>2, <2>1, <2>4, CM!AccessKeepsFresh
  <2>5. ASSUME NEW h \in Handlers, NEW p \in L4, CM!Get(h, p) PROVE CM!FreshCopy'
    BY <1>1, <1>2, <2>1, <2>5, CM!AccessKeepsFresh
  <2>6. ASSUME NEW h \in Handlers, NEW p \in L4, NEW v, CM!Put(h, p, v)
        PROVE  CM!FreshCopy'
    BY <1>1, <1>2, <2>1, <2>6, CM!AccessKeepsFresh
  <2>7. QED
    BY <2>1, <2>2, <2>3, <2>4, <2>5, <2>6 DEF MapAccesses, OwnsPort
<1>4. LB!FreshCopy'
  <2>1. PortAccesses /\ LB!FreshCopy
    BY PortsAccessed DEF FreshCopies
  <2>2. CASE UNCHANGED lbVars
    BY <2>1, <2>2 DEF lbVars, LB!FreshCopy
  <2>3. CASE LB!DropAll
    BY <2>3 DEF LB!DropAll, LB!FreshCopy
  <2>4. ASSUME NEW h \in Handlers, LB!Drop(h) \/ LB!Get(h, "service") PROVE LB!FreshCopy'
    BY <1>1, <1>2, <2>1, <2>4, LB!AccessKeepsFresh
  <2>5. ASSUME NEW h \in Handlers, NEW v, LB!Put(h, "service", v) PROVE LB!FreshCopy'
    BY <1>1, <1>2, <2>1, <2>5, LB!AccessKeepsFresh
  <2>6. QED
    BY <2>1, <2>2, <2>3, <2>4, <2>5 DEF PortAccesses
<1>5. QED
  BY <1>3, <1>4 DEF FreshCopies

\* A copy with a resourceVersion that is still current is the stored object: an
\* Update that the server accepts is based on what the server holds.
THEOREM CopiesFresh == Spec => []FreshCopies
<1>1. Init => FreshCopies
  BY DEF Init, FreshCopies, CM!Init0, CM!FreshCopy, LB!Init0, LB!FreshCopy
<1>2. QED
  BY <1>1, FreshStep, Inductive, PTL DEF Spec

\* An accepted Update of a ConfigMap changes the entry of its own external port
\* and no other.
LEMMA MapUpdates ==
    ASSUME IndInv, FreshCopies, [Next]_vars,
           NEW p \in L4, NEW e \in ExternalPorts, configMaps'[p][e] # configMaps[p][e]
    PROVE  \E h \in Handlers : /\ Moves(h, {"putMap", "delEntryPut"})
                               /\ protocol[h] = p /\ external[h] = e
<1>1. MapAccesses
  BY MapsAccessed
<1>2. configMaps' # configMaps
  OBVIOUS
<1>3. PICK h \in Handlers, k \in Keys \cup {NoKey} :
         /\ Moves(h, {"putMap", "delEntryPut"}) /\ OwnsPort(h) /\ MapAccepted(h)
         /\ CM!Put(h, protocol[h], [cmCopy[h] EXCEPT ![external[h]] = k])
  BY <1>1, <1>2 DEF MapAccesses, cmVars, CM!DropAll, CM!Drop, CM!Get
<1>4. /\ configMaps \in [L4 -> ConfigMap] /\ cmCopy[h] \in ConfigMap
      /\ protocol[h] \in L4
  BY <1>3 DEF IndInv, TypeOK, CM!TypeOK, OwnsPort
<1>5. cmHeld[h] = protocol[h]
  BY <1>3 DEF MapAccepted, CM!Current
<1>6. cmCopy[h] = configMaps[protocol[h]]
  <2>1. protocol[h] # "none"
    BY <1>4 DEF L4
  <2>2. QED
    BY <1>5, <2>1 DEF FreshCopies, CM!FreshCopy
<1>7. configMaps' = [configMaps EXCEPT ![protocol[h]] =
                       [cmCopy[h] EXCEPT ![external[h]] = k]]
  BY <1>3 DEF CM!Put
<1>8. p = protocol[h] /\ e = external[h]
  BY <1>4, <1>6, <1>7 DEF ConfigMap
<1>9. QED
  BY <1>3, <1>8

\* An accepted Update of the ingress-nginx Service adds or removes its own port
\* and no other.
LEMMA PortUpdates ==
    ASSUME IndInv, FreshCopies, [Next]_vars, NEW x \in Exposure,
           (x \in lbPorts'["service"]) # (x \in lbPorts["service"])
    PROVE  \E h \in Handlers : Moves(h, {"putPorts", "delPortPut"}) /\ OwnExposure(h) = x
<1>1. PortAccesses
  BY PortsAccessed
<1>2. lbPorts' # lbPorts
  OBVIOUS
<1>3. PICK h \in Handlers :
         /\ Moves(h, {"putPorts", "delPortPut"}) /\ LB!Current(h, "service")
         /\ \/ LB!Put(h, "service", lbCopy[h] \cup {OwnExposure(h)})
            \/ LB!Put(h, "service", lbCopy[h] \ {OwnExposure(h)})
  BY <1>1, <1>2 DEF PortAccesses, lbVars, LB!DropAll, LB!Drop, LB!Get
<1>4. lbPorts \in [{"service"} -> SUBSET Exposure]
  BY DEF IndInv, TypeOK, LB!TypeOK
<1>5. lbHeld[h] = "service"
  BY <1>3 DEF LB!Current
<1>6. lbCopy[h] = lbPorts["service"]
  BY <1>5 DEF FreshCopies, LB!FreshCopy
<1>7. \/ lbPorts'["service"] = lbPorts["service"] \cup {OwnExposure(h)}
      \/ lbPorts'["service"] = lbPorts["service"] \ {OwnExposure(h)}
  BY <1>3, <1>4, <1>6 DEF LB!Put
<1>8. x = OwnExposure(h)
  BY <1>7
<1>9. QED
  BY <1>3, <1>8

\* However many handlers patch the shared ConfigMaps and the ingress-nginx Service
\* at once, none undoes another's entry or port: resourceVersion conflicts suffice.
THEOREM LostUpdateFree == Spec => NoLostUpdate
<1> DEFINE Step ==
      /\ \A p \in L4, e \in ExternalPorts :
            configMaps'[p][e] # configMaps[p][e] =>
               \E h \in Handlers : /\ Moves(h, {"putMap", "delEntryPut"})
                                   /\ protocol[h] = p /\ external[h] = e
      /\ \A x \in Exposure :
            (x \in lbPorts'["service"]) # (x \in lbPorts["service"]) =>
               \E h \in Handlers :
                  Moves(h, {"putPorts", "delPortPut"}) /\ OwnExposure(h) = x
<1>1. IndInv /\ FreshCopies /\ [Next]_vars => [Step]_vars
  BY MapUpdates, PortUpdates
<1>2. QED
  BY <1>1, Inductive, CopiesFresh, PTL DEF Spec, NoLostUpdate

=============================================================================
