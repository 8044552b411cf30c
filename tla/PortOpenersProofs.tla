-------------------------- MODULE PortOpenersProofs --------------------------
(***************************************************************************)
(* Proof about the openings of PortExposure: any number of handlers open   *)
(* ports at once, calls fail, deadlines pass and the process is restarted; *)
(* nobody closes ports or deletes instances.                               *)
(***************************************************************************)
EXTENDS PortExposureProofs

OpensOnly == \A r \in Requests : r.op = "open"

BuildSteps == {"loadCounter", "storeCounter", "getMap", "putMap", "getPorts", "putPorts",
               "createIngress", "commit", "delService"}

\* Deletions of a rollback: they spare the row, and delete the Service once.
Undoing(deletions) ==
    /\ \A i \in 1 .. Len(deletions) : deletions[i] # "delRow"
    /\ \A i, j \in 1 .. Len(deletions) :
          deletions[i] = "delService" /\ deletions[j] = "delService" => i = j

DropsService(deletions) == \E i \in 1 .. Len(deletions) : deletions[i] = "delService"

\* What a handler that only opens ports does.
OpenerOK(h) ==
    /\ pc[h] \notin DeleteSteps \cup {"delRow"}
    /\ Undoing(plan[h])
    /\ pc[h] = "delService" => ~DropsService(plan[h])

OpenersInv == IndInv /\ (\A h \in Handlers : OpenerOK(h)) /\ OpenersExclusive
-----------------------------------------------------------------------------
LEMMA BuildingMeans ==
    ASSUME OpensOnly, IndInv, NEW h \in Handlers
    PROVE  Building(h) <=> pc[h] \in BuildSteps \/ DropsService(plan[h])
<1>1. pc[h] # "idle" => req[h].op = "open"
  BY DEF OpensOnly, IndInv, LocalsOK
<1>2. pc[h] \in BuildSteps \/ DropsService(plan[h]) => pc[h] # "idle"
  <2>1. plan[h] = <<>> => ~DropsService(plan[h])
    BY DEF DropsService
  <2>2. pc[h] \in BuildSteps => pc[h] # "idle"
    BY DEF BuildSteps
  <2>3. pc[h] \in KeySteps => pc[h] # "idle"
    BY DEF KeySteps, OpenSteps, CleanupSteps
  <2>4. QED
    BY <2>1, <2>2, <2>3 DEF IndInv, LocalsOK
<1>3. QED
  BY <1>1, <1>2 DEF Building, BuildSteps, DropsService

\* Building at the next step, by the next locals alone.
LEMMA BuildingNext ==
    ASSUME NEW h \in Handlers, Building(h)'
    PROVE  pc'[h] \in BuildSteps \/ DropsService(plan'[h])
BY DEF Building, BuildSteps, DropsService

\* The list of deletions of a rollback is worked off.
LEMMA UndoingStep ==
    ASSUME IndInv, NEW h \in Handlers, NEW deletions \in Plans, Undoing(deletions),
           Perform(h, deletions)
    PROVE  /\ OpenerOK(h)'
           /\ pc'[h] \in BuildSteps \/ DropsService(plan'[h]) => DropsService(deletions)
<1>1. pc \in [Handlers -> Steps] /\ plan \in [Handlers -> Plans]
  BY DEF IndInv, TypeOK
<1>2. CASE deletions = <<>>
  <2>1. pc'[h] = "served" /\ plan'[h] = <<>>
    BY <1>1, <1>2 DEF Perform, Serve
  <2>2. Undoing(<<>>) /\ ~DropsService(<<>>)
    BY DEF Undoing, DropsService
  <2>3. QED
    BY <2>1, <2>2 DEF OpenerOK, DeleteSteps, BuildSteps, Undoing, DropsService
<1>3. CASE deletions # <<>>
  <2>1. pc'[h] = Head(deletions) /\ plan'[h] = Tail(deletions)
    BY <1>1, <1>3 DEF Perform
  <2>2. /\ Head(deletions) = deletions[1] /\ 1 \in 1 .. Len(deletions)
        /\ Head(deletions) \in CleanupSteps
        /\ \A i \in 1 .. Len(Tail(deletions)) :
              Tail(deletions)[i] = deletions[i + 1] /\ i + 1 \in 1 .. Len(deletions) /\ i # 0
    BY <1>3 DEF Plans
  <2>3. Undoing(Tail(deletions))
    <3>1. Len(Tail(deletions)) \in Nat
      BY <1>3 DEF Plans
    <3>2. QED
      BY <2>2, <3>1 DEF Undoing
  <2>4. DropsService(Tail(deletions)) => DropsService(deletions) /\ deletions[1] # "delService"
    <3>1. Len(Tail(deletions)) \in Nat
      BY <1>3 DEF Plans
    <3>2. QED
      BY <2>2, <3>1 DEF Undoing, DropsService
  <2>5. Head(deletions) \in BuildSteps => DropsService(deletions)
    BY <2>2 DEF BuildSteps, CleanupSteps, DropsService
  <2>6. Head(deletions) \notin DeleteSteps \cup {"delRow"}
    BY <2>2 DEF Undoing, CleanupSteps, DeleteSteps
  <2>7. QED
    BY <2>1, <2>2, <2>3, <2>4, <2>5, <2>6 DEF OpenerOK, Undoing, DropsService
<1>4. QED
  BY <1>2, <1>3

LEMMA UndoLists ==
    /\ <<"delService">> \in Plans /\ Undoing(<<"delService">>)
    /\ <<"delEntry", "delService">> \in Plans /\ Undoing(<<"delEntry", "delService">>)
    /\ <<"delService", "delEntry">> \in Plans /\ Undoing(<<"delService", "delEntry">>)
    /\ <<"delService", "delIngress">> \in Plans /\ Undoing(<<"delService", "delIngress">>)
BY DEF Plans, Undoing, CleanupSteps
-----------------------------------------------------------------------------
(* One handler moves.                                                      *)

OthersStay(h) ==
    \A g \in Handlers \ {h} :
        pc'[g] = pc[g] /\ plan'[g] = plan[g] /\ req'[g] = req[g] /\ pos'[g] = pos[g]

\* It takes no key that is taken, and deletes no Service but its own.
LEMMA OneBuilds ==
    ASSUME OpenersInv, NEW h \in Handlers, OthersStay(h), OpenerOK(h)',
           Building(h)' => /\ Key(h)' = Key(h) /\ Key(h) \in services'
                           /\ Building(h) \/ Key(h) \notin services,
           \A k \in services \ services' : Building(h) /\ k = Key(h)
    PROVE  (\A g \in Handlers : OpenerOK(g)') /\ OpenersExclusive'
<1>1. ASSUME NEW g \in Handlers \ {h}
      PROVE  /\ OpenerOK(g)' /\ Key(g)' = Key(g)
             /\ Building(g)' <=> Building(g)
  BY DEF OthersStay, OpenersInv, OpenerOK, Undoing, DropsService, Building, Key, Config
<1>2. ASSUME NEW g \in Handlers, Building(g)' PROVE Key(g)' \in services'
  BY <1>1, <1>2 DEF OpenersInv, OpenersExclusive
<1>3. ASSUME NEW f \in Handlers, NEW g \in Handlers \ {f}, Building(f)', Building(g)'
      PROVE  Key(g)' # Key(f)'
  BY <1>1, <1>3 DEF OpenersInv, OpenersExclusive
<1>4. QED
  BY <1>1, <1>2, <1>3 DEF OpenersExclusive

\* A handler that ends a config, or has not begun it, is not building.
LEMMA RestBuilds ==
    ASSUME OpenersInv, NEW h \in Handlers, OthersStay(h), services \subseteq services',
           pc'[h] \in {"idle", "validate", "lookup", "served", "createService"},
           plan'[h] = <<>>
    PROVE  (\A g \in Handlers : OpenerOK(g)') /\ OpenersExclusive'
<1>1. Undoing(<<>>) /\ ~DropsService(<<>>)
  BY DEF Undoing, DropsService
<1>2. OpenerOK(h)'
  BY <1>1 DEF OpenerOK, DeleteSteps, Undoing, DropsService
<1>3. ~Building(h)'
  BY <1>1, BuildingNext DEF BuildSteps
<1>4. QED
  BY <1>2, <1>3, OneBuilds

\* A rollback deletes the Service it has created, and only it.
LEMMA UndoBuilds ==
    ASSUME OpensOnly, OpenersInv, NEW h \in Handlers,
           NEW deletions \in Plans, Undoing(deletions), Perform(h, deletions),
           Building(h),
           \/ services \subseteq services'
           \/ services' = services \ {Key(h)} /\ ~DropsService(deletions)
    PROVE  (\A g \in Handlers : OpenerOK(g)') /\ OpenersExclusive'
<1>1. OthersStay(h) /\ req' = req /\ pos' = pos
  BY DEF Perform, Serve, jobVars, OthersStay, OpenersInv, IndInv, TypeOK
<1>2. OpenerOK(h)' /\ (Building(h)' => DropsService(deletions))
  BY UndoingStep, BuildingNext DEF OpenersInv
<1>3. Key(h) \in services /\ Key(h)' = Key(h)
  BY <1>1 DEF OpenersInv, OpenersExclusive, Key, Config
<1>4. QED
  BY <1>1, <1>2, <1>3, OneBuilds

\* Deleting what is not a Service goes on with the plan.
LEMMA CleanupBuilds ==
    ASSUME OpensOnly, OpenersInv, NEW h \in Handlers, NextCleanup(h), services' = services
    PROVE  (\A g \in Handlers : OpenerOK(g)') /\ OpenersExclusive'
<1>1. plan[h] \in Plans /\ Undoing(plan[h])
  BY DEF OpenersInv, OpenerOK, IndInv, TypeOK
<1>2. OthersStay(h) /\ req' = req /\ pos' = pos
  BY DEF NextCleanup, Perform, Serve, jobVars, OthersStay, OpenersInv, IndInv, TypeOK
<1>3. OpenerOK(h)' /\ (Building(h)' => DropsService(plan[h]))
  BY <1>1, UndoingStep, BuildingNext DEF OpenersInv, NextCleanup
<1>4. Building(h)' => Building(h)
  BY <1>3, BuildingMeans DEF OpenersInv
<1>5. Key(h)' = Key(h)
  BY <1>2 DEF Key, Config
<1>6. Building(h) => Key(h) \in services
  BY DEF OpenersInv, OpenersExclusive
<1>7. QED
  BY <1>2, <1>3, <1>4, <1>5, <1>6, OneBuilds

\* Going on with an opening or a rollback.
LEMMA GoBuilds ==
    ASSUME OpensOnly, OpenersInv, NEW h \in Handlers, NEW step, Go(h, step),
           services \subseteq services',
           step \notin DeleteSteps \cup {"delRow", "delService"},
           step \in BuildSteps \/ DropsService(plan[h]) =>
              /\ Key(h) \in services'
              /\ Building(h) \/ Key(h) \notin services
    PROVE  (\A g \in Handlers : OpenerOK(g)') /\ OpenersExclusive'
<1>1. /\ OthersStay(h) /\ req' = req /\ pos' = pos
      /\ pc'[h] = step /\ plan' = plan
  BY DEF Go, jobVars, OthersStay, OpenersInv, IndInv, TypeOK
<1>2. OpenerOK(h)'
  BY <1>1 DEF OpenerOK, OpenersInv, Undoing, DropsService
<1>3. Building(h)' => step \in BuildSteps \/ DropsService(plan[h])
  BY <1>1, BuildingNext DEF DropsService
<1>4. Key(h)' = Key(h)
  BY <1>1 DEF Key, Config
<1>5. QED
  BY <1>1, <1>2, <1>3, <1>4, OneBuilds
-----------------------------------------------------------------------------
(* The steps of an opening.                                                *)

\* A handler that is not at a step with a key has nothing to delete.
LEMMA NothingPlanned ==
    ASSUME IndInv, NEW h \in Handlers, pc[h] \in {"idle", "validate", "lookup", "served"}
    PROVE  plan[h] = <<>>
BY DEF IndInv, LocalsOK, KeySteps, OpenSteps, CleanupSteps

LEMMA BeginsBuild ==
    ASSUME OpensOnly, OpenersInv, NEW h \in Handlers,
           Receive(h) \/ Validate(h) \/ Advance(h) \/ Lookup(h)
    PROVE  (\A g \in Handlers : OpenerOK(g)') /\ OpenersExclusive'
<1>1. plan[h] = <<>> /\ services' = services
  BY NothingPlanned DEF OpenersInv, Receive, Validate, Advance, Lookup, clusterVars
<1>2. pc \in [Handlers -> Steps] /\ plan \in [Handlers -> Plans]
      /\ req \in [Handlers -> MaybeRequest] /\ pos \in [Handlers -> Nat]
  BY DEF OpenersInv, IndInv, TypeOK
<1>3. CASE Receive(h)
  <2>1. OthersStay(h)
    BY <1>2, <1>3 DEF Receive, OthersStay
  <2>2. pc'[h] \in {"validate", "lookup"} /\ plan' = plan
    BY <1>2, <1>3 DEF Receive
  <2>3. QED
    BY <1>1, <2>1, <2>2, RestBuilds
<1>4. CASE Validate(h)
  <2>1. OthersStay(h)
    BY <1>2, <1>4 DEF Validate, Serve, jobVars, OthersStay
  <2>2. pc'[h] \in {"lookup", "served"} /\ plan'[h] = <<>>
    BY <1>1, <1>2, <1>4 DEF Validate, Serve
  <2>3. QED
    BY <1>1, <2>1, <2>2, RestBuilds
<1>5. CASE Advance(h)
  <2>1. OthersStay(h)
    BY <1>2, <1>5 DEF Advance, OthersStay
  <2>2. pc'[h] \in {"validate", "idle"} /\ plan' = plan
    BY <1>2, <1>5 DEF Advance
  <2>3. QED
    BY <1>1, <2>1, <2>2, RestBuilds
<1>6. CASE Lookup(h)
  <2>1. req[h].op = "open"
    BY <1>6 DEF Lookup, OpensOnly, OpenersInv, IndInv, LocalsOK
  <2>2. \/ \E outcome \in Answers : Serve(h, outcome)
        \/ Go(h, "createService")
    BY <1>6, <2>1 DEF Lookup, Answers
  <2>3. OthersStay(h)
    BY <1>2, <2>2 DEF Serve, Go, jobVars, OthersStay
  <2>4. pc'[h] \in {"served", "createService"} /\ plan'[h] = <<>>
    BY <1>1, <1>2, <2>2 DEF Serve, Go
  <2>5. QED
    BY <1>1, <2>3, <2>4, RestBuilds
<1>7. QED
  BY <1>3, <1>4, <1>5, <1>6

\* A Service that exists keeps other openers of its port out.
LEMMA CreatesService ==
    ASSUME OpensOnly, OpenersInv, NEW h \in Handlers, CreateService(h)
    PROVE  (\A g \in Handlers : OpenerOK(g)') /\ OpenersExclusive'
<1>1. PICK o \in Outcomes :
         /\ services' = IF o = "refused" THEN services ELSE services \cup {Key(h)}
         /\ IF Created(h, o)
            THEN Go(h, IF protocol[h] \in L4 THEN "loadCounter" ELSE "createIngress")
            ELSE Serve(h, "failure")
  BY DEF CreateService
<1>2. CASE Created(h, o)
  <2>1. Key(h) \in services' /\ Key(h) \notin services /\ services \subseteq services'
    BY <1>1, <1>2 DEF Created
  <2>2. {"loadCounter", "createIngress"} \cap (DeleteSteps \cup {"delRow", "delService"}) = {}
    BY DEF DeleteSteps
  <2>3. QED
    BY <1>1, <1>2, <2>1, <2>2, GoBuilds
<1>3. CASE ~Created(h, o)
  <2>1. pc'[h] = "served" /\ plan'[h] = <<>> /\ OthersStay(h)
    BY <1>1, <1>3 DEF Serve, jobVars, OthersStay, OpenersInv, IndInv, TypeOK
  <2>2. QED
    BY <1>1, <2>1, RestBuilds
<1>4. QED
  BY <1>2, <1>3

\* The steps between the Service and the row: each goes on, ends, or rolls back.
LEMMA KeepsBuilding ==
    ASSUME OpensOnly, OpenersInv, NEW h \in Handlers, services' = services,
           pc[h] \in BuildSteps,
           \/ \E step \in BuildSteps \ {"delService"} : Go(h, step)
           \/ \E outcome \in Answers : Serve(h, outcome)
           \/ \E deletions \in Plans : Undoing(deletions) /\ Perform(h, deletions)
    PROVE  (\A g \in Handlers : OpenerOK(g)') /\ OpenersExclusive'
<1>1. Building(h) /\ Key(h) \in services
  BY BuildingMeans DEF OpenersInv, OpenersExclusive
<1>2. CASE \E step \in BuildSteps \ {"delService"} : Go(h, step)
  <2>1. (BuildSteps \ {"delService"}) \cap (DeleteSteps \cup {"delRow", "delService"}) = {}
    BY DEF BuildSteps, DeleteSteps
  <2>2. QED
    BY <1>1, <1>2, <2>1, GoBuilds
<1>3. CASE \E outcome \in Answers : Serve(h, outcome)
  <2>1. pc'[h] = "served" /\ plan'[h] = <<>> /\ OthersStay(h)
    BY <1>3 DEF Serve, jobVars, OthersStay, OpenersInv, IndInv, TypeOK
  <2>2. QED
    BY <2>1, RestBuilds
<1>4. CASE \E deletions \in Plans : Undoing(deletions) /\ Perform(h, deletions)
  BY <1>1, <1>4, UndoBuilds
<1>5. QED
  BY <1>2, <1>3, <1>4

LEMMA LoadsCounter ==
    ASSUME OpensOnly, OpenersInv, NEW h \in Handlers, LoadCounter(h)
    PROVE  (\A g \in Handlers : OpenerOK(g)') /\ OpenersExclusive'
<1>1. pc[h] = "loadCounter" /\ services' = services /\ pc[h] \in BuildSteps
  BY DEF LoadCounter, clusterVars, BuildSteps
<1>2. CASE UndoAllocate(h)
  BY <1>1, <1>2, UndoLists, KeepsBuilding DEF UndoAllocate
<1>3. CASE /\ pc' = [pc EXCEPT ![h] = "storeCounter"] /\ UNCHANGED <<req, pos, plan>>
  <2>1. /\ OthersStay(h) /\ pc'[h] = "storeCounter"
        /\ Building(h) /\ Key(h) \in services /\ Key(h)' = Key(h)
    BY <1>1, <1>3, BuildingMeans
       DEF OthersStay, OpenersInv, OpenersExclusive, IndInv, TypeOK, Key, Config
  <2>2. OpenerOK(h)'
    BY <1>3, <2>1 DEF OpenerOK, OpenersInv, DeleteSteps, Undoing, DropsService
  <2>3. QED
    BY <1>1, <2>1, <2>2, OneBuilds
<1>4. QED
  BY <1>2, <1>3 DEF LoadCounter

LEMMA Patches ==
    ASSUME OpensOnly, OpenersInv, NEW h \in Handlers,
           \/ StoreCounter(h) \/ GetMap(h) \/ PutMap(h) \/ GetPorts(h) \/ PutPorts(h)
           \/ CreateIngress(h) \/ Commit(h)
    PROVE  (\A g \in Handlers : OpenerOK(g)') /\ OpenersExclusive'
<1>1. services' = services
  BY DEF StoreCounter, GetMap, PutMap, GetPorts, PutPorts, CreateIngress, Commit,
         clusterVars
<1>2. pc[h] \in BuildSteps
  BY DEF StoreCounter, GetMap, PutMap, GetPorts, PutPorts, CreateIngress, Commit,
         BuildSteps
<1>3. \/ \E step \in {"getMap", "putMap", "getPorts", "putPorts", "commit"} : Go(h, step)
      \/ Serve(h, "success")
      \/ Perform(h, <<"delService">>)
      \/ Perform(h, <<"delEntry", "delService">>)
      \/ Perform(h, <<"delService", "delEntry">>)
      \/ Perform(h, <<"delService", "delIngress">>)
  BY DEF StoreCounter, GetMap, PutMap, GetPorts, PutPorts, CreateIngress, Commit, UndoPatch
<1>4. {"getMap", "putMap", "getPorts", "putPorts", "commit"} \subseteq
         BuildSteps \ {"delService"} /\ "success" \in Answers
  BY DEF BuildSteps, Answers
<1>5. QED
  BY <1>1, <1>2, <1>3, <1>4, UndoLists, KeepsBuilding

LEMMA DeletesService ==
    ASSUME OpensOnly, OpenersInv, NEW h \in Handlers, DelService(h)
    PROVE  (\A g \in Handlers : OpenerOK(g)') /\ OpenersExclusive'
<1>1. pc[h] \in BuildSteps /\ plan[h] \in Plans /\ Undoing(plan[h])
      /\ ~DropsService(plan[h])
  BY DEF DelService, BuildSteps, OpenersInv, OpenerOK, IndInv, TypeOK
<1>2. Building(h) /\ Perform(h, plan[h])
  BY <1>1, BuildingMeans DEF OpenersInv, DelService, NextCleanup
<1>3. services \subseteq services' \/ services' = services \ {Key(h)}
  BY DEF DelService
<1>4. QED
  BY <1>1, <1>2, <1>3, UndoBuilds

LEMMA OtherCleanups ==
    ASSUME OpensOnly, OpenersInv, NEW h \in Handlers,
           DelIngress(h) \/ DelEntry(h) \/ DelEntryPut(h) \/ DelPortGet(h) \/ DelPortPut(h)
    PROVE  (\A g \in Handlers : OpenerOK(g)') /\ OpenersExclusive'
<1>1. services' = services
  BY DEF DelIngress, DelEntry, DelEntryPut, DelPortGet, DelPortPut
<1>2. CASE NextCleanup(h)
  BY <1>1, <1>2, CleanupBuilds
<1>3. ASSUME NEW step \in {"delEntryPut", "delPortGet", "delPortPut"}, Go(h, step)
      PROVE  (\A g \in Handlers : OpenerOK(g)') /\ OpenersExclusive'
  <2>1. step \notin DeleteSteps \cup {"delRow", "delService"} /\ step \notin BuildSteps
    BY DEF DeleteSteps, BuildSteps
  <2>2. DropsService(plan[h]) => Building(h) /\ Key(h) \in services
    BY BuildingMeans DEF OpenersInv, OpenersExclusive
  <2>3. QED
    BY <1>1, <1>3, <2>1, <2>2, GoBuilds
<1>4. QED
  BY <1>2, <1>3 DEF DelIngress, DelEntry, DelEntryPut, DelPortGet, DelPortPut

LEMMA OpenersNext ==
    ASSUME OpensOnly
    PROVE  OpenersInv /\ IndInv' /\ [Next]_vars => OpenersInv'
<1> SUFFICES ASSUME OpenersInv, [Next]_vars
             PROVE  (\A g \in Handlers : OpenerOK(g)') /\ OpenersExclusive'
  BY DEF OpenersInv
<1>1. ASSUME NEW h \in Handlers, Progress(h)
      PROVE  (\A g \in Handlers : OpenerOK(g)') /\ OpenersExclusive'
  <2>1. ~(DelRow(h) \/ DropRows(h) \/ DropDeployment(h) \/ ListServices(h)
            \/ DropServices(h) \/ DropIngresses(h))
    BY DEF OpenersInv, OpenerOK, DeleteSteps, DelRow, DropRows, DropDeployment,
           ListServices, DropServices, DropIngresses
  <2>2. QED
    BY <1>1, <2>1, BeginsBuild, CreatesService, LoadsCounter, Patches, DeletesService,
       OtherCleanups DEF Progress
<1>2. CASE UNCHANGED <<pc, plan, req, pos, services>>
  BY <1>2 DEF OpenersInv, OpenerOK, Undoing, DropsService, OpenersExclusive, Building, Key,
              Config
<1>3. CASE \E h \in Handlers : Receive(h)
  BY <1>3, BeginsBuild
<1>4. CASE \E h \in Handlers : Expire(h)
  BY <1>2, <1>4 DEF Expire, clusterVars
<1>5. CASE Restart
  <2>1. \A h \in Handlers : pc'[h] = "idle" /\ plan'[h] = <<>>
    BY <1>5 DEF Restart
  <2>2. Undoing(<<>>) /\ ~DropsService(<<>>)
    BY DEF Undoing, DropsService
  <2>3. \A h \in Handlers : OpenerOK(h)'
    BY <2>1, <2>2 DEF OpenerOK, DeleteSteps, Undoing, DropsService
  <2>4. \A h \in Handlers : ~Building(h)'
    BY <2>1, <2>2, BuildingNext DEF BuildSteps
  <2>5. QED
    BY <2>3, <2>4 DEF OpenersExclusive
<1>6. CASE UNCHANGED vars
  BY <1>2, <1>6 DEF vars, handlerVars, jobVars, clusterVars
<1>7. QED
  BY <1>1, <1>3, <1>4, <1>5, <1>6 DEF Next

LEMMA OpenersInit ==
    ASSUME Init
    PROVE  (\A h \in Handlers : OpenerOK(h)) /\ OpenersExclusive
<1>1. \A h \in Handlers : pc[h] = "idle" /\ plan[h] = <<>>
  BY DEF Init
<1>2. Undoing(<<>>) /\ ~DropsService(<<>>)
  BY DEF Undoing, DropsService
<1>3. \A h \in Handlers : OpenerOK(h)
  BY <1>1, <1>2 DEF OpenerOK, DeleteSteps
<1>4. \A h \in Handlers : ~Building(h)
  <2>1. \A h \in Handlers : ~DropsService(plan[h]) /\ pc[h] \notin BuildSteps
    BY <1>1, <1>2 DEF BuildSteps
  <2>2. QED
    BY <2>1 DEF Building, BuildSteps, DropsService
<1>5. QED
  BY <1>3, <1>4 DEF OpenersExclusive

\* While ports are only opened, the Service that an opener has created keeps every other
\* opener of the port out until the row is in or the Service rolled back: no row and no
\* entry of the port is written by two handlers, whatever fails.
THEOREM OpenersApart ==
    ASSUME OpensOnly
    PROVE  Spec => []OpenersExclusive
<1>1. Init /\ IndInv => OpenersInv
  BY OpenersInit DEF OpenersInv
<1>2. OpenersInv /\ IndInv' /\ [Next]_vars => OpenersInv'
  BY OpenersNext
<1>3. OpenersInv => OpenersExclusive
  BY DEF OpenersInv
<1>4. QED
  BY <1>1, <1>2, <1>3, Inductive, PTL DEF Spec
=============================================================================
