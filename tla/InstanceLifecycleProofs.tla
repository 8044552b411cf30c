----------------------- MODULE InstanceLifecycleProofs -----------------------
(***************************************************************************)
(* Proofs about InstanceLifecycle, for any number of handlers, instances,  *)
(* messages, faults and outages.                                           *)
(***************************************************************************)
EXTENDS InstanceLifecycle, TLAPS

Provisioning == {"insert", "getNamespace", "createNamespace", "createDeployment", "audit"}

\* What each step of the consumer knows about the message in its hands.
ConsumerOK ==
    /\ inHand = NoMessage <=> consumer \in {"waiting"} \cup Stopped
    /\ consumer \in Provisioning => Event[inHand].kind = "created"
    /\ consumer \in {"getNamespace", "createNamespace", "createDeployment"} =>
          Instance(inHand) \in rows /\ deployment[Instance(inHand)] = Never
    /\ consumer = "createDeployment" => UserOf[Instance(inHand)] \in namespaces
    /\ consumer = "audit" => deployment[Instance(inHand)] # Never
    /\ consumer = "ack" /\ Event[inHand].kind = "created" => Instance(inHand) \in rows
    /\ consumer = "drop" => Event[inHand].kind = "invalid"

\* What a handler knows about its request and about the Deployment it has read.
HandlersOK ==
    \A h \in Handlers :
        /\ pc[h] # "idle" => req[h] \in Requests
        /\ pc[h] \in {"putScale", "putSpec"} => dpCopy[h] \in Up

IndInv ==
    /\ TypeOK
    /\ ConsumerOK
    /\ HandlersOK
    /\ StagesInOrder
    /\ OnlyInvalidDropped
    /\ DP!FreshCopy
-----------------------------------------------------------------------------
(* How the Deployments change.                                             *)

Creates ==
    /\ consumer = "createDeployment" /\ consumer' # consumer
    /\ deployment' = [deployment EXCEPT ![Instance(inHand)] =
                        [state |-> "up", replicas |-> 1, image |-> Event[inHand].image]]

Scales(h) ==
    /\ pc[h] = "putScale" /\ pc'[h] = "idle"
    /\ deployment[Target(h)] \in Up
    /\ \E n \in {0, 1} :
          deployment' = [deployment EXCEPT ![Target(h)].replicas = n]

Reimages(h) ==
    /\ pc[h] = "putSpec" /\ pc'[h] = "idle"
    /\ deployment[Target(h)] \in Up
    /\ \E a \in Images : deployment' = [deployment EXCEPT ![Target(h)].image = a]

Removes(h) ==
    /\ deployment[Target(h)] \in Up
    /\ deployment' = [deployment EXCEPT ![Target(h)] = Gone]

Handled(h) == Target(h) \in Instances /\ (Scales(h) \/ Reimages(h) \/ Removes(h))

\* A failed call sends the message back.
LEMMA FailureRequeues == Failed("transient") = "requeue" /\ Failed("exists") = "requeue"
BY DEF Failed, Retryable

\* A message has the instance and the image of an event.
LEMMA MessagesTyped ==
    \A m \in Messages : Instance(m) \in Instances /\ Event[m].image \in Images
                        /\ Event[m].kind \in Kinds
BY EventAssumption DEF Events, Instance

\* What a handler that is not idle works on.
LEMMA TargetTyped ==
    ASSUME IndInv, NEW h \in Handlers, pc[h] # "idle"
    PROVE  /\ Target(h) \in Instances
           /\ req[h].image \in Images \cup {""}
           /\ req[h].op \in {"stop", "start", "update", "delete"}
BY LifecycleRequests DEF IndInv, HandlersOK, Target, Request

\* A Deployment that is up has replicas and an image.
LEMMA UpTyped ==
    ASSUME NEW d \in Deployments
    PROVE  d.state = "up" <=> d \in Up
<1>1. ASSUME d \in {Never, Gone} PROVE d.state # "up"
  <2>1. Never.state = "never" /\ Gone.state = "gone"
    BY DEF Never, Gone
  <2>2. QED
    BY <1>1, <2>1
<1>2. ASSUME d \in Up PROVE d.state = "up"
  BY <1>2 DEF Up
<1>3. QED
  BY <1>1, <1>2 DEF Deployments

\* An accepted Update is based on the Deployment as it is.
LEMMA PutFresh ==
    ASSUME IndInv, NEW h \in Handlers, pc[h] \in {"putScale", "putSpec"}, Accepted(h)
    PROVE  deployment[Target(h)] = dpCopy[h] /\ dpCopy[h] \in Up
<1>1. Target(h) \in Instances
  BY TargetTyped
<1>2. dpHeld[h] = Target(h) /\ Target(h) # 0
  BY <1>1, LifecycleInstances DEF Accepted, DP!Current
<1>3. QED
  BY <1>2 DEF IndInv, DP!FreshCopy, HandlersOK

LEMMA ScaleChanges ==
    ASSUME IndInv, NEW h \in Handlers, PutScale(h)
    PROVE  deployment' = deployment \/ Handled(h)
<1>1. pc[h] = "putScale" /\ pc \in [Handlers -> HandlerSteps]
  BY DEF PutScale, PutDeployment, Step, IndInv, TypeOK
<1>2. pc'[h] = "idle"
  BY <1>1 DEF PutScale, PutDeployment, Reply
<1>3. Target(h) \in Instances
  BY <1>1, TargetTyped
<1> DEFINE n == IF req[h].op = "start" THEN 1 ELSE 0
<1>4. CASE Accepted(h) /\ DP!Put(h, Target(h), [dpCopy[h] EXCEPT !.replicas = n])
  <2>1. deployment[Target(h)] = dpCopy[h] /\ dpCopy[h] \in Up
    BY <1>1, <1>4, PutFresh
  <2>2. deployment' = [deployment EXCEPT ![Target(h)].replicas = n]
    BY <1>4, <2>1 DEF DP!Put
  <2>3. QED
    BY <1>1, <1>2, <1>3, <2>1, <2>2 DEF Handled, Scales
<1>5. CASE DP!Drop(h)
  BY <1>5 DEF DP!Drop
<1>6. QED
  BY <1>4, <1>5 DEF PutScale, PutDeployment

LEMMA ReimageChanges ==
    ASSUME IndInv, NEW h \in Handlers, PutSpec(h)
    PROVE  deployment' = deployment \/ Handled(h)
<1>1. pc[h] = "putSpec" /\ pc \in [Handlers -> HandlerSteps]
  BY DEF PutSpec, PutDeployment, Step, IndInv, TypeOK
<1>2. pc'[h] = "idle"
  BY <1>1 DEF PutSpec, PutDeployment, Reply
<1>3. Target(h) \in Instances /\ req[h].image \in Images \cup {""}
  BY <1>1, TargetTyped
<1> DEFINE v == [dpCopy[h] EXCEPT !.image = IF req[h].image = "" THEN @ ELSE req[h].image]
<1>4. CASE Accepted(h) /\ DP!Put(h, Target(h), v)
  <2>1. deployment[Target(h)] = dpCopy[h] /\ dpCopy[h] \in Up
    BY <1>1, <1>4, PutFresh
  <2> DEFINE a == IF req[h].image = "" THEN dpCopy[h].image ELSE req[h].image
  <2>2. a \in Images
    BY <1>3, <2>1 DEF Up
  <2>3. deployment' = [deployment EXCEPT ![Target(h)].image = a]
    BY <1>4, <2>1 DEF DP!Put
  <2> HIDE DEF a
  <2>4. QED
    BY <1>1, <1>2, <1>3, <2>1, <2>2, <2>3 DEF Handled, Reimages
<1>5. CASE DP!Drop(h)
  BY <1>5 DEF DP!Drop
<1>6. QED
  BY <1>4, <1>5 DEF PutSpec, PutDeployment

LEMMA RemoveChanges ==
    ASSUME IndInv, NEW h \in Handlers, Remove(h)
    PROVE  deployment' = deployment \/ Handled(h)
<1>1. Target(h) \in Instances
  BY TargetTyped DEF Remove, Step
<1>2. CASE UNCHANGED dpVars
  BY <1>2 DEF dpVars
<1>3. CASE Exists(Target(h)) /\ DP!Overwrite(Target(h), Gone)
  <2>1. deployment[Target(h)] \in Deployments
    BY <1>1 DEF IndInv, TypeOK, DP!TypeOK
  <2>2. QED
    BY <1>1, <1>3, <2>1, UpTyped DEF Exists, DP!Overwrite, Handled, Removes
<1>4. QED
  BY <1>2, <1>3 DEF Remove

\* A Deployment is created by the consumer and then only scaled, given another
\* image, or deleted, one at a time; and no step but InsertRow adds a row.
LEMMA DeploymentSteps ==
    ASSUME IndInv, [Next]_vars
    PROVE  \/ deployment' = deployment /\ rows' = rows
           \/ deployment' = deployment /\ InsertRow
           \/ Creates /\ rows' = rows
           \/ rows' = rows /\ \E h \in Handlers : Handled(h)
<1>1. CASE \E m \in Messages : Publish(m)
  BY <1>1 DEF Publish, storeVars, dpVars
<1>2. CASE Consuming
  <2>1. CASE Deliver \/ Settle \/ LoopEnds
    BY <2>1 DEF Deliver, Settle, LoopEnds, storeVars, dpVars
  <2>2. CASE InsertRow
    BY <2>2 DEF InsertRow, dpVars
  <2>3. CASE GetNamespace \/ CreateNamespace \/ Audit
    BY <2>3 DEF GetNamespace, CreateNamespace, Audit, storeVars, dpVars
  <2>4. CASE CreateDeployment
    <3>1. consumer = "createDeployment" /\ rows' = rows
      BY <2>4 DEF CreateDeployment, storeVars
    <3>2. consumer' \in {"audit", "requeue"}
      BY <2>4, FailureRequeues DEF CreateDeployment, Proceed, Outcomes
    <3>3. QED
      BY <2>4, <3>1, <3>2 DEF CreateDeployment, DP!Overwrite, dpVars, Creates
  <2>5. QED
    BY <1>2, <2>1, <2>2, <2>3, <2>4 DEF Consuming
<1>3. ASSUME NEW h \in Handlers, Receive(h) \/ Serving(h)
      PROVE  rows' = rows /\ (deployment' = deployment \/ Handled(h))
  <2>1. CASE Receive(h)
    BY <2>1 DEF Receive, storeVars, dpVars
  <2>2. CASE Find(h)
    BY <2>2 DEF Find, Step, storeVars, dpVars
  <2>3. CASE GetScale(h) \/ GetSpec(h)
    BY <2>3 DEF GetScale, GetSpec, GetDeployment, Step, storeVars, dpVars, DP!Get
  <2>4. CASE PutScale(h)
    BY <2>4, ScaleChanges DEF PutScale, PutDeployment, Step, storeVars
  <2>5. CASE PutSpec(h)
    BY <2>5, ReimageChanges DEF PutSpec, PutDeployment, Step, storeVars
  <2>6. CASE Remove(h)
    BY <2>6, RemoveChanges DEF Remove, Step, storeVars
  <2>7. QED
    BY <1>3, <2>1, <2>2, <2>3, <2>4, <2>5, <2>6 DEF Serving
<1>4. CASE LoseChannel \/ Crash \/ Stop
  BY <1>4 DEF LoseChannel, Crash, Stop, storeVars, dpVars
<1>5. CASE StartProcess
  BY <1>5 DEF StartProcess, DP!DropAll, storeVars
<1>6. CASE UNCHANGED vars
  BY <1>6 DEF vars, storeVars, dpVars
<1>7. QED
  BY <1>1, <1>2, <1>3, <1>4, <1>5, <1>6 DEF Next
-----------------------------------------------------------------------------
(* The Deployments as the handlers access them.                            *)

DpAccessed ==
    \/ UNCHANGED dpVars \/ DP!DropAll
    \/ \E h \in Handlers, i \in Instances, v \in Deployments :
          DP!Get(h, i) \/ DP!Put(h, i, v) \/ DP!Drop(h)
    \/ \E i \in Instances, v \in Deployments : DP!Overwrite(i, v)

\* What an Update writes back is a Deployment.
LEMMA WrittenTyped ==
    ASSUME IndInv, NEW h \in Handlers, PutScale(h) \/ PutSpec(h)
    PROVE  DpAccessed
<1>1. pc[h] \in {"putScale", "putSpec"}
  BY DEF PutScale, PutSpec, PutDeployment, Step
<1>2. Target(h) \in Instances /\ req[h].image \in Images \cup {""} /\ dpCopy[h] \in Up
  BY <1>1, TargetTyped DEF IndInv, HandlersOK
<1>3. \A n \in {0, 1} : [dpCopy[h] EXCEPT !.replicas = n] \in Deployments
  BY <1>2 DEF Up, Deployments
<1>4. [dpCopy[h] EXCEPT !.image = IF req[h].image = "" THEN @ ELSE req[h].image]
         \in Deployments
  BY <1>2 DEF Up, Deployments
<1>5. CASE DP!Drop(h)
  BY <1>2, <1>3, <1>5 DEF DpAccessed
<1>6. CASE DP!Put(h, Target(h), [dpCopy[h] EXCEPT !.replicas =
                                   IF req[h].op = "start" THEN 1 ELSE 0])
  BY <1>2, <1>3, <1>6 DEF DpAccessed
<1>7. CASE DP!Put(h, Target(h), [dpCopy[h] EXCEPT !.image =
                                   IF req[h].image = "" THEN @ ELSE req[h].image])
  BY <1>2, <1>4, <1>7 DEF DpAccessed
<1>8. QED
  BY <1>5, <1>6, <1>7 DEF PutScale, PutSpec, PutDeployment

\* The consumer creates a Deployment for the message in its hands.
LEMMA CreationTyped ==
    ASSUME IndInv, CreateDeployment
    PROVE  DpAccessed
<1>1. inHand \in Messages
  BY DEF CreateDeployment, IndInv, TypeOK, MaybeMessage, ConsumerOK, Stopped
<1>2. Instance(inHand) \in Instances /\ Event[inHand].image \in Images
  BY <1>1, MessagesTyped
<1>3. [state |-> "up", replicas |-> 1, image |-> Event[inHand].image] \in Deployments
  BY <1>2 DEF Up, Deployments
<1>4. QED
  BY <1>2, <1>3 DEF CreateDeployment, DpAccessed

LEMMA DeploymentsAccessed ==
    ASSUME IndInv, [Next]_vars
    PROVE  DpAccessed
<1>1. CASE \E m \in Messages : Publish(m)
  BY <1>1 DEF Publish, DpAccessed
<1>2. CASE Consuming
  BY <1>2, CreationTyped
     DEF Consuming, Deliver, InsertRow, GetNamespace, CreateNamespace, Audit, Settle,
         LoopEnds, DpAccessed
<1>3. ASSUME NEW h \in Handlers, Receive(h) \/ Serving(h) PROVE DpAccessed
  <2>1. CASE Receive(h) \/ Find(h)
    BY <2>1 DEF Receive, Find, DpAccessed
  <2>2. CASE GetScale(h) \/ GetSpec(h)
    <3>1. CASE UNCHANGED dpVars
      BY <3>1 DEF DpAccessed
    <3>2. CASE DP!Get(h, Target(h))
      <4>1. Target(h) \in Instances
        BY <2>2, TargetTyped DEF GetScale, GetSpec, GetDeployment, Step
      <4>2. Never \in Deployments
        BY DEF Deployments
      <4>3. QED
        BY <3>2, <4>1, <4>2 DEF DpAccessed
    <3>3. QED
      BY <2>2, <3>1, <3>2 DEF GetScale, GetSpec, GetDeployment
  <2>3. CASE PutScale(h) \/ PutSpec(h)
    BY <2>3, WrittenTyped
  <2>4. CASE Remove(h)
    <3>1. Target(h) \in Instances /\ Gone \in Deployments
      BY <2>4, TargetTyped DEF Remove, Step, Deployments
    <3>2. QED
      BY <2>4, <3>1 DEF Remove, DpAccessed
  <2>5. QED
    BY <1>3, <2>1, <2>2, <2>3, <2>4 DEF Serving
<1>4. CASE LoseChannel \/ Crash \/ Stop
  BY <1>4 DEF LoseChannel, Crash, Stop, DpAccessed
<1>5. CASE StartProcess
  BY <1>5 DEF StartProcess, DpAccessed
<1>6. CASE UNCHANGED vars
  BY <1>6 DEF vars, DpAccessed
<1>7. QED
  BY <1>1, <1>2, <1>3, <1>4, <1>5, <1>6 DEF Next

\* The Deployments stay Deployments, and a version that is current belongs to a copy
\* equal to the Deployment.
LEMMA DeploymentsKept ==
    ASSUME IndInv, [Next]_vars
    PROVE  DP!TypeOK(Deployments)' /\ DP!FreshCopy'
<1>1. DP!TypeOK(Deployments) /\ DP!FreshCopy /\ 0 \notin Instances
  BY LifecycleInstances DEF IndInv, TypeOK
<1>2. Never \in Deployments
  BY DEF Deployments
<1>3. CASE UNCHANGED dpVars
  BY <1>1, <1>3 DEF dpVars, DP!TypeOK, DP!FreshCopy
<1>4. CASE DP!DropAll
  BY <1>1, <1>2, <1>4 DEF DP!DropAll, DP!TypeOK, DP!FreshCopy
<1>5. ASSUME NEW h \in Handlers, NEW i \in Instances, NEW v \in Deployments,
             DP!Get(h, i) \/ DP!Put(h, i, v) \/ DP!Drop(h)
      PROVE  DP!TypeOK(Deployments)' /\ DP!FreshCopy'
  BY <1>1, <1>2, <1>5, DP!AccessTyped, DP!AccessKeepsFresh
<1>6. ASSUME NEW i \in Instances, NEW v \in Deployments, DP!Overwrite(i, v)
      PROVE  DP!TypeOK(Deployments)' /\ DP!FreshCopy'
  BY <1>1, <1>6, DP!OverwriteKeepsFresh
<1>7. DpAccessed
  BY DeploymentsAccessed
<1>8. QED
  BY <1>3, <1>4, <1>5, <1>6, <1>7 DEF DpAccessed
-----------------------------------------------------------------------------
(* The stages of a provisioning.                                           *)

\* What was never created is neither up nor gone.
LEMMA NeverDiffers == Never.state = "never" /\ Gone # Never /\ Never \notin Up
<1>1. Never.state = "never" /\ Gone.state = "gone"
  BY DEF Never, Gone
<1>2. \A d \in Up : d.state = "up"
  BY DEF Up
<1>3. QED
  BY <1>1, <1>2

\* Only CreateDeployment makes a Deployment of what was never one, and what was
\* one is never again what was never one.
LEMMA NeverKept ==
    ASSUME IndInv, [Next]_vars, NEW i \in Instances
    PROVE  /\ deployment[i] # Never => deployment'[i] # Never
           /\ deployment'[i] # Never =>
                 deployment[i] # Never \/ (Creates /\ i = Instance(inHand))
<1>1. deployment \in [Instances -> Deployments]
  BY DEF IndInv, TypeOK, DP!TypeOK
<1>2. \A d \in Up : d # Never
  BY NeverDiffers
<1>3. Gone # Never
  BY NeverDiffers
<1>4. CASE deployment' = deployment
  BY <1>4
<1>5. CASE Creates
  <2> DEFINE d == [state |-> "up", replicas |-> 1, image |-> Event[inHand].image]
  <2>1. d # Never
    BY DEF Never
  <2>2. deployment' = [deployment EXCEPT ![Instance(inHand)] = d]
    BY <1>5 DEF Creates
  <2> HIDE DEF d
  <2>3. QED
    BY <1>1, <1>5, <2>1, <2>2
<1>6. ASSUME NEW h \in Handlers, Handled(h)
      PROVE  deployment[i] # Never <=> deployment'[i] # Never
  <2>1. deployment[Target(h)] \in Up /\ Target(h) \in Instances
    BY <1>6 DEF Handled, Scales, Reimages, Removes
  <2>2. deployment'[Target(h)] \in Up \cup {Gone}
    BY <1>1, <1>6, <2>1 DEF Handled, Scales, Reimages, Removes, Up
  <2>3. i # Target(h) => deployment'[i] = deployment[i]
    BY <1>1, <1>6 DEF Handled, Scales, Reimages, Removes
  <2>4. QED
    BY <1>2, <1>3, <2>1, <2>2, <2>3
<1>7. QED
  BY <1>4, <1>5, <1>6, DeploymentSteps

\* Rows and namespaces are not deleted.
LEMMA StoresGrow ==
    ASSUME [Next]_vars
    PROVE  rows \subseteq rows' /\ namespaces \subseteq namespaces'
<1>1. CASE \E m \in Messages : Publish(m)
  BY <1>1 DEF Publish, storeVars
<1>2. CASE Consuming
  BY <1>2 DEF Consuming, Deliver, InsertRow, GetNamespace, CreateNamespace,
              CreateDeployment, Audit, Settle, LoopEnds, storeVars
<1>3. CASE \E h \in Handlers : Receive(h) \/ Serving(h)
  BY <1>3 DEF Serving, Receive, Find, GetScale, GetSpec, GetDeployment, PutScale, PutSpec,
              PutDeployment, Remove, Step, storeVars
<1>4. CASE LoseChannel \/ Crash \/ Stop \/ StartProcess
  BY <1>4 DEF LoseChannel, Crash, Stop, StartProcess, storeVars
<1>5. CASE UNCHANGED vars
  BY <1>5 DEF vars, storeVars
<1>6. QED
  BY <1>1, <1>2, <1>3, <1>4, <1>5 DEF Next

\* What a step adds to the log, to the acknowledged and to the dropped messages.
LEMMA Additions ==
    ASSUME [Next]_vars
    PROVE  /\ audited' = audited \/ (consumer = "audit" /\
                                     audited' = audited \cup {Instance(inHand)})
           /\ acked' = acked \/ (consumer = "ack" /\ acked' = acked \cup {inHand})
           /\ dead' = dead \/ (consumer = "drop" /\ dead' = dead \cup {inHand})
<1>1. CASE \E m \in Messages : Publish(m)
  BY <1>1 DEF Publish, storeVars
<1>2. CASE Consuming
  BY <1>2 DEF Consuming, Deliver, InsertRow, GetNamespace, CreateNamespace, Proceed,
              CreateDeployment, Audit, Settle, LoopEnds, storeVars, brokerVars
<1>3. CASE \E h \in Handlers : Receive(h) \/ Serving(h)
  BY <1>3 DEF Serving, Receive, Find, GetScale, GetSpec, GetDeployment, PutScale, PutSpec,
              PutDeployment, Remove, Step, storeVars, brokerVars
<1>4. CASE LoseChannel \/ Crash \/ Stop \/ StartProcess
  BY <1>4 DEF LoseChannel, Crash, Stop, StartProcess, storeVars
<1>5. CASE UNCHANGED vars
  BY <1>5 DEF vars, storeVars, brokerVars
<1>6. QED
  BY <1>1, <1>2, <1>3, <1>4, <1>5 DEF Next

\* At a step that works on a message there is one.
LEMMA MessageInHand ==
    ASSUME IndInv, consumer \notin {"waiting"} \cup Stopped
    PROVE  /\ inHand \in Messages
           /\ Instance(inHand) \in Instances
           /\ UserOf[Instance(inHand)] \in {UserOf[i] : i \in Instances}
<1>1. inHand \in Messages
  BY DEF IndInv, TypeOK, MaybeMessage, ConsumerOK
<1>2. QED
  BY <1>1, MessagesTyped

LEMMA StagesKept ==
    ASSUME IndInv, [Next]_vars
    PROVE  StagesInOrder' /\ OnlyInvalidDropped'
<1>1. rows \subseteq rows' /\ namespaces \subseteq namespaces'
  BY StoresGrow
<1>2. ASSUME NEW i \in Instances, deployment'[i] # Never
      PROVE  i \in rows' /\ UserOf[i] \in namespaces'
  <2>1. CASE deployment[i] # Never
    BY <1>1, <2>1 DEF IndInv, StagesInOrder
  <2>2. CASE Creates /\ i = Instance(inHand)
    BY <1>1, <2>2 DEF IndInv, ConsumerOK, Creates
  <2>3. QED
    BY <1>2, <2>1, <2>2, NeverKept
<1>3. ASSUME NEW i \in audited' PROVE deployment'[i] # Never
  <2>1. deployment[i] # Never /\ i \in Instances
    <3>1. CASE i \in audited
      BY <3>1 DEF IndInv, StagesInOrder, TypeOK
    <3>2. CASE consumer = "audit" /\ i = Instance(inHand)
      BY <3>2, MessageInHand DEF IndInv, ConsumerOK, Stopped
    <3>3. QED
      BY <1>3, <3>1, <3>2, Additions
  <2>2. QED
    BY <2>1, NeverKept
<1>4. ASSUME NEW m \in acked', Event[m].kind = "created" PROVE Instance(m) \in rows'
  <2>1. CASE m \in acked
    BY <1>1, <1>4, <2>1 DEF IndInv, StagesInOrder
  <2>2. CASE consumer = "ack" /\ m = inHand
    BY <1>1, <1>4, <2>2 DEF IndInv, ConsumerOK
  <2>3. QED
    BY <1>4, <2>1, <2>2, Additions
<1>5. ASSUME NEW m \in dead' PROVE Event[m].kind = "invalid"
  BY <1>5, Additions DEF IndInv, ConsumerOK, OnlyInvalidDropped
<1>6. QED
  BY <1>2, <1>3, <1>4, <1>5 DEF StagesInOrder, OnlyInvalidDropped, Instance
-----------------------------------------------------------------------------
(* The consumer.                                                           *)

\* What another actor does leaves what the consumer knows true.
LEMMA ConsumerUndisturbed ==
    ASSUME IndInv, [Next]_vars, UNCHANGED consumerVars
    PROVE  ConsumerOK'
<1>1. consumer' = consumer /\ inHand' = inHand /\ ~Creates
  BY DEF consumerVars, Creates
<1>2. consumer \notin {"waiting"} \cup Stopped =>
         (deployment'[Instance(inHand)] = Never <=> deployment[Instance(inHand)] = Never)
  BY <1>1, NeverKept, MessageInHand
<1>3. rows \subseteq rows' /\ namespaces \subseteq namespaces'
  BY StoresGrow
<1>4. consumer \in {"getNamespace", "createNamespace", "createDeployment", "audit"} =>
         consumer \notin {"waiting"} \cup Stopped
  BY DEF Stopped
<1>5. QED
  BY <1>1, <1>2, <1>3, <1>4 DEF ConsumerOK, IndInv, Instance

LEMMA DeliverOK ==
    ASSUME IndInv, Deliver
    PROVE  ConsumerOK'
<1> DEFINE m == Head(queue)
<1>1. m \in Messages /\ m # NoMessage
  BY MessageAssumption DEF IndInv, TypeOK, Deliver
<1>2. inHand' = m
  BY DEF Deliver
<1>3. CASE RetryCount(m) >= MaxRetries
  <2>1. consumer' = "drop"
    BY <1>3 DEF Deliver
  <2>2. m \in dead
    BY <1>3, RetriesAssumption DEF RetryCount
  <2>3. QED
    BY <1>1, <1>2, <2>1, <2>2
       DEF IndInv, OnlyInvalidDropped, ConsumerOK, Stopped, Provisioning
<1>4. CASE ~(RetryCount(m) >= MaxRetries)
  <2>1. consumer' = StepFor(Event[m].kind)
    BY <1>4 DEF Deliver
  <2>2. Event[m].kind \in Kinds
    BY <1>1, MessagesTyped
  <2>3. \/ consumer' = "insert" /\ Event[m].kind = "created"
        \/ consumer' = "ack" /\ Event[m].kind = "other"
        \/ consumer' = "requeue"
        \/ consumer' = "drop" /\ Event[m].kind = "invalid"
    BY <2>1, <2>2 DEF StepFor, Failed, Retryable, Kinds
  <2>4. QED
    BY <1>1, <1>2, <2>3 DEF ConsumerOK, Stopped, Provisioning
<1>5. QED
  BY <1>3, <1>4

LEMMA RequeueOK ==
    ASSUME IndInv, consumer \notin {"waiting"} \cup Stopped,
           inHand' = inHand, consumer' = "requeue"
    PROVE  ConsumerOK'
BY DEF IndInv, ConsumerOK, Stopped, Provisioning

LEMMA InsertRowOK ==
    ASSUME IndInv, InsertRow
    PROVE  ConsumerOK'
<1> DEFINE i == Instance(inHand)
<1>1. consumer = "insert" /\ inHand' = inHand /\ deployment' = deployment
  BY DEF InsertRow, Proceed, dpVars
<1>2. consumer \notin {"waiting"} \cup Stopped
  BY <1>1 DEF Stopped
<1>3. inHand # NoMessage /\ Event[inHand].kind = "created"
  BY <1>1, <1>2 DEF IndInv, ConsumerOK, Provisioning
<1>4. i \in Instances
  BY <1>2, MessageInHand
<1>5. CASE consumer' = "requeue"
  BY <1>1, <1>2, <1>5, RequeueOK
<1>6. CASE consumer' = "ack" /\ i \in rows'
  BY <1>1, <1>3, <1>6 DEF ConsumerOK, Stopped, Provisioning, Instance
<1>7. CASE consumer' = "getNamespace" /\ i \in rows' /\ i \notin rows
  <2>1. deployment'[i] = Never
    BY <1>1, <1>4, <1>7 DEF IndInv, StagesInOrder
  <2>2. QED
    BY <1>1, <1>3, <1>7, <2>1 DEF ConsumerOK, Stopped, Provisioning, Instance
<1>8. QED
  BY <1>5, <1>6, <1>7, FailureRequeues DEF InsertRow, Proceed, OnDuplicate, Outcomes

LEMMA GetNamespaceOK ==
    ASSUME IndInv, GetNamespace
    PROVE  ConsumerOK'
<1>1. /\ consumer = "getNamespace" /\ inHand' = inHand
      /\ deployment' = deployment /\ rows' = rows /\ namespaces' = namespaces
  BY DEF GetNamespace, Proceed, dpVars, storeVars
<1>2. \/ consumer' = "requeue"
      \/ consumer' = "createDeployment" /\ UserOf[Instance(inHand)] \in namespaces
      \/ consumer' = "createNamespace"
  BY FailureRequeues DEF GetNamespace, Proceed, Read
<1>3. QED
  BY <1>1, <1>2 DEF IndInv, ConsumerOK, Stopped, Provisioning, Instance

LEMMA CreateNamespaceOK ==
    ASSUME IndInv, CreateNamespace
    PROVE  ConsumerOK'
<1>1. /\ consumer = "createNamespace" /\ inHand' = inHand
      /\ deployment' = deployment /\ rows' = rows
  BY DEF CreateNamespace, Proceed, dpVars
<1>2. \/ consumer' = "requeue"
      \/ consumer' = "createDeployment" /\ UserOf[Instance(inHand)] \in namespaces'
  BY FailureRequeues DEF CreateNamespace, Proceed
<1>3. QED
  BY <1>1, <1>2 DEF IndInv, ConsumerOK, Stopped, Provisioning, Instance

LEMMA CreateDeploymentOK ==
    ASSUME IndInv, CreateDeployment
    PROVE  ConsumerOK'
<1>1. consumer = "createDeployment" /\ inHand' = inHand
  BY DEF CreateDeployment, Proceed
<1>2. consumer \notin {"waiting"} \cup Stopped
  BY <1>1 DEF Stopped
<1>3. CASE consumer' = "requeue"
  BY <1>1, <1>2, <1>3, RequeueOK
<1>4. CASE /\ consumer' = "audit"
           /\ DP!Overwrite(Instance(inHand),
                [state |-> "up", replicas |-> 1, image |-> Event[inHand].image])
  <2>1. deployment'[Instance(inHand)].state = "up"
    BY <1>2, <1>4, MessageInHand DEF DP!Overwrite, IndInv, TypeOK, DP!TypeOK
  <2>2. deployment'[Instance(inHand)] # Never
    BY <2>1, NeverDiffers
  <2>3. QED
    BY <1>1, <1>4, <2>2 DEF IndInv, ConsumerOK, Stopped, Provisioning, Instance
<1>5. QED
  BY <1>3, <1>4, FailureRequeues DEF CreateDeployment, Proceed, Outcomes

LEMMA AuditOK ==
    ASSUME IndInv, Audit
    PROVE  ConsumerOK'
<1>1. /\ consumer = "audit" /\ inHand' = inHand
      /\ deployment' = deployment /\ rows' = rows
  BY DEF Audit, Proceed, dpVars
<1>2. Instance(inHand) \in rows /\ inHand # NoMessage
  BY <1>1, MessageInHand DEF IndInv, ConsumerOK, StagesInOrder, Stopped
<1>3. consumer' \in {"ack", "requeue"}
  BY FailureRequeues DEF Audit, Proceed
<1>4. QED
  BY <1>1, <1>2, <1>3 DEF ConsumerOK, Stopped, Provisioning, Instance

\* Nothing in hand, nothing known.
LEMMA NothingInHand ==
    ASSUME inHand' = NoMessage, consumer' \in {"waiting"} \cup Stopped
    PROVE  ConsumerOK'
BY DEF ConsumerOK, Stopped, Provisioning

LEMMA ConsumerKept ==
    ASSUME IndInv, [Next]_vars
    PROVE  ConsumerOK'
<1>1. CASE UNCHANGED consumerVars
  BY <1>1, ConsumerUndisturbed
<1>2. CASE Consuming
  <2>1. CASE Settle
    BY <2>1, NothingInHand DEF Settle
  <2>2. CASE LoopEnds
    BY <2>2, NothingInHand DEF LoopEnds, Stopped, IndInv, ConsumerOK
  <2>3. QED
    BY <1>2, <2>1, <2>2, DeliverOK, InsertRowOK, GetNamespaceOK, CreateNamespaceOK,
       CreateDeploymentOK, AuditOK DEF Consuming
<1>3. CASE LoseChannel
  <2>1. CASE consumer = "waiting"
    BY <1>3, <2>1, NothingInHand DEF LoseChannel, Stopped, IndInv, ConsumerOK
  <2>2. CASE consumer # "waiting"
    BY <1>1, <1>3, <2>2 DEF LoseChannel, consumerVars
  <2>3. QED
    BY <2>1, <2>2
<1>4. CASE Crash
  BY <1>4, NothingInHand DEF Crash, Stopped
<1>5. CASE StartProcess
  BY <1>5, NothingInHand
     DEF StartProcess, NoBroker, NoClients, NotDeclared, Stopped, IndInv, ConsumerOK
<1>6. CASE (\E m \in Messages : Publish(m)) \/ Stop
  BY <1>1, <1>6 DEF Publish, Stop
<1>7. CASE \E h \in Handlers : Receive(h) \/ Serving(h)
  BY <1>1, <1>7 DEF Serving, Receive, Find, GetScale, GetSpec, GetDeployment, PutScale,
                    PutSpec, PutDeployment, Remove, Step
<1>8. CASE UNCHANGED vars
  BY <1>1, <1>8 DEF vars
<1>9. QED
  BY <1>2, <1>3, <1>4, <1>5, <1>6, <1>7, <1>8 DEF Next
-----------------------------------------------------------------------------
(* The handlers and the types.                                             *)

\* What one handler does leaves what another knows true.
LEMMA HandlersKept ==
    ASSUME IndInv, [Next]_vars
    PROVE  HandlersOK' /\ pc' \in [Handlers -> HandlerSteps]
                       /\ req' \in [Handlers -> Requests \cup {NoRequest}]
<1> USE DEF HandlerSteps
<1>1. /\ pc \in [Handlers -> HandlerSteps]
      /\ req \in [Handlers -> Requests \cup {NoRequest}]
      /\ dpCopy \in [Handlers -> Deployments]
      /\ HandlersOK
  BY DEF IndInv, TypeOK, DP!TypeOK
<1>2. CASE UNCHANGED <<pc, req, dpCopy>>
  BY <1>1, <1>2 DEF HandlersOK
<1>3. ASSUME NEW h \in Handlers, Receive(h)
      PROVE  HandlersOK' /\ pc' \in [Handlers -> HandlerSteps]
                         /\ req' \in [Handlers -> Requests \cup {NoRequest}]
  BY <1>1, <1>3 DEF Receive, HandlersOK, dpVars
<1>4. ASSUME NEW h \in Handlers, Serving(h)
      PROVE  HandlersOK' /\ pc' \in [Handlers -> HandlerSteps]
                         /\ req' \in [Handlers -> Requests \cup {NoRequest}]
  <2>0. pc[h] # "idle"
    BY <1>4 DEF Serving, Find, GetScale, GetSpec, GetDeployment, PutScale, PutSpec,
                PutDeployment, Remove, Step
  <2>1. CASE Find(h)
    <3>1. FirstStep(req[h].op) \in {"getScale", "getSpec", "remove"}
      BY <2>0, TargetTyped DEF FirstStep
    <3>2. QED
      BY <1>1, <2>0, <2>1, <3>1 DEF Find, Then, Reply, HandlersOK, dpVars
  <2>2. CASE GetScale(h) \/ GetSpec(h)
    <3>1. CASE UNCHANGED dpVars /\ Reply(h)
      BY <1>1, <3>1 DEF Reply, HandlersOK, dpVars
    <3>2. ASSUME NEW step \in {"putScale", "putSpec"},
                 Exists(Target(h)), DP!Get(h, Target(h)), Then(h, step)
          PROVE  HandlersOK' /\ pc' \in [Handlers -> HandlerSteps]
                             /\ req' \in [Handlers -> Requests \cup {NoRequest}]
      <4>1. Target(h) \in Instances
        BY <2>0, TargetTyped
      <4>2. deployment[Target(h)] \in Up
        BY <3>2, <4>1, UpTyped DEF Exists, IndInv, TypeOK, DP!TypeOK
      <4>3. QED
        BY <1>1, <2>0, <3>2, <4>2 DEF DP!Get, Then, HandlersOK
    <3>3. QED
      BY <2>2, <3>1, <3>2 DEF GetScale, GetSpec, GetDeployment
  <2>3. CASE (PutScale(h) \/ PutSpec(h) \/ Remove(h)) /\ Reply(h)
    <3>1. \A g \in Handlers : g # h => dpCopy'[g] = dpCopy[g]
      BY <1>1, <2>3 DEF PutScale, PutSpec, PutDeployment, Remove, DP!Put, DP!Drop,
                        DP!Overwrite, dpVars
    <3>2. QED
      BY <1>1, <2>3, <3>1 DEF Reply, HandlersOK
  <2>4. PutScale(h) \/ PutSpec(h) \/ Remove(h) => Reply(h)
    BY DEF PutScale, PutSpec, PutDeployment, Remove
  <2>5. QED
    BY <1>4, <2>1, <2>2, <2>3, <2>4 DEF Serving
<1>5. CASE Consuming
  BY <1>2, <1>5 DEF Consuming, Deliver, InsertRow, GetNamespace, CreateNamespace,
                    CreateDeployment, Audit, Settle, LoopEnds, handlerVars, dpVars,
                    DP!Overwrite
<1>6. CASE (\E m \in Messages : Publish(m)) \/ LoseChannel \/ Crash \/ Stop
  BY <1>2, <1>6 DEF Publish, LoseChannel, Crash, Stop, handlerVars, dpVars
<1>7. CASE StartProcess
  BY <1>7 DEF StartProcess, HandlersOK
<1>8. CASE UNCHANGED vars
  BY <1>2, <1>8 DEF vars, handlerVars, dpVars
<1>9. QED
  BY <1>3, <1>4, <1>5, <1>6, <1>7, <1>8 DEF Next

\* The types of the variables of the broker and of the consumer.
BrokerTypes ==
    /\ unsent \subseteq Messages /\ queue \in Seq(Messages)
    /\ unacked \in MaybeMessage
    /\ acked \subseteq Messages /\ dead \subseteq Messages
    /\ deliveries \in [Messages -> 0 .. DeliveryCap]
    /\ channel \in {"open", "closed", "stopped"}
    /\ consumer \in ConsumerSteps \cup Stopped /\ inHand \in MaybeMessage

StoreTypes ==
    /\ rows \subseteq Instances
    /\ namespaces \subseteq {UserOf[i] : i \in Instances}
    /\ audited \subseteq Instances
    /\ faults \in 0 .. MaxFaults /\ outages \in 0 .. MaxOutages

LEMMA TakenBackTyped == ASSUME BrokerTypes PROVE TakenBack \in Seq(Messages)
BY DEF BrokerTypes, TakenBack, MaybeMessage

LEMMA BrokerTyped ==
    ASSUME IndInv, [Next]_vars
    PROVE  BrokerTypes'
<1> USE DEF ConsumerSteps, Stopped
<1>1. BrokerTypes
  BY DEF IndInv, TypeOK, BrokerTypes
<1>2. CASE UNCHANGED <<brokerVars, consumerVars>>
  BY <1>1, <1>2 DEF brokerVars, consumerVars, BrokerTypes
<1>3. CASE \E m \in Messages : Publish(m)
  BY <1>1, <1>3 DEF Publish, BrokerTypes, consumerVars
<1>4. CASE Consuming
  <2>1. CASE Deliver
    <3>1. Head(queue) \in Messages /\ Tail(queue) \in Seq(Messages)
      BY <1>1, <2>1 DEF Deliver, BrokerTypes
    <3>2. StepFor(Event[Head(queue)].kind) \in ConsumerSteps
      BY <3>1, MessagesTyped DEF StepFor, Failed, Retryable, Kinds
    <3>3. deliveries' \in [Messages -> 0 .. DeliveryCap]
      BY <1>1, <2>1, <3>1, LifecycleBounds DEF Deliver, BrokerTypes
    <3>4. QED
      BY <1>1, <2>1, <3>1, <3>2, <3>3 DEF Deliver, BrokerTypes, MaybeMessage
  <2>2. CASE Settle
    <3>1. inHand \in Messages
      BY <2>2, MessageInHand DEF Settle
    <3>2. <<inHand>> \o queue \in Seq(Messages)
      BY <1>1, <3>1 DEF BrokerTypes
    <3>3. QED
      BY <1>1, <2>2, <3>1, <3>2 DEF Settle, BrokerTypes, MaybeMessage
  <2>3. CASE LoopEnds
    BY <1>1, <2>3 DEF LoopEnds, brokerVars, BrokerTypes
  <2>4. CASE \E step \in ConsumerSteps : Proceed(step)
    BY <1>1, <2>4 DEF Proceed, brokerVars, BrokerTypes
  <2>5. InsertRow \/ GetNamespace \/ CreateNamespace \/ CreateDeployment \/ Audit
           => \E step \in ConsumerSteps : Proceed(step)
    BY FailureRequeues DEF InsertRow, GetNamespace, CreateNamespace, CreateDeployment,
                           Audit, OnDuplicate, Outcomes, Read
  <2>6. QED
    BY <1>4, <2>1, <2>2, <2>3, <2>4, <2>5 DEF Consuming
<1>5. CASE LoseChannel \/ Crash \/ Stop
  BY <1>1, <1>5, TakenBackTyped
     DEF LoseChannel, Crash, Stop, BrokerTypes, MaybeMessage, consumerVars
<1>6. CASE StartProcess
  BY <1>1, <1>6 DEF StartProcess, NoBroker, NoClients, NotDeclared, BrokerTypes
<1>7. CASE \E h \in Handlers : Receive(h) \/ Serving(h)
  BY <1>2, <1>7 DEF Serving, Receive, Find, GetScale, GetSpec, GetDeployment, PutScale,
                    PutSpec, PutDeployment, Remove, Step
<1>8. CASE UNCHANGED vars
  BY <1>2, <1>8 DEF vars
<1>9. QED
  BY <1>3, <1>4, <1>5, <1>6, <1>7, <1>8 DEF Next

\* A call counts at most one fault.
LEMMA CallTyped ==
    ASSUME faults \in 0 .. MaxFaults, NEW o, Call(o)
    PROVE  faults' \in 0 .. MaxFaults
BY LifecycleBounds DEF Call

LEMMA StoreTyped ==
    ASSUME IndInv, [Next]_vars
    PROVE  StoreTypes'
<1>1. StoreTypes
  BY DEF IndInv, TypeOK, StoreTypes
<1>2. CASE UNCHANGED <<storeVars, faults, outages>>
  BY <1>1, <1>2 DEF storeVars, StoreTypes
<1>3. CASE UNCHANGED storeVars /\ UNCHANGED outages /\ \E o \in Outcomes : Call(o)
  BY <1>1, <1>3, CallTyped DEF storeVars, StoreTypes
<1>4. CASE (\E m \in Messages : Publish(m)) \/ Deliver \/ Settle \/ LoopEnds
  BY <1>2, <1>4 DEF Publish, Deliver, Settle, LoopEnds
<1>5. CASE InsertRow \/ GetNamespace \/ CreateNamespace \/ CreateDeployment \/ Audit
  <2>1. /\ Instance(inHand) \in Instances
        /\ UserOf[Instance(inHand)] \in {UserOf[i] : i \in Instances}
    BY <1>5, MessageInHand DEF InsertRow, GetNamespace, CreateNamespace,
                               CreateDeployment, Audit, Stopped
  <2>2. faults' \in 0 .. MaxFaults /\ outages' = outages
    BY <1>1, <1>5, CallTyped
       DEF InsertRow, GetNamespace, CreateNamespace, CreateDeployment, Audit, Proceed,
           Read, StoreTypes
  <2>3. QED
    BY <1>1, <1>5, <2>1, <2>2
       DEF InsertRow, GetNamespace, CreateNamespace, CreateDeployment, Audit, storeVars,
           StoreTypes
<1>6. ASSUME NEW h \in Handlers, Receive(h) \/ Serving(h)
      PROVE  StoreTypes'
  BY <1>2, <1>3, <1>6
     DEF Serving, Receive, Find, GetScale, GetSpec, GetDeployment, PutScale, PutSpec,
         PutDeployment, Remove, Step, Outcomes
<1>7. CASE LoseChannel \/ Crash \/ Stop \/ StartProcess
  BY <1>1, <1>7, LifecycleBounds
     DEF LoseChannel, Crash, Stop, StartProcess, storeVars, StoreTypes
<1>8. CASE UNCHANGED vars
  BY <1>2, <1>8 DEF vars
<1>9. QED
  BY <1>4, <1>5, <1>6, <1>7, <1>8 DEF Next, Consuming
-----------------------------------------------------------------------------
(* The invariants.                                                         *)

LEMMA InitInv == Init => IndInv
<1> SUFFICES ASSUME Init PROVE IndInv
  OBVIOUS
<1>1. TypeOK
  BY LifecycleBounds
     DEF Init, TypeOK, MaybeMessage, ConsumerSteps, HandlerSteps, DP!Init0, DP!TypeOK,
         Deployments
<1>2. ConsumerOK /\ HandlersOK /\ StagesInOrder /\ OnlyInvalidDropped /\ DP!FreshCopy
  BY DEF Init, ConsumerOK, Provisioning, Stopped, HandlersOK, StagesInOrder,
         OnlyInvalidDropped, DP!Init0, DP!FreshCopy
<1>3. QED
  BY <1>1, <1>2 DEF IndInv

LEMMA NextInv == IndInv /\ [Next]_vars => IndInv'
<1> SUFFICES ASSUME IndInv, [Next]_vars PROVE IndInv'
  OBVIOUS
<1>1. TypeOK'
  BY BrokerTyped, StoreTyped, HandlersKept, DeploymentsKept
     DEF TypeOK, BrokerTypes, StoreTypes
<1>2. QED
  BY <1>1, ConsumerKept, HandlersKept, StagesKept, DeploymentsKept DEF IndInv

\* What every step of the consumer and of a handler may rely on, however they interleave,
\* crash, stop and see messages again.
THEOREM Inductive == Spec => []IndInv
BY InitInv, NextInv, PTL DEF Spec

\* Every variable stays in its range.
THEOREM TypeCorrect == Spec => []TypeOK
<1>1. IndInv => TypeOK
  BY DEF IndInv
<1>2. QED
  BY <1>1, Inductive, PTL

\* CreateInstance keeps its order through redelivery: a Deployment has its row and its
\* namespace, a log entry its Deployment, an acknowledged creation its row.
THEOREM StagesOrdered == Spec => []StagesInOrder
<1>1. IndInv => StagesInOrder
  BY DEF IndInv
<1>2. QED
  BY <1>1, Inductive, PTL

\* isRetryableError gives up no event that could still succeed.
THEOREM DroppedInvalid == Spec => []OnlyInvalidDropped
<1>1. IndInv => OnlyInvalidDropped
  BY DEF IndInv
<1>2. QED
  BY <1>1, Inductive, PTL
-----------------------------------------------------------------------------
(* Whose field a handler changes.                                          *)

\* StopInstance and StartInstance change the replicas of a Deployment, UpdateInstance
\* its image, and neither undoes what another handler has changed since it read.
THEOREM OwnFieldsChanged == Spec => ChangesOwnField
<1> DEFINE Own ==
      \A i \in Instances :
         deployment[i].state = "up" /\ deployment'[i].state = "up" =>
           /\ deployment[i].replicas # deployment'[i].replicas =>
                \E h \in Handlers : pc[h] = "putScale" /\ Target(h) = i /\ pc'[h] # pc[h]
           /\ deployment[i].image # deployment'[i].image =>
                \E h \in Handlers : pc[h] = "putSpec" /\ Target(h) = i /\ pc'[h] # pc[h]
<1>1. IndInv /\ [Next]_vars => [Own]_vars
  <2> SUFFICES ASSUME IndInv, [Next]_vars, NEW i \in Instances,
                      deployment[i].state = "up", deployment'[i].state = "up"
               PROVE
           /\ deployment[i].replicas # deployment'[i].replicas =>
                \E h \in Handlers : pc[h] = "putScale" /\ Target(h) = i /\ pc'[h] # pc[h]
           /\ deployment[i].image # deployment'[i].image =>
                \E h \in Handlers : pc[h] = "putSpec" /\ Target(h) = i /\ pc'[h] # pc[h]
    OBVIOUS
  <2>1. deployment \in [Instances -> Deployments]
    BY DEF IndInv, TypeOK, DP!TypeOK
  <2>2. CASE deployment' = deployment
    BY <2>2
  <2>3. CASE Creates
    <3>1. deployment[Instance(inHand)] = Never
      BY <2>3 DEF Creates, IndInv, ConsumerOK
    <3>2. i # Instance(inHand)
      BY <3>1, NeverDiffers
    <3>3. deployment'[i] = deployment[i]
      BY <2>1, <2>3, <3>2 DEF Creates
    <3>4. QED
      BY <3>3
  <2>4. ASSUME NEW h \in Handlers, Handled(h)
        PROVE  \/ deployment'[i] = deployment[i]
               \/ Target(h) = i /\ (Scales(h) \/ Reimages(h))
    <3>1. CASE i # Target(h)
      BY <2>1, <2>4, <3>1 DEF Handled, Scales, Reimages, Removes
    <3>2. CASE Removes(h) /\ i = Target(h)
      <4>1. deployment'[i] = Gone
        BY <2>1, <3>2 DEF Removes
      <4>2. Gone.state = "gone"
        BY DEF Gone
      <4>3. QED
        BY <4>1, <4>2
    <3>3. QED
      BY <2>4, <3>1, <3>2 DEF Handled
  <2>5. ASSUME NEW h \in Handlers, Scales(h), Target(h) = i
        PROVE  /\ deployment'[i].image = deployment[i].image
               /\ pc[h] = "putScale" /\ pc'[h] # pc[h]
    BY <2>1, <2>5 DEF Scales, Up
  <2>6. ASSUME NEW h \in Handlers, Reimages(h), Target(h) = i
        PROVE  /\ deployment'[i].replicas = deployment[i].replicas
               /\ pc[h] = "putSpec" /\ pc'[h] # pc[h]
    BY <2>1, <2>6 DEF Reimages, Up
  <2>7. QED
    BY <2>2, <2>3, <2>4, <2>5, <2>6, DeploymentSteps
<1>2. QED
  BY <1>1, Inductive, PTL DEF Spec, ChangesOwnField
-----------------------------------------------------------------------------
(* InstanceLifecycle implements InstanceLife.                              *)

Lives == [i \in Instances |-> Life(i)]

\* One instance moves to another stage of its life, and the others stay.
LEMMA OneMoves ==
    ASSUME NEW i \in Instances,
           \A j \in Instances : j # i => Life(j)' = Life(j)
    PROVE  Lives' = [Lives EXCEPT ![i] = Life(i)']
<1>1. Lives' = [j \in Instances |-> Life(j)']
  BY DEF Lives
<1>2. QED
  BY <1>1 DEF Lives
Asked == [i \in Instances |-> {Event[m].image : m \in Creations(i)}]

\* The stages in the terms of InstanceLifecycle.
LEMMA Stages ==
    ASSUME NEW i \in Instances
    PROVE  /\ deployment[i] = Never /\ i \notin rows => Life(i) = InstanceLife!Absent
           /\ deployment[i] = Never /\ i \in rows => Life(i) = InstanceLife!Recorded
           /\ deployment[i] # Never => Life(i) = deployment[i]
BY DEF Life, Never, InstanceLife!Absent, InstanceLife!Recorded, InstanceLife!Stage

LEMMA UpIsRunning ==
    ASSUME NEW d \in Up
    PROVE  d = InstanceLife!Running(d.replicas, d.image)
           /\ d.replicas \in {0, 1} /\ d.image \in Images
BY DEF Up, InstanceLife!Running, InstanceLife!Stage

\* The consumer adds a row.
LEMMA InsertRowRecords ==
    ASSUME IndInv, InsertRow, deployment' = deployment
    PROVE  Lives' = Lives \/ InstanceLife!Next
<1>1. PICK i \in Instances : i = Instance(inHand)
  BY MessageInHand DEF InsertRow, Stopped
<1>2. CASE rows' = rows
  BY <1>2 DEF Lives, Life
<1>3. CASE rows' = rows \cup {i} /\ i \notin rows
  <2>1. deployment[i] = Never
    BY <1>1, <1>3 DEF IndInv, StagesInOrder
  <2>2. Life(i) = InstanceLife!Absent
    BY <1>1, <1>3, <2>1, Stages
  <2>3. Life(i)' = InstanceLife!Recorded
    BY <1>3, <2>1 DEF Life, Never, InstanceLife!Recorded, InstanceLife!Stage
  <2>4. \A j \in Instances : j # i => Life(j)' = Life(j)
    BY <1>3 DEF Life
  <2>5. Lives' = [Lives EXCEPT ![i] = InstanceLife!Recorded]
    BY <1>1, <2>3, <2>4, OneMoves
  <2>6. QED
    BY <1>1, <2>2, <2>5
       DEF Lives, InstanceLife!Next, InstanceLife!Record, InstanceLife!Becomes
<1>4. QED
  BY <1>1, <1>2, <1>3 DEF InsertRow

\* The consumer creates a Deployment.
LEMMA CreatesComesUp ==
    ASSUME IndInv, Creates, rows' = rows
    PROVE  InstanceLife!Next
<1> DEFINE d == [state |-> "up", replicas |-> 1, image |-> Event[inHand].image]
<1>1. PICK i \in Instances : i = Instance(inHand) /\ inHand \in Messages
  BY MessageInHand DEF Creates, Stopped
<1>2. /\ deployment[i] = Never /\ i \in rows
      /\ Event[inHand].kind = "created"
  BY <1>1 DEF Creates, IndInv, ConsumerOK, Provisioning
<1>3. Life(i) = InstanceLife!Recorded
  BY <1>1, <1>2, Stages
<1>4. deployment \in [Instances -> Deployments] /\ d.state = "up"
      /\ d = InstanceLife!Running(1, Event[inHand].image)
  BY DEF IndInv, TypeOK, DP!TypeOK, InstanceLife!Running, InstanceLife!Stage
<1>5. deployment' = [deployment EXCEPT ![i] = d]
  BY <1>1 DEF Creates
<1> HIDE DEF d
<1>6. Life(i)' = d
  BY <1>1, <1>4, <1>5, NeverDiffers DEF Life
<1>7. \A j \in Instances : j # i => Life(j)' = Life(j)
  BY <1>4, <1>5 DEF Life, Creates
<1>8. Lives' = [Lives EXCEPT ![i] = d]
  BY <1>1, <1>6, <1>7, OneMoves
<1>9. Event[inHand].image \in Asked[i]
  BY <1>1, <1>2 DEF Asked, Creations
<1>10. InstanceLife!ComeUp(i)
  BY <1>1, <1>3, <1>4, <1>8, <1>9
     DEF Lives, Asked, InstanceLife!ComeUp, InstanceLife!Becomes
<1>11. QED
  BY <1>1, <1>10 DEF InstanceLife!Next

\* A handler scales a Deployment, gives it another image, or deletes it.
LEMMA HandledMoves ==
    ASSUME IndInv, NEW h \in Handlers, Handled(h), rows' = rows
    PROVE  InstanceLife!Next
<1> DEFINE i == Target(h)
           d == deployment[i]
<1>1. i \in Instances /\ d \in Up /\ deployment \in [Instances -> Deployments]
  BY DEF Handled, Scales, Reimages, Removes, IndInv, TypeOK, DP!TypeOK
<1>2. Lives[i] = d /\ d = InstanceLife!Running(d.replicas, d.image)
      /\ d.replicas \in {0, 1} /\ d.image \in Images
  BY <1>1, Stages, UpIsRunning, NeverDiffers DEF Lives
<1>3. \A j \in Instances : j # i => Life(j)' = Life(j)
  BY <1>1 DEF Handled, Scales, Reimages, Removes, Life
<1>4. deployment'[i] # Never => Lives' = [Lives EXCEPT ![i] = deployment'[i]]
  BY <1>1, <1>3, OneMoves DEF Life
<1>5. CASE Scales(h)
  <2>1. PICK n \in {0, 1} : deployment'[i] = InstanceLife!Running(n, d.image)
    BY <1>1, <1>5 DEF Scales, Up, InstanceLife!Running, InstanceLife!Stage
  <2>2. deployment'[i] # Never
    BY <1>1, <1>5, NeverDiffers DEF Scales, Up
  <2>3. InstanceLife!Scale(i)
    BY <1>2, <1>4, <2>1, <2>2 DEF Lives, InstanceLife!Scale, InstanceLife!Becomes
  <2>4. QED
    BY <1>1, <2>3 DEF InstanceLife!Next
<1>6. CASE Reimages(h)
  <2>1. PICK a \in Images : deployment'[i] = InstanceLife!Running(d.replicas, a)
    BY <1>1, <1>6 DEF Reimages, Up, InstanceLife!Running, InstanceLife!Stage
  <2>2. deployment'[i] # Never
    BY <1>1, <1>6, NeverDiffers DEF Reimages, Up
  <2>3. InstanceLife!Reimage(i)
    BY <1>2, <1>4, <2>1, <2>2 DEF Lives, InstanceLife!Reimage, InstanceLife!Becomes
  <2>4. QED
    BY <1>1, <2>3 DEF InstanceLife!Next
<1>7. CASE Removes(h)
  <2>1. deployment'[i] = Gone
    BY <1>1, <1>7 DEF Removes
  <2>2. Gone = InstanceLife!Removed
    BY DEF Gone, InstanceLife!Removed, InstanceLife!Stage
  <2>3. InstanceLife!Remove(i)
    BY <1>2, <1>4, <2>1, <2>2, NeverDiffers
       DEF Lives, InstanceLife!Remove, InstanceLife!Becomes
  <2>4. QED
    BY <1>1, <2>3 DEF InstanceLife!Next
<1>8. QED
  BY <1>5, <1>6, <1>7 DEF Handled

\* An instance comes up at most once, by one of its creations, and stays deleted,
\* through redelivery, crashes and lost channels: every step of the service is a step
\* of one instance's life or none.
THEOREM LifeImplemented == Spec => ImplementsLife
<1>1. Init => InstanceLife!Init
  <2> SUFFICES ASSUME Init PROVE Lives = [i \in Instances |-> InstanceLife!Absent]
    BY DEF Lives, InstanceLife!Init
  <2>1. \A i \in Instances : deployment[i] = Never /\ i \notin rows
    BY DEF Init, DP!Init0
  <2>2. \A i \in Instances : Life(i) = InstanceLife!Absent
    BY <2>1, Stages
  <2>3. QED
    BY <2>2 DEF Lives
<1>2. IndInv /\ [Next]_vars => [InstanceLife!Next]_([i \in Instances |-> Life(i)])
  <2>1. ASSUME IndInv, [Next]_vars PROVE Lives' = Lives \/ InstanceLife!Next
    <3>1. CASE deployment' = deployment /\ rows' = rows
      BY <3>1 DEF Lives, Life
    <3>2. QED
      BY <2>1, <3>1, DeploymentSteps, InsertRowRecords, CreatesComesUp, HandledMoves
  <2>2. QED
    BY <2>1 DEF Lives
<1>3. QED
  BY <1>1, <1>2, Inductive, PTL DEF Spec, ImplementsLife, InstanceLife!Spec
=============================================================================
