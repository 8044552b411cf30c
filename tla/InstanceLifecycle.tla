-------------------------- MODULE InstanceLifecycle --------------------------
(***************************************************************************)
(* The life of an instance: it is provisioned by the consumer of RabbitMQ  *)
(* events and then stopped, started, updated and deleted by API requests,  *)
(* which are served concurrently with the consumer.                        *)
(*                                                                         *)
(* The consumer handles one message at a time (Qos 1).  A message in its   *)
(* hands belongs to the broker until it is acknowledged or rejected, and   *)
(* goes back to the head of the queue when the channel or the process is   *)
(* lost.  A step is one call to the broker, to the database or to the API  *)
(* server; a call may be refused, or take effect with its answer lost.     *)
(***************************************************************************)
EXTENDS Integers, Sequences

CONSTANTS
    Handlers,      \* goroutines serving API requests
    Instances,     \* instance IDs
    UserOf,        \* [Instances -> users]: the namespace of an instance
    Images,        \* container images
    Messages,      \* messages the publisher may send; several may say the same
    Event,         \* [Messages -> Events]: what each message says
    Requests,      \* the API requests clients may send
    MaxRetries,    \* max_retries
    MaxFaults,     \* bound: calls that fail
    MaxOutages,    \* bound: crashes of the process and losses of the channel
    DeliveryCap    \* bound: deliveries of a message are counted up to this

VARIABLES
    unsent,        \* messages not yet published
    queue,         \* the durable queue, ready messages only
    unacked,       \* the message the broker has delivered and not yet settled
    acked, dead,   \* messages acknowledged, messages in the dead-letter queue
    deliveries,    \* history: how often a message was delivered, capped
    channel,       \* "open", "closed" by the broker, "stopped" by the process
    consumer,      \* the next step of the consumer
    inHand,        \* the message it is processing
    rows,          \* instances with a row in the instance and instance_spec tables
    namespaces,    \* namespaces that exist
    audited,       \* instances with a CREATE entry in instance_logs
    pc, req,       \* the next step and the request of each API handler
    deployment, dpCopy, dpHeld,   \* the Deployments, and what handlers have read
    faults, outages               \* counted against the bounds

brokerVars == <<unsent, queue, unacked, acked, dead, deliveries, channel>>
consumerVars == <<consumer, inHand>>
handlerVars == <<pc, req>>
dpVars == <<deployment, dpCopy, dpHeld>>
storeVars == <<rows, namespaces, audited>>
vars == <<brokerVars, consumerVars, storeVars, handlerVars, dpVars,
          faults, outages>>
-----------------------------------------------------------------------------
\* The body of a message: a creation, another known event, an unknown event
\* type, an event without instance ID or spec, or bytes that are no event.
Kinds == {"created", "other", "unknown", "invalid", "garbled"}
Events == [kind : Kinds, instance : Instances, image : Images]

NoMessage == "none"
NoRequest == [op |-> "none", instance |-> 0, image |-> ""]
Request == [op : {"stop", "start", "update", "delete"}, instance : Instances,
            image : Images \cup {""}]

\* Replicas and image; never created; deleted.
Up == [state : {"up"}, replicas : {0, 1}, image : Images]
Never == [state |-> "never", replicas |-> 0, image |-> ""]
Gone == [state |-> "gone", replicas |-> 0, image |-> ""]
Deployments == Up \cup {Never, Gone}

ASSUME LifecycleInstances == Instances \subseteq Nat \ {0}
ASSUME UserAssumption == DOMAIN UserOf = Instances
ASSUME EventAssumption == Event \in [Messages -> Events]
ASSUME MessageAssumption == NoMessage \notin Messages
ASSUME LifecycleRequests == Requests \subseteq Request
ASSUME LifecycleBounds == {MaxFaults, MaxOutages, DeliveryCap} \subseteq Nat
ASSUME RetriesAssumption == MaxRetries \in Nat \ {0}   \* NewMQServer replaces 0 by 3

DP == INSTANCE ApiObject WITH
        Clients <- Handlers, Objects <- Instances, Unread <- Never, NoObject <- 0,
        store <- deployment, copy <- dpCopy, held <- dpHeld

ConsumerSteps == {"waiting", "insert", "getNamespace", "createNamespace",
                  "createDeployment", "audit", "ack", "requeue", "drop"}
Stopped == {"down",      \* the process has ended
            "ended"}     \* the process runs, but nobody consumes any more
HandlerSteps == {"idle", "find", "getScale", "putScale", "getSpec", "putSpec", "remove"}

MaybeMessage == Messages \cup {NoMessage}

TypeOK ==
    /\ unsent \subseteq Messages
    /\ queue \in Seq(Messages)
    /\ unacked \in MaybeMessage
    /\ acked \subseteq Messages
    /\ dead \subseteq Messages
    /\ deliveries \in [Messages -> 0 .. DeliveryCap]
    /\ channel \in {"open", "closed", "stopped"}
    /\ consumer \in ConsumerSteps \cup Stopped
    /\ inHand \in MaybeMessage
    /\ rows \subseteq Instances
    /\ namespaces \subseteq {UserOf[i] : i \in Instances}
    /\ audited \subseteq Instances
    /\ pc \in [Handlers -> HandlerSteps]
    /\ req \in [Handlers -> Requests \cup {NoRequest}]
    /\ DP!TypeOK(Deployments)
    /\ faults \in 0 .. MaxFaults
    /\ outages \in 0 .. MaxOutages

Init ==
    /\ unsent = Messages
    /\ queue = <<>>
    /\ unacked = NoMessage
    /\ acked = {}
    /\ dead = {}
    /\ deliveries = [m \in Messages |-> 0]
    /\ channel = "open"
    /\ consumer = "waiting"
    /\ inHand = NoMessage
    /\ rows = {}
    /\ namespaces = {}
    /\ audited = {}
    /\ pc = [h \in Handlers |-> "idle"]
    /\ req = [h \in Handlers |-> NoRequest]
    /\ DP!Init0(Never)
    /\ faults = 0
    /\ outages = 0
-----------------------------------------------------------------------------
(* Calls, as in PortExposure: "ok" is reported as a success, "refused"     *)
(* leaves no trace, "lost" takes effect and is reported as a failure.      *)

Outcomes == {"ok", "refused", "lost"}

Call(o) ==
    \/ o = "ok" /\ UNCHANGED faults
    \/ o \in {"refused", "lost"} /\ faults < MaxFaults /\ faults' = faults + 1

Read(o) == o \in {"ok", "refused"} /\ Call(o)
-----------------------------------------------------------------------------
(* The broker.                                                             *)

Publish(m) ==
    /\ m \in unsent
    /\ unsent' = unsent \ {m}
    /\ queue' = Append(queue, m)
    /\ UNCHANGED <<unacked, acked, dead, deliveries, channel, consumerVars, storeVars>>
    /\ UNCHANGED <<handlerVars, dpVars, faults, outages>>

\* The queue once the broker takes back what it had delivered.
TakenBack == IF unacked = NoMessage THEN queue ELSE <<unacked>> \o queue
-----------------------------------------------------------------------------
(* The consumer: Start, processMessage and ConsumeMqMessage.               *)

Instance(m) == Event[m].instance

\* getRetryCount reads the x-death header, in which the broker counts how often it
\* has dead-lettered a message.  A rejection with requeue is not counted.
RetryCount(m) == IF m \in dead THEN 1 ELSE 0

\* isRetryableError goes by the text of the error: of those that arise only a missing
\* instance ID or spec carries a code it knows as final.  (The API server says
\* "already exists", which is not the "AlreadyExists" it looks for.)
Retryable_never(error) == FALSE   \* mutant: what is not known is final
Retryable(error) == error # "invalid"

Failed(error) == IF Retryable(error) THEN "requeue" ELSE "drop"

\* ConsumeMqMessage looks at the event.
StepFor(kind) ==
    CASE kind = "created" -> "insert"
      [] kind = "other" -> "ack"
      [] kind \notin {"created", "other"} -> Failed(kind)

Deliver_autoAck ==   \* mutant: Consume with auto-ack
    /\ consumer = "waiting" /\ channel = "open" /\ queue # <<>> /\ unacked = NoMessage
    /\ LET m == Head(queue) IN
       /\ acked' = acked \cup {m}
       /\ inHand' = m
       /\ consumer' = IF RetryCount(m) >= MaxRetries THEN "drop"
                      ELSE StepFor(Event[m].kind)
    /\ queue' = Tail(queue)
    /\ UNCHANGED <<unsent, unacked, dead, deliveries, channel, storeVars>>
    /\ UNCHANGED <<handlerVars, dpVars, faults, outages>>

Deliver ==
    /\ consumer = "waiting" /\ channel = "open" /\ queue # <<>> /\ unacked = NoMessage
    /\ LET m == Head(queue) IN
       /\ unacked' = m
       /\ inHand' = m
       /\ deliveries' = [deliveries EXCEPT ![m] = IF @ < DeliveryCap THEN @ + 1 ELSE @]
       /\ consumer' = IF RetryCount(m) >= MaxRetries THEN "drop"
                      ELSE StepFor(Event[m].kind)
    /\ queue' = Tail(queue)
    /\ UNCHANGED <<unsent, acked, dead, channel, storeVars>>
    /\ UNCHANGED <<handlerVars, dpVars, faults, outages>>

Proceed(step) == consumer' = step /\ UNCHANGED <<brokerVars, inHand, outages>>

\* The row exists already: the event has been handled before.
OnDuplicate_continue == "getNamespace"   \* mutant: provision again
OnDuplicate == "ack"

\* InstanceSpec.CreateInstance: both rows in one transaction.
InsertRow ==
    /\ consumer = "insert"
    /\ LET i == Instance(inHand) IN
       \E o \in Outcomes :
          /\ Call(o)
          /\ rows' = IF o = "refused" THEN rows ELSE rows \cup {i}
          /\ Proceed(CASE o # "ok" -> Failed("transient")
                       [] o = "ok" /\ i \in rows -> OnDuplicate
                       [] o = "ok" /\ i \notin rows -> "getNamespace")
    /\ UNCHANGED <<namespaces, audited, handlerVars, dpVars>>

GetNamespace ==
    /\ consumer = "getNamespace"
    /\ \E o \in Outcomes :
          /\ Read(o)
          /\ Proceed(CASE o # "ok" -> Failed("transient")
                       [] o = "ok" /\ UserOf[Instance(inHand)] \in namespaces ->
                            "createDeployment"
                       [] o = "ok" /\ UserOf[Instance(inHand)] \notin namespaces ->
                            "createNamespace")
    /\ UNCHANGED <<storeVars, handlerVars, dpVars>>

CreateNamespace ==
    /\ consumer = "createNamespace"
    /\ \E o \in Outcomes :
          /\ Call(o)
          /\ namespaces' = IF o = "refused" THEN namespaces
                           ELSE namespaces \cup {UserOf[Instance(inHand)]}
          /\ Proceed(IF o = "ok" THEN "createDeployment" ELSE Failed("transient"))
    /\ UNCHANGED <<rows, audited, handlerVars, dpVars>>

CreateDeployment ==
    /\ consumer = "createDeployment"
    /\ LET i == Instance(inHand)
           absent == deployment[i].state # "up" IN
       \E o \in Outcomes :
          /\ Call(o)
          /\ IF o = "refused" \/ ~absent THEN UNCHANGED dpVars
             ELSE DP!Overwrite(i, [state |-> "up", replicas |-> 1,
                                   image |-> Event[inHand].image])
          /\ Proceed(IF o = "ok" /\ absent THEN "audit"
                     ELSE Failed(IF o = "refused" THEN "transient" ELSE "exists"))
    /\ UNCHANGED <<storeVars, handlerVars>>

\* A failure to log sends the message back.
Audit ==
    /\ consumer = "audit"
    /\ \E o \in Outcomes :
          /\ Call(o)
          /\ audited' = IF o = "refused" THEN audited
                        ELSE audited \cup {Instance(inHand)}
          /\ Proceed(IF o = "ok" THEN "ack" ELSE Failed("transient"))
    /\ UNCHANGED <<rows, namespaces, handlerVars, dpVars>>

Settle_silent ==   \* mutant: a message to be requeued is not rejected
    /\ consumer \in {"ack", "requeue", "drop"}
    /\ consumer' = "waiting"
    /\ inHand' = NoMessage
    /\ unacked' = IF consumer = "requeue" THEN unacked ELSE NoMessage
    /\ acked' = IF channel = "open" /\ consumer = "ack"
                THEN acked \cup {inHand} ELSE acked
    /\ dead' = IF channel = "open" /\ consumer = "drop"
               THEN dead \cup {inHand} ELSE dead
    /\ UNCHANGED <<unsent, queue, deliveries, channel, storeVars, handlerVars, dpVars>>
    /\ UNCHANGED <<faults, outages>>

\* Ack, Reject(true) or Reject(false); on a closed channel they only fail, and the
\* broker has taken the message back already.
Settle ==
    /\ consumer \in {"ack", "requeue", "drop"}
    /\ consumer' = "waiting"
    /\ inHand' = NoMessage
    /\ unacked' = NoMessage
    /\ acked' = IF channel = "open" /\ consumer = "ack"
                THEN acked \cup {inHand} ELSE acked
    /\ dead' = IF channel = "open" /\ consumer = "drop"
               THEN dead \cup {inHand} ELSE dead
    /\ queue' = IF channel = "open" /\ consumer = "requeue"
                THEN <<inHand>> \o queue ELSE queue
    /\ UNCHANGED <<unsent, deliveries, channel, storeVars, handlerVars, dpVars>>
    /\ UNCHANGED <<faults, outages>>

\* The loop finds the channel closed.  The error on notifyClose and the closed
\* delivery channel are both ready after a busy spell, and select takes either: the
\* first makes Start fail, which ends the process; the second makes it return nil.
\* After Stop there is no error; Start returns nil, and the process ends.
LoopEnds ==
    /\ consumer = "waiting" /\ channel # "open"
    /\ consumer' \in IF channel = "stopped" THEN {"down"} ELSE {"down", "ended"}
    /\ UNCHANGED <<brokerVars, inHand, storeVars, handlerVars, dpVars>>
    /\ UNCHANGED <<faults, outages>>
-----------------------------------------------------------------------------
(* The world around the consumer.                                          *)

\* The channel is lost; an idle loop is woken by notifyClose and fails.
LoseChannel ==
    /\ channel = "open" /\ consumer \notin Stopped /\ outages < MaxOutages
    /\ outages' = outages + 1
    /\ channel' = "closed"
    /\ queue' = TakenBack
    /\ unacked' = NoMessage
    /\ consumer' = IF consumer = "waiting" THEN "down" ELSE consumer
    /\ UNCHANGED <<unsent, acked, dead, deliveries, inHand, storeVars, handlerVars>>
    /\ UNCHANGED <<dpVars, faults>>

Crash ==
    /\ consumer # "down" /\ outages < MaxOutages
    /\ outages' = outages + 1
    /\ consumer' = "down"
    /\ inHand' = NoMessage
    /\ channel' = "closed"
    /\ queue' = TakenBack
    /\ unacked' = NoMessage
    /\ UNCHANGED <<unsent, acked, dead, deliveries, storeVars, handlerVars, dpVars>>
    /\ UNCHANGED faults

\* The service is told to end while the consumer may be busy: the channel is closed
\* under the message in its hands, which the broker takes back, no further request
\* is accepted, and the loop ends when it comes back to its select.
Stop ==
    /\ channel = "open" /\ consumer \notin Stopped /\ outages < MaxOutages
    /\ outages' = outages + 1
    /\ channel' = "stopped"
    /\ queue' = TakenBack
    /\ unacked' = NoMessage
    /\ UNCHANGED <<unsent, acked, dead, deliveries, consumerVars, storeVars>>
    /\ UNCHANGED <<handlerVars, dpVars, faults>>

\* The broker cannot be reached: NewRabbitMQ returns no connection and no error, and
\* Start waits without consuming.
NoBroker == consumer' = "ended" /\ channel' = "closed"

\* The database or the cluster cannot be reached, and wireApp fails.
NoClients == UNCHANGED <<consumer, channel>>

\* The channel cannot be opened, or exchanges and queues not be declared: Start fails,
\* and with it the process.
NotDeclared == UNCHANGED <<consumer, channel>>

\* The process is started again; what its goroutines held is gone.
StartProcess ==
    /\ consumer = "down"
    /\ \/ consumer' = "waiting" /\ channel' = "open" /\ UNCHANGED faults
       \/ /\ faults < MaxFaults /\ faults' = faults + 1
          /\ NoBroker \/ NoClients \/ NotDeclared
    /\ pc' = [h \in Handlers |-> "idle"]
    /\ req' = [h \in Handlers |-> NoRequest]
    /\ DP!DropAll
    /\ UNCHANGED <<unsent, queue, unacked, acked, dead, deliveries, inHand, storeVars>>
    /\ UNCHANGED outages
-----------------------------------------------------------------------------
(* The API handlers: StopInstance, StartInstance, UpdateInstance and the   *)
(* Deployment of DeleteInstance (PortExposure has the rest of it).         *)

Receive(h) ==
    /\ consumer # "down" /\ channel # "stopped"
    /\ pc[h] = "idle"
    /\ \E r \in Requests : req' = [req EXCEPT ![h] = r]
    /\ pc' = [pc EXCEPT ![h] = "find"]
    /\ UNCHANGED <<brokerVars, consumerVars, storeVars, dpVars, faults, outages>>

Step(h, from, o) ==
    /\ consumer # "down"
    /\ pc[h] = from
    /\ Call(o)
    /\ UNCHANGED <<brokerVars, consumerVars, storeVars, outages>>

Then(h, step) == pc' = [pc EXCEPT ![h] = step] /\ UNCHANGED req
Reply(h) == pc' = [pc EXCEPT ![h] = "idle"] /\ req' = [req EXCEPT ![h] = NoRequest]

Target(h) == req[h].instance
Exists(i) == deployment[i].state = "up"

FirstStep(op) ==
    CASE op \in {"stop", "start"} -> "getScale"
      [] op = "update" -> "getSpec"
      [] op = "delete" -> "remove"

\* GetResource: a row is never marked as deleted.
Find(h) ==
    /\ \E o \in {"ok", "refused"} :
          /\ Step(h, "find", o)
          /\ IF o = "ok" /\ Target(h) \in rows THEN Then(h, FirstStep(req[h].op))
             ELSE Reply(h)
    /\ UNCHANGED dpVars

\* GetScale, or Get of the Deployment.
GetDeployment_unchecked(h, from, to) ==   \* mutant: a missing Deployment is no error
    \E o \in {"ok", "refused"} :
       /\ Step(h, from, o)
       /\ IF o = "ok" THEN DP!Get(h, Target(h)) /\ Then(h, to)
          ELSE UNCHANGED dpVars /\ Reply(h)

GetDeployment(h, from, to) ==
    \E o \in {"ok", "refused"} :
       /\ Step(h, from, o)
       /\ IF o = "ok" /\ Exists(Target(h)) THEN DP!Get(h, Target(h)) /\ Then(h, to)
          ELSE UNCHANGED dpVars /\ Reply(h)

\* UpdateScale, or Update of the Deployment, with the resourceVersion that was read.
Accepted_unversioned(h) == TRUE   \* mutant: the version is left out
Accepted(h) == DP!Current(h, Target(h))

PutDeployment(h, from, content) ==
    \E o \in Outcomes :
       /\ Step(h, from, o)
       /\ IF o # "refused" /\ Accepted(h)
          THEN DP!Put(h, Target(h), content)
          ELSE DP!Drop(h)
       /\ Reply(h)

GetScale(h) == GetDeployment(h, "getScale", "putScale")
PutScale(h) ==
    PutDeployment(h, "putScale",
        [dpCopy[h] EXCEPT !.replicas = IF req[h].op = "start" THEN 1 ELSE 0])

GetSpec(h) == GetDeployment(h, "getSpec", "putSpec")
PutSpec(h) ==
    PutDeployment(h, "putSpec",
        [dpCopy[h] EXCEPT !.image = IF req[h].image = "" THEN @ ELSE req[h].image])

\* Deleting a Deployment that is not there is no error.
Remove(h) ==
    \E o \in Outcomes :
       /\ Step(h, "remove", o)
       /\ IF o # "refused" /\ Exists(Target(h)) THEN DP!Overwrite(Target(h), Gone)
          ELSE UNCHANGED dpVars
       /\ Reply(h)

Serving(h) ==
    Find(h) \/ GetScale(h) \/ PutScale(h) \/ GetSpec(h) \/ PutSpec(h) \/ Remove(h)

Consuming ==
    \/ Deliver \/ InsertRow \/ GetNamespace \/ CreateNamespace \/ CreateDeployment
    \/ Audit \/ Settle \/ LoopEnds

Next ==
    \/ \E m \in Messages : Publish(m)
    \/ Consuming
    \/ \E h \in Handlers : Receive(h) \/ Serving(h)
    \/ LoseChannel \/ Crash \/ Stop \/ StartProcess

Spec == Init /\ [][Next]_vars

\* The consumer's loop runs whenever it can, and a process that has ended is
\* started again.
FairSpec == Spec /\ WF_vars(Consuming) /\ WF_vars(StartProcess)
-----------------------------------------------------------------------------
(* Properties.                                                             *)

\* The stages of CreateInstance happen in order and survive what interrupts them: a
\* Deployment has its namespace and its row, a log entry has its Deployment, and a
\* message is acknowledged only once the row it asks for is there.
StagesInOrder ==
    /\ \A i \in Instances :
          deployment[i] # Never => i \in rows /\ UserOf[i] \in namespaces
    /\ \A i \in audited : deployment[i] # Never
    /\ \A m \in acked : Event[m].kind = "created" => Instance(m) \in rows

\* What InstanceLife calls the life of an instance: its row, then its Deployment.
Life(i) ==
    IF deployment[i] # Never THEN deployment[i]
    ELSE [Never EXCEPT !.state = IF i \in rows THEN "recorded" ELSE "absent"]

Creations(i) == {m \in Messages : Event[m].kind = "created" /\ Instance(m) = i}

\* Delivery is at least once, by a consumer that crashes, stops and loses its channel,
\* while handlers scale, update and delete: an instance still comes up at most once, by
\* one of its creations, and what has been deleted is not brought back.
InstanceLife ==
    INSTANCE InstanceLife WITH
        Asked <- [i \in Instances |-> {Event[m].image : m \in Creations(i)}],
        life <- [i \in Instances |-> Life(i)]
ImplementsLife == InstanceLife!Spec

\* Only an event that can never succeed ends in the dead-letter queue, whatever
\* calls fail and however often the message is delivered.
OnlyInvalidDropped == \A m \in dead : Event[m].kind = "invalid"

\* StopInstance, StartInstance and UpdateInstance read a Deployment and write it
\* back, UpdateInstance the whole of it; none undoes what another has changed:
\* replicas change only by scaling, the image only by an update.
ChangesOwnField ==
    [][\A i \in Instances :
         deployment[i].state = "up" /\ deployment'[i].state = "up" =>
           /\ deployment[i].replicas # deployment'[i].replicas =>
                \E h \in Handlers : pc[h] = "putScale" /\ Target(h) = i /\ pc'[h] # pc[h]
           /\ deployment[i].image # deployment'[i].image =>
                \E h \in Handlers : pc[h] = "putSpec" /\ Target(h) = i /\ pc'[h] # pc[h]]_vars

\* A message that is published is acknowledged or dead-lettered in the end, through
\* crashes, lost channels and failed calls, unless the consumer has ended for good.
EverySettled ==
    \A m \in Messages :
        m \notin unsent ~> m \in acked \cup dead \/ consumer = "ended"
-----------------------------------------------------------------------------
(* What the comments of the code say, and the code does not do.            *)

\* "K8s API temporary errors: retryable": a creation that was acknowledged has made
\* its Deployment, at the first delivery or at a later one.
AckedIsDeployed ==
    \A m \in acked : Event[m].kind = "created" => deployment[Instance(m)] # Never

\* "More than the maximum number of retries: reject, to the dead-letter queue": no
\* message is delivered more often than once and max_retries times again.
BoundedRetries == \A m \in Messages : deliveries[m] <= MaxRetries + 1
=============================================================================
