---------------------------- MODULE PortExposure ----------------------------
(***************************************************************************)
(* Opening and closing the ports of instances: the SetInstancePort and     *)
(* DeleteInstance requests, from the service handler through the use case  *)
(* to the Kubernetes repository and the instance_network table.            *)
(*                                                                         *)
(* Every handler runs one request at a time.  A step of a handler is one   *)
(* call to the API server or to the database, or one access to the shared  *)
(* port counter; between two steps other handlers run.  A call may succeed,*)
(* be refused without effect, or take effect with its answer lost; when    *)
(* the deadline of the request passes, every later call on its context is  *)
(* refused, the calls of a rollback included.                              *)
(***************************************************************************)
EXTENDS Integers, Sequences

CONSTANTS
    Handlers,      \* goroutines serving requests; one element: no concurrency
    Instances,     \* IDs that have a row in the instance table
    Ports,         \* the valid ports requests name
    RangeStart,    \* tcp_udp_port_range_start
    RangeEnd,      \* tcp_udp_port_range_end
    Requests,      \* the requests clients may send
    MaxFaults,     \* bound: calls that fail and deadlines that pass
    MaxRestarts    \* bound: restarts of the process

VARIABLES
    pc,            \* [Handlers -> Steps]: the next step of a handler
    req, pos,      \* its request and the index of the port config in hand
    success,       \* successCount: configs that succeeded so far
    answer,        \* the outcome of the config just finished
    expired,       \* handlers whose context is past its deadline
    protocol, external,  \* of the opening, or of the row that is being closed
    plan,          \* deletions still to make
    victims,       \* Services listed for deletion
    nextPort,      \* k8sRepo.nextAvailablePort
    bindings,      \* rows of instance_network
    deployments,   \* instances that have a Deployment
    services,      \* keys whose ClusterIP Service exists
    ingresses,     \* keys whose Ingress exists
    configMaps, cmCopy, cmHeld,  \* tcp-services and udp-services
    lbPorts, lbCopy, lbHeld,     \* the ports of the ingress-nginx Service
    faults, restarts             \* counted against the bounds

jobVars == <<req, pos, success, expired, protocol, external, victims>>
handlerVars == <<pc, answer, plan, jobVars>>
cmVars == <<configMaps, cmCopy, cmHeld>>
lbVars == <<lbPorts, lbCopy, lbHeld>>
clusterVars == <<deployments, services, ingresses, cmVars, lbVars>>
vars == <<handlerVars, nextPort, bindings, clusterVars, faults, restarts>>
-----------------------------------------------------------------------------
L4 == {"TCP", "UDP"}
Protocols == L4 \cup {"HTTP"}

\* A Service, an Ingress and a row are named by the instance and its port.
Keys == Instances \X Ports
NoKey == <<>>

ExternalPorts == RangeStart .. RangeEnd
NoPort == 0
MaybePort == ExternalPorts \cup {NoPort}

\* A port of the ingress-nginx Service: protocol and number.
Exposure == L4 \X ExternalPorts

ConfigMap == [ExternalPorts -> Keys \cup {NoKey}]
EmptyMap == [e \in ExternalPorts |-> NoKey]

Binding == [key : Keys, protocol : Protocols, external : MaybePort]

ValidPorts == 1 .. 65535
PortConfig == [port : Nat, protocol : Protocols \cup {"", "SCTP"}, domain : BOOLEAN]
Request ==
    [op : {"open", "close", "delete"}, instance : Nat, configs : Seq(PortConfig)]
NoRequest == [op |-> "none", instance |-> 0, configs |-> <<>>]

ASSUME PortsAssumption == Ports \subseteq ValidPorts
ASSUME InstancesAssumption == Instances \subseteq Nat \ {0}
ASSUME RangeAssumption == RangeStart \in Nat \ {0} /\ RangeEnd \in Nat
ASSUME BoundsAssumption == MaxFaults \in Nat /\ MaxRestarts \in Nat
ASSUME RequestsAssumption == Requests \subseteq Request
ASSUME DeletionsAssumption ==
    \A r \in Requests : r.op = "delete" => r.configs = <<>>
ASSUME NamedPortsAssumption ==
    \A r \in Requests : \A i \in 1 .. Len(r.configs) :
        r.configs[i].port \in ValidPorts => r.configs[i].port \in Ports

CM == INSTANCE ApiObject WITH
        Clients <- Handlers, Objects <- L4, Unread <- EmptyMap, NoObject <- "none",
        store <- configMaps, copy <- cmCopy, held <- cmHeld

LB == INSTANCE ApiObject WITH
        Clients <- Handlers, Objects <- {"service"}, Unread <- {}, NoObject <- "none",
        store <- lbPorts, copy <- lbCopy, held <- lbHeld
-----------------------------------------------------------------------------
OpenSteps == {"loadCounter", "storeCounter", "getMap", "putMap", "getPorts",
              "putPorts", "createService", "createIngress", "commit"}
CleanupSteps == {"delService", "delIngress", "delEntry", "delRow"}
DeleteSteps == {"dropRows", "dropDeployment", "listServices", "dropServices",
                "dropIngresses"}
Steps == {"idle", "validate", "lookup", "served"} \cup OpenSteps \cup CleanupSteps
         \cup {"delEntryPut", "delPortGet", "delPortPut"} \cup DeleteSteps

Plans == Seq(CleanupSteps)
MaybeRequest == Requests \cup {NoRequest}
Answers == {"none", "success", "failure"}

Config(h) == req[h].configs[pos[h]]
Key(h) == <<req[h].instance, Config(h).port>>
RowsOf(k) == {b \in bindings : b.key = k}

TypeOK ==
    /\ pc \in [Handlers -> Steps]
    /\ req \in [Handlers -> MaybeRequest]
    /\ pos \in [Handlers -> Nat]
    /\ success \in [Handlers -> Nat]
    /\ answer \in [Handlers -> Answers]
    /\ expired \subseteq Handlers
    /\ protocol \in [Handlers -> Protocols]
    /\ external \in [Handlers -> MaybePort]
    /\ plan \in [Handlers -> Plans]
    /\ victims \in [Handlers -> SUBSET Keys]
    /\ nextPort \in ExternalPorts \cup {RangeStart, RangeEnd + 1}
    /\ bindings \subseteq Binding
    /\ deployments \subseteq Instances
    /\ services \subseteq Keys
    /\ ingresses \subseteq Keys
    /\ CM!TypeOK(ConfigMap)
    /\ LB!TypeOK(SUBSET Exposure)
    /\ faults \in 0 .. MaxFaults
    /\ restarts \in 0 .. MaxRestarts

Init ==
    /\ pc = [h \in Handlers |-> "idle"]
    /\ req = [h \in Handlers |-> NoRequest]
    /\ pos = [h \in Handlers |-> 0]
    /\ success = [h \in Handlers |-> 0]
    /\ answer = [h \in Handlers |-> "none"]
    /\ expired = {}
    /\ protocol = [h \in Handlers |-> "HTTP"]
    /\ external = [h \in Handlers |-> NoPort]
    /\ plan = [h \in Handlers |-> <<>>]
    /\ victims = [h \in Handlers |-> {}]
    /\ nextPort = RangeStart
    /\ bindings = {}
    /\ deployments = Instances
    /\ services = {}
    /\ ingresses = {}
    /\ CM!Init0(EmptyMap)
    /\ LB!Init0({})
    /\ faults = 0
    /\ restarts = 0
-----------------------------------------------------------------------------
(* Calls.                                                                  *)

Outcomes == {"ok", "refused", "lost"}

\* A call of h with outcome o; only "ok" is reported to h as a success, and
\* only "refused" leaves no trace.
Call(h, o) ==
    \/ o = "ok" /\ h \notin expired /\ UNCHANGED faults
    \/ o = "refused" /\ h \in expired /\ UNCHANGED faults
    \/ /\ o \in {"refused", "lost"} /\ h \notin expired
       /\ faults < MaxFaults /\ faults' = faults + 1

\* A call that only reads.
Read(h, o) == o \in {"ok", "refused"} /\ Call(h, o)

Go(h, step) ==
    /\ pc' = [pc EXCEPT ![h] = step]
    /\ UNCHANGED <<answer, plan, jobVars>>

\* The port config in hand is done.
Serve(h, outcome) ==
    /\ pc' = [pc EXCEPT ![h] = "served"]
    /\ answer' = [answer EXCEPT ![h] = outcome]
    /\ plan' = [plan EXCEPT ![h] = <<>>]
    /\ UNCHANGED jobVars

\* Make the deletions, in order, whatever becomes of each.
Perform(h, deletions) ==
    IF deletions = <<>> THEN Serve(h, "failure")
    ELSE /\ pc' = [pc EXCEPT ![h] = Head(deletions)]
         /\ plan' = [plan EXCEPT ![h] = Tail(deletions)]
         /\ UNCHANGED <<answer, jobVars>>

NextCleanup(h) == Perform(h, plan[h])
-----------------------------------------------------------------------------
(* The service handler: one request, one port config after the other.      *)

Effective(c) == IF c.protocol = "" THEN "HTTP" ELSE c.protocol

Valid(c) ==
    /\ c.port \in ValidPorts
    /\ Effective(c) \in Protocols
    /\ Effective(c) = "HTTP" => c.domain

\* A request the handler does not reject as a whole.
Receive(h) ==
    /\ pc[h] = "idle"
    /\ \E r \in Requests :
          /\ r.instance # 0
          /\ r.op # "delete" => r.configs # <<>>
          /\ req' = [req EXCEPT ![h] = r]
          /\ pos' = [pos EXCEPT ![h] = 1]
          /\ pc' = [pc EXCEPT ![h] = IF r.op = "delete" THEN "lookup" ELSE "validate"]
    /\ UNCHANGED <<success, answer, expired, protocol, external, plan, victims>>
    /\ UNCHANGED <<nextPort, bindings, clusterVars, faults, restarts>>

Validate(h) ==
    /\ pc[h] = "validate"
    /\ IF Valid(Config(h))
       THEN /\ protocol' = [protocol EXCEPT ![h] = Effective(Config(h))]
            /\ pc' = [pc EXCEPT ![h] = "lookup"]
            /\ UNCHANGED <<req, pos, success, answer, expired, external, plan, victims>>
       ELSE Serve(h, "failure")
    /\ UNCHANGED <<nextPort, bindings, clusterVars, faults, restarts>>

\* successCount once the config in hand is counted.
Successes(h) == success[h] + IF answer[h] = "success" THEN 1 ELSE 0

\* The config is answered; the handler goes on to the next or replies.
Advance(h) ==
    /\ pc[h] = "served"
    /\ LET more == pos[h] < Len(req[h].configs) IN
       /\ pc' = [pc EXCEPT ![h] = IF more THEN "validate" ELSE "idle"]
       /\ req' = [req EXCEPT ![h] = IF more THEN @ ELSE NoRequest]
       /\ pos' = [pos EXCEPT ![h] = IF more THEN @ + 1 ELSE 0]
       /\ success' = [success EXCEPT ![h] = IF more THEN Successes(h) ELSE 0]
       /\ expired' = IF more THEN expired ELSE expired \ {h}
    /\ answer' = [answer EXCEPT ![h] = "none"]
    /\ protocol' = [protocol EXCEPT ![h] = "HTTP"]
    /\ external' = [external EXCEPT ![h] = NoPort]
    /\ UNCHANGED <<plan, victims>>
    /\ UNCHANGED <<nextPort, bindings, clusterVars, faults, restarts>>
-----------------------------------------------------------------------------
(* The use case: is there anything to do?                                  *)

\* closePort goes by the row: the Service, then the Ingress or the ConfigMap
\* entry, then the row itself.
StartClosing(h, b) ==
    /\ protocol' = [protocol EXCEPT ![h] = b.protocol]
    /\ external' = [external EXCEPT ![h] = b.external]
    /\ pc' = [pc EXCEPT ![h] = "delService"]
    /\ plan' = [plan EXCEPT ![h] =
                  <<IF b.protocol = "HTTP" THEN "delIngress" ELSE "delEntry", "delRow">>]
    /\ UNCHANGED <<req, pos, success, answer, expired, victims>>

\* GetResource, then GetNetworkBinding for a port.
Lookup(h) ==
    /\ pc[h] = "lookup"
    /\ \E o \in Outcomes :
          /\ Read(h, o)
          /\ IF o # "ok" \/ req[h].instance \notin Instances
             THEN Serve(h, "failure")
             ELSE CASE req[h].op = "delete" -> Go(h, "dropRows")
                    [] req[h].op = "open" ->
                         IF RowsOf(Key(h)) # {} THEN Serve(h, "success")
                         ELSE Go(h, "createService")
                    [] req[h].op = "close" ->
                         IF RowsOf(Key(h)) = {} THEN Serve(h, "success")
                         ELSE \E b \in RowsOf(Key(h)) :
                                StartClosing(h, b)
    /\ UNCHANGED <<nextPort, bindings, clusterVars, restarts>>
-----------------------------------------------------------------------------
(* Opening a port.                                                         *)

\* The Service was not there and is now; AlreadyExists is a failure.
Created_tolerant(h, o) == o = "ok"   \* mutant: AlreadyExists is taken for success
Created(h, o) == o = "ok" /\ Key(h) \notin services

CreateService(h) ==
    /\ pc[h] = "createService"
    /\ \E o \in Outcomes :
          /\ Call(h, o)
          /\ services' = IF o = "refused" THEN services ELSE services \cup {Key(h)}
          /\ IF Created(h, o)
             THEN Go(h, IF protocol[h] \in L4 THEN "loadCounter"
                        ELSE "createIngress")
             ELSE Serve(h, "failure")
    /\ UNCHANGED <<nextPort, bindings, deployments, ingresses, cmVars, lbVars, restarts>>

PoolExhausted_late == nextPort > RangeEnd + 1   \* mutant: off by one
PoolExhausted == nextPort > RangeEnd

UndoAllocate_forgotten(h) == Serve(h, "failure")   \* mutant: the Service stays
UndoAllocate(h) == Perform(h, <<"delService">>)

\* allocateExternalPort takes no lock: it reads the counter in one step ...
LoadCounter(h) ==
    /\ pc[h] = "loadCounter"
    /\ IF PoolExhausted THEN UndoAllocate(h)
       ELSE /\ external' = [external EXCEPT ![h] = nextPort]
            /\ pc' = [pc EXCEPT ![h] = "storeCounter"]
            /\ UNCHANGED <<req, pos, success, answer, expired, protocol, plan, victims>>
    /\ UNCHANGED <<nextPort, bindings, clusterVars, faults, restarts>>

\* ... and writes it back in another.
StoreCounter_stuck(h) ==   \* mutant: the counter is not advanced
    /\ pc[h] = "storeCounter"
    /\ Go(h, "getMap")
    /\ UNCHANGED <<nextPort, bindings, clusterVars, faults, restarts>>

StoreCounter(h) ==
    /\ pc[h] = "storeCounter"
    /\ nextPort' = external[h] + 1
    /\ Go(h, "getMap")
    /\ UNCHANGED <<bindings, clusterVars, faults, restarts>>

GetMap(h) ==
    /\ pc[h] = "getMap"
    /\ \E o \in Outcomes :
          /\ Read(h, o)
          /\ IF o = "ok"
             THEN CM!Get(h, protocol[h]) /\ Go(h, "putMap")
             ELSE UNCHANGED cmVars /\ Perform(h, <<"delService">>)
    /\ UNCHANGED <<nextPort, bindings, deployments, services, ingresses, lbVars, restarts>>

\* cm.Data[key] = value, on the copy that Get returned.
WithEntry_only(h) == [EmptyMap EXCEPT ![external[h]] = Key(h)]   \* mutant: Data made anew
WithEntry(h) == [cmCopy[h] EXCEPT ![external[h]] = Key(h)]

\* Update(ctx, cm) sends the resourceVersion that Get returned.
MapAccepted_unversioned(h) == TRUE   \* mutant: the version is left out
MapAccepted(h) == CM!Current(h, protocol[h])

PutMap(h) ==
    /\ pc[h] = "putMap"
    /\ LET p == protocol[h]
           accepted == MapAccepted(h) IN
       \E o \in Outcomes :
          /\ Call(h, o)
          /\ IF o # "refused" /\ accepted
             THEN CM!Put(h, p, WithEntry(h))
             ELSE CM!Drop(h)
          /\ IF o = "ok" /\ accepted THEN Go(h, "getPorts")
             ELSE Perform(h, <<"delService">>)
    /\ UNCHANGED <<nextPort, bindings, deployments, services, ingresses, lbVars, restarts>>

OwnExposure(h) == <<protocol[h], external[h]>>

\* patchIngressNginxServicePort failed: roll back the entry, then the Service.
UndoPatch_ignored(h) == Go(h, "commit")   \* mutant: the error is only logged
UndoPatch(h) == Perform(h, <<"delEntry", "delService">>)

GetPorts(h) ==
    /\ pc[h] = "getPorts"
    /\ \E o \in Outcomes :
          /\ Read(h, o)
          /\ CASE o # "ok" -> UNCHANGED lbVars /\ UndoPatch(h)
               [] o = "ok" /\ OwnExposure(h) \in lbPorts["service"] ->
                    UNCHANGED lbVars /\ Go(h, "commit")
               [] o = "ok" /\ OwnExposure(h) \notin lbPorts["service"] ->
                    LB!Get(h, "service") /\ Go(h, "putPorts")
    /\ UNCHANGED <<nextPort, bindings, deployments, services, ingresses, cmVars, restarts>>

PutPorts(h) ==
    /\ pc[h] = "putPorts"
    /\ LET accepted == LB!Current(h, "service") IN
       \E o \in Outcomes :
          /\ Call(h, o)
          /\ IF o # "refused" /\ accepted
             THEN LB!Put(h, "service", lbCopy[h] \cup {OwnExposure(h)})
             ELSE LB!Drop(h)
          /\ IF o = "ok" /\ accepted THEN Go(h, "commit") ELSE UndoPatch(h)
    /\ UNCHANGED <<nextPort, bindings, deployments, services, ingresses, cmVars, restarts>>

CreateIngress(h) ==
    /\ pc[h] = "createIngress"
    /\ \E o \in Outcomes :
          /\ Call(h, o)
          /\ ingresses' = IF o = "refused" THEN ingresses ELSE ingresses \cup {Key(h)}
          /\ IF o # "ok" \/ Key(h) \in ingresses THEN Perform(h, <<"delService">>)
             ELSE Go(h, "commit")
    /\ UNCHANGED <<nextPort, bindings, deployments, services, cmVars, lbVars, restarts>>

\* CreateNetworkBinding: the primary key admits one row per instance and port.
Commit(h) ==
    /\ pc[h] = "commit"
    /\ LET row == [key |-> Key(h), protocol |-> protocol[h],
                   external |-> external[h]]
           duplicate == RowsOf(Key(h)) # {} IN
       \E o \in Outcomes :
          /\ Call(h, o)
          /\ bindings' = IF o = "refused" \/ duplicate THEN bindings
                         ELSE bindings \cup {row}
          /\ IF o = "ok" /\ ~duplicate THEN Serve(h, "success")
             ELSE Perform(h, <<"delService", IF protocol[h] = "HTTP"
                                             THEN "delIngress" ELSE "delEntry">>)
    /\ UNCHANGED <<nextPort, clusterVars, restarts>>
-----------------------------------------------------------------------------
(* The deletions a rollback and a closing are made of.                     *)

DelService_retried(h) ==   \* mutant: try again until the Service is gone
    /\ pc[h] = "delService"
    /\ \E o \in Outcomes :
          /\ Call(h, o)
          /\ services' = IF o = "refused" THEN services ELSE services \ {Key(h)}
          /\ IF o = "ok" THEN NextCleanup(h) ELSE UNCHANGED handlerVars
    /\ UNCHANGED <<nextPort, bindings, deployments, ingresses, cmVars, lbVars, restarts>>

DelService(h) ==
    /\ pc[h] = "delService"
    /\ \E o \in Outcomes :
          /\ Call(h, o)
          /\ services' = IF o = "refused" THEN services ELSE services \ {Key(h)}
    /\ NextCleanup(h)
    /\ UNCHANGED <<nextPort, bindings, deployments, ingresses, cmVars, lbVars, restarts>>

DelIngress(h) ==
    /\ pc[h] = "delIngress"
    /\ \E o \in Outcomes :
          /\ Call(h, o)
          /\ ingresses' = IF o = "refused" THEN ingresses ELSE ingresses \ {Key(h)}
    /\ NextCleanup(h)
    /\ UNCHANGED <<nextPort, bindings, deployments, services, cmVars, lbVars, restarts>>

\* DeleteTCPUDPConfigMapEntry begins; an empty ConfigMap comes back with a
\* nil Data, and its Update is skipped.
DelEntry(h) ==
    /\ pc[h] = "delEntry"
    /\ LET p == protocol[h] IN
       \E o \in Outcomes :
          /\ Read(h, o)
          /\ CASE o # "ok" -> UNCHANGED cmVars /\ NextCleanup(h)
               [] o = "ok" /\ configMaps[p] = EmptyMap ->
                    UNCHANGED cmVars /\ Go(h, "delPortGet")
               [] o = "ok" /\ configMaps[p] # EmptyMap ->
                    CM!Get(h, p) /\ Go(h, "delEntryPut")
    /\ UNCHANGED <<nextPort, bindings, deployments, services, ingresses, lbVars, restarts>>

DelEntryPut(h) ==
    /\ pc[h] = "delEntryPut"
    /\ LET p == protocol[h]
           accepted == MapAccepted(h) IN
       \E o \in Outcomes :
          /\ Call(h, o)
          /\ IF o # "refused" /\ accepted
             THEN CM!Put(h, p, [cmCopy[h] EXCEPT ![external[h]] = NoKey])
             ELSE CM!Drop(h)
          /\ IF o = "ok" /\ accepted THEN Go(h, "delPortGet") ELSE NextCleanup(h)
    /\ UNCHANGED <<nextPort, bindings, deployments, services, ingresses, lbVars, restarts>>

\* removeIngressNginxServicePort, whose failure is only a warning.
DelPortGet(h) ==
    /\ pc[h] = "delPortGet"
    /\ \E o \in Outcomes :
          /\ Read(h, o)
          /\ IF o = "ok" /\ OwnExposure(h) \in lbPorts["service"]
             THEN LB!Get(h, "service") /\ Go(h, "delPortPut")
             ELSE UNCHANGED lbVars /\ NextCleanup(h)
    /\ UNCHANGED <<nextPort, bindings, deployments, services, ingresses, cmVars, restarts>>

DelPortPut(h) ==
    /\ pc[h] = "delPortPut"
    /\ \E o \in Outcomes :
          /\ Call(h, o)
          /\ IF o # "refused" /\ LB!Current(h, "service")
             THEN LB!Put(h, "service", lbCopy[h] \ {OwnExposure(h)})
             ELSE LB!Drop(h)
    /\ NextCleanup(h)
    /\ UNCHANGED <<nextPort, bindings, deployments, services, ingresses, cmVars, restarts>>

\* DeleteNetworkBinding: deleting no row is an error.
RowDeleted_assumed(h, o) == "success"   \* mutant: the error is only logged
RowDeleted(h, o) ==
    IF o = "ok" /\ RowsOf(Key(h)) # {} THEN "success" ELSE "failure"

DelRow(h) ==
    /\ pc[h] = "delRow"
    /\ \E o \in Outcomes :
          /\ Call(h, o)
          /\ bindings' = IF o = "refused" THEN bindings ELSE bindings \ RowsOf(Key(h))
          /\ Serve(h, RowDeleted(h, o))
    /\ UNCHANGED <<nextPort, clusterVars, restarts>>
-----------------------------------------------------------------------------
(* Deleting an instance.                                                   *)

Of(keys, i) == {k \in keys : k[1] = i}

\* BatchDeleteNetworkBindings, whose failure is only a warning.
DropRows(h) ==
    /\ pc[h] = "dropRows"
    /\ \E o \in Outcomes :
          /\ Call(h, o)
          /\ bindings' = IF o = "refused" THEN bindings
                         ELSE {b \in bindings : b.key[1] # req[h].instance}
    /\ Go(h, "dropDeployment")
    /\ UNCHANGED <<nextPort, clusterVars, restarts>>

DropDeployment(h) ==
    /\ pc[h] = "dropDeployment"
    /\ \E o \in Outcomes :
          /\ Call(h, o)
          /\ deployments' = IF o = "refused" THEN deployments
                            ELSE deployments \ {req[h].instance}
          /\ IF o = "ok" THEN Go(h, "listServices") ELSE Serve(h, "failure")
    /\ UNCHANGED <<nextPort, bindings, services, ingresses, cmVars, lbVars, restarts>>

ListServices(h) ==
    /\ pc[h] = "listServices"
    /\ \E o \in Outcomes :
          /\ Read(h, o)
          /\ LET found == IF o = "ok" THEN Of(services, req[h].instance) ELSE {} IN
             /\ victims' = [victims EXCEPT ![h] = found]
             /\ pc' = [pc EXCEPT ![h] = IF found = {} THEN "dropIngresses"
                                       ELSE "dropServices"]
    /\ UNCHANGED <<req, pos, success, answer, expired, protocol, external, plan>>
    /\ UNCHANGED <<nextPort, bindings, clusterVars, restarts>>

\* One Service of the list at a time.
DropServices(h) ==
    /\ pc[h] = "dropServices"
    /\ \E k \in victims[h], o \in Outcomes :
          /\ Call(h, o)
          /\ services' = IF o = "refused" THEN services ELSE services \ {k}
          /\ victims' = [victims EXCEPT ![h] = @ \ {k}]
          /\ pc' = [pc EXCEPT ![h] = IF victims[h] = {k} THEN "dropIngresses" ELSE @]
    /\ UNCHANGED <<req, pos, success, answer, expired, protocol, external, plan>>
    /\ UNCHANGED <<nextPort, bindings, deployments, ingresses, cmVars, lbVars, restarts>>

DropIngresses(h) ==
    /\ pc[h] = "dropIngresses"
    /\ \E o \in Outcomes :
          /\ Call(h, o)
          /\ ingresses' = IF o = "refused" THEN ingresses
                          ELSE ingresses \ Of(ingresses, req[h].instance)
    /\ Serve(h, "success")
    /\ UNCHANGED <<nextPort, bindings, deployments, services, cmVars, lbVars, restarts>>
-----------------------------------------------------------------------------
(* The world around the handlers.                                          *)

\* The deadline of the request's context passes.
Expire(h) ==
    /\ pc[h] \notin {"idle", "served"} /\ h \notin expired
    /\ faults < MaxFaults
    /\ faults' = faults + 1
    /\ expired' = expired \cup {h}
    /\ UNCHANGED <<pc, req, pos, success, answer, protocol, external, plan, victims>>
    /\ UNCHANGED <<nextPort, bindings, clusterVars, restarts>>

\* The process stops and starts again: locals are lost and NewK8sRepo starts
\* the counter from the beginning of the range.
Restart ==
    /\ restarts < MaxRestarts
    /\ restarts' = restarts + 1
    /\ pc' = [h \in Handlers |-> "idle"]
    /\ req' = [h \in Handlers |-> NoRequest]
    /\ pos' = [h \in Handlers |-> 0]
    /\ success' = [h \in Handlers |-> 0]
    /\ answer' = [h \in Handlers |-> "none"]
    /\ expired' = {}
    /\ protocol' = [h \in Handlers |-> "HTTP"]
    /\ external' = [h \in Handlers |-> NoPort]
    /\ plan' = [h \in Handlers |-> <<>>]
    /\ victims' = [h \in Handlers |-> {}]
    /\ nextPort' = RangeStart
    /\ CM!DropAll
    /\ LB!DropAll
    /\ UNCHANGED <<bindings, deployments, services, ingresses, faults>>

\* What a handler does once it has a request.
Progress(h) ==
    \/ Validate(h) \/ Advance(h) \/ Lookup(h)
    \/ CreateService(h) \/ LoadCounter(h) \/ StoreCounter(h)
    \/ GetMap(h) \/ PutMap(h) \/ GetPorts(h) \/ PutPorts(h)
    \/ CreateIngress(h) \/ Commit(h)
    \/ DelService(h) \/ DelIngress(h) \/ DelEntry(h) \/ DelEntryPut(h)
    \/ DelPortGet(h) \/ DelPortPut(h) \/ DelRow(h)
    \/ DropRows(h) \/ DropDeployment(h) \/ ListServices(h) \/ DropServices(h)
    \/ DropIngresses(h)

Next ==
    \/ \E h \in Handlers : Receive(h) \/ Progress(h) \/ Expire(h)
    \/ Restart

Spec == Init /\ [][Next]_vars

\* A handler that has a request goes on: every call returns, if only because
\* its context has a deadline.
FairSpec == Spec /\ \A h \in Handlers : WF_vars(Progress(h))
-----------------------------------------------------------------------------
(* Properties.                                                             *)

\* What the locals of a handler mean at each step: which request, port config,
\* instance port and external port it works on.  With TypeOK this is inductive.
KeySteps == OpenSteps \cup CleanupSteps \cup {"delEntryPut", "delPortGet", "delPortPut"}
PoolSteps == {"storeCounter", "getMap", "putMap", "getPorts", "putPorts",
              "delEntry", "delEntryPut", "delPortGet", "delPortPut"}

OwnsPort(h) == protocol[h] \in L4 /\ external[h] \in ExternalPorts

LocalsOK(h) ==
    /\ pc[h] # "idle" => req[h] \in Requests
    /\ pc[h] = "validate" => req[h].op # "delete"
    /\ pc[h] \in {"validate", "lookup"} /\ req[h].op # "delete" =>
          pos[h] \in 1 .. Len(req[h].configs)
    /\ pc[h] = "lookup" /\ req[h].op # "delete" => Config(h).port \in Ports
    /\ pc[h] \in KeySteps => Key(h) \in Keys
    /\ pc[h] = "loadCounter" => protocol[h] \in L4
    /\ pc[h] = "createIngress" => protocol[h] = "HTTP"
    /\ pc[h] \in PoolSteps => OwnsPort(h)
    /\ pc[h] = "commit" => protocol[h] = "HTTP" \/ OwnsPort(h)
    /\ \A i \in 1 .. Len(plan[h]) : plan[h][i] = "delEntry" => OwnsPort(h)
    /\ plan[h] # <<>> => pc[h] \in KeySteps

RowsOK ==
    \A b \in bindings : b.protocol \in L4 => b.external \in ExternalPorts

IndInv == TypeOK /\ (\A h \in Handlers : LocalsOK(h)) /\ RowsOK

\* A resourceVersion that is still current belongs to a copy equal to what the
\* API server keeps, for the two ConfigMaps and for the ingress-nginx Service:
\* what patchIngressNginxConfigMap and its siblings rely on between Get and Update.
FreshCopies == CM!FreshCopy /\ LB!FreshCopy

\* The handler of this step, at one of the given steps.
Moves(h, steps) == pc[h] \in steps /\ pc'[h] # pc[h]

\* No read-modify-write of the shared ConfigMaps and of the ingress-nginx Service
\* undoes another handler's: an entry or a port changes only in the step of a
\* handler that is adding or removing that very external port.
NoLostUpdate ==
    [][/\ \A p \in L4, e \in ExternalPorts :
             configMaps'[p][e] # configMaps[p][e] =>
                \E h \in Handlers :
                   /\ Moves(h, {"putMap", "delEntryPut"})
                   /\ protocol[h] = p /\ external[h] = e
       /\ \A x \in Exposure :
             (x \in lbPorts'["service"]) # (x \in lbPorts["service"]) =>
                \E h \in Handlers :
                   Moves(h, {"putPorts", "delPortPut"}) /\ OwnExposure(h) = x]_vars

\* What the access URL of a row promises: traffic reaches the instance's Service.
Exposed(b) ==
    /\ b.key \in services
    /\ IF b.protocol = "HTTP" THEN b.key \in ingresses
       ELSE /\ configMaps[b.protocol][b.external] = b.key
            /\ <<b.protocol, b.external>> \in lbPorts["service"]

\* openPort writes the row last: when a row appears, the route it describes is
\* complete, whichever calls failed on the way.
NewRowIsExposed == [][\A b \in bindings' \ bindings : Exposed(b)]_vars

\* Two rows of one protocol never share an external port, so that no instance
\* is reached through the address of another.
UniqueExternal ==
    \A b, c \in bindings :
        b.external # NoPort /\ b.protocol = c.protocol /\ b.external = c.external
            => b = c

\* An entry of a ConfigMap is never redirected from one instance port to another:
\* patchIngressNginxConfigMap would overwrite it without a word.
NoHijack ==
    [][\A p \in L4, e \in ExternalPorts :
          configMaps[p][e] # NoKey => configMaps'[p][e] \in {configMaps[p][e], NoKey}]_vars

\* A reply with Success = true tells the truth about every config of the request:
\* each opened port has its row, each closed one has none.
TruthfulReply ==
    \A h \in Handlers :
        pc[h] = "served" /\ Successes(h) = Len(req[h].configs) =>
            \A i \in 1 .. Len(req[h].configs) :
                LET rows == RowsOf(<<req[h].instance, req[h].configs[i].port>>) IN
                /\ req[h].op = "open" => rows # {}
                /\ req[h].op = "close" => rows = {}

\* Every request is answered: no sequence of failed calls keeps a handler busy.
EveryRequestAnswered ==
    \A h \in Handlers : pc[h] # "idle" ~> pc[h] = "idle"

\* No call has failed yet, and no instance been deleted: the code does not clean up
\* after either.
Undisturbed == faults = 0 /\ deployments = Instances

\* Between requests the cluster holds what the table says and nothing else, though
\* openings fail on an exhausted pool or an existing Service and are rolled back.
Quiet == \A h \in Handlers : pc[h] = "idle"
ExactWhenQuiet ==
    Quiet /\ Undisturbed =>
      /\ \A b \in bindings : Exposed(b)
      /\ services = {b.key : b \in bindings}
      /\ ingresses = {b.key : b \in {r \in bindings : r.protocol = "HTTP"}}
      /\ \A p \in L4, e \in ExternalPorts :
            LET owners == {b.key : b \in {r \in bindings :
                                     r.protocol = p /\ r.external = e}} IN
            /\ configMaps[p][e] \in IF owners = {} THEN {NoKey} ELSE owners
            /\ (<<p, e>> \in lbPorts["service"]) <=> owners # {}

\* The routes that carry traffic, whatever the table says.
Routes ==
    {b \in Binding : (b.protocol = "HTTP" <=> b.external = NoPort) /\ Exposed(b)}

\* Routes come and go one at a time, at most one for an instance port and at most
\* one for an external port: see PortRegistry.
Registry == INSTANCE PortRegistry WITH routes <- Routes
ImplementsRegistry == Registry!Init /\ [][Undisturbed' => [Registry!Next]_Routes]_vars

\* A row whose port nobody is closing has a complete route.
ServedWhileBound ==
    Undisturbed => \A b \in bindings :
        \/ Exposed(b)
        \/ \E h \in Handlers : /\ req[h].op = "close"
                               /\ pc[h] \notin {"validate", "lookup"}
                               /\ Key(h) = b.key

\* Creating the Service is what keeps two openers of one port apart: from then
\* until its row is in or its Service is rolled back, an opener is alone with the
\* port, and its Service exists.
Building(h) ==
    /\ req[h].op = "open"
    /\ \/ pc[h] \in {"loadCounter", "storeCounter", "getMap", "putMap",
                             "getPorts", "putPorts", "createIngress", "commit",
                             "delService"}
       \/ \E i \in 1 .. Len(plan[h]) : plan[h][i] = "delService"
OpenersExclusive ==
    \A h \in Handlers :
        Building(h) =>
            /\ Key(h) \in services
            /\ \A g \in Handlers \ {h} : Building(g) => Key(g) # Key(h)
-----------------------------------------------------------------------------
(* What the comments of the code say, and the code does not do.            *)

\* "Service patch failed, roll back ConfigMap and Service": an opening that failed
\* leaves no entry behind on the external port it was given.
RollbackComplete ==
    \A h \in Handlers :
        pc[h] = "served" /\ req[h].op = "open" /\ answer[h] = "failure"
            /\ external[h] # NoPort
        => configMaps[protocol[h]][external[h]] # Key(h)

\* "DeleteInstance deletes an instance deployment and its associated resources":
\* a deletion reported as a success leaves no route to the instance's ports.
DeletedMeansGone ==
    \A h \in Handlers :
        pc[h] = "served" /\ req[h].op = "delete" /\ answer[h] = "success"
        => \A p \in L4, e \in ExternalPorts :
              configMaps[p][e] \notin Of(Keys, req[h].instance)
=============================================================================
