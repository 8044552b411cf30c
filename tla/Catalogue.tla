------------------------------ MODULE Catalogue ------------------------------
(***************************************************************************)
(* The catalogue of instances: the tables instance and instance_spec, to   *)
(* which the consumer adds an instance and its spec in one transaction,    *)
(* and ListResources, which reads them by two queries of their own, each   *)
(* of which sees what is committed when it runs.                           *)
(*                                                                         *)
(* Rows are never changed and never deleted.  created_at is read from the  *)
(* clock before the transaction begins; several instances may share it.    *)
(***************************************************************************)
EXTENDS Integers, FiniteSets, Sequences

CONSTANTS
    Clients,     \* callers of ListResources, one request each at a time
    Instances,   \* instance IDs
    Users,       \* users
    Specs,       \* records [image, gpu]
    Events,      \* creations that are published, any of them more than once
    Queries,     \* the requests clients may make, besides polling
    Watched,     \* [Clients -> Users \cup {Any}]: whose instances a client polls for
    MaxTime,     \* bound: readings of the clock
    MaxFaults    \* bound: statements that fail

VARIABLES
    rows, specs,     \* the committed rows of instance and of instance_spec
    clock,
    tx,              \* the transaction of the consumer
    pc, query,       \* the next step and the request of each client
    found,           \* what the first query of ListResources has returned
    reply,           \* the last reply
    newest, seen,    \* a client's polls: newest created_at seen, instances seen
    known,           \* history: the instances committed when the poll was sent
    faults           \* counted against the bound

tables == <<rows, specs>>
reading == <<pc, query, found, reply>>
polling == <<newest, seen, known>>
vars == <<tables, clock, tx, reading, polling, faults>>
-----------------------------------------------------------------------------
\* CreateInstance writes this status, and no code ever writes another.
Status == "CREATING"

Any == "any"
Row == [user : Users, created_at : 1 .. MaxTime]
NoRow == [user |-> Any, created_at |-> 0]
NoSpec == [image |-> "", gpu |-> -1]

Event == [instance : Instances, user : Users, spec : Specs]
NoEvent == [instance |-> 0, user |-> Any, spec |-> NoSpec]
Idle == [step |-> "idle", event |-> NoEvent, created_at |-> 0]

\* start = 0 and end = 0: not given.  An empty mask asks for all fields.
Query == [user : Users \cup {Any}, type : {"", Status, "RUNNING"},
          start : 0 .. MaxTime, end : 0 .. MaxTime, mask : SUBSET STRING, poll : BOOLEAN]
NoQuery == [user |-> Any, type |-> "", start |-> 0, end |-> 0, mask |-> {}, poll |-> FALSE]

ASSUME CatalogueSpecs == Specs \subseteq [image : STRING, gpu : Nat]
ASSUME CatalogueEvents == Events \subseteq Event
ASSUME CatalogueQueries == Queries \subseteq Query /\ \A q \in Queries : ~q.poll
ASSUME CatalogueUsers == Any \notin Users /\ Watched \in [Clients -> Users \cup {Any}]
ASSUME CatalogueBounds == MaxTime \in Nat \ {0} /\ MaxFaults \in Nat
ASSUME CatalogueInstances == Instances \subseteq Nat \ {0}

\* The spec as a row of instance_spec: CreateInstance leaves out the gpu, which is
\* then NULL and read as 0.
Stored(spec) == [spec EXCEPT !.gpu = 0]

Committed == {i \in Instances : rows[i] # NoRow}
SetOf(s) == {s[k] : k \in DOMAIN s}

TypeOK ==
    /\ rows \in [Instances -> Row \cup {NoRow}]
    /\ specs \in [Instances -> {Stored(s) : s \in Specs} \cup {NoSpec}]
    /\ clock \in 1 .. MaxTime
    /\ tx \in {Idle} \cup [step : {"instance", "spec", "commit"}, event : Events,
                           created_at : 1 .. MaxTime]
    /\ pc \in [Clients -> {"idle", "list", "specs"}]
    /\ query \in [Clients -> Query]
    /\ found \in [Clients -> Seq(Instances)]
    /\ \A c \in Clients :
          /\ reply[c].ok \in BOOLEAN
          /\ reply[c].resources \in Seq(Instances)
          /\ DOMAIN reply[c].specs \subseteq Instances
    /\ newest \in [Clients -> 0 .. MaxTime]
    /\ seen \in [Clients -> SUBSET Instances]
    /\ known \in [Clients -> SUBSET Instances]
    /\ faults \in 0 .. MaxFaults

NoReply == [ok |-> FALSE, resources |-> <<>>, specs |-> <<>>]

Init ==
    /\ rows = [i \in Instances |-> NoRow]
    /\ specs = [i \in Instances |-> NoSpec]
    /\ clock = 1
    /\ tx = Idle
    /\ pc = [c \in Clients |-> "idle"]
    /\ query = [c \in Clients |-> NoQuery]
    /\ found = [c \in Clients |-> <<>>]
    /\ reply = [c \in Clients |-> NoReply]
    /\ newest = [c \in Clients |-> 0]
    /\ seen = [c \in Clients |-> {}]
    /\ known = [c \in Clients |-> {}]
    /\ faults = 0

Tick ==
    /\ clock < MaxTime
    /\ clock' = clock + 1
    /\ UNCHANGED <<tables, tx, reading, polling, faults>>

Fail == faults < MaxFaults /\ faults' = faults + 1
-----------------------------------------------------------------------------
(* CreateInstance.  There is one consumer, so there is one transaction at  *)
(* a time; a message whose creation failed or was not acknowledged comes   *)
(* again.                                                                  *)

Begin ==
    /\ tx = Idle
    /\ \E e \in Events : tx' = [step |-> "instance", event |-> e, created_at |-> clock]
    /\ UNCHANGED <<tables, clock, reading, polling, faults>>

Writing(step) ==
    /\ tx.step = step
    /\ UNCHANGED <<clock, reading, polling>>

\* ROLLBACK: an error in the transaction, or the end of the process.
Rollback == tx' = Idle /\ UNCHANGED tables

NewRow_zero ==   \* mutant: CreatedAt is not set
    [user |-> tx.event.user, created_at |-> 0]
NewRow == [user |-> tx.event.user, created_at |-> tx.created_at]

InsertInstance_autocommit ==   \* mutant: no transaction around the two inserts
    /\ Writing("instance")
    /\ \/ /\ tx.event.instance \notin Committed
          /\ tx' = [tx EXCEPT !.step = "spec"]
          /\ rows' = [rows EXCEPT ![tx.event.instance] = NewRow]
          /\ UNCHANGED <<specs, faults>>
       \/ tx.event.instance \in Committed /\ Rollback /\ UNCHANGED faults
       \/ Rollback /\ Fail

\* The primary key of instance: ErrInstanceAlreadyExists rolls back.
InsertInstance ==
    /\ Writing("instance")
    /\ \/ /\ tx.event.instance \notin Committed
          /\ tx' = [tx EXCEPT !.step = "spec"]
          /\ UNCHANGED <<tables, faults>>
       \/ tx.event.instance \in Committed /\ Rollback /\ UNCHANGED faults
       \/ Rollback /\ Fail

\* The primary key of instance_spec.
InsertSpec ==
    /\ Writing("spec")
    /\ \/ /\ specs[tx.event.instance] = NoSpec
          /\ tx' = [tx EXCEPT !.step = "commit"]
          /\ UNCHANGED <<tables, faults>>
       \/ specs[tx.event.instance] # NoSpec /\ Rollback /\ UNCHANGED faults
       \/ Rollback /\ Fail

\* COMMIT may take effect with its answer lost.
Commit ==
    /\ Writing("commit")
    /\ \/ /\ rows' = [rows EXCEPT ![tx.event.instance] = NewRow]
          /\ specs' = [specs EXCEPT ![tx.event.instance] = Stored(tx.event.spec)]
          /\ tx' = Idle
          /\ UNCHANGED faults \/ Fail
       \/ Rollback /\ Fail
-----------------------------------------------------------------------------
(* ListResources.                                                          *)

\* A client polls for what is new: what was created since the newest it has seen.
PollQuery(c) == [NoQuery EXCEPT !.user = Watched[c], !.start = newest[c], !.poll = TRUE]

Ask(c) ==
    /\ pc[c] = "idle"
    /\ \E q \in Queries \cup {PollQuery(c)} :
          /\ query' = [query EXCEPT ![c] = q]
          /\ known' = [known EXCEPT ![c] = IF q.poll THEN Committed ELSE {}]
    /\ pc' = [pc EXCEPT ![c] = "list"]
    /\ reply' = [reply EXCEPT ![c] = NoReply]
    /\ UNCHANGED <<tables, clock, tx, found, newest, seen, faults>>

Selected_after(q) ==   \* mutant: created_at > start
    {i \in Committed :
        /\ q.user \in {Any, rows[i].user}
        /\ q.type \in {"", Status}
        /\ q.start < rows[i].created_at
        /\ q.end # 0 => rows[i].created_at <= q.end}

Selected(q) ==
    {i \in Committed :
        /\ q.user \in {Any, rows[i].user}
        /\ q.type \in {"", Status}
        /\ q.start <= rows[i].created_at
        /\ q.end # 0 => rows[i].created_at <= q.end}

\* ORDER BY created_at DESC; rows of one time come in any order.
NewestFirst(S) ==
    {s \in [1 .. Cardinality(S) -> S] :
        /\ SetOf(s) = S
        /\ \A k, l \in DOMAIN s :
              k < l => rows[s[k]].created_at >= rows[s[l]].created_at}

Paths == {"instance_id", "instanceId", "name", "user_id", "userId", "type",
          "created_at", "createdAt", "updated_at", "updatedAt"}

Refuse(c) ==
    /\ pc' = [pc EXCEPT ![c] = "idle"]
    /\ known' = [known EXCEPT ![c] = {}]
    /\ UNCHANGED <<query, found, reply, newest, seen>>

\* applyResourceFieldMask is called for each resource: an unknown path is an error
\* when there is at least one.
ListRows(c) ==
    /\ pc[c] = "list"
    /\ \/ \E s \in NewestFirst(Selected(query[c])) :
             /\ UNCHANGED faults
             /\ IF s # <<>> /\ ~(query[c].mask \subseteq Paths) THEN Refuse(c)
                ELSE /\ found' = [found EXCEPT ![c] = s]
                     /\ pc' = [pc EXCEPT ![c] = "specs"]
                     /\ UNCHANGED <<query, reply, polling>>
       \/ Refuse(c) /\ Fail
    /\ UNCHANGED <<tables, clock, tx>>

\* The rows of instance_spec with these IDs; no query is made for no IDs.
SpecsOf(s) == [i \in {j \in SetOf(s) : specs[j] # NoSpec} |-> specs[i]]

\* What a client keeps of the answer to a poll.
Keep(c) ==
    IF query[c].poll
    THEN /\ newest' = [newest EXCEPT ![c] = IF found[c] = <<>> THEN @
                                             ELSE rows[found[c][1]].created_at]
         /\ seen' = [seen EXCEPT ![c] = @ \cup SetOf(found[c])]
    ELSE UNCHANGED <<newest, seen>>

ListSpecs(c) ==
    /\ pc[c] = "specs"
    /\ \/ /\ reply' = [reply EXCEPT ![c] = [ok |-> TRUE, resources |-> found[c],
                                           specs |-> SpecsOf(found[c])]]
          /\ found' = [found EXCEPT ![c] = <<>>]
          /\ pc' = [pc EXCEPT ![c] = "idle"]
          /\ Keep(c)
          /\ UNCHANGED <<query, known, faults>>
       \/ found[c] # <<>> /\ Refuse(c) /\ Fail
    /\ UNCHANGED <<tables, clock, tx>>

Create == Begin \/ InsertInstance \/ InsertSpec \/ Commit
ListResources(c) == Ask(c) \/ ListRows(c) \/ ListSpecs(c)

Next == Tick \/ Create \/ \E c \in Clients : ListResources(c)

Spec == Init /\ [][Next]_vars
-----------------------------------------------------------------------------
(* Properties.                                                             *)

\* The two queries of ListResources run outside of any transaction, while instances
\* are added: the reply has a spec for each resource and for nothing else, and
\* resource and spec come from the same creation, though it was published twice.
ListedWithSpecs ==
    \A c \in Clients : reply[c].ok =>
        /\ DOMAIN reply[c].specs = SetOf(reply[c].resources)
        /\ \A i \in DOMAIN reply[c].specs :
              \E e \in Events : /\ e.instance = i
                                /\ e.user = rows[i].user
                                /\ Stored(e.spec) = reply[c].specs[i]

\* A client that asks again from the newest created_at it has been given misses
\* nothing, although created_at is read before the transaction that makes the row
\* visible: whatever was committed when it polled, it has been given by the answer.
NothingMissed ==
    \A c \in Clients : pc[c] = "idle" =>
        {i \in known[c] : Watched[c] \in {Any, rows[i].user}} \subseteq seen[c]
=============================================================================
