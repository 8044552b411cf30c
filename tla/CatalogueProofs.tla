--------------------------- MODULE CatalogueProofs ---------------------------
(***************************************************************************)
(* Proofs about Catalogue, for any number of clients, instances, creations *)
(* and requests.                                                           *)
(***************************************************************************)
EXTENDS Catalogue, FiniteSetTheorems, TLAPS

ForClient(c, i) == Watched[c] \in {Any, rows[i].user}

\* The variables whose types TypeOK states value by value are functions.
Shapes == reply = [c \in Clients |-> reply[c]] /\ IsFiniteSet(Committed)

\* A row and its spec are there together, from one creation.
TablesOK ==
    \A i \in Instances :
        /\ rows[i] # NoRow <=> specs[i] # NoSpec
        /\ rows[i] # NoRow =>
              \E e \in Events : /\ e.instance = i
                                /\ e.user = rows[i].user
                                /\ Stored(e.spec) = specs[i]

\* The least created_at a row may still be committed with.
Horizon == IF tx = Idle THEN clock ELSE tx.created_at

\* It is not below that of any row, and an instance to be committed is not there yet.
TxOK ==
    /\ Horizon <= clock
    /\ \A i \in Committed : rows[i].created_at <= Horizon
    /\ tx.step = "commit" => tx.event.instance \notin Committed

\* What a client has been given was committed.
FoundOK == \A c \in Clients : SetOf(found[c]) \subseteq Committed

\* What a client has not been given is not older than the newest it has seen, nor
\* than what the first query has returned.
PollsOK(c) ==
    /\ newest[c] <= Horizon
    /\ known[c] \subseteq Committed
    /\ \A i \in Committed : ForClient(c, i) /\ i \notin seen[c] =>
          rows[i].created_at >= newest[c]
    /\ pc[c] # "idle" /\ ~query[c].poll => known[c] = {}
    /\ pc[c] # "idle" /\ query[c].poll => query[c] = PollQuery(c)
    /\ pc[c] = "specs" /\ query[c].poll =>
          /\ \A i \in Committed : ForClient(c, i) /\ i \notin seen[c] \cup SetOf(found[c]) =>
                \A j \in SetOf(found[c]) : rows[j].created_at <= rows[i].created_at
          /\ \A i \in known[c] : ForClient(c, i) => i \in seen[c] \cup SetOf(found[c])

GivenInTime(c) == pc[c] = "idle" => {i \in known[c] : ForClient(c, i)} \subseteq seen[c]

PollOK == \A c \in Clients : PollsOK(c)

IndInv ==
    /\ TypeOK
    /\ Shapes
    /\ TablesOK
    /\ TxOK
    /\ FoundOK
    /\ PollOK
    /\ ListedWithSpecs
    /\ NothingMissed
-----------------------------------------------------------------------------
\* A transaction that is not idle adds an event.
LEMMA TxTyped ==
    ASSUME TypeOK, tx.step # "idle"
    PROVE  /\ tx \in [step : {"instance", "spec", "commit"}, event : Events,
                      created_at : 1 .. MaxTime]
           /\ tx.event \in Events /\ tx.event.instance \in Instances
           /\ tx.event.user \in Users /\ tx.event.spec \in Specs
           /\ tx.created_at \in 1 .. MaxTime
           /\ tx # Idle
BY CatalogueEvents DEF TypeOK, Idle, Event

\* A stored spec is a row.
LEMMA StoredIsRow == ASSUME NEW s \in Specs PROVE Stored(s) # NoSpec
<1>1. Stored(s).gpu = 0
  BY CatalogueSpecs DEF Stored
<1>2. NoSpec.gpu = -1
  BY DEF NoSpec
<1>3. QED
  BY <1>1, <1>2

LEMMA NewIsRow ==
    ASSUME TypeOK, tx.step = "commit"
    PROVE  NewRow \in Row /\ NewRow # NoRow /\ NewRow.created_at = tx.created_at
           /\ NewRow.user = tx.event.user
<1>1. NewRow \in Row /\ NewRow.created_at = tx.created_at /\ NewRow.created_at # 0
      /\ NewRow.user = tx.event.user
  BY TxTyped DEF NewRow, Row
<1>2. NoRow.created_at = 0
  BY DEF NoRow
<1>3. QED
  BY <1>1, <1>2

\* The commit of a creation.
Adds ==
    /\ tx.step = "commit" /\ tx' = Idle
    /\ rows' = [rows EXCEPT ![tx.event.instance] = NewRow]
    /\ specs' = [specs EXCEPT ![tx.event.instance] = Stored(tx.event.spec)]
    /\ UNCHANGED <<clock, reading, polling>>

LEMMA TableSteps == ASSUME [Next]_vars PROVE UNCHANGED tables \/ Adds
<1>1. CASE Tick
  BY <1>1 DEF Tick
<1>2. CASE Create
  BY <1>2 DEF Create, Begin, InsertInstance, InsertSpec, Commit, Rollback, Writing, Adds,
              tables
<1>3. CASE \E c \in Clients : ListResources(c)
  BY <1>3 DEF ListResources, Ask, ListRows, ListSpecs
<1>4. CASE UNCHANGED vars
  BY <1>4 DEF vars, tables
<1>5. QED
  BY <1>1, <1>2, <1>3, <1>4 DEF Next

\* A committed row stays as it is; a commit adds one row that was not there.
LEMMA AddsOne ==
    ASSUME IndInv, Adds
    PROVE  /\ tx.event.instance \in Instances /\ tx.event.instance \notin Committed
           /\ Committed' = Committed \cup {tx.event.instance}
           /\ \A i \in Committed : rows'[i] = rows[i] /\ specs'[i] = specs[i]
           /\ rows'[tx.event.instance] = NewRow
           /\ specs'[tx.event.instance] = Stored(tx.event.spec)
<1>1. tx.event.instance \in Instances /\ NewRow # NoRow
  BY TxTyped, NewIsRow DEF Adds, IndInv
<1>2. tx.event.instance \notin Committed
  BY DEF Adds, IndInv, TxOK
<1>3. rows \in [Instances -> Row \cup {NoRow}] /\ DOMAIN specs = Instances
  BY DEF IndInv, TypeOK
<1>4. /\ rows' = [rows EXCEPT ![tx.event.instance] = NewRow]
      /\ specs' = [specs EXCEPT ![tx.event.instance] = Stored(tx.event.spec)]
  BY DEF Adds
<1>5. \A i \in Instances : i # tx.event.instance => rows'[i] = rows[i] /\ specs'[i] = specs[i]
  BY <1>3, <1>4
<1>6. rows'[tx.event.instance] = NewRow /\ specs'[tx.event.instance] = Stored(tx.event.spec)
  BY <1>1, <1>3, <1>4
<1>7. QED
  BY <1>1, <1>2, <1>5, <1>6 DEF Committed

LEMMA Stable ==
    ASSUME IndInv, [Next]_vars
    PROVE  /\ Committed \subseteq Committed'
           /\ \A i \in Committed : rows'[i] = rows[i] /\ specs'[i] = specs[i]
<1>1. CASE UNCHANGED tables
  BY <1>1 DEF tables, Committed
<1>2. CASE Adds
  BY <1>2, AddsOne
<1>3. QED
  BY <1>1, <1>2, TableSteps
-----------------------------------------------------------------------------
(* CreateInstance.                                                         *)

LEMMA TablesKept ==
    ASSUME IndInv, [Next]_vars
    PROVE  TablesOK' /\ IsFiniteSet(Committed')
<1>1. CASE UNCHANGED tables
  BY <1>1 DEF tables, IndInv, TablesOK, Shapes, Committed
<1>2. CASE Adds
  <2>1. ASSUME NEW i \in Instances
        PROVE  /\ rows'[i] # NoRow <=> specs'[i] # NoSpec
               /\ rows'[i] # NoRow =>
                     \E e \in Events : /\ e.instance = i
                                       /\ e.user = rows'[i].user
                                       /\ Stored(e.spec) = specs'[i]
    <3>1. CASE i = tx.event.instance
      BY <1>2, <3>1, AddsOne, TxTyped, NewIsRow, StoredIsRow DEF IndInv, Adds
    <3>2. CASE i # tx.event.instance
      <4>1. rows'[i] = rows[i] /\ specs'[i] = specs[i]
        BY <1>2, <3>2 DEF Adds, IndInv, TypeOK
      <4>2. QED
        BY <4>1 DEF IndInv, TablesOK
    <3>3. QED
      BY <3>1, <3>2
  <2>2. IsFiniteSet(Committed')
    BY <1>2, AddsOne, FS_AddElement DEF IndInv, Shapes
  <2>3. QED
    BY <2>1, <2>2 DEF TablesOK
<1>3. QED
  BY <1>1, <1>2, TableSteps

-----------------------------------------------------------------------------
(* Types.                                                                  *)

\* What the first query returns is a list of committed instances, each selected one.
LEMMA SortedTyped ==
    ASSUME IndInv, NEW q, NEW s \in NewestFirst(Selected(q))
    PROVE  /\ s \in Seq(Instances)
           /\ SetOf(s) = Selected(q) /\ SetOf(s) \subseteq Committed
<1>1. Selected(q) \subseteq Committed /\ Committed \subseteq Instances
  BY DEF Selected, Committed
<1>2. Cardinality(Selected(q)) \in Nat
  BY <1>1, FS_Subset, FS_CardinalityType DEF IndInv, Shapes
<1>3. s \in [1 .. Cardinality(Selected(q)) -> Instances] /\ SetOf(s) = Selected(q)
  BY <1>1 DEF NewestFirst
<1>4. QED
  BY <1>1, <1>2, <1>3

\* The newest row of an answer has a time.
LEMMA NewestTyped ==
    ASSUME IndInv, NEW c \in Clients, found[c] # <<>>
    PROVE  found[c][1] \in SetOf(found[c]) /\ rows[found[c][1]].created_at \in 1 .. MaxTime
<1>1. found[c] \in Seq(Instances)
  BY DEF IndInv, TypeOK
<1>2. 1 \in DOMAIN found[c]
  BY <1>1
<1>3. found[c][1] \in SetOf(found[c])
  BY <1>2 DEF SetOf
<1>4. rows[found[c][1]] \in Row
  BY <1>3 DEF IndInv, FoundOK, Committed, TypeOK
<1>5. QED
  BY <1>3, <1>4 DEF Row

TableTypes ==
    /\ rows \in [Instances -> Row \cup {NoRow}]
    /\ specs \in [Instances -> {Stored(s) : s \in Specs} \cup {NoSpec}]
    /\ clock \in 1 .. MaxTime
    /\ tx \in {Idle} \cup [step : {"instance", "spec", "commit"}, event : Events,
                           created_at : 1 .. MaxTime]
    /\ faults \in 0 .. MaxFaults

ReplyTypes ==
    /\ reply = [c \in Clients |-> reply[c]]
    /\ \A c \in Clients :
          /\ reply[c].ok \in BOOLEAN
          /\ reply[c].resources \in Seq(Instances)
          /\ DOMAIN reply[c].specs \subseteq Instances

ClientTypes ==
    /\ pc \in [Clients -> {"idle", "list", "specs"}]
    /\ query \in [Clients -> Query]
    /\ found \in [Clients -> Seq(Instances)]
    /\ newest \in [Clients -> 0 .. MaxTime]
    /\ seen \in [Clients -> SUBSET Instances]
    /\ known \in [Clients -> SUBSET Instances]

LEMMA FailTyped == ASSUME faults \in 0 .. MaxFaults, Fail PROVE faults' \in 0 .. MaxFaults
BY CatalogueBounds DEF Fail

LEMMA TableTyped ==
    ASSUME IndInv, [Next]_vars
    PROVE  TableTypes'
<1>1. TableTypes
  BY DEF IndInv, TypeOK, TableTypes
<1>2. CASE UNCHANGED <<tables, clock, tx>> /\ (UNCHANGED faults \/ Fail)
  BY <1>1, <1>2, FailTyped DEF TableTypes, tables
<1>3. CASE Tick
  BY <1>1, <1>3, CatalogueBounds DEF Tick, TableTypes, tables
<1>4. CASE Begin
  BY <1>1, <1>4 DEF Begin, TableTypes, tables
<1>5. CASE Rollback /\ UNCHANGED clock /\ (UNCHANGED faults \/ Fail)
  BY <1>1, <1>5, FailTyped DEF Rollback, TableTypes, tables
<1>6. ASSUME NEW step \in {"spec", "commit"}, tx.step # "idle",
             tx' = [tx EXCEPT !.step = step], UNCHANGED <<tables, clock, faults>>
      PROVE  TableTypes'
  <2>1. tx' \in [step : {"instance", "spec", "commit"}, event : Events,
                 created_at : 1 .. MaxTime]
    BY <1>6, TxTyped DEF IndInv
  <2>2. QED
    BY <1>1, <1>6, <2>1 DEF TableTypes, tables
<1>7. CASE Adds /\ (UNCHANGED faults \/ Fail)
  <2>1. /\ NewRow \in Row /\ tx.event.instance \in Instances
        /\ Stored(tx.event.spec) \in {Stored(s) : s \in Specs}
    BY <1>7, TxTyped, NewIsRow DEF Adds, IndInv
  <2>2. QED
    BY <1>1, <1>7, <2>1, FailTyped DEF Adds, TableTypes
<1>8. CASE InsertInstance
  BY <1>5, <1>6, <1>8 DEF InsertInstance, Writing
<1>9. CASE InsertSpec
  BY <1>5, <1>6, <1>9 DEF InsertSpec, Writing
<1>10. CASE Commit
  BY <1>5, <1>7, <1>10 DEF Commit, Writing, Adds
<1>11. CASE \E c \in Clients : ListResources(c)
  BY <1>2, <1>11 DEF ListResources, Ask, ListRows, ListSpecs
<1>12. CASE UNCHANGED vars
  BY <1>2, <1>12 DEF vars
<1>13. QED
  BY <1>3, <1>4, <1>8, <1>9, <1>10, <1>11, <1>12 DEF Next, Create

LEMMA ReplyTyped ==
    ASSUME IndInv, [Next]_vars
    PROVE  ReplyTypes'
<1>1. ReplyTypes
  BY DEF IndInv, TypeOK, Shapes, ReplyTypes
<1>2. CASE reply' = reply
  BY <1>1, <1>2 DEF ReplyTypes
<1>3. ASSUME NEW c \in Clients, NEW r, reply' = [reply EXCEPT ![c] = r],
             r.ok \in BOOLEAN, r.resources \in Seq(Instances),
             DOMAIN r.specs \subseteq Instances
      PROVE  ReplyTypes'
  BY <1>1, <1>3 DEF ReplyTypes
<1>4. ASSUME NEW c \in Clients, Ask(c) PROVE ReplyTypes'
  <2>1. /\ NoReply.ok \in BOOLEAN /\ NoReply.resources \in Seq(Instances)
        /\ DOMAIN NoReply.specs \subseteq Instances
    BY DEF NoReply
  <2>2. QED
    BY <1>3, <1>4, <2>1 DEF Ask
<1>5. ASSUME NEW c \in Clients, ListSpecs(c) PROVE ReplyTypes'
  <2> DEFINE r == [ok |-> TRUE, resources |-> found[c], specs |-> SpecsOf(found[c])]
  <2>1. found[c] \in Seq(Instances) /\ SetOf(found[c]) \subseteq Instances
    BY DEF IndInv, TypeOK, FoundOK, Committed
  <2>2. /\ r.ok \in BOOLEAN /\ r.resources \in Seq(Instances)
        /\ DOMAIN r.specs \subseteq Instances
    BY <2>1 DEF SpecsOf
  <2>3. CASE reply' = [reply EXCEPT ![c] = r]
    <3> HIDE DEF r
    <3>1. QED
      BY <1>3, <2>2, <2>3
  <2>4. QED
    BY <1>2, <1>5, <2>3 DEF ListSpecs, Refuse
<1>6. CASE \E c \in Clients : ListRows(c)
  BY <1>2, <1>6 DEF ListRows, Refuse
<1>7. CASE Tick \/ Create
  BY <1>2, <1>7 DEF Tick, Create, Begin, InsertInstance, InsertSpec, Commit, Writing,
                    reading
<1>8. CASE UNCHANGED vars
  BY <1>2, <1>8 DEF vars, reading
<1>9. QED
  BY <1>4, <1>5, <1>6, <1>7, <1>8 DEF Next, ListResources

LEMMA PollTyped ==
    ASSUME TypeOK, NEW c \in Clients
    PROVE  PollQuery(c) \in Query
<1>1. NoQuery \in Query
  BY CatalogueBounds DEF NoQuery, Query
<1>2. QED
  BY <1>1, CatalogueUsers DEF PollQuery, Query, TypeOK

LEMMA ClientTyped ==
    ASSUME IndInv, [Next]_vars
    PROVE  ClientTypes'
<1>1. ClientTypes
  BY DEF IndInv, TypeOK, ClientTypes
<1>2. CASE UNCHANGED <<reading, polling>>
  BY <1>1, <1>2 DEF ClientTypes, reading, polling
<1>3. ASSUME NEW c \in Clients, Ask(c) PROVE ClientTypes'
  <2>1. Queries \cup {PollQuery(c)} \subseteq Query
    BY CatalogueQueries, PollTyped DEF IndInv
  <2>2. Committed \subseteq Instances
    BY DEF Committed
  <2>3. QED
    BY <1>1, <1>3, <2>1, <2>2 DEF Ask, ClientTypes
<1>4. ASSUME NEW c \in Clients, Refuse(c) PROVE ClientTypes'
  BY <1>1, <1>4 DEF Refuse, ClientTypes
<1>5. ASSUME NEW c \in Clients, ListRows(c) PROVE ClientTypes'
  <2>1. CASE Refuse(c)
    BY <1>4, <2>1
  <2>2. ASSUME NEW s \in NewestFirst(Selected(query[c])),
               found' = [found EXCEPT ![c] = s], pc' = [pc EXCEPT ![c] = "specs"],
               UNCHANGED <<query, reply, polling>>
        PROVE  ClientTypes'
    BY <1>1, <2>2, SortedTyped DEF ClientTypes, polling
  <2>3. QED
    BY <1>5, <2>1, <2>2 DEF ListRows
<1>6. ASSUME NEW c \in Clients, ListSpecs(c) PROVE ClientTypes'
  <2>1. CASE Refuse(c)
    BY <1>4, <2>1
  <2>2. CASE /\ found' = [found EXCEPT ![c] = <<>>] /\ pc' = [pc EXCEPT ![c] = "idle"]
             /\ Keep(c) /\ UNCHANGED <<query, known>>
    <3>1. SetOf(found[c]) \subseteq Instances
      BY DEF IndInv, FoundOK, Committed
    <3>2. newest' \in [Clients -> 0 .. MaxTime] /\ seen' \in [Clients -> SUBSET Instances]
      <4>1. CASE ~query[c].poll
        BY <1>1, <2>2, <4>1 DEF Keep, ClientTypes
      <4>2. CASE query[c].poll
        <5>1. newest' = newest \/ \E t \in 1 .. MaxTime : newest' = [newest EXCEPT ![c] = t]
          BY <1>1, <2>2, <4>2, NewestTyped DEF Keep, ClientTypes
        <5>2. seen' = [seen EXCEPT ![c] = @ \cup SetOf(found[c])]
          BY <2>2, <4>2 DEF Keep
        <5>3. newest' \in [Clients -> 0 .. MaxTime]
          <6>1. 1 .. MaxTime \subseteq 0 .. MaxTime
            BY CatalogueBounds
          <6>2. newest \in [Clients -> 0 .. MaxTime]
            BY <1>1 DEF ClientTypes
          <6> HIDE <1>1
          <6>3. QED
            BY <5>1, <6>1, <6>2
        <5>4. seen' \in [Clients -> SUBSET Instances]
          BY <1>1, <3>1, <5>2 DEF ClientTypes
        <5>5. QED
          BY <5>3, <5>4
      <4>3. QED
        BY <4>1, <4>2
    <3>3. found' \in [Clients -> Seq(Instances)]
      BY <1>1, <2>2 DEF ClientTypes
    <3>4. pc' \in [Clients -> {"idle", "list", "specs"}]
      BY <1>1, <2>2 DEF ClientTypes
    <3>5. QED
      BY <1>1, <2>2, <3>2, <3>3, <3>4 DEF ClientTypes
  <2>3. QED
    BY <1>6, <2>1, <2>2 DEF ListSpecs
<1>7. CASE Tick \/ Create
  BY <1>2, <1>7 DEF Tick, Create, Begin, InsertInstance, InsertSpec, Commit, Writing
<1>8. CASE UNCHANGED vars
  BY <1>2, <1>8 DEF vars
<1>9. QED
  BY <1>3, <1>5, <1>6, <1>7, <1>8 DEF Next, ListResources

LEMMA TypeKept ==
    ASSUME IndInv, [Next]_vars
    PROVE  TypeOK' /\ Shapes'
BY TableTyped, ReplyTyped, ClientTyped, TablesKept
   DEF TypeOK, Shapes, TableTypes, ReplyTypes, ClientTypes
-----------------------------------------------------------------------------
(* Time.                                                                   *)

LEMMA HorizonTyped ==
    ASSUME IndInv
    PROVE  Horizon \in Nat /\ clock \in Nat /\ \A i \in Committed : rows[i].created_at \in Nat
<1>1. clock \in Nat /\ (tx # Idle => tx.created_at \in Nat)
  BY CatalogueBounds DEF IndInv, TypeOK
<1>2. \A i \in Committed : rows[i] \in Row
  BY DEF IndInv, TypeOK, Committed
<1>3. QED
  BY <1>1, <1>2 DEF Horizon, Row

\* Time and transactions only raise the horizon, and a commit is at it.
LEMMA HorizonSteps ==
    ASSUME IndInv, [Next]_vars
    PROVE  /\ Horizon <= Horizon' /\ Horizon' <= clock'
           /\ Adds => tx.created_at = Horizon
<1>1. Horizon \in Nat /\ clock \in Nat /\ Horizon <= clock
  BY HorizonTyped DEF IndInv, TxOK
<1>2. CASE UNCHANGED <<tx, clock>>
  BY <1>1, <1>2 DEF Horizon, Adds, Idle
<1>3. CASE Tick
  BY <1>1, <1>3 DEF Tick, Horizon, Adds, Idle
<1>4. CASE Begin
  <2>1. PICK e \in Events :
           tx' = [step |-> "instance", event |-> e, created_at |-> clock]
    BY <1>4 DEF Begin
  <2>2. tx'.step = "instance" /\ tx' # Idle /\ tx'.created_at = clock
    BY <2>1 DEF Idle
  <2>3. clock' = clock /\ tx' # tx
    BY <1>4, <2>2 DEF Begin
  <2>4. QED
    BY <1>1, <2>2, <2>3 DEF Horizon, Adds
<1>5. CASE tx' = Idle /\ clock' = clock
  <2>1. tx.step = "commit" => tx # Idle
    BY DEF Idle
  <2>2. QED
    BY <1>1, <1>5, <2>1 DEF Horizon, Adds
<1>6. ASSUME NEW step \in {"spec", "commit"}, tx.step # "idle",
             tx' = [tx EXCEPT !.step = step], clock' = clock
      PROVE  Horizon' = Horizon /\ tx' # Idle
  <2>1. tx # Idle /\ tx'.step = step /\ tx'.created_at = tx.created_at
    BY <1>6, TxTyped DEF IndInv
  <2>2. tx' # Idle
    BY <1>6, <2>1 DEF Idle
  <2>3. QED
    BY <2>1, <2>2 DEF Horizon
<1>7. CASE InsertInstance
  <2>1. CASE tx' = [tx EXCEPT !.step = "spec"]
    BY <1>1, <1>6, <1>7, <2>1 DEF InsertInstance, Writing, Adds
  <2>2. QED
    BY <1>5, <1>7, <2>1 DEF InsertInstance, Writing, Rollback
<1>8. CASE InsertSpec
  <2>1. CASE tx' = [tx EXCEPT !.step = "commit"]
    BY <1>1, <1>6, <1>8, <2>1 DEF InsertSpec, Writing, Adds
  <2>2. QED
    BY <1>5, <1>8, <2>1 DEF InsertSpec, Writing, Rollback
<1>9. CASE Commit
  BY <1>5, <1>9 DEF Commit, Writing, Rollback
<1>10. CASE \E c \in Clients : ListResources(c)
  BY <1>2, <1>10 DEF ListResources, Ask, ListRows, ListSpecs
<1>11. CASE UNCHANGED vars
  BY <1>2, <1>11 DEF vars
<1>12. QED
  BY <1>3, <1>4, <1>7, <1>8, <1>9, <1>10, <1>11 DEF Next, Create

\* When a transaction comes to its commit, its instance is not there yet.
LEMMA CommitIsNew ==
    ASSUME IndInv, [Next]_vars, tx'.step = "commit"
    PROVE  tx'.event.instance \notin Committed'
<1>1. CASE UNCHANGED <<tx, tables>>
  BY <1>1 DEF IndInv, TxOK, tables, Committed
<1>2. Idle.step = "idle"
  BY DEF Idle
<1>3. CASE InsertSpec
  <2>1. /\ tx.step # "idle" /\ tx' = [tx EXCEPT !.step = "commit"] /\ UNCHANGED tables
        /\ specs[tx.event.instance] = NoSpec
    BY <1>2, <1>3 DEF InsertSpec, Writing, Rollback
  <2>2. tx'.event = tx.event /\ tx.event.instance \in Instances
    BY <2>1, TxTyped DEF IndInv
  <2>3. QED
    BY <2>1, <2>2 DEF IndInv, TablesOK, Committed, tables
<1>4. CASE InsertInstance
  <2>1. tx' = [tx EXCEPT !.step = "spec"]
    BY <1>2, <1>4 DEF InsertInstance, Writing, Rollback
  <2>2. tx'.step = "spec"
    BY <1>4, <2>1, TxTyped DEF IndInv, InsertInstance, Writing
  <2>3. QED
    BY <2>2
<1>5. CASE Begin
  BY <1>5 DEF Begin
<1>6. CASE Commit
  BY <1>2, <1>6 DEF Commit, Rollback
<1>7. CASE Tick \/ \E c \in Clients : ListResources(c)
  BY <1>1, <1>7 DEF Tick, ListResources, Ask, ListRows, ListSpecs
<1>8. CASE UNCHANGED vars
  BY <1>1, <1>8 DEF vars
<1>9. QED
  BY <1>3, <1>4, <1>5, <1>6, <1>7, <1>8 DEF Next, Create

LEMMA TxKept ==
    ASSUME IndInv, [Next]_vars
    PROVE  TxOK' /\ Horizon' \in Nat
<1>1. /\ Horizon <= Horizon' /\ Horizon' <= clock' /\ Horizon \in Nat
      /\ \A i \in Committed : rows[i].created_at \in Nat
  BY HorizonTyped, HorizonSteps
<1>2. Horizon' \in Int
  BY TypeKept, CatalogueBounds DEF TypeOK, Horizon
<1>3. \A i \in Committed : rows'[i].created_at <= Horizon'
  BY <1>1, <1>2, Stable DEF IndInv, TxOK
<1>4. CASE Committed' = Committed
  BY <1>1, <1>2, <1>3, <1>4, CommitIsNew DEF TxOK
<1>5. CASE Adds
  <2>1. rows'[tx.event.instance].created_at = Horizon
    BY <1>5, AddsOne, NewIsRow, HorizonSteps DEF Adds, IndInv
  <2>2. QED
    BY <1>1, <1>2, <1>3, <1>5, <2>1, AddsOne, CommitIsNew DEF TxOK
<1>6. QED
  BY <1>4, <1>5, TableSteps DEF tables, Committed
-----------------------------------------------------------------------------
(* ListResources.                                                          *)

\* A list without elements has none.
LEMMA EmptySet == SetOf(<<>>) = {}
BY DEF SetOf

LEMMA FoundKept ==
    ASSUME IndInv, [Next]_vars
    PROVE  FoundOK'
<1>1. found \in [Clients -> Seq(Instances)]
  BY DEF IndInv, TypeOK
<1>2. CASE found' = found
  BY <1>2, Stable DEF IndInv, FoundOK, SetOf
<1>3. ASSUME NEW c \in Clients, NEW s, SetOf(s) \subseteq Committed,
             found' = [found EXCEPT ![c] = s]
      PROVE  FoundOK'
  <2> SUFFICES ASSUME NEW d \in Clients PROVE SetOf(found'[d]) \subseteq Committed'
    BY DEF FoundOK, SetOf
  <2>1. found'[d] = s \/ found'[d] = found[d]
    BY <1>1, <1>3
  <2>2. QED
    BY <1>3, <2>1, Stable DEF IndInv, FoundOK
<1>4. ASSUME NEW c \in Clients, ListRows(c) PROVE FoundOK'
  BY <1>2, <1>3, <1>4, SortedTyped DEF ListRows, Refuse
<1>5. ASSUME NEW c \in Clients, ListSpecs(c) PROVE FoundOK'
  BY <1>2, <1>3, <1>5, EmptySet DEF ListSpecs, Refuse
<1>6. CASE (\E c \in Clients : Ask(c)) \/ Tick \/ Create
  BY <1>2, <1>6 DEF Ask, Tick, Create, Begin, InsertInstance, InsertSpec, Commit, Writing,
                    reading
<1>7. CASE UNCHANGED vars
  BY <1>2, <1>7 DEF vars, reading
<1>8. QED
  BY <1>4, <1>5, <1>6, <1>7 DEF Next, ListResources

\* A row that is new has the time of the horizon.
LEMMA NewRows ==
    ASSUME IndInv, [Next]_vars, NEW i \in Committed', i \notin Committed
    PROVE  rows'[i].created_at = Horizon
<1>1. Adds
  BY TableSteps DEF tables, Committed
<1>2. i = tx.event.instance /\ rows'[i] = NewRow /\ tx.step = "commit"
  BY <1>1, AddsOne DEF Adds
<1>3. QED
  BY <1>1, <1>2, NewIsRow, HorizonSteps DEF IndInv

\* What a client knows is not disturbed by what it does not do.
LEMMA PollsUndisturbed ==
    ASSUME IndInv, [Next]_vars, NEW c \in Clients,
           pc'[c] = pc[c], query'[c] = query[c], found'[c] = found[c],
           newest'[c] = newest[c], seen'[c] = seen[c], known'[c] = known[c]
    PROVE  PollsOK(c)' /\ GivenInTime(c)'
<1>1. PollsOK(c) /\ GivenInTime(c)
  BY DEF IndInv, PollOK, NothingMissed, GivenInTime, ForClient
<1>2. /\ Horizon \in Nat /\ Horizon' \in Nat /\ Horizon <= Horizon'
      /\ \A i \in Committed : rows[i].created_at \in Nat
  BY HorizonTyped, TxKept, HorizonSteps
<1>3. newest[c] \in Nat
  BY CatalogueBounds DEF IndInv, TypeOK
<1>4. /\ Committed \subseteq Committed'
      /\ \A i \in Committed : rows'[i] = rows[i] /\ (ForClient(c, i)' <=> ForClient(c, i))
  BY Stable DEF ForClient
<1>5. \A i \in Committed' : i \notin Committed => rows'[i].created_at = Horizon
  BY NewRows
<1>6. SetOf(found[c]) \subseteq Committed /\ SetOf(found[c])' = SetOf(found[c])
  BY DEF IndInv, FoundOK, SetOf
<1>7. \A i \in Committed : rows[i].created_at <= Horizon
  BY DEF IndInv, TxOK
<1>8. newest[c] <= Horizon' /\ known[c] \subseteq Committed'
  BY <1>1, <1>2, <1>3, <1>4 DEF PollsOK
<1>9. ASSUME NEW i \in Committed', ForClient(c, i)', i \notin seen[c]
      PROVE  rows'[i].created_at >= newest[c]
  <2>1. CASE i \in Committed
    BY <1>1, <1>4, <1>9, <2>1 DEF PollsOK
  <2>2. CASE i \notin Committed
    BY <1>1, <1>2, <1>3, <1>5, <2>2 DEF PollsOK
  <2>3. QED
    BY <2>1, <2>2
<1>10. ASSUME pc[c] = "specs", query[c].poll
       PROVE  /\ \A i \in Committed' :
                    ForClient(c, i)' /\ i \notin seen[c] \cup SetOf(found[c]) =>
                       \A j \in SetOf(found[c]) : rows'[j].created_at <= rows'[i].created_at
              /\ \A i \in known[c] :
                    ForClient(c, i)' => i \in seen[c] \cup SetOf(found[c])
  <2>1. ASSUME NEW i \in Committed', ForClient(c, i)', i \notin seen[c] \cup SetOf(found[c]),
               NEW j \in SetOf(found[c])
        PROVE  rows'[j].created_at <= rows'[i].created_at
    <3>1. rows'[j] = rows[j] /\ j \in Committed
      BY <1>4, <1>6
    <3>2. CASE i \in Committed
      BY <1>1, <1>4, <1>10, <2>1, <3>1, <3>2 DEF PollsOK
    <3>3. CASE i \notin Committed
      BY <1>5, <1>7, <3>1, <3>3
    <3>4. QED
      BY <3>2, <3>3
  <2>2. \A i \in known[c] : ForClient(c, i)' => i \in seen[c] \cup SetOf(found[c])
    BY <1>1, <1>4, <1>10 DEF PollsOK
  <2>3. QED
    BY <2>1, <2>2
<1>11. PollQuery(c)' = PollQuery(c)
  BY DEF PollQuery
<1>12. PollsOK(c)'
  BY <1>1, <1>6, <1>8, <1>9, <1>10, <1>11 DEF PollsOK
<1>13. GivenInTime(c)'
  BY <1>1, <1>4 DEF GivenInTime, PollsOK
<1>14. QED
  BY <1>12, <1>13

\* A request changes nothing of the tables, of the transaction and of other requests.
LEMMA RequestsAreReads ==
    ASSUME IndInv, UNCHANGED <<tables, clock, tx>>
    PROVE  /\ Committed' = Committed /\ rows' = rows /\ Horizon' = Horizon
           /\ \A c \in Clients, i \in Instances : ForClient(c, i)' <=> ForClient(c, i)
BY DEF tables, Committed, Horizon, ForClient

LEMMA AskPolls ==
    ASSUME IndInv, NEW c \in Clients, Ask(c)
    PROVE  PollsOK(c)' /\ GivenInTime(c)'
<1>1. PICK q \in Queries \cup {PollQuery(c)} :
         /\ query' = [query EXCEPT ![c] = q]
         /\ known' = [known EXCEPT ![c] = IF q.poll THEN Committed ELSE {}]
  BY DEF Ask
<1>2. /\ pc'[c] = "list" /\ query'[c] = q
      /\ known'[c] = IF q.poll THEN Committed ELSE {}
      /\ newest' = newest /\ seen' = seen
  BY <1>1 DEF Ask, IndInv, TypeOK
<1>3. Committed' = Committed /\ rows' = rows /\ Horizon' = Horizon
  BY RequestsAreReads DEF Ask
<1>4. q.poll => q = PollQuery(c)
  BY CatalogueQueries
<1>5. PollsOK(c) /\ (PollQuery(c)' = PollQuery(c))
  BY <1>2 DEF IndInv, PollOK, PollQuery
<1>6. QED
  BY <1>2, <1>3, <1>4, <1>5 DEF PollsOK, GivenInTime, ForClient

LEMMA RefusePolls ==
    ASSUME IndInv, NEW c \in Clients, Refuse(c), UNCHANGED <<tables, clock, tx>>
    PROVE  PollsOK(c)' /\ GivenInTime(c)'
<1>1. pc'[c] = "idle" /\ known'[c] = {} /\ newest' = newest /\ seen' = seen
  BY DEF Refuse, IndInv, TypeOK
<1>2. Committed' = Committed /\ rows' = rows /\ Horizon' = Horizon
  BY RequestsAreReads
<1>3. PollsOK(c)
  BY DEF IndInv, PollOK
<1>4. QED
  BY <1>1, <1>2, <1>3 DEF PollsOK, GivenInTime, ForClient

\* The first query of a poll returns what the client has not been given.
LEMMA PollSelects ==
    ASSUME IndInv, NEW c \in Clients, NEW i \in Committed,
           ForClient(c, i), i \notin seen[c]
    PROVE  i \in Selected(PollQuery(c))
<1>1. rows[i].created_at >= newest[c]
  BY DEF IndInv, PollOK, PollsOK
<1>2. rows[i].created_at \in Nat /\ newest[c] \in Nat
  BY HorizonTyped, CatalogueBounds DEF IndInv, TypeOK
<1>3. /\ PollQuery(c).user = Watched[c] /\ PollQuery(c).type = ""
      /\ PollQuery(c).start = newest[c] /\ PollQuery(c).end = 0
  BY DEF PollQuery, NoQuery
<1>4. QED
  BY <1>1, <1>2, <1>3 DEF Selected, ForClient

LEMMA ListRowsPolls ==
    ASSUME IndInv, NEW c \in Clients, ListRows(c)
    PROVE  PollsOK(c)' /\ GivenInTime(c)'
<1>1. UNCHANGED <<tables, clock, tx>> /\ pc[c] = "list"
  BY DEF ListRows
<1>2. CASE Refuse(c)
  BY <1>1, <1>2, RefusePolls
<1>3. ASSUME NEW s \in NewestFirst(Selected(query[c])),
             found' = [found EXCEPT ![c] = s], pc' = [pc EXCEPT ![c] = "specs"],
             UNCHANGED <<query, reply, polling>>
      PROVE  PollsOK(c)' /\ GivenInTime(c)'
  <2>1. /\ found'[c] = s /\ pc'[c] = "specs" /\ query' = query
        /\ newest' = newest /\ seen' = seen /\ known' = known
    BY <1>3 DEF IndInv, TypeOK, polling
  <2>2. Committed' = Committed /\ rows' = rows /\ Horizon' = Horizon
    BY <1>1, RequestsAreReads
  <2>3. PollsOK(c) /\ (PollQuery(c)' = PollQuery(c))
    BY <2>1 DEF IndInv, PollOK, PollQuery
  <2>4. SetOf(s) = Selected(query[c]) /\ SetOf(found'[c]) = SetOf(s)
    BY <2>1, SortedTyped
  <2>5. query[c].poll => \A i \in Committed :
           ForClient(c, i) => i \in seen[c] \cup SetOf(s)
    BY <1>1, <2>3, <2>4, PollSelects DEF PollsOK
  <2>6. GivenInTime(c)'
    BY <2>1 DEF GivenInTime
  <2>7. PollsOK(c)'
    BY <1>1, <2>1, <2>2, <2>3, <2>4, <2>5 DEF PollsOK, ForClient, SetOf
  <2>8. QED
    BY <2>6, <2>7
<1>4. QED
  BY <1>2, <1>3 DEF ListRows

LEMMA ListSpecsPolls ==
    ASSUME IndInv, NEW c \in Clients, ListSpecs(c)
    PROVE  PollsOK(c)' /\ GivenInTime(c)'
<1>1. UNCHANGED <<tables, clock, tx>> /\ pc[c] = "specs"
  BY DEF ListSpecs
<1>2. CASE Refuse(c)
  BY <1>1, <1>2, RefusePolls
<1>3. ASSUME pc' = [pc EXCEPT ![c] = "idle"], Keep(c), UNCHANGED <<query, known>>
      PROVE  PollsOK(c)' /\ GivenInTime(c)'
  <2>1. pc'[c] = "idle" /\ known' = known
    BY <1>3 DEF IndInv, TypeOK
  <2>2. Committed' = Committed /\ rows' = rows /\ Horizon' = Horizon
    BY <1>1, RequestsAreReads
  <2>3. PollsOK(c)
    BY DEF IndInv, PollOK
  <2>4. CASE ~query[c].poll
    BY <1>1, <1>3, <2>1, <2>2, <2>3, <2>4 DEF Keep, PollsOK, GivenInTime, ForClient
  <2>5. CASE query[c].poll
    <3>1. seen'[c] = seen[c] \cup SetOf(found[c])
      BY <1>3, <2>5 DEF Keep, IndInv, TypeOK
    <3>2. \/ newest'[c] = newest[c]
          \/ \E j \in SetOf(found[c]) : newest'[c] = rows[j].created_at
      BY <1>3, <2>5, NewestTyped DEF Keep, IndInv, TypeOK
    <3>3. newest'[c] <= Horizon
      BY <2>3, <3>2 DEF PollsOK, IndInv, FoundOK, TxOK
    <3>4. ASSUME NEW i \in Committed, ForClient(c, i), i \notin seen'[c]
          PROVE  rows[i].created_at >= newest'[c]
      <4>1. /\ rows[i].created_at >= newest[c]
            /\ \A j \in SetOf(found[c]) : rows[j].created_at <= rows[i].created_at
        BY <1>1, <2>3, <2>5, <3>1, <3>4 DEF PollsOK
      <4>2. \A j \in SetOf(found[c]) : rows[j].created_at \in Nat
        BY HorizonTyped DEF IndInv, FoundOK
      <4>3. rows[i].created_at \in Nat /\ newest[c] \in Nat
        BY HorizonTyped, CatalogueBounds DEF IndInv, TypeOK
      <4>4. QED
        BY <3>2, <4>1, <4>2, <4>3
    <3>5. GivenInTime(c)'
      BY <1>1, <2>1, <2>2, <2>3, <2>5, <3>1 DEF GivenInTime, PollsOK, ForClient
    <3>6. PollsOK(c)'
      BY <2>1, <2>2, <2>3, <3>3, <3>4 DEF PollsOK, ForClient
    <3>7. QED
      BY <3>5, <3>6
  <2>6. QED
    BY <2>4, <2>5
<1>4. QED
  BY <1>2, <1>3 DEF ListSpecs

LEMMA PollsKept ==
    ASSUME IndInv, [Next]_vars
    PROVE  PollOK' /\ NothingMissed'
<1> SUFFICES ASSUME NEW c \in Clients PROVE PollsOK(c)' /\ GivenInTime(c)'
  BY DEF PollOK, NothingMissed, GivenInTime, ForClient
<1>1. CASE UNCHANGED <<reading, polling>>
  BY <1>1, PollsUndisturbed DEF reading, polling
<1>2. ASSUME NEW d \in Clients, ListResources(d) PROVE PollsOK(c)' /\ GivenInTime(c)'
  <2>1. CASE d = c
    BY <1>2, <2>1, AskPolls, ListRowsPolls, ListSpecsPolls DEF ListResources
  <2>2. CASE d # c
    <3>1. /\ pc'[c] = pc[c] /\ query'[c] = query[c] /\ found'[c] = found[c]
          /\ newest'[c] = newest[c] /\ seen'[c] = seen[c] /\ known'[c] = known[c]
      BY <1>2, <2>2 DEF ListResources, Ask, ListRows, ListSpecs, Refuse, Keep, polling,
                        IndInv, TypeOK
    <3>2. QED
      BY <3>1, PollsUndisturbed
  <2>3. QED
    BY <2>1, <2>2
<1>3. CASE Tick \/ Create
  BY <1>1, <1>3 DEF Tick, Create, Begin, InsertInstance, InsertSpec, Commit, Writing
<1>4. CASE UNCHANGED vars
  BY <1>1, <1>4 DEF vars
<1>5. QED
  BY <1>2, <1>3, <1>4 DEF Next
-----------------------------------------------------------------------------
(* Replies.                                                                *)

\* A reply has a spec for each resource, from the creation that made the resource.
ReplyOK(r) ==
    r.ok => /\ DOMAIN r.specs = SetOf(r.resources)
            /\ \A i \in DOMAIN r.specs :
                  \E e \in Events : /\ e.instance = i
                                    /\ e.user = rows[i].user
                                    /\ Stored(e.spec) = r.specs[i]

\* What it says of a committed instance stays true.
LEMMA ReplyStays ==
    ASSUME IndInv, [Next]_vars, NEW r, ReplyOK(r), DOMAIN r.specs \subseteq Instances
    PROVE  r.ok => /\ DOMAIN r.specs = SetOf(r.resources)
                   /\ \A i \in DOMAIN r.specs :
                         \E e \in Events : /\ e.instance = i
                                           /\ e.user = rows'[i].user
                                           /\ Stored(e.spec) = r.specs[i]
<1>1. \A e \in Events : e.user # Any
  BY CatalogueEvents, CatalogueUsers DEF Event
<1>2. NoRow.user = Any
  BY DEF NoRow
<1>3. \A i \in Instances, e \in Events : e.user = rows[i].user => rows'[i] = rows[i]
  BY <1>1, <1>2, Stable DEF Committed
<1>4. QED
  BY <1>3 DEF ReplyOK

\* The answer of the second query fits that of the first.
LEMMA AnswerOK ==
    ASSUME IndInv, NEW c \in Clients
    PROVE  ReplyOK([ok |-> TRUE, resources |-> found[c], specs |-> SpecsOf(found[c])])
<1>1. SetOf(found[c]) \subseteq Committed /\ Committed \subseteq Instances
  BY DEF IndInv, FoundOK, Committed
<1>2. \A i \in SetOf(found[c]) : specs[i] # NoSpec /\ rows[i] # NoRow
  BY <1>1 DEF IndInv, TablesOK, Committed
<1>3. SpecsOf(found[c]) = [i \in SetOf(found[c]) |-> specs[i]]
  BY <1>2 DEF SpecsOf
<1>4. \A i \in SetOf(found[c]) :
         \E e \in Events : /\ e.instance = i
                           /\ e.user = rows[i].user
                           /\ Stored(e.spec) = specs[i]
  BY <1>1, <1>2 DEF IndInv, TablesOK
<1>5. QED
  BY <1>3, <1>4 DEF ReplyOK

LEMMA RepliesKept ==
    ASSUME IndInv, [Next]_vars
    PROVE  ListedWithSpecs'
<1>1. ASSUME NEW c \in Clients PROVE ReplyOK(reply[c])
  BY DEF IndInv, ListedWithSpecs, ReplyOK
<1>2. \A c \in Clients : DOMAIN reply[c].specs \subseteq Instances
  BY DEF IndInv, TypeOK
<1>3. CASE reply' = reply
  BY <1>1, <1>2, <1>3, ReplyStays DEF ListedWithSpecs
<1>4. ASSUME NEW c \in Clients, NEW r, ReplyOK(r), DOMAIN r.specs \subseteq Instances,
             reply' = [reply EXCEPT ![c] = r]
      PROVE  ListedWithSpecs'
  <2> SUFFICES ASSUME NEW d \in Clients, reply'[d].ok
               PROVE  /\ DOMAIN reply'[d].specs = SetOf(reply'[d].resources)
                      /\ \A i \in DOMAIN reply'[d].specs :
                            \E e \in Events : /\ e.instance = i
                                              /\ e.user = rows'[i].user
                                              /\ Stored(e.spec) = reply'[d].specs[i]
    BY DEF ListedWithSpecs, SetOf
  <2>1. reply'[d] = r \/ reply'[d] = reply[d]
    BY <1>4 DEF IndInv, Shapes
  <2>2. ReplyOK(reply'[d]) /\ DOMAIN reply'[d].specs \subseteq Instances
    BY <1>1, <1>2, <1>4, <2>1 DEF ReplyOK
  <2>3. QED
    BY <2>2, ReplyStays
<1>5. ASSUME NEW c \in Clients, Ask(c) PROVE ListedWithSpecs'
  <2>1. ReplyOK(NoReply) /\ DOMAIN NoReply.specs \subseteq Instances
    BY DEF NoReply, ReplyOK
  <2>2. QED
    BY <1>4, <1>5, <2>1 DEF Ask
<1>6. ASSUME NEW c \in Clients, ListSpecs(c) PROVE ListedWithSpecs'
  <2> DEFINE r == [ok |-> TRUE, resources |-> found[c], specs |-> SpecsOf(found[c])]
  <2>1. ReplyOK(r)
    BY AnswerOK
  <2>2. DOMAIN r.specs \subseteq Instances
    BY DEF SpecsOf, IndInv, FoundOK, Committed
  <2>3. CASE reply' = [reply EXCEPT ![c] = r]
    <3> HIDE DEF r
    <3>1. QED
      BY <1>4, <2>1, <2>2, <2>3
  <2>4. QED
    BY <1>3, <1>6, <2>3 DEF ListSpecs, Refuse
<1>7. CASE (\E c \in Clients : ListRows(c)) \/ Tick \/ Create
  BY <1>3, <1>7 DEF ListRows, Refuse, Tick, Create, Begin, InsertInstance, InsertSpec,
                    Commit, Writing, reading
<1>8. CASE UNCHANGED vars
  BY <1>3, <1>8 DEF vars, reading
<1>9. QED
  BY <1>5, <1>6, <1>7, <1>8 DEF Next, ListResources
-----------------------------------------------------------------------------
(* The invariants.                                                         *)

LEMMA InitInv == Init => IndInv
<1> SUFFICES ASSUME Init PROVE IndInv
  OBVIOUS
<1>1. Committed = {} /\ Horizon = 1
  BY DEF Init, Committed, Horizon
<1>2. NoQuery \in Query
  BY CatalogueBounds DEF NoQuery, Query
<1>3. /\ NoReply.ok = FALSE /\ NoReply.resources \in Seq(Instances)
      /\ DOMAIN NoReply.specs = {}
  BY DEF NoReply
<1>4. TypeOK
  <2>1. TableTypes
    BY CatalogueBounds DEF Init, TableTypes
  <2>2. ReplyTypes
    <3>1. reply = [c \in Clients |-> NoReply]
      BY DEF Init
    <3>2. \A c \in Clients : reply[c] = NoReply
      BY <3>1
    <3>3. QED
      BY <1>3, <3>1, <3>2 DEF ReplyTypes
  <2>3. ClientTypes
    BY <1>2, CatalogueBounds DEF Init, ClientTypes
  <2>4. QED
    BY <2>1, <2>2, <2>3 DEF TypeOK, TableTypes, ReplyTypes, ClientTypes
<1>5. Shapes
  BY <1>1, FS_EmptySet DEF Init, Shapes
<1>6. TablesOK /\ FoundOK
  BY EmptySet DEF Init, TablesOK, FoundOK
<1>7. TxOK
  BY <1>1 DEF Init, TxOK, Idle
<1>8. PollOK /\ NothingMissed
  BY <1>1 DEF Init, PollOK, PollsOK, NothingMissed
<1>9. ListedWithSpecs
  BY <1>3 DEF Init, ListedWithSpecs
<1>10. QED
  BY <1>4, <1>5, <1>6, <1>7, <1>8, <1>9 DEF IndInv

LEMMA NextInv == IndInv /\ [Next]_vars => IndInv'
BY TypeKept, TablesKept, TxKept, FoundKept, PollsKept, RepliesKept DEF IndInv

\* What every step of the consumer and of a request may rely on.
THEOREM Inductive == Spec => []IndInv
BY InitInv, NextInv, PTL DEF Spec

\* Every variable stays in its range.
THEOREM TypeCorrect == Spec => []TypeOK
<1>1. IndInv => TypeOK
  BY DEF IndInv
<1>2. QED
  BY <1>1, Inductive, PTL

\* One transaction for both rows is enough for the two queries of ListResources, which
\* run outside of any: they never disagree.
THEOREM SpecsListed == Spec => []ListedWithSpecs
<1>1. IndInv => ListedWithSpecs
  BY DEF IndInv
<1>2. QED
  BY <1>1, Inductive, PTL

\* created_at is read before the transaction, and yet a client that polls from the newest
\* it has been given misses no instance: one consumer commits in the order of its clock.
THEOREM PollsComplete == Spec => []NothingMissed
<1>1. IndInv => NothingMissed
  BY DEF IndInv
<1>2. QED
  BY <1>1, Inductive, PTL
=============================================================================
