-------------------------- MODULE ExecSessionProofs --------------------------
(***************************************************************************)
(* Proofs about ExecSession, for channels of any capacity, any number of   *)
(* messages of the client and any amount of output.                        *)
(***************************************************************************)
EXTENDS ExecSession, SequenceTheorems, TLAPS

Items == [type : {"stdin", "resize", "stdout", "stderr", "error", "exit"}, n : Nat]

\* A goroutine is dead when the process is.
ProcessOK ==
    /\ \A state \in {receiver, input, sender} : state = "dead" <=> Panicked
    /\ \A s \in Streams : output[s] = "dead" <=> Panicked

\* A goroutine that is about to hand something on has it, and no other has.
HandsOK ==
    /\ receiver = "put" => received > 0
    /\ input \in {"take", "done"} => inHand = NoMessage
    /\ input \in {"write", "resize"} => inHand \in Message
    /\ input = "write" => inHand.type = "stdin"
    /\ input = "resize" => inHand.type = "resize"
    /\ \A s \in Streams : /\ output[s] = "read" => outHand[s] = None
                          /\ output[s] = "send" => outHand[s] # None

\* The numbers of a source are positions, and the latest chunks are those still
\* held: one in the pipe, the one before it in the hands of handleOutput.
NumbersOK ==
    /\ \A i \in DOMAIN sent : sent[i].n = i
    /\ \A s \in Streams :
          /\ pipe[s] # None => pipe[s] = written[s]
          /\ outHand[s] # None =>
                outHand[s] = written[s] - (IF pipe[s] = None THEN 0 ELSE 1)
          /\ main = "find" => written[s] = 0

\* What is on its way to the client is what handleOutput has let go of.
HandedOf(s) == written[s] - (IF pipe[s] = None THEN 0 ELSE 1)
                          - (IF outHand[s] = None THEN 0 ELSE 1)
Flowing == sender \in {"range", "done"}
FlowOK == Flowing => \A s \in Streams : Relayed(s, Passed, Numbered(s, HandedOf(s)))
StoppedOK == ~Flowing => \A s \in Streams : InOrder(s, delivered, ReadOf(s))

\* When the end of a command is reported its output has been read, if the client is
\* still there, and nothing is written to the pipes any more.
EndOK ==
    /\ client # "gone" /\ main \notin {"find", "stream", "dead"} =>
          \A s \in Streams : pipe[s] = None
    /\ Flowing => \A k \in DOMAIN Passed :
          Passed[k] = Exit => main \in {"close", "wait", "returned"}

-----------------------------------------------------------------------------
(* How a relay grows, and what may be taken out of it.                     *)

\* A first part of what is in order is in order.
LEMMA PartInOrder ==
    ASSUME NEW S, NEW a \in Seq(S), NEW b \in Seq(S), NEW type, NEW source,
           InOrder(type, a \o b, source)
    PROVE  InOrder(type, a, source)
<1> DEFINE all == a \o b
<1>1. /\ Len(a) \in Nat /\ DOMAIN a = 1 .. Len(a) /\ Len(b) \in Nat
      /\ DOMAIN all = 1 .. Len(a) + Len(b)
  BY ConcatProperties, LenProperties
<1>2. \A k \in 1 .. Len(a) + Len(b) : all[k] = IF k <= Len(a) THEN a[k] ELSE b[k - Len(a)]
  BY ConcatProperties
<1>3. InOrder(type, all, source)
  OBVIOUS
<1> HIDE DEF all
<1>4. \A k \in 1 .. Len(a) :
         /\ k \in DOMAIN all /\ all[k] = a[k]
         /\ \A j \in 1 .. k - 1 : all[j] = a[j]
  BY <1>1, <1>2
<1> SUFFICES ASSUME NEW k \in 1 .. Len(a), a[k].type = type
    PROVE  /\ a[k].n \in DOMAIN source /\ a[k] = source[a[k].n]
           /\ \A j \in 1 .. k - 1 : a[j].type = type => a[j].n < a[k].n
           /\ \A i \in 1 .. a[k].n - 1 :
                 source[i].type = type => \E j \in 1 .. k - 1 : a[j] = source[i]
  BY <1>1 DEF InOrder
<1>5. all[k].type = type
  BY <1>4
<1>6. /\ all[k].n \in DOMAIN source /\ all[k] = source[all[k].n]
      /\ \A j \in 1 .. k - 1 : all[j].type = type => all[j].n < all[k].n
      /\ \A i \in 1 .. all[k].n - 1 :
            source[i].type = type => \E j \in 1 .. k - 1 : all[j] = source[i]
  BY <1>3, <1>4, <1>5, Zenon DEF InOrder
<1> QED
  BY <1>4, <1>6, Zenon

\* A longer source keeps what is in order.
LEMMA SourceGrows ==
    ASSUME NEW S, NEW source \in Seq(S), NEW longer \in Seq(S), NEW type, NEW items,
           InOrder(type, items, source), Len(source) <= Len(longer),
           \A i \in 1 .. Len(source) : longer[i] = source[i]
    PROVE  InOrder(type, items, longer)
<1>1. /\ Len(source) \in Nat /\ DOMAIN source = 1 .. Len(source)
      /\ Len(longer) \in Nat /\ DOMAIN longer = 1 .. Len(longer)
  BY LenProperties
<1> SUFFICES ASSUME NEW k \in DOMAIN items, items[k].type = type
    PROVE  /\ items[k].n \in DOMAIN longer /\ items[k] = longer[items[k].n]
           /\ \A j \in 1 .. k - 1 : items[j].type = type => items[j].n < items[k].n
           /\ \A i \in 1 .. items[k].n - 1 :
                 longer[i].type = type => \E j \in 1 .. k - 1 : items[j] = longer[i]
  BY DEF InOrder
<1>2. items[k].n \in 1 .. Len(source)
  BY <1>1 DEF InOrder
<1>3. \A i \in 1 .. items[k].n - 1 : i \in 1 .. Len(source)
  BY <1>1, <1>2
<1> QED
  BY <1>1, <1>2, <1>3 DEF InOrder

\* An item of another type does not matter at the end of the source.
LEMMA SourceOther ==
    ASSUME NEW S, NEW source \in Seq(S), NEW x \in S, NEW type, NEW items,
           Relayed(type, items, source), x.type # type
    PROVE  Relayed(type, items, Append(source, x))
<1>1. Len(source) \in Nat /\ DOMAIN source = 1 .. Len(source)
  BY LenProperties
<1>2. DOMAIN Append(source, x) = 1 .. Len(source) + 1
  BY AppendProperties, LenProperties
<1>3. \A i \in 1 .. Len(source) : Append(source, x)[i] = source[i]
  BY AppendProperties
<1>4. Append(source, x)[Len(source) + 1] = x
  BY AppendProperties
<1>5. InOrder(type, items, Append(source, x))
  <2>1. Append(source, x) \in Seq(S) /\ Len(source) <= Len(Append(source, x))
    BY <1>1, AppendProperties
  <2> QED
    BY <1>3, <2>1, SourceGrows DEF Relayed
<1>6. \A i \in 1 .. Len(source) + 1 : i \in 1 .. Len(source) \/ i = Len(source) + 1
  BY <1>1
<1> QED
  BY <1>1, <1>2, <1>3, <1>4, <1>5, <1>6 DEF Relayed

\* Nor does it at the end of the relay.
LEMMA ItemOther ==
    ASSUME NEW S, NEW items \in Seq(S), NEW x \in S, NEW type, NEW source,
           Relayed(type, items, source), x.type # type
    PROVE  Relayed(type, Append(items, x), source)
<1>1. Len(items) \in Nat /\ DOMAIN items = 1 .. Len(items)
  BY LenProperties
<1>2. DOMAIN Append(items, x) = 1 .. Len(items) + 1
  BY AppendProperties, LenProperties
<1>3. /\ \A k \in 1 .. Len(items) : Append(items, x)[k] = items[k]
      /\ Append(items, x)[Len(items) + 1] = x
  BY AppendProperties
<1>4. \A k \in 1 .. Len(items) + 1 : k \in 1 .. Len(items) \/ k = Len(items) + 1
  BY <1>1
<1>5. \A k \in 1 .. Len(items) : \A j \in 1 .. k - 1 : j \in 1 .. Len(items)
  BY <1>1
<1>6. InOrder(type, Append(items, x), source)
  BY <1>1, <1>2, <1>3, <1>4, <1>5 DEF InOrder, Relayed
<1>7. \A k \in DOMAIN items : k \in DOMAIN Append(items, x)
  BY <1>1, <1>2
<1> QED
  BY <1>1, <1>2, <1>3, <1>6, <1>7 DEF Relayed

\* The next item of the source, put at the end of the relay.
LEMMA NextItem ==
    ASSUME NEW S, NEW items \in Seq(S), NEW source \in Seq(S), NEW x \in S, NEW type,
           Relayed(type, items, source), x.type = type, x.n = Len(source) + 1
    PROVE  Relayed(type, Append(items, x), Append(source, x))
<1> DEFINE more == Append(items, x)
           longer == Append(source, x)
<1>1. /\ Len(items) \in Nat /\ DOMAIN items = 1 .. Len(items)
      /\ Len(source) \in Nat /\ DOMAIN source = 1 .. Len(source)
  BY LenProperties
<1>2. /\ DOMAIN more = 1 .. Len(items) + 1
      /\ DOMAIN longer = 1 .. Len(source) + 1
  BY AppendProperties, LenProperties
<1>3. /\ \A k \in 1 .. Len(items) : more[k] = items[k]
      /\ more[Len(items) + 1] = x
      /\ \A k \in 1 .. Len(source) : longer[k] = source[k]
      /\ longer[Len(source) + 1] = x
  BY AppendProperties
<1>4. InOrder(type, items, longer)
  <2>1. longer \in Seq(S) /\ Len(source) <= Len(longer)
    BY <1>1, AppendProperties
  <2> QED
    BY <1>3, <2>1, SourceGrows DEF Relayed
<1> HIDE DEF more, longer
<1>5. InOrder(type, more, longer)
  <2> SUFFICES ASSUME NEW k \in 1 .. Len(items) + 1, more[k].type = type
      PROVE  /\ more[k].n \in DOMAIN longer /\ more[k] = longer[more[k].n]
             /\ \A j \in 1 .. k - 1 : more[j].type = type => more[j].n < more[k].n
             /\ \A i \in 1 .. more[k].n - 1 :
                   longer[i].type = type => \E j \in 1 .. k - 1 : more[j] = longer[i]
    BY <1>2 DEF InOrder
  <2>1. CASE k \in 1 .. Len(items)
    <3>1. more[k] = items[k] /\ \A j \in 1 .. k - 1 : more[j] = items[j]
      BY <1>1, <1>3, <2>1
    <3>2. k \in DOMAIN items
      BY <1>1, <2>1
    <3>3. /\ items[k].n \in DOMAIN longer /\ items[k] = longer[items[k].n]
          /\ \A j \in 1 .. k - 1 : items[j].type = type => items[j].n < items[k].n
          /\ \A i \in 1 .. items[k].n - 1 :
                longer[i].type = type => \E j \in 1 .. k - 1 : items[j] = longer[i]
      BY <1>4, <3>1, <3>2, Zenon DEF InOrder
    <3> QED
      BY <3>1, <3>3, Zenon
  <2>2. CASE k = Len(items) + 1
    <3>1. more[k] = x /\ x = longer[x.n] /\ x.n \in DOMAIN longer
      BY <1>1, <1>2, <1>3, <2>2
    <3>2. ASSUME NEW j \in 1 .. Len(items), items[j].type = type
          PROVE  items[j].n < x.n
      <4>1. items[j].n \in 1 .. Len(source)
        BY <1>1, <3>2 DEF Relayed, InOrder
      <4> QED
        BY <4>1, <1>1
    <3>3. ASSUME NEW i \in 1 .. Len(source), source[i].type = type
          PROVE  \E j \in 1 .. Len(items) : items[j] = source[i]
      BY <1>1, <3>3 DEF Relayed
    <3>4. 1 .. k - 1 = 1 .. Len(items) /\ 1 .. x.n - 1 = 1 .. Len(source)
      BY <1>1, <2>2
    <3>5. \A j \in 1 .. k - 1 : more[j].type = type => more[j].n < more[k].n
      BY <1>3, <3>1, <3>2, <3>4
    <3>6. \A i \in 1 .. x.n - 1 :
             longer[i].type = type => \E j \in 1 .. k - 1 : more[j] = longer[i]
      BY <1>3, <3>3, <3>4
    <3> QED
      BY <3>1, <3>5, <3>6
  <2> QED
    BY <1>1, <2>1, <2>2
<1>6. ASSUME NEW i \in DOMAIN longer, longer[i].type = type
      PROVE  \E k \in DOMAIN more : more[k] = longer[i]
  <2>1. CASE i \in DOMAIN source
    <3>1. PICK k \in DOMAIN items : items[k] = source[i]
      BY <1>1, <1>3, <1>6, <2>1 DEF Relayed
    <3> QED
      BY <1>1, <1>2, <1>3, <2>1, <3>1
  <2>2. CASE i = Len(source) + 1
    BY <1>1, <1>2, <1>3, <2>2
  <2> QED
    BY <1>1, <1>2, <2>1, <2>2
<1> QED
  BY <1>5, <1>6 DEF Relayed, more, longer

\* An item of another type may be taken out of the middle.
LEMMA TakenOut ==
    ASSUME NEW S, NEW a \in Seq(S), NEW b \in Seq(S), NEW x \in S, NEW type, NEW source,
           Relayed(type, (a \o <<x>>) \o b, source), x.type # type
    PROVE  Relayed(type, a \o b, source)
<1> DEFINE all == (a \o <<x>>) \o b
           rest == a \o b
           at(k) == IF k <= Len(a) THEN k ELSE k + 1
           back(k) == IF k <= Len(a) THEN k ELSE k - 1
<1>1. /\ Len(a) \in Nat /\ DOMAIN a = 1 .. Len(a)
      /\ Len(b) \in Nat /\ DOMAIN b = 1 .. Len(b)
  BY LenProperties
<1>2. /\ <<x>> \in Seq(S) /\ Len(<<x>>) = 1 /\ <<x>>[1] = x
      /\ a \o <<x>> \in Seq(S) /\ Len(a \o <<x>>) = Len(a) + 1
      /\ all \in Seq(S) /\ rest \in Seq(S)
      /\ Len(all) = Len(a) + 1 + Len(b) /\ Len(rest) = Len(a) + Len(b)
      /\ DOMAIN all = 1 .. Len(a) + 1 + Len(b) /\ DOMAIN rest = 1 .. Len(a) + Len(b)
  <2>1. <<x>> \in Seq(S) /\ Len(<<x>>) = 1 /\ <<x>>[1] = x
    OBVIOUS
  <2>2. a \o <<x>> \in Seq(S) /\ Len(a \o <<x>>) = Len(a) + 1
    BY <2>1, ConcatProperties
  <2> QED
    BY <2>1, <2>2, ConcatProperties, LenProperties
<1>3. \A k \in 1 .. Len(a) + 1 : (a \o <<x>>)[k] = IF k <= Len(a) THEN a[k] ELSE x
  <2>1. \A k \in 1 .. Len(a) + Len(<<x>>) :
           (a \o <<x>>)[k] = IF k <= Len(a) THEN a[k] ELSE <<x>>[k - Len(a)]
    BY <1>2, ConcatProperties
  <2> QED
    BY <1>1, <1>2, <2>1
<1>4. \A k \in 1 .. Len(a) + 1 + Len(b) :
         all[k] = IF k <= Len(a) THEN a[k]
                  ELSE IF k = Len(a) + 1 THEN x ELSE b[k - (Len(a) + 1)]
  <2>1. \A k \in 1 .. Len(a \o <<x>>) + Len(b) :
           all[k] = IF k <= Len(a \o <<x>>) THEN (a \o <<x>>)[k]
                    ELSE b[k - Len(a \o <<x>>)]
    BY <1>2, ConcatProperties
  <2> QED
    BY <1>1, <1>2, <1>3, <2>1
<1>5. \A k \in 1 .. Len(a) + Len(b) : rest[k] = IF k <= Len(a) THEN a[k] ELSE b[k - Len(a)]
  BY <1>2, ConcatProperties
<1> HIDE DEF all, rest
<1>6. \A k \in DOMAIN rest : at(k) \in DOMAIN all /\ all[at(k)] = rest[k]
  <2> SUFFICES ASSUME NEW k \in 1 .. Len(a) + Len(b)
      PROVE  at(k) \in DOMAIN all /\ all[at(k)] = rest[k]
    BY <1>2
  <2>1. CASE k <= Len(a)
    BY <1>1, <1>2, <1>4, <1>5, <2>1
  <2>2. CASE ~(k <= Len(a))
    <3>1. /\ at(k) = k + 1 /\ k + 1 \in 1 .. Len(a) + 1 + Len(b)
          /\ ~(k + 1 <= Len(a)) /\ k + 1 # Len(a) + 1
          /\ (k + 1) - (Len(a) + 1) = k - Len(a)
      BY <1>1, <2>2
    <3>2. all[k + 1] = b[(k + 1) - (Len(a) + 1)]
      BY <1>4, <3>1
    <3>3. rest[k] = b[k - Len(a)]
      BY <1>5, <2>2
    <3> QED
      BY <1>2, <3>1, <3>2, <3>3
  <2> QED
    BY <2>1, <2>2
<1>7. \A k \in DOMAIN all : all[k].type = type =>
         back(k) \in DOMAIN rest /\ rest[back(k)] = all[k]
  <2> SUFFICES ASSUME NEW k \in DOMAIN all, all[k].type = type
      PROVE  back(k) \in DOMAIN rest /\ rest[back(k)] = all[k]
    OBVIOUS
  <2>1. k \in 1 .. Len(a) + 1 + Len(b) /\ k # Len(a) + 1
    BY <1>1, <1>2, <1>4
  <2>2. CASE k <= Len(a)
    BY <1>1, <1>2, <1>4, <1>5, <2>1, <2>2
  <2>3. CASE k > Len(a) + 1
    <3>1. /\ back(k) = k - 1 /\ k - 1 \in 1 .. Len(a) + Len(b) /\ ~(k - 1 <= Len(a))
          /\ ~(k <= Len(a)) /\ k - (Len(a) + 1) = (k - 1) - Len(a)
      BY <1>1, <2>1, <2>3
    <3>2. rest[k - 1] = b[(k - 1) - Len(a)]
      BY <1>5, <3>1
    <3>3. all[k] = b[k - (Len(a) + 1)]
      BY <1>4, <2>1, <3>1
    <3> QED
      BY <1>2, <3>1, <3>2, <3>3
  <2> QED
    BY <1>1, <2>1, <2>2, <2>3
<1>8. \A k \in DOMAIN rest : \A j \in 1 .. k - 1 :
         at(j) \in 1 .. at(k) - 1 /\ j \in DOMAIN rest
  BY <1>1, <1>2
<1>9. \A k \in DOMAIN rest : \A j \in 1 .. at(k) - 1 :
         j \in DOMAIN all /\ (all[j].type = type => back(j) \in 1 .. k - 1)
  <2> SUFFICES ASSUME NEW k \in DOMAIN rest, NEW j \in 1 .. at(k) - 1
      PROVE  j \in DOMAIN all /\ (j # Len(a) + 1 => back(j) \in 1 .. k - 1)
    BY <1>1, <1>2, <1>4
  <2> QED
    BY <1>1, <1>2
<1> HIDE DEF at, back
<1>10. InOrder(type, all, source)
  BY DEF Relayed, all
<1>11. InOrder(type, rest, source)
  <2> SUFFICES ASSUME NEW k \in DOMAIN rest, rest[k].type = type
      PROVE  /\ rest[k].n \in DOMAIN source /\ rest[k] = source[rest[k].n]
             /\ \A j \in 1 .. k - 1 : rest[j].type = type => rest[j].n < rest[k].n
             /\ \A i \in 1 .. rest[k].n - 1 :
                   source[i].type = type => \E j \in 1 .. k - 1 : rest[j] = source[i]
    BY DEF InOrder
  <2>1. at(k) \in DOMAIN all /\ all[at(k)] = rest[k]
    BY <1>6
  <2>2. rest[k].n \in DOMAIN source /\ rest[k] = source[rest[k].n]
    BY <1>10, <2>1 DEF InOrder
  <2>3. ASSUME NEW j \in 1 .. k - 1, rest[j].type = type
        PROVE  rest[j].n < rest[k].n
    BY <1>6, <1>8, <1>10, <2>1, <2>3 DEF InOrder
  <2>4. ASSUME NEW i \in 1 .. rest[k].n - 1, source[i].type = type
        PROVE  \E j \in 1 .. k - 1 : rest[j] = source[i]
    <3>1. PICK j \in 1 .. at(k) - 1 : all[j] = source[i]
      BY <1>10, <2>1, <2>4 DEF InOrder
    <3>2. back(j) \in 1 .. k - 1 /\ rest[back(j)] = all[j]
      BY <1>7, <1>9, <2>4, <3>1
    <3> QED
      BY <3>1, <3>2
  <2> QED
    BY <2>2, <2>3, <2>4
<1>12. ASSUME NEW i \in DOMAIN source, source[i].type = type
       PROVE  \E k \in DOMAIN rest : rest[k] = source[i]
  <2>1. PICK k \in DOMAIN all : all[k] = source[i]
    BY <1>12 DEF Relayed, all
  <2> QED
    BY <1>7, <1>12, <2>1
<1> QED
  BY <1>11, <1>12 DEF Relayed, rest
-----------------------------------------------------------------------------
(* The goroutines, and what they hold.                                     *)

Control == TypeOK /\ ProcessOK /\ HandsOK /\ NumbersOK

LEMMA ControlInit == Init => Control
<1> SUFFICES ASSUME Init PROVE Control
  OBVIOUS
<1>1. <<>> \in Seq(Message) /\ <<>> \in Seq(Outputs) /\ Len(<<>>) = 0 /\ DOMAIN sent = {}
  BY EmptySeq, LenProperties DEF Init
<1>2. \A s \in Streams : MaxOutputs[s] \in Nat
  BY SizesAssumption
<1>3. TypeOK
  <2>1. ChannelSize \in Nat /\ ResizeSize \in Nat
    BY SizesAssumption
  <2>2. /\ sent \in Seq(Message) /\ received \in 0 .. Len(sent)
        /\ inputChan \in Seq(Message) /\ Len(inputChan) <= ChannelSize
        /\ resizeChan \in Seq(Message) /\ Len(resizeChan) <= ResizeSize
        /\ outputChan \in Seq(Outputs) /\ Len(outputChan) <= ChannelSize
        /\ typed \in Seq(Message) /\ delivered \in Seq(Outputs)
    BY <1>1, <2>1 DEF Init
  <2>3. /\ written \in [Streams -> Nat] /\ \A s \in Streams : written[s] <= MaxOutputs[s]
        /\ pipe \in [Streams -> Chunks \cup {None}]
        /\ outHand \in [Streams -> Chunks \cup {None}]
        /\ output \in [Streams -> {"read", "send", "dead"}]
    BY <1>2 DEF Init
  <2>4. /\ tty \in BOOLEAN /\ client = "typing" /\ receiver = "recv" /\ inputClosed = FALSE
        /\ input = "take" /\ inHand = NoMessage /\ command = "running"
        /\ outputClosed = FALSE /\ main = "find" /\ failed = FALSE /\ sender = "range"
    BY DEF Init
  <2> QED
    BY <2>2, <2>3, <2>4, Zenon DEF TypeOK
<1>4. ProcessOK /\ HandsOK /\ NumbersOK
  BY <1>1 DEF Init, ProcessOK, HandsOK, NumbersOK, Panicked
<1> QED
  BY <1>3, <1>4 DEF Control

LEMMA ControlClientSends == Control /\ ClientSends => Control'
<1> SUFFICES ASSUME Control, ClientSends PROVE Control'
  OBVIOUS
<1> USE DEF Control
<1>1. PICK type \in {"stdin", "resize"} :
         sent' = Append(sent, [type |-> type, n |-> Len(sent) + 1])
  BY DEF ClientSends
<1>2. Len(sent) \in Nat /\ DOMAIN sent = 1 .. Len(sent) /\ Len(sent) < MaxInputs
  BY LenProperties DEF TypeOK, ClientSends
<1>3. [type |-> type, n |-> Len(sent) + 1] \in Message
  BY <1>2, SizesAssumption DEF Message
<1>4. /\ sent' \in Seq(Message) /\ Len(sent') = Len(sent) + 1
      /\ DOMAIN sent' = 1 .. Len(sent) + 1
      /\ \A i \in 1 .. Len(sent) : sent'[i] = sent[i]
      /\ sent'[Len(sent) + 1].n = Len(sent) + 1
  BY <1>1, <1>2, <1>3 DEF TypeOK
<1>5. UNCHANGED <<session, receiver, received, inputChan, inputClosed, input, inHand, typed,
                  resizeChan, command, outVars, chanVars, mainVars, sendVars>>
  BY DEF ClientSends
<1>6. TypeOK'
  BY <1>2, <1>4, <1>5 DEF TypeOK, session, outVars, chanVars, mainVars, sendVars
<1>7. NumbersOK'
  BY <1>2, <1>4, <1>5 DEF NumbersOK, outVars, mainVars
<1> QED
  BY <1>5, <1>6, <1>7 DEF ProcessOK, HandsOK, Panicked, outVars, mainVars, sendVars

LEMMA ControlClient == Control /\ (ClientClosesSend \/ ClientGoes) => Control'
BY DEF Control, ClientClosesSend, ClientGoes, TypeOK, ProcessOK, HandsOK, NumbersOK,
   Panicked, inVars, outVars, chanVars, mainVars, sendVars

LEMMA ControlRecv == Control /\ Recv => Control'
<1> SUFFICES ASSUME Control, Recv PROVE Control'
  OBVIOUS
<1>1. /\ received' \in 0 .. Len(sent) /\ inputClosed' \in BOOLEAN
      /\ (receiver' = "put" /\ received' > 0) \/ receiver' = "done"
      /\ receiver # "dead"
  <2>1. Len(sent) \in Nat
    BY LenProperties DEF Control, TypeOK
  <2> QED
    <3>1. CASE /\ received < Len(sent) /\ received' = received + 1
               /\ receiver' = "put" /\ UNCHANGED inputClosed
      BY <2>1, <3>1 DEF Control, Recv, TypeOK
    <3>2. CASE receiver' = "done" /\ inputClosed' = TRUE /\ UNCHANGED received
      BY <3>2 DEF Control, Recv, TypeOK
    <3> QED
      BY <3>1, <3>2 DEF Recv
<1>2. UNCHANGED <<session, sent, inputChan, input, inHand, typed, resizeChan, command,
                  outVars, chanVars, mainVars, sendVars>>
  BY DEF Recv
<1>3. TypeOK'
  BY <1>1, <1>2 DEF Control, TypeOK, session, outVars, chanVars, mainVars, sendVars
<1> QED
  BY <1>1, <1>2, <1>3 DEF Control, ProcessOK, HandsOK, NumbersOK, Panicked, outVars,
     mainVars, sendVars

LEMMA ControlPutInput == Control /\ PutInput => Control'
<1> SUFFICES ASSUME Control, PutInput PROVE Control'
  OBVIOUS
<1>1. sent[received] \in Message
  BY DEF Control, TypeOK, HandsOK, PutInput
<1>2. inputChan' \in Seq(Message) /\ Len(inputChan') <= ChannelSize
  BY <1>1, SizesAssumption DEF Control, TypeOK, PutInput
<1> QED
  BY <1>2 DEF Control, PutInput, TypeOK, ProcessOK, HandsOK, NumbersOK,
     Panicked, session, outVars, chanVars, mainVars, sendVars

LEMMA ControlTakeInput == Control /\ TakeInput => Control'
<1> SUFFICES ASSUME Control, TakeInput PROVE Control'
  OBVIOUS
<1>1. CASE /\ inputChan # <<>>
           /\ inHand' = Head(inputChan) /\ inputChan' = Tail(inputChan)
           /\ input' = IF inHand'.type = "stdin" THEN "write" ELSE "resize"
  <2>1. /\ inHand' \in Message /\ inputChan' \in Seq(Message)
        /\ Len(inputChan') <= ChannelSize
    BY <1>1, HeadTailProperties, LenProperties, SizesAssumption DEF Control, TypeOK
  <2>2. inHand'.type \in {"stdin", "resize"}
    BY <2>1 DEF Message
  <2> QED
    BY <1>1, <2>1, <2>2 DEF Control, TakeInput, TypeOK, ProcessOK, HandsOK, NumbersOK,
       Panicked, session, outVars, chanVars, mainVars, sendVars
<1>2. CASE input' = "done" /\ UNCHANGED <<inHand, inputChan>>
  BY <1>2 DEF Control, TakeInput, TypeOK, ProcessOK, HandsOK, NumbersOK,
     Panicked, session, outVars, chanVars, mainVars, sendVars
<1> QED
  BY <1>1, <1>2 DEF TakeInput

LEMMA ControlWriteStdin == Control /\ WriteStdin => Control'
<1> SUFFICES ASSUME Control, WriteStdin PROVE Control'
  OBVIOUS
<1>1. typed' \in Seq(Message)
  BY AppendProperties DEF Control, TypeOK, HandsOK, WriteStdin
<1> QED
  BY <1>1 DEF Control, WriteStdin, TypeOK, ProcessOK, HandsOK, NumbersOK,
     Panicked, session, outVars, chanVars, mainVars, sendVars

LEMMA ControlResize == Control /\ (PutResize \/ Resize) => Control'
<1> SUFFICES ASSUME Control, PutResize \/ Resize PROVE Control'
  OBVIOUS
<1>1. resizeChan' \in Seq(Message) /\ Len(resizeChan') <= ResizeSize
  <2>1. CASE PutResize
    BY <2>1, AppendProperties, LenProperties, SizesAssumption
    DEF Control, TypeOK, HandsOK, PutResize
  <2>2. CASE Resize
    BY <2>2, HeadTailProperties, LenProperties, SizesAssumption
    DEF Control, TypeOK, Resize
  <2> QED
    BY <2>1, <2>2
<1> QED
  BY <1>1 DEF Control, PutResize, Resize, TypeOK, ProcessOK, HandsOK, NumbersOK,
     Panicked, session, outVars, chanVars, mainVars, sendVars

LEMMA ControlProduce ==
    ASSUME NEW s \in Streams, Control, Produce(s)
    PROVE  Control'
<1>1. written[s] + 1 \in Chunks /\ written[s] \in Nat /\ written[s] + 1 <= MaxOutputs[s]
  <2>1. written[s] \in Nat /\ written[s] < MaxOutputs[s] /\ MaxOutputs[s] \in Nat
    BY SizesAssumption DEF Control, TypeOK, Produce
  <2>2. written[s] + 1 \in 1 .. MaxOutputs[s]
    BY <2>1
  <2> QED
    BY <2>1, <2>2 DEF Chunks
<1>2. TypeOK'
  BY <1>1 DEF Control, Produce, TypeOK, session, inVars, chanVars, mainVars, sendVars
<1>3. ProcessOK' /\ HandsOK'
  BY DEF Control, Produce, ProcessOK, HandsOK, Panicked, inVars, mainVars, sendVars
<1>4. NumbersOK'
  BY <1>1 DEF Control, Produce, TypeOK, NumbersOK, None, inVars, mainVars
<1> QED
  BY <1>2, <1>3, <1>4 DEF Control

LEMMA ControlCommandExits == Control /\ CommandExits => Control'
BY DEF Control, CommandExits, TypeOK, ProcessOK, HandsOK, NumbersOK,
   Panicked, session, inVars, outVars, chanVars, sendVars

LEMMA ControlReadOutput ==
    ASSUME NEW s \in Streams, Control, ReadOutput(s)
    PROVE  Control'
<1>1. TypeOK'
  BY DEF Control, ReadOutput, TypeOK, session, inVars, chanVars, mainVars, sendVars
<1>2. ProcessOK' /\ HandsOK'
  BY DEF Control, ReadOutput, TypeOK, ProcessOK, HandsOK, Panicked, inVars, mainVars, sendVars
<1>3. NumbersOK'
  BY DEF Control, ReadOutput, TypeOK, HandsOK, NumbersOK, None, inVars, mainVars, Started
<1> QED
  BY <1>1, <1>2, <1>3 DEF Control

LEMMA ControlSendOutput ==
    ASSUME NEW s \in Streams, Control, SendOutput(s)
    PROVE  Control'
<1>1. CASE outputClosed
  BY <1>1 DEF Control, SendOutput, Panic, TypeOK, ProcessOK, HandsOK, NumbersOK,
     Panicked, session
<1>2. CASE ~outputClosed
  <2>1. Data(s, outHand[s]) \in Outputs
    BY DEF Control, SendOutput, TypeOK, HandsOK, Outputs, None
  <2>2. outputChan' \in Seq(Outputs) /\ Len(outputChan') <= ChannelSize
    <3>1. outputChan' = Append(outputChan, Data(s, outHand[s])) /\ outputChan \in Seq(Outputs)
      BY <1>2 DEF Control, SendOutput, TypeOK
    <3>2. outputChan' \in Seq(Outputs) /\ Len(outputChan') = Len(outputChan) + 1
      BY <2>1, <3>1, AppendProperties
    <3>3. Len(outputChan) \in Nat /\ Len(outputChan) < ChannelSize /\ ChannelSize \in Nat
      BY <1>2, <3>1, LenProperties, SizesAssumption DEF SendOutput, Room
    <3> QED
      BY <3>2, <3>3
  <2>3. TypeOK'
    <3>1. /\ outHand' \in [Streams -> Chunks \cup {None}]
          /\ output' \in [Streams -> {"read", "send", "dead"}]
      BY <1>2 DEF Control, SendOutput, TypeOK
    <3>2. UNCHANGED <<session, sent, received, inputChan, inputClosed, inHand, typed,
                      resizeChan, command, written, pipe, outputClosed, failed, delivered,
                      main, sender, receiver, input>>
      BY <1>2 DEF SendOutput
    <3> QED
      BY <2>2, <3>1, <3>2 DEF Control, TypeOK, session
  <2>4. ProcessOK' /\ HandsOK'
    BY <1>2 DEF Control, SendOutput, TypeOK, ProcessOK, HandsOK, Panicked
  <2>5. NumbersOK'
    BY <1>2 DEF Control, SendOutput, TypeOK, NumbersOK
  <2> QED
    BY <2>3, <2>4, <2>5 DEF Control
<1> QED
  BY <1>1, <1>2

LEMMA ControlForward == Control /\ Forward => Control'
<1> SUFFICES ASSUME Control, Forward PROVE Control'
  OBVIOUS
<1> USE DEF Control
<1>1. outputChan' \in Seq(Outputs) /\ Len(outputChan') <= ChannelSize
  <2>1. CASE outputChan # <<>> /\ outputChan' = Tail(outputChan)
    <3>1. /\ Tail(outputChan) \in Seq(Outputs)
          /\ Len(Tail(outputChan)) = Len(outputChan) - 1
      BY <2>1, HeadTailProperties DEF TypeOK
    <3>2. Len(outputChan) \in Nat /\ Len(outputChan) <= ChannelSize /\ ChannelSize \in Nat
      BY LenProperties, SizesAssumption DEF TypeOK
    <3> QED
      BY <2>1, <3>1, <3>2
  <2> QED
    BY <2>1 DEF TypeOK, Forward
<1>2. delivered' \in Seq(Outputs) /\ sender' \in {"range", "failed", "done"}
  <2>1. outputChan # <<>> => Head(outputChan) \in Outputs
    BY HeadTailProperties DEF TypeOK
  <2>2. outputChan # <<>> => Append(delivered, Head(outputChan)) \in Seq(Outputs)
    BY <2>1, AppendProperties DEF TypeOK
  <2> QED
    BY <2>2 DEF TypeOK, Forward
<1>3. TypeOK'
  BY <1>1, <1>2 DEF Control, Forward, TypeOK, session, inVars, outVars, mainVars
<1> QED
  BY <1>2, <1>3 DEF Control, Forward, ProcessOK, HandsOK, NumbersOK, Panicked, inVars,
     outVars, mainVars

LEMMA ControlMain == Control /\ Main => Control'
<1> SUFFICES ASSUME Control, Main PROVE Control'
  OBVIOUS
<1>1. CASE SendError \/ SendExit
  <2>1. outputChan' \in Seq(Outputs) /\ Len(outputChan') <= ChannelSize
    <3>1. PICK x \in {Error, Exit} : outputChan' = Append(outputChan, x)
      BY <1>1 DEF SendError, SendExit, SendEnd
    <3>2. outputChan \in Seq(Outputs) /\ x \in Outputs
      BY DEF Control, TypeOK, Outputs
    <3>3. outputChan' \in Seq(Outputs) /\ Len(outputChan') = Len(outputChan) + 1
      BY <3>1, <3>2, AppendProperties
    <3>4. Len(outputChan) \in Nat /\ Len(outputChan) < ChannelSize /\ ChannelSize \in Nat
      BY <1>1, <3>2, LenProperties, SizesAssumption DEF SendError, SendExit, SendEnd, Room
    <3> QED
      BY <3>3, <3>4
  <2> QED
    BY <1>1, <2>1 DEF Control, SendError, SendExit, SendEnd, TypeOK, ProcessOK, HandsOK,
       NumbersOK, Panicked, session, inVars, outVars, sendVars
<1>2. CASE FindPod
  BY <1>2 DEF Control, FindPod, TypeOK, ProcessOK, HandsOK, NumbersOK, Panicked, session,
     inVars, outVars, chanVars, sendVars
<1>3. CASE StreamReturns
  <2>1. failed' \in BOOLEAN /\ main' \in {"error", "exit"}
    BY <1>3 DEF StreamReturns, Control, TypeOK
  <2> QED
    BY <1>3, <2>1 DEF Control, StreamReturns, TypeOK, ProcessOK, HandsOK, NumbersOK, Panicked,
       session, inVars, outVars, chanVars, sendVars
<1>4. CASE CloseOutput
  BY <1>4 DEF Control, CloseOutput, TypeOK, ProcessOK, HandsOK, NumbersOK, Panicked,
     session, inVars, outVars, chanVars, sendVars
<1>5. CASE Return
  BY <1>5 DEF Control, Return, TypeOK, ProcessOK, HandsOK, NumbersOK, Panicked,
     session, inVars, outVars, chanVars, sendVars
<1> QED
  BY <1>1, <1>2, <1>3, <1>4, <1>5 DEF Main

LEMMA ControlNext == Control /\ [Next]_vars => Control'
<1>1. Control /\ UNCHANGED vars => Control'
  BY DEF Control, TypeOK, ProcessOK, HandsOK, NumbersOK, Panicked, vars, session, inVars,
     outVars, chanVars, mainVars, sendVars
<1> QED
  BY <1>1, ControlClientSends, ControlClient, ControlRecv, ControlPutInput,
     ControlTakeInput, ControlWriteStdin, ControlResize, ControlProduce,
     ControlCommandExits, ControlReadOutput, ControlSendOutput, ControlForward, ControlMain
  DEF Next, Input, Output
-----------------------------------------------------------------------------
(* The output on its way to the client.                                    *)

ReadCount(s) == written[s] - (IF pipe[s] = None THEN 0 ELSE 1)
OutputInv == FlowOK /\ StoppedOK /\ EndOK /\ ExitOvertakesLittle

LEMMA NumberedSeq ==
    ASSUME NEW s \in Streams, NEW k \in Nat
    PROVE  /\ Data(s, k) \in Items /\ Data(s, k).type = s /\ Data(s, k).n = k
           /\ Numbered(s, k) \in Seq(Items) /\ Len(Numbered(s, k)) = k
           /\ DOMAIN Numbered(s, k) = 1 .. k
           /\ \A i \in 1 .. k : Numbered(s, k)[i] = Data(s, i)
<1>1. \A i \in Nat : Data(s, i) \in Items /\ Data(s, i).type = s /\ Data(s, i).n = i
  BY DEF Data, Items, Streams
<1>2. Numbered(s, k) \in [1 .. k -> Items]
  BY <1>1 DEF Numbered
<1>3. Numbered(s, k) \in Seq(Items)
  BY <1>2, SeqDef
<1>4. Len(Numbered(s, k)) = k
  BY <1>2, <1>3, LenProperties
<1> QED
  BY <1>1, <1>3, <1>4 DEF Numbered

LEMMA NumberedGrows ==
    ASSUME NEW s \in Streams, NEW k \in Nat, NEW type, NEW items
    PROVE  /\ Numbered(s, k + 1) = Append(Numbered(s, k), Data(s, k + 1))
           /\ \A m \in Nat : k <= m /\ InOrder(type, items, Numbered(s, k)) =>
                 InOrder(type, items, Numbered(s, m))
<1>1. Numbered(s, k + 1) = Append(Numbered(s, k), Data(s, k + 1))
  <2>1. /\ Numbered(s, k) \in Seq(Items) /\ Data(s, k + 1) \in Items
        /\ Len(Numbered(s, k)) = k
        /\ \A i \in 1 .. k : Numbered(s, k)[i] = Data(s, i)
    BY NumberedSeq
  <2>2. /\ Append(Numbered(s, k), Data(s, k + 1)) \in Seq(Items)
        /\ Len(Append(Numbered(s, k), Data(s, k + 1))) = k + 1
        /\ \A i \in 1 .. k : Append(Numbered(s, k), Data(s, k + 1))[i] = Data(s, i)
        /\ Append(Numbered(s, k), Data(s, k + 1))[k + 1] = Data(s, k + 1)
    BY <2>1, AppendProperties
  <2>3. /\ Numbered(s, k + 1) \in Seq(Items) /\ Len(Numbered(s, k + 1)) = k + 1
        /\ \A i \in 1 .. k + 1 : Numbered(s, k + 1)[i] = Data(s, i)
    BY NumberedSeq
  <2>4. \A i \in 1 .. k + 1 : i \in 1 .. k \/ i = k + 1
    OBVIOUS
  <2> QED
    BY <2>2, <2>3, <2>4, SeqEqual
<1>2. ASSUME NEW m \in Nat, k <= m, InOrder(type, items, Numbered(s, k))
      PROVE  InOrder(type, items, Numbered(s, m))
  <2>1. /\ Numbered(s, k) \in Seq(Items) /\ Len(Numbered(s, k)) = k
        /\ Numbered(s, m) \in Seq(Items) /\ Len(Numbered(s, m)) = m
        /\ \A i \in 1 .. k : Numbered(s, m)[i] = Numbered(s, k)[i]
    BY <1>2, NumberedSeq
  <2> QED
    BY <1>2, <2>1, SourceGrows
<1> QED
  BY <1>1, <1>2

LEMMA Typed ==
    ASSUME TypeOK
    PROVE  /\ delivered \in Seq(Items) /\ outputChan \in Seq(Items) /\ Passed \in Seq(Items)
           /\ Error \in Items /\ Exit \in Items
           /\ Error.type \notin Streams /\ Exit.type \notin Streams /\ Error # Exit
<1>1. Outputs \subseteq Items
  BY SizesAssumption DEF Outputs, Items, Data, Error, Exit, Chunks, Streams, None
<1>2. delivered \in Seq(Items) /\ outputChan \in Seq(Items)
  BY <1>1, SeqMonotonic DEF TypeOK
<1> QED
  BY <1>1, <1>2, ConcatProperties DEF Passed, Error, Exit, Streams, Outputs

LEMMA Counts ==
    ASSUME Control, NEW s \in Streams
    PROVE  /\ written[s] \in Nat /\ ReadCount(s) \in Nat /\ HandedOf(s) \in Nat
           /\ ReadOf(s) = Numbered(s, ReadCount(s))
           /\ outHand[s] = None => ReadCount(s) = HandedOf(s)
           /\ outHand[s] # None => /\ outHand[s] = HandedOf(s) + 1
                                   /\ ReadCount(s) = HandedOf(s) + 1
           /\ pipe[s] = None => written[s] = ReadCount(s)
<1>1. \A n \in Chunks : n \in Nat \ {0}
  BY SizesAssumption DEF Chunks
<1>2. written[s] \in Nat /\ pipe[s] \in Chunks \cup {None} /\ outHand[s] \in Chunks \cup {None}
  BY DEF Control, TypeOK
<1> QED
  BY <1>1, <1>2 DEF Control, NumbersOK, ReadCount, HandedOf, ReadOf, None

\* What has been delivered is in order, whether the sender still sends or not.
LEMMA DeliveredInOrder ==
    ASSUME Control, FlowOK, StoppedOK, NEW s \in Streams
    PROVE  InOrder(s, delivered, ReadOf(s))
<1>1. CASE Flowing
  <2>1. InOrder(s, Passed, Numbered(s, HandedOf(s)))
    BY <1>1 DEF FlowOK, Relayed
  <2>2. InOrder(s, delivered, Numbered(s, HandedOf(s)))
    BY <2>1, Typed, PartInOrder DEF Passed, Control
  <2>3. HandedOf(s) <= ReadCount(s)
    BY Counts
  <2> QED
    BY <2>2, <2>3, Counts, NumberedGrows
<1> QED
  BY <1>1 DEF StoppedOK

LEMMA StillInOrder ==
    ASSUME Control, Control', FlowOK, StoppedOK, UNCHANGED delivered,
           \A s \in Streams : ReadCount(s) <= ReadCount(s)'
    PROVE  StoppedOK'
<1> SUFFICES ASSUME NEW s \in Streams PROVE InOrder(s, delivered, ReadOf(s)')
  BY DEF StoppedOK
<1>1. InOrder(s, delivered, Numbered(s, ReadCount(s)))
  BY DeliveredInOrder, Counts
<1>2. ReadOf(s)' = Numbered(s, ReadCount(s)') /\ ReadCount(s)' \in Nat
  <2>1. \A r \in Streams : pipe'[r] \in Chunks \cup {None} /\ written'[r] \in Nat
                           /\ (pipe'[r] # None => pipe'[r] = written'[r])
    BY DEF Control, TypeOK, NumbersOK
  <2>2. \A n \in Chunks : n \in Nat \ {0}
    BY SizesAssumption DEF Chunks
  <2> QED
    BY <2>1, <2>2 DEF ReadOf, ReadCount, None
<1> QED
  BY <1>1, <1>2, Counts, NumberedGrows

\* When the command has ended nothing is written any more.
Ended == {"close", "wait", "returned"}

\* A step that leaves the way to the client alone.
LEMMA QuietStep ==
    ASSUME Control, Control', OutputInv, UNCHANGED <<delivered, outputChan, sender>>,
           \A s \in Streams : HandedOf(s)' = HandedOf(s) /\ ReadCount(s) <= ReadCount(s)',
           client = "gone" => client' = "gone",
           main \in Ended => main' \in Ended /\ written' = written,
           client' # "gone" /\ main' \notin {"find", "stream", "dead"} =>
               \A s \in Streams : pipe'[s] = None
    PROVE  OutputInv'
<1>1. Flowing' = Flowing /\ Passed' = Passed
  BY DEF Flowing, Passed
<1>2. FlowOK'
  <2> SUFFICES ASSUME Flowing, NEW s \in Streams
      PROVE  Relayed(s, Passed, Numbered(s, HandedOf(s)'))
    BY <1>1 DEF FlowOK
  <2>1. Relayed(s, Passed, Numbered(s, HandedOf(s)))
    BY DEF OutputInv, FlowOK
  <2>2. HandedOf(s)' = HandedOf(s)
    OBVIOUS
  <2> QED
    BY <2>1, <2>2
<1>3. StoppedOK'
  BY StillInOrder DEF OutputInv
<1>4. EndOK'
  BY <1>1 DEF OutputInv, EndOK, Ended
<1>5. ExitOvertakesLittle'
  <2> SUFFICES ASSUME client' # "gone", Flowing, NEW k \in DOMAIN Passed, Passed[k] = Exit,
                      NEW s \in Streams, NEW n \in 1 .. written'[s] - 1
      PROVE  \E j \in 1 .. k - 1 : Passed[j] = Data(s, n)
    BY <1>1 DEF ExitOvertakesLittle, Flowing
  <2>1. main \in Ended
    BY DEF OutputInv, EndOK, Ended
  <2> QED
    BY <2>1 DEF OutputInv, ExitOvertakesLittle, Flowing
<1> QED
  BY <1>2, <1>3, <1>4, <1>5 DEF OutputInv

\* A chunk or an error put into outputChan.
LEMMA PutStep ==
    ASSUME Control, Control', OutputInv, UNCHANGED <<delivered, sender, client, written, pipe>>,
           NEW x \in Items, outputChan' = Append(outputChan, x), x # Exit, main # "find",
           main' = main \/ (main = "error" /\ main' = "exit"),
           \A s \in Streams :
               IF x.type = s THEN x = Data(s, HandedOf(s) + 1) /\ HandedOf(s)' = HandedOf(s) + 1
                             ELSE HandedOf(s)' = HandedOf(s)
    PROVE  OutputInv'
<1>1. Flowing' = Flowing /\ Passed' = Append(Passed, x)
  <2>1. delivered \o Append(outputChan, x) = Append(delivered \o outputChan, x)
    <3>1. /\ delivered \in Seq(Items) /\ outputChan \in Seq(Items) /\ <<x>> \in Seq(Items)
          /\ delivered \o outputChan \in Seq(Items)
      BY Typed, ConcatProperties DEF Control
    <3>2. /\ Append(outputChan, x) = outputChan \o <<x>>
          /\ Append(delivered \o outputChan, x) = (delivered \o outputChan) \o <<x>>
      BY <3>1, AppendIsConcat
    <3> QED
      BY <3>1, <3>2, ConcatAssociative
  <2> QED
    BY <2>1 DEF Flowing, Passed
<1>2. Passed \in Seq(Items)
  BY Typed DEF Control
<1>3. FlowOK'
  <2> SUFFICES ASSUME Flowing, NEW s \in Streams
      PROVE  Relayed(s, Append(Passed, x), Numbered(s, HandedOf(s)'))
    BY <1>1 DEF FlowOK
  <2>1. Relayed(s, Passed, Numbered(s, HandedOf(s)))
    BY DEF OutputInv, FlowOK
  <2>2. HandedOf(s) \in Nat
    BY Counts
  <2>3. CASE x.type # s
    <3>1. HandedOf(s)' = HandedOf(s)
      BY <2>3
    <3> QED
      BY <1>2, <2>1, <2>3, <3>1, ItemOther
  <2>4. CASE x.type = s
    <3>1. HandedOf(s)' = HandedOf(s) + 1 /\ x = Data(s, HandedOf(s) + 1)
      BY <2>4
    <3>2. /\ Numbered(s, HandedOf(s)) \in Seq(Items) /\ Len(Numbered(s, HandedOf(s))) = HandedOf(s)
          /\ Numbered(s, HandedOf(s) + 1) = Append(Numbered(s, HandedOf(s)), x)
      BY <2>2, <3>1, NumberedSeq, NumberedGrows
    <3>3. x.n = HandedOf(s) + 1
      BY <3>1 DEF Data
    <3>4. Relayed(s, Append(Passed, x), Append(Numbered(s, HandedOf(s)), x))
      BY <1>2, <2>1, <2>4, <3>2, <3>3, NextItem
    <3> QED
      BY <3>1, <3>2, <3>4
  <2> QED
    BY <2>3, <2>4
<1>4. StoppedOK'
  <2>1. \A s \in Streams : ReadCount(s)' = ReadCount(s) /\ ReadCount(s) \in Nat
    BY Counts DEF ReadCount
  <2> QED
    BY <2>1, StillInOrder DEF OutputInv
<1>5. /\ DOMAIN Passed = 1 .. Len(Passed) /\ Len(Passed) \in Nat
      /\ DOMAIN Append(Passed, x) = 1 .. Len(Passed) + 1
      /\ \A k \in 1 .. Len(Passed) : Append(Passed, x)[k] = Passed[k]
      /\ Append(Passed, x)[Len(Passed) + 1] = x
  BY <1>2, AppendProperties, LenProperties
<1>6. ASSUME NEW k \in DOMAIN Passed', Passed'[k] = Exit
      PROVE  k \in DOMAIN Passed /\ Passed[k] = Exit /\ \A j \in 1 .. k - 1 : Passed'[j] = Passed[j]
  BY <1>1, <1>5, <1>6
<1>7. EndOK'
  BY <1>1, <1>6 DEF OutputInv, EndOK
<1>8. ExitOvertakesLittle'
  <2> SUFFICES ASSUME client # "gone", Flowing, NEW k \in DOMAIN Passed', Passed'[k] = Exit,
                      NEW s \in Streams, NEW n \in 1 .. written[s] - 1
      PROVE  \E j \in 1 .. k - 1 : Passed'[j] = Data(s, n)
    BY <1>1 DEF ExitOvertakesLittle, Flowing
  <2>1. \E j \in 1 .. k - 1 : Passed[j] = Data(s, n)
    BY <1>6 DEF OutputInv, ExitOvertakesLittle, Flowing
  <2> QED
    BY <1>6, <2>1
<1> QED
  BY <1>3, <1>4, <1>7, <1>8 DEF OutputInv

\* The exit code put into outputChan: the chunks that are read and not yet in the
\* channel are those in the hands of handleOutput.
LEMMA OutputSendExit == Control /\ Control' /\ OutputInv /\ SendExit => OutputInv'
<1> SUFFICES ASSUME Control, Control', OutputInv, SendExit PROVE OutputInv'
  OBVIOUS
<1>1. /\ main = "exit" /\ main' = "close" /\ outputChan' = Append(outputChan, Exit)
      /\ UNCHANGED <<delivered, sender, client, written, pipe, outHand>>
  BY DEF SendExit, SendEnd, session, outVars, sendVars
<1>2. Flowing' = Flowing /\ Passed' = Append(Passed, Exit)
  <2>1. /\ delivered \in Seq(Items) /\ outputChan \in Seq(Items) /\ Exit \in Items
        /\ <<Exit>> \in Seq(Items) /\ delivered \o outputChan \in Seq(Items)
    BY Typed, ConcatProperties DEF Control
  <2>2. /\ Append(outputChan, Exit) = outputChan \o <<Exit>>
        /\ Append(delivered \o outputChan, Exit) = (delivered \o outputChan) \o <<Exit>>
    BY <2>1, AppendIsConcat
  <2> QED
    BY <1>1, <2>1, <2>2, ConcatAssociative DEF Flowing, Passed
<1>3. Passed \in Seq(Items) /\ Exit \in Items /\ Exit.type \notin Streams
  BY Typed DEF Control
<1>4. /\ DOMAIN Passed = 1 .. Len(Passed) /\ Len(Passed) \in Nat
      /\ DOMAIN Passed' = 1 .. Len(Passed) + 1
      /\ \A k \in 1 .. Len(Passed) : Passed'[k] = Passed[k]
  BY <1>2, <1>3, AppendProperties, LenProperties
<1>5. \A s \in Streams : HandedOf(s)' = HandedOf(s) /\ ReadCount(s)' = ReadCount(s)
                         /\ ReadCount(s) \in Nat
  BY <1>1, Counts DEF HandedOf, ReadCount
<1>6. FlowOK'
  <2> SUFFICES ASSUME Flowing, NEW s \in Streams
      PROVE  Relayed(s, Append(Passed, Exit), Numbered(s, HandedOf(s)'))
    BY <1>2 DEF FlowOK
  <2>1. Relayed(s, Passed, Numbered(s, HandedOf(s))) /\ Exit.type # s
    BY <1>3 DEF OutputInv, FlowOK
  <2> QED
    BY <1>3, <1>5, <2>1, ItemOther
<1>7. StoppedOK'
  BY <1>1, <1>5, StillInOrder DEF OutputInv
<1>8. EndOK'
  BY <1>1 DEF OutputInv, EndOK
<1>9. ExitOvertakesLittle'
  <2> SUFFICES ASSUME client # "gone", Flowing, NEW k \in DOMAIN Passed', Passed'[k] = Exit,
                      NEW s \in Streams, NEW n \in 1 .. written[s] - 1
      PROVE  \E j \in 1 .. k - 1 : Passed'[j] = Data(s, n)
    BY <1>1, <1>2 DEF ExitOvertakesLittle, Flowing
  <2>1. CASE k \in 1 .. Len(Passed)
    BY <1>1, <1>4, <2>1 DEF OutputInv, EndOK
  <2>2. CASE k = Len(Passed) + 1
    <3>1. pipe[s] = None
      BY <1>1 DEF OutputInv, EndOK
    <3>2. n \in 1 .. HandedOf(s) /\ HandedOf(s) \in Nat
      BY <3>1, Counts
    <3>3. /\ n \in DOMAIN Numbered(s, HandedOf(s)) /\ Numbered(s, HandedOf(s))[n] = Data(s, n)
          /\ Data(s, n).type = s
      BY <3>2, NumberedSeq
    <3>4. Relayed(s, Passed, Numbered(s, HandedOf(s)))
      BY DEF OutputInv, FlowOK
    <3>5. PICK j \in DOMAIN Passed : Passed[j] = Data(s, n)
      BY <3>3, <3>4 DEF Relayed
    <3>6. j \in 1 .. k - 1 /\ Passed'[j] = Passed[j]
      BY <1>4, <2>2
    <3> QED
      BY <3>5, <3>6
  <2> QED
    BY <1>4, <2>1, <2>2
<1> QED
  BY <1>6, <1>7, <1>8, <1>9 DEF OutputInv

LEMMA OutputSend ==
    ASSUME Control, Control', OutputInv, NEW s \in Streams, SendOutput(s)
    PROVE  OutputInv'
<1>1. CASE outputClosed
  <2>1. /\ main' = "dead" /\ sender' = "dead"
        /\ UNCHANGED <<delivered, written, pipe, client>>
    BY <1>1 DEF SendOutput, Panic, session
  <2>2. ~Flowing'
    BY <2>1 DEF Flowing
  <2>3. \A r \in Streams : ReadCount(r)' = ReadCount(r) /\ ReadCount(r) \in Nat
    BY <2>1, Counts DEF ReadCount
  <2>4. StoppedOK'
    BY <2>1, <2>3, StillInOrder DEF OutputInv
  <2> QED
    BY <2>1, <2>2, <2>4 DEF OutputInv, FlowOK, EndOK, ExitOvertakesLittle, Flowing
<1>2. CASE ~outputClosed
  <2> DEFINE x == Data(s, outHand[s])
  <2>1. /\ outputChan' = Append(outputChan, x) /\ main' = main
        /\ outHand' = [outHand EXCEPT ![s] = None]
        /\ UNCHANGED <<delivered, sender, client, written, pipe>>
    BY <1>2 DEF SendOutput, session
  <2>2. outHand[s] # None /\ outHand \in [Streams -> Chunks \cup {None}] /\ main # "find"
    <3>1. outHand[s] # None /\ outHand \in [Streams -> Chunks \cup {None}]
      BY DEF Control, HandsOK, TypeOK, SendOutput
    <3>2. outHand[s] \in Nat \ {0}
      BY <3>1, SizesAssumption DEF Chunks, None
    <3>3. main = "find" => written[s] = 0 /\ pipe[s] \in {0, None}
      BY DEF Control, NumbersOK
    <3>4. outHand[s] = written[s] - (IF pipe[s] = None THEN 0 ELSE 1)
      BY <3>1 DEF Control, NumbersOK
    <3> QED
      BY <3>1, <3>2, <3>3, <3>4 DEF None
  <2>3. outHand[s] = HandedOf(s) + 1 /\ HandedOf(s) \in Nat
    BY <2>2, Counts
  <2>4. x \in Items /\ x.type = s /\ x # Exit
    <3>1. outHand[s] \in Nat
      BY <2>3
    <3>2. Data(s, outHand[s]) \in Items /\ Data(s, outHand[s]).type = s
      BY <3>1, NumberedSeq
    <3> QED
      BY <3>2, Typed DEF Control
  <2>5. \A r \in Streams :
           IF x.type = r THEN x = Data(r, HandedOf(r) + 1) /\ HandedOf(r)' = HandedOf(r) + 1
                         ELSE HandedOf(r)' = HandedOf(r)
    <3>1. \A r \in Streams : r # s => outHand'[r] = outHand[r]
      BY <2>1, <2>2
    <3>2. outHand'[s] = None
      BY <2>1, <2>2
    <3>3. \A r \in Streams : r # s => HandedOf(r)' = HandedOf(r)
      BY <2>1, <3>1 DEF HandedOf
    <3>4. HandedOf(s)' = HandedOf(s) + 1
      BY <2>1, <2>2, <2>3, <3>2, Counts DEF HandedOf
    <3> QED
      BY <2>3, <2>4, <3>3, <3>4
  <2> HIDE DEF x
  <2> QED
    BY <2>1, <2>2, <2>4, <2>5, PutStep
<1> QED
  BY <1>1, <1>2

LEMMA OutputForward == Control /\ Control' /\ OutputInv /\ Forward => OutputInv'
<1> SUFFICES ASSUME Control, Control', OutputInv, Forward PROVE OutputInv'
  OBVIOUS
<1>1. UNCHANGED <<client, written, pipe, outHand, main>> /\ Flowing
  BY DEF Forward, session, outVars, mainVars, Flowing
<1>2. \A s \in Streams : HandedOf(s)' = HandedOf(s) /\ ReadCount(s)' = ReadCount(s)
                         /\ ReadCount(s) \in Nat
  BY <1>1, Counts DEF HandedOf, ReadCount
<1>3. CASE /\ outputChan # <<>> /\ outputChan' = Tail(outputChan)
           /\ delivered' = Append(delivered, Head(outputChan)) /\ UNCHANGED sender
  <2>1. Passed' = Passed
    <3>1. /\ delivered \in Seq(Items) /\ outputChan \in Seq(Items)
      BY Typed DEF Control
    <3>2. /\ Head(outputChan) \in Items /\ Tail(outputChan) \in Seq(Items)
          /\ <<Head(outputChan)>> \in Seq(Items)
      BY <1>3, <3>1, HeadTailProperties
    <3>3. outputChan = <<Head(outputChan)>> \o Tail(outputChan)
      BY <1>3, <3>1
    <3>4. Append(delivered, Head(outputChan)) = delivered \o <<Head(outputChan)>>
      BY <3>1, <3>2, AppendIsConcat
    <3>5. (delivered \o <<Head(outputChan)>>) \o Tail(outputChan) = delivered \o outputChan
      BY <3>1, <3>2, <3>3, ConcatAssociative
    <3> QED
      BY <1>3, <3>4, <3>5 DEF Passed
  <2>2. Flowing'
    BY <1>1, <1>3 DEF Flowing
  <2>3. FlowOK'
    BY <1>1, <1>2, <2>1 DEF OutputInv, FlowOK
  <2>4. EndOK' /\ ExitOvertakesLittle' /\ StoppedOK'
    BY <1>1, <1>3, <2>1, <2>2 DEF OutputInv, EndOK, ExitOvertakesLittle, StoppedOK, Flowing
  <2> QED
    BY <2>3, <2>4 DEF OutputInv
<1>4. CASE sender' = "failed" /\ UNCHANGED delivered
  <2>1. ~Flowing'
    BY <1>4 DEF Flowing
  <2>2. StoppedOK'
    BY <1>2, <1>4, StillInOrder DEF OutputInv
  <2> QED
    BY <1>1, <2>1, <2>2 DEF OutputInv, FlowOK, EndOK, ExitOvertakesLittle, Flowing
<1>5. CASE sender' = "done" /\ UNCHANGED <<outputChan, delivered>>
  <2>1. Passed' = Passed /\ Flowing'
    BY <1>5 DEF Passed, Flowing
  <2>2. FlowOK'
    BY <1>1, <1>2, <2>1 DEF OutputInv, FlowOK
  <2>3. EndOK' /\ ExitOvertakesLittle' /\ StoppedOK'
    BY <1>1, <2>1 DEF OutputInv, EndOK, ExitOvertakesLittle, StoppedOK, Flowing
  <2> QED
    BY <2>2, <2>3 DEF OutputInv
<1> QED
  BY <1>3, <1>4, <1>5 DEF Forward

\* The steps that leave outputChan and the sender alone.
InputSide == ClientSends \/ ClientClosesSend \/ ClientGoes \/ Input
LEMMA OutputInputSide ==
    ASSUME Control, Control', OutputInv, [InputSide]_vars
    PROVE  OutputInv'
<1>1. /\ UNCHANGED <<delivered, outputChan, sender, written, pipe, outHand, main>>
      /\ client = "gone" => client' = "gone"
  BY DEF InputSide, ClientSends, ClientClosesSend, ClientGoes, Input, Recv, PutInput,
     TakeInput, WriteStdin, PutResize, Resize, vars, session, outVars, chanVars, mainVars,
     sendVars
<1>2. \A s \in Streams : HandedOf(s)' = HandedOf(s) /\ ReadCount(s) <= ReadCount(s)'
  BY <1>1, Counts DEF HandedOf, ReadCount
<1>3. client' # "gone" /\ main' \notin {"find", "stream", "dead"} =>
         \A s \in Streams : pipe'[s] = None
  BY <1>1 DEF OutputInv, EndOK
<1> QED
  BY <1>1, <1>2, <1>3, QuietStep DEF Ended

LEMMA OutputMain ==
    ASSUME Control, Control', OutputInv,
           CommandExits \/ FindPod \/ StreamReturns \/ CloseOutput \/ Return
    PROVE  OutputInv'
<1>1. UNCHANGED <<delivered, outputChan, sender, written, pipe, outHand, client>>
  BY DEF CommandExits, FindPod, StreamReturns, CloseOutput, Return, session, outVars, chanVars,
     sendVars
<1>2. \A s \in Streams : HandedOf(s)' = HandedOf(s) /\ ReadCount(s) <= ReadCount(s)'
  BY <1>1, Counts DEF HandedOf, ReadCount
<1>3. main \in Ended => main' \in Ended /\ written' = written
  BY <1>1 DEF CommandExits, FindPod, StreamReturns, CloseOutput, Return, Ended
<1>4. client' # "gone" /\ main' \notin {"find", "stream", "dead"} =>
         \A s \in Streams : pipe'[s] = None
  <2>1. CASE CommandExits \/ CloseOutput \/ Return
    BY <1>1, <2>1 DEF CommandExits, CloseOutput, Return, OutputInv, EndOK
  <2>2. CASE FindPod
    <3>1. \A s \in Streams : written[s] = 0 /\ (pipe[s] # None => pipe[s] = written[s])
      BY <2>2 DEF FindPod, Control, NumbersOK
    <3> QED
      BY <1>1, <3>1 DEF None
  <2>3. CASE StreamReturns
    BY <1>1, <2>3 DEF StreamReturns
  <2> QED
    BY <2>1, <2>2, <2>3
<1> QED
  BY <1>1, <1>2, <1>3, <1>4, QuietStep

LEMMA OutputCommand ==
    ASSUME Control, Control', OutputInv, NEW s \in Streams, Produce(s) \/ ReadOutput(s)
    PROVE  OutputInv'
<1>1. UNCHANGED <<delivered, outputChan, sender, client, main>>
  BY DEF Produce, ReadOutput, session, chanVars, mainVars, sendVars
<1>2. \A r \in Streams : r # s => /\ written'[r] = written[r] /\ pipe'[r] = pipe[r]
                                  /\ outHand'[r] = outHand[r]
  BY DEF Produce, ReadOutput, Control, TypeOK
<1>3. HandedOf(s)' = HandedOf(s) /\ ReadCount(s) <= ReadCount(s)'
  <2>1. /\ written[s] \in Nat /\ \A n \in Chunks : n \in Nat \ {0}
        /\ pipe[s] \in Chunks \cup {None} /\ outHand[s] \in Chunks \cup {None}
    <3>1. \A n \in Chunks : n \in Nat \ {0}
      BY SizesAssumption DEF Chunks
    <3> QED
      BY <3>1 DEF Control, TypeOK
  <2>2. CASE Produce(s)
    <3>1. /\ pipe[s] = None /\ written'[s] = written[s] + 1 /\ pipe'[s] = written[s] + 1
          /\ outHand'[s] = outHand[s]
      BY <2>2 DEF Produce, Control, TypeOK
    <3> QED
      BY <2>1, <3>1 DEF HandedOf, ReadCount, None
  <2>3. CASE ReadOutput(s)
    <3>1. /\ pipe[s] # None /\ outHand[s] = None /\ written'[s] = written[s]
          /\ pipe'[s] = None /\ outHand'[s] = pipe[s]
      BY <2>3 DEF ReadOutput, Control, TypeOK, HandsOK
    <3> QED
      BY <2>1, <3>1 DEF HandedOf, ReadCount, None
  <2> QED
    BY <2>2, <2>3
<1>4. \A r \in Streams : HandedOf(r)' = HandedOf(r) /\ ReadCount(r) <= ReadCount(r)'
  BY <1>2, <1>3, Counts DEF HandedOf, ReadCount
<1>5. main \in Ended => main' \in Ended /\ written' = written
  BY <1>1 DEF Produce, ReadOutput, Ended
<1>6. client' # "gone" /\ main' \notin {"find", "stream", "dead"} =>
         \A r \in Streams : pipe'[r] = None
  <2>1. CASE Produce(s)
    BY <1>1, <2>1 DEF Produce
  <2>2. CASE ReadOutput(s)
    BY <1>1, <2>2 DEF ReadOutput, OutputInv, EndOK, Control, TypeOK
  <2> QED
    BY <2>1, <2>2
<1> QED
  BY <1>1, <1>4, <1>5, <1>6, QuietStep

LEMMA OutputSendError == Control /\ Control' /\ OutputInv /\ SendError => OutputInv'
<1> SUFFICES ASSUME Control, Control', OutputInv, SendError PROVE OutputInv'
  OBVIOUS
<1>1. /\ main = "error" /\ main' = "exit" /\ outputChan' = Append(outputChan, Error)
      /\ UNCHANGED <<delivered, sender, client, written, pipe, outHand>>
  BY DEF SendError, SendEnd, session, outVars, sendVars
<1>2. Error \in Items /\ Error # Exit /\ Error.type \notin Streams
  BY Typed DEF Control
<1>3. \A s \in Streams : HandedOf(s)' = HandedOf(s)
  BY <1>1 DEF HandedOf
<1> QED
  BY <1>1, <1>2, <1>3, PutStep

LEMMA OutputNext == Control /\ Control' /\ OutputInv /\ [Next]_vars => OutputInv'
BY OutputInputSide, OutputMain, OutputCommand, OutputSendError, OutputSendExit, OutputSend,
   OutputForward DEF Next, Output, Main, InputSide

LEMMA OutputInit == Init => OutputInv
<1> SUFFICES ASSUME Init PROVE OutputInv
  OBVIOUS
<1>1. /\ Passed = <<>> /\ delivered = <<>> /\ Flowing /\ main = "find"
      /\ \A s \in Streams : HandedOf(s) = 0
  BY DEF Init, Passed, Flowing, HandedOf
<1>2. DOMAIN Passed = {}
  BY <1>1, EmptySeq, LenProperties
<1>3. \A s \in Streams : DOMAIN Numbered(s, HandedOf(s)) = {}
  BY <1>1 DEF Numbered
<1> QED
  BY <1>1, <1>2, <1>3 DEF OutputInv, FlowOK, StoppedOK, EndOK, ExitOvertakesLittle, Relayed,
     InOrder

\* Seen from the command: what it has written and handleOutput has read.
LEMMA OutputImplied == Control /\ OutputInv => OutputRelayed
<1> SUFFICES ASSUME Control, OutputInv, NEW s \in Streams
    PROVE  IF sender \in {"failed", "dead"}
           THEN InOrder(s, delivered, ReadOf(s))
           ELSE Relayed(s, Passed \o InHands(s), ReadOf(s))
  BY DEF OutputRelayed
<1>1. CASE sender \in {"failed", "dead"}
  BY <1>1 DEF OutputInv, StoppedOK, Flowing
<1>2. CASE sender \notin {"failed", "dead"}
  <2>1. Relayed(s, Passed, Numbered(s, HandedOf(s))) /\ HandedOf(s) \in Nat
    BY <1>2, Counts DEF OutputInv, FlowOK, Flowing, Control, TypeOK
  <2>2. Passed \in Seq(Items)
    BY Typed DEF Control
  <2>3. CASE outHand[s] = None
    <3>1. Passed \o InHands(s) = Passed
      BY <2>2, <2>3, ConcatEmptySeq DEF InHands
    <3>2. ReadOf(s) = Numbered(s, HandedOf(s))
      BY <2>3, Counts
    <3> QED
      BY <1>2, <2>1, <3>1, <3>2
  <2>4. CASE outHand[s] # None
    <3> DEFINE x == Data(s, HandedOf(s) + 1)
    <3>1. InHands(s) = <<x>> /\ ReadOf(s) = Numbered(s, HandedOf(s) + 1)
      BY <2>4, Counts DEF InHands
    <3>2. /\ x \in Items /\ x.type = s /\ x.n = HandedOf(s) + 1
          /\ Numbered(s, HandedOf(s)) \in Seq(Items)
          /\ Len(Numbered(s, HandedOf(s))) = HandedOf(s)
          /\ Numbered(s, HandedOf(s) + 1) = Append(Numbered(s, HandedOf(s)), x)
      <4>1. HandedOf(s) + 1 \in Nat
        BY <2>1
      <4>2. x \in Items /\ x.type = s /\ x.n = HandedOf(s) + 1
        BY <4>1, NumberedSeq
      <4> QED
        BY <2>1, <4>2, NumberedSeq, NumberedGrows
    <3> HIDE DEF x
    <3>3. Relayed(s, Append(Passed, x), Append(Numbered(s, HandedOf(s)), x))
      BY <2>1, <2>2, <3>2, NextItem
    <3>4. Append(Passed, x) = Passed \o <<x>>
      BY <2>2, <3>2, AppendIsConcat
    <3> QED
      BY <1>2, <3>1, <3>2, <3>3, <3>4
  <2> QED
    BY <2>3, <2>4
<1> QED
  BY <1>1, <1>2
-----------------------------------------------------------------------------
(* The input on its way to the command.                                    *)

TakenCount == IF receiver = "put" THEN received - 1 ELSE received

LEMMA TypedInput ==
    ASSUME Control
    PROVE  /\ typed \in Seq(Message) /\ inputChan \in Seq(Message) /\ sent \in Seq(Message)
           /\ Held \in Seq(Message) /\ typed \o Held \in Seq(Message)
           /\ typed \o Held \o inputChan \in Seq(Message)
           /\ TakenCount \in 0 .. Len(sent) /\ Len(sent) \in Nat
           /\ Taken = SubSeq(sent, 1, TakenCount)
           /\ Taken \in Seq(Message) /\ Len(Taken) = TakenCount
           /\ \A i \in 1 .. TakenCount : Taken[i] = sent[i]
<1>1. typed \in Seq(Message) /\ inputChan \in Seq(Message) /\ sent \in Seq(Message)
  BY DEF Control, TypeOK
<1>2. inHand \in Message => <<inHand>> \in Seq(Message)
  OBVIOUS
<1>3. Held \in Seq(Message)
  BY <1>2, EmptySeq DEF Control, TypeOK, Held
<1>4. Len(sent) \in Nat /\ DOMAIN sent = 1 .. Len(sent)
  BY <1>1, LenProperties
<1>5. TakenCount \in 0 .. Len(sent)
  BY <1>4 DEF TakenCount, Control, TypeOK, HandsOK
<1>6. \A i \in 1 .. TakenCount : sent[i] \in Message
  BY <1>1, <1>4, <1>5, ElementOfSeq
<1>7. /\ SubSeq(sent, 1, TakenCount) \in Seq(Message)
      /\ Len(SubSeq(sent, 1, TakenCount)) = IF 1 <= TakenCount THEN TakenCount - 1 + 1 ELSE 0
      /\ \A i \in 1 .. TakenCount - 1 + 1 : SubSeq(sent, 1, TakenCount)[i] = sent[1 + i - 1]
  BY <1>5, <1>6, SubSeqProperties
<1>8. Taken = SubSeq(sent, 1, TakenCount)
  BY DEF Taken, TakenCount
<1> QED
  BY <1>1, <1>3, <1>4, <1>5, <1>7, <1>8, ConcatProperties

\* What the command has read is in order, among all that the client has sent.
LEMMA ReadInOrder ==
    ASSUME Control, InputRelayed
    PROVE  InOrder("stdin", typed, sent)
<1>1. CASE Panicked
  BY <1>1 DEF InputRelayed
<1>2. CASE ~Panicked
  <2>1. InOrder("stdin", typed \o Held \o inputChan, Taken)
    BY <1>2 DEF InputRelayed, Relayed
  <2>2. InOrder("stdin", typed \o Held, Taken)
    BY <2>1, TypedInput, PartInOrder
  <2>3. InOrder("stdin", typed, Taken)
    BY <2>2, TypedInput, PartInOrder
  <2>4. /\ Taken \in Seq(Message) /\ sent \in Seq(Message) /\ Len(Taken) <= Len(sent)
        /\ \A i \in 1 .. Len(Taken) : sent[i] = Taken[i]
    BY TypedInput
  <2> QED
    BY <2>3, <2>4, SourceGrows
<1> QED
  BY <1>1, <1>2

\* The steps that leave the way to the command alone.
LEMMA InputQuiet ==
    ASSUME Control, Control', InputRelayed, UNCHANGED typed,
           \/ /\ UNCHANGED <<inHand, inputChan>> /\ Taken' = Taken
              /\ Panicked' = Panicked
              /\ Panicked => UNCHANGED sent
           \/ Panicked' /\ UNCHANGED sent
    PROVE  InputRelayed'
<1>1. \A k \in DOMAIN typed' : typed'[k].type = "stdin"
  BY DEF InputRelayed
<1>2. CASE Panicked' /\ UNCHANGED sent
  BY <1>1, <1>2, ReadInOrder DEF InputRelayed
<1>3. CASE ~Panicked' /\ ~Panicked /\ UNCHANGED <<inHand, inputChan>> /\ Taken' = Taken
  BY <1>1, <1>3 DEF InputRelayed, Held
<1> QED
  BY <1>2, <1>3

LEMMA InputClientSends == Control /\ Control' /\ InputRelayed /\ ClientSends => InputRelayed'
<1> SUFFICES ASSUME Control, Control', InputRelayed, ClientSends PROVE InputRelayed'
  OBVIOUS
<1>1. PICK type \in {"stdin", "resize"} :
         sent' = Append(sent, [type |-> type, n |-> Len(sent) + 1])
  BY DEF ClientSends
<1> DEFINE x == [type |-> type, n |-> Len(sent) + 1]
<1>2. Len(sent) \in Nat /\ Len(sent) < MaxInputs
  BY TypedInput DEF ClientSends
<1>3. x \in Message
  BY <1>2, SizesAssumption DEF Message
<1>4. UNCHANGED <<typed, inHand, inputChan, receiver, received, main>>
  BY DEF ClientSends, mainVars
<1>5. /\ sent \in Seq(Message) /\ sent' \in Seq(Message) /\ Len(sent') = Len(sent) + 1
      /\ \A i \in 1 .. Len(sent) : sent'[i] = sent[i]
  BY <1>1, <1>3, TypedInput, AppendProperties
<1> HIDE DEF x
<1>6. CASE Panicked
  <2>1. InOrder("stdin", typed, sent')
    <3>1. InOrder("stdin", typed, sent) /\ Len(sent) <= Len(sent')
      BY <1>2, <1>5, ReadInOrder
    <3> QED
      BY <1>5, <3>1, SourceGrows
  <2> QED
    BY <1>4, <1>6, <2>1 DEF InputRelayed, Panicked
<1>7. CASE ~Panicked
  <2>1. Taken' = Taken
    <3>1. /\ Taken' \in Seq(Message) /\ Len(Taken') = TakenCount'
          /\ \A i \in 1 .. TakenCount' : Taken'[i] = sent'[i]
      <4>1. Taken' = SubSeq(sent', 1, TakenCount) /\ TakenCount' = TakenCount
        BY <1>4 DEF Taken, TakenCount
      <4>2. TakenCount \in 0 .. Len(sent) /\ \A i \in 1 .. TakenCount : sent'[i] \in Message
        BY <1>2, <1>5, TypedInput, ElementOfSeq
      <4>3. /\ SubSeq(sent', 1, TakenCount) \in Seq(Message)
            /\ Len(SubSeq(sent', 1, TakenCount)) =
                   IF 1 <= TakenCount THEN TakenCount - 1 + 1 ELSE 0
            /\ \A i \in 1 .. TakenCount - 1 + 1 :
                  SubSeq(sent', 1, TakenCount)[i] = sent'[1 + i - 1]
        BY <4>2, SubSeqProperties
      <4> QED
        BY <4>1, <4>2, <4>3
    <3>2. TakenCount' = TakenCount /\ TakenCount \in 0 .. Len(sent)
      BY <1>4, TypedInput DEF TakenCount
    <3>3. /\ Taken \in Seq(Message) /\ Len(Taken) = TakenCount
          /\ \A i \in 1 .. TakenCount : Taken[i] = sent[i]
      BY TypedInput
    <3>4. \A i \in 1 .. TakenCount : Taken'[i] = Taken[i]
      BY <1>2, <1>5, <3>1, <3>2, <3>3
    <3> QED
      BY <3>1, <3>2, <3>3, <3>4, SeqEqual
  <2> QED
    BY <1>4, <1>7, <2>1, InputQuiet DEF Panicked
<1> QED
  BY <1>6, <1>7

\* PutInput takes the next message of the client.
LEMMA InputPut == Control /\ Control' /\ InputRelayed /\ PutInput => InputRelayed'
<1> SUFFICES ASSUME Control, Control', InputRelayed, PutInput PROVE InputRelayed'
  OBVIOUS
<1> DEFINE x == sent[received]
           all == typed \o Held \o inputChan
<1>1. /\ receiver = "put" /\ receiver' = "recv" /\ inputChan' = Append(inputChan, x)
      /\ UNCHANGED <<typed, inHand, sent, received, main>>
  BY DEF PutInput, mainVars
<1>2. ~Panicked /\ ~Panicked'
  BY <1>1 DEF Control, ProcessOK, Panicked
<1>3. /\ received \in 1 .. Len(sent) /\ TakenCount = received - 1 /\ TakenCount' = received
      /\ Len(sent) \in Nat
  BY <1>1, TypedInput DEF Control, TypeOK, HandsOK, TakenCount
<1>4. x \in Message /\ x.n = received
  <2>1. DOMAIN sent = 1 .. Len(sent)
    BY TypedInput, LenProperties
  <2> QED
    BY <1>3, <2>1, TypedInput, ElementOfSeq DEF Control, NumbersOK
<1>5. Taken' = Append(Taken, x)
  <2>1. /\ Append(Taken, x) \in Seq(Message) /\ Len(Append(Taken, x)) = received
        /\ \A i \in 1 .. received - 1 : Append(Taken, x)[i] = sent[i]
        /\ Append(Taken, x)[received] = x
    <3>1. /\ Taken \in Seq(Message) /\ Len(Taken) = received - 1
          /\ \A i \in 1 .. received - 1 : Taken[i] = sent[i]
      BY <1>3, TypedInput
    <3> QED
      BY <1>3, <1>4, <3>1, AppendProperties
  <2>2. /\ Taken' \in Seq(Message) /\ Len(Taken') = received
        /\ \A i \in 1 .. received : Taken'[i] = sent[i]
    <3>1. Taken' = SubSeq(sent, 1, received)
      BY <1>1 DEF Taken
    <3>2. received \in Int /\ \A i \in 1 .. received : sent[i] \in Message
      BY <1>3, TypedInput, ElementOfSeq
    <3>3. /\ SubSeq(sent, 1, received) \in Seq(Message)
          /\ Len(SubSeq(sent, 1, received)) = IF 1 <= received THEN received - 1 + 1 ELSE 0
          /\ \A i \in 1 .. received - 1 + 1 : SubSeq(sent, 1, received)[i] = sent[1 + i - 1]
      BY <3>2, SubSeqProperties
    <3> QED
      BY <1>3, <3>1, <3>3
  <2>3. \A i \in 1 .. received : i \in 1 .. received - 1 \/ i = received
    BY <1>3
  <2> QED
    BY <1>3, <2>1, <2>2, <2>3, SeqEqual
<1>6. (typed \o Held \o inputChan)' = Append(all, x)
  <2>1. /\ typed \o Held \in Seq(Message) /\ inputChan \in Seq(Message)
        /\ <<x>> \in Seq(Message) /\ all \in Seq(Message)
    BY <1>4, TypedInput
  <2>2. Append(inputChan, x) = inputChan \o <<x>> /\ Append(all, x) = all \o <<x>>
    BY <1>4, <2>1, AppendIsConcat
  <2>3. (typed \o Held) \o (inputChan \o <<x>>) = all \o <<x>>
    BY <2>1, ConcatAssociative
  <2> QED
    BY <1>1, <2>2, <2>3 DEF Held
<1>7. Relayed("stdin", all, Taken) /\ all \in Seq(Message)
      /\ Taken \in Seq(Message) /\ Len(Taken) + 1 = received
  BY <1>2, <1>3, TypedInput DEF InputRelayed
<1> HIDE DEF x, all
<1>8. Relayed("stdin", Append(all, x), Append(Taken, x))
  <2>1. CASE x.type = "stdin"
    BY <1>4, <1>7, <2>1, NextItem
  <2>2. CASE x.type # "stdin"
    <3>1. Relayed("stdin", Append(all, x), Taken)
      BY <1>4, <1>7, <2>2, ItemOther
    <3> QED
      BY <1>4, <1>7, <2>2, <3>1, SourceOther
  <2> QED
    BY <2>1, <2>2
<1> QED
  BY <1>1, <1>2, <1>5, <1>6, <1>8 DEF InputRelayed

LEMMA InputTake == Control /\ Control' /\ InputRelayed /\ TakeInput => InputRelayed'
<1> SUFFICES ASSUME Control, Control', InputRelayed, TakeInput PROVE InputRelayed'
  OBVIOUS
<1>1. /\ UNCHANGED <<typed, sent, receiver, received, main>> /\ Taken' = Taken
      /\ input = "take" /\ Held = <<>>
  BY DEF TakeInput, mainVars, Taken, Control, HandsOK, Held
<1>2. ~Panicked /\ ~Panicked'
  BY <1>1 DEF Control, ProcessOK, Panicked
<1>3. CASE UNCHANGED <<inHand, inputChan>>
  BY <1>1, <1>2, <1>3, InputQuiet DEF Panicked
<1>4. CASE /\ inputChan # <<>> /\ inHand' = Head(inputChan) /\ inputChan' = Tail(inputChan)
  <2> DEFINE x == Head(inputChan)
  <2>1. x \in Message /\ Tail(inputChan) \in Seq(Message) /\ <<x>> \in Seq(Message)
        /\ typed \in Seq(Message) /\ inputChan \in Seq(Message)
    BY <1>4, TypedInput, HeadTailProperties
  <2>2. x # NoMessage
    BY <2>1, SizesAssumption DEF Message, NoMessage
  <2>3. Held' = <<x>> /\ inputChan = <<x>> \o Tail(inputChan)
    BY <1>4, <2>1, <2>2 DEF Held
  <2>4. (typed \o <<x>>) \o Tail(inputChan) = typed \o inputChan
    BY <2>1, <2>3, ConcatAssociative
  <2>5. typed \o <<>> = typed
    BY <2>1, ConcatEmptySeq
  <2> QED
    BY <1>1, <1>2, <1>4, <2>3, <2>4, <2>5 DEF InputRelayed
<1> QED
  BY <1>3, <1>4 DEF TakeInput

LEMMA InputWrite == Control /\ Control' /\ InputRelayed /\ WriteStdin => InputRelayed'
<1> SUFFICES ASSUME Control, Control', InputRelayed, WriteStdin PROVE InputRelayed'
  OBVIOUS
<1>1. /\ UNCHANGED <<inputChan, sent, receiver, received, main>> /\ Taken' = Taken
      /\ typed' = Append(typed, inHand) /\ inHand' = NoMessage
  BY DEF WriteStdin, mainVars, Taken
<1>2. ~Panicked /\ ~Panicked'
  BY <1>1 DEF WriteStdin, Panicked
<1>3. inHand \in Message /\ inHand.type = "stdin" /\ inHand # NoMessage
  BY SizesAssumption DEF WriteStdin, Control, HandsOK, NoMessage
<1>4. Held = <<inHand>> /\ Held' = <<>>
  BY <1>1, <1>3 DEF Held
<1>5. typed' = typed \o <<inHand>> /\ typed' \in Seq(Message) /\ typed' \o <<>> = typed'
  <2>1. typed \in Seq(Message) /\ Append(typed, inHand) \in Seq(Message)
    BY <1>3, TypedInput, AppendProperties
  <2> QED
    BY <1>1, <1>3, <2>1, AppendIsConcat, ConcatEmptySeq
<1>6. \A k \in DOMAIN typed' : typed'[k].type = "stdin"
  <2>1. /\ Len(typed) \in Nat /\ DOMAIN typed = 1 .. Len(typed)
        /\ DOMAIN typed' = 1 .. Len(typed) + 1
        /\ \A k \in 1 .. Len(typed) : typed'[k] = typed[k]
        /\ typed'[Len(typed) + 1] = inHand
    BY <1>1, <1>3, TypedInput, AppendProperties, LenProperties
  <2>2. \A k \in 1 .. Len(typed) + 1 : k \in 1 .. Len(typed) \/ k = Len(typed) + 1
    BY <2>1
  <2> QED
    BY <1>3, <2>1, <2>2 DEF InputRelayed
<1>7. (typed \o Held \o inputChan)' = typed \o Held \o inputChan
  BY <1>1, <1>4, <1>5
<1> QED
  BY <1>1, <1>2, <1>6, <1>7 DEF InputRelayed

LEMMA InputPutResize == Control /\ Control' /\ InputRelayed /\ PutResize => InputRelayed'
<1> SUFFICES ASSUME Control, Control', InputRelayed, PutResize PROVE InputRelayed'
  OBVIOUS
<1>1. /\ UNCHANGED <<typed, inputChan, sent, receiver, received, main>> /\ Taken' = Taken
      /\ inHand' = NoMessage /\ input = "resize"
  BY DEF PutResize, mainVars, Taken
<1>2. ~Panicked /\ ~Panicked'
  BY <1>1 DEF Control, ProcessOK, Panicked
<1>3. inHand \in Message /\ inHand.type # "stdin" /\ inHand # NoMessage
  BY <1>1 DEF Control, HandsOK, NoMessage
<1>4. Held = <<inHand>> /\ Held' = <<>>
  BY <1>1, <1>3 DEF Held
<1>5. Relayed("stdin", (typed \o <<inHand>>) \o inputChan, Taken)
  BY <1>2, <1>4 DEF InputRelayed
<1>6. typed \in Seq(Message) /\ inputChan \in Seq(Message)
  BY TypedInput
<1>7. Relayed("stdin", typed \o inputChan, Taken)
  BY <1>3, <1>5, <1>6, TakenOut
<1>8. typed \o <<>> = typed
  BY <1>6, ConcatEmptySeq
<1> QED
  BY <1>1, <1>2, <1>4, <1>7, <1>8 DEF InputRelayed

LEMMA InputRecv == Control /\ Control' /\ InputRelayed /\ Recv => InputRelayed'
<1> SUFFICES ASSUME Control, Control', InputRelayed, Recv PROVE InputRelayed'
  OBVIOUS
<1>1. UNCHANGED <<typed, inHand, inputChan, sent, main>>
  BY DEF Recv, mainVars
<1>2. TakenCount' = TakenCount
  <2>1. received \in Nat /\ receiver = "recv"
    BY TypedInput DEF Recv, Control, TypeOK
  <2> QED
    BY <2>1 DEF Recv, TakenCount
<1>3. Taken' = Taken
  BY <1>1, <1>2 DEF Taken, TakenCount
<1> QED
  BY <1>1, <1>3, InputQuiet DEF Panicked

\* The output side and the main goroutine, and the steps that change nothing.
LEMMA InputRest ==
    ASSUME Control, Control', InputRelayed,
           \/ ClientClosesSend \/ ClientGoes \/ Resize \/ CommandExits \/ Forward \/ Main
           \/ \E s \in Streams : Produce(s) \/ Output(s)
           \/ UNCHANGED vars
    PROVE  InputRelayed'
<1>1. UNCHANGED <<typed, inHand, inputChan, sent, received>>
  BY DEF ClientClosesSend, ClientGoes, Resize, CommandExits, Forward, Main, FindPod,
     StreamReturns, SendError, SendExit, SendEnd, CloseOutput, Return, Produce, Output,
     ReadOutput, SendOutput, inVars, vars
<1>2. CASE Panicked'
  BY <1>1, <1>2, InputQuiet
<1>3. CASE ~Panicked'
  <2>1. UNCHANGED receiver /\ ~Panicked
    BY <1>3 DEF ClientClosesSend, ClientGoes, Resize, CommandExits, Forward, Main, FindPod,
       StreamReturns, SendError, SendExit, SendEnd, CloseOutput, Return, Produce, Output,
       ReadOutput, SendOutput, Panic, Panicked, inVars, vars, mainVars, Control, ProcessOK
  <2>2. Taken' = Taken
    BY <1>1, <2>1 DEF Taken
  <2>3. Panicked' = Panicked /\ ~Panicked
    BY <1>3, <2>1 DEF Panicked
  <2> QED
    BY <1>1, <2>2, <2>3, InputQuiet
<1> QED
  BY <1>2, <1>3

LEMMA InputNext == Control /\ Control' /\ InputRelayed /\ [Next]_vars => InputRelayed'
BY InputClientSends, InputRecv, InputPut, InputTake, InputWrite, InputPutResize, InputRest
DEF Next, Input

LEMMA InputInit == Init => InputRelayed
<1> SUFFICES ASSUME Init PROVE InputRelayed
  OBVIOUS
<1>1. /\ typed = <<>> /\ Held = <<>> /\ inputChan = <<>> /\ TakenCount = 0 /\ ~Panicked
  BY DEF Init, Held, TakenCount, Panicked
<1>2. typed \o Held \o inputChan = <<>>
  BY <1>1, ConcatEmptySeq, EmptySeq
<1>3. Len(Taken) = 0 /\ Taken \in Seq(Message)
  BY <1>1, ControlInit, TypedInput
<1>4. DOMAIN Taken = {} /\ DOMAIN typed = {} /\ DOMAIN (typed \o Held \o inputChan) = {}
  BY <1>1, <1>2, <1>3, EmptySeq, LenProperties
<1> QED
  BY <1>1, <1>4 DEF InputRelayed, Relayed, InOrder
-----------------------------------------------------------------------------
(* The theorems.                                                           *)

\* The invariant from which the others follow: the goroutines hold what their state
\* says, the two channels carry what their sources have let go of, and the end of
\* the command is reported after its output has been read.
IInv == Control /\ OutputInv /\ InputRelayed

THEOREM Inductive == Spec => []IInv
<1>1. Init => IInv
  BY ControlInit, OutputInit, InputInit DEF IInv
<1>2. IInv /\ [Next]_vars => IInv'
  BY ControlNext, OutputNext, InputNext DEF IInv
<1> QED
  BY <1>1, <1>2, PTL DEF Spec

\* Every variable of a session keeps its type, and no channel holds more than its
\* capacity: ExecContainer's goroutines block on a full channel and never overfill it.
THEOREM TypeCorrect == Spec => []TypeOK
<1>1. IInv => TypeOK
  BY DEF IInv, Control
<1> QED
  BY <1>1, Inductive, PTL

\* Between the command and the client no chunk is lost, duplicated or reordered within
\* its stream (handleOutput, outputChan and the sender of the service layer).
THEOREM OutputInOrder == Spec => []OutputRelayed
<1>1. IInv => OutputRelayed
  BY OutputImplied DEF IInv
<1> QED
  BY <1>1, Inductive, PTL

\* Between the client and the command nothing that is typed is lost, duplicated or
\* reordered (the receiver of the service layer, inputChan and handleInput).
THEOREM InputInOrder == Spec => []InputRelayed
<1>1. IInv => InputRelayed
  BY DEF IInv
<1> QED
  BY <1>1, Inductive, PTL

\* The exit code overtakes at most the chunk that each handleOutput holds.
THEOREM ExitOvertakes == Spec => []ExitOvertakesLittle
<1>1. IInv => ExitOvertakesLittle
  BY DEF IInv, OutputInv
<1> QED
  BY <1>1, Inductive, PTL
=============================================================================
