---------------------------- MODULE HandlerProofs ----------------------------
(***************************************************************************)
(* Theorems about Handler, for any number of sensors, addresses,           *)
(* connections and messages, and a store of any capacity.                  *)
(***************************************************************************)
EXTENDS Handler, HistoryLemmas, FiniteSetTheorems

(* The types of HandlerTypeOK and of the rest of the state, over the numbers *)
(* N of the readings and the connections C there are so far.                *)
Messages(N) ==
  {m \in [kind : {"heartbeat", "reading", "batch"}, id : Sensors \cup {NoID}, readings : Seq(N)] :
     /\ m.kind = "heartbeat" <=> m.readings = <<>>
     /\ m.kind = "reading" => Len(m.readings) = 1}

Made(C) == [sensor : Sensors, conn : C, valid : BOOLEAN]

ConnTypes(C) ==
  /\ addr \in [C -> Addrs]
  /\ owner \in [C -> Sensors]
  /\ client \subseteq C
  /\ open \subseteq C
  /\ named \subseteq C
  /\ made \in Seq(Made(C))

StoreTypes(N) ==
  /\ data \in [DOMAIN data -> Seq(N)]
  /\ \A s \in DOMAIN data : s \in Sensors /\ Len(data[s]) \in 1..StoreCapacity
  /\ added \in Seq(N) /\ totalReadings = Len(added)
  /\ written \in Seq(N)

LoopTypes(N) ==
  /\ pc \in [Conns -> {"none", "register", "read", "reading", "readingStore", "batch", "batchWrite",
                       "heartbeat", "lastSeen", "remove", "close", "done"}]
  /\ todo \in [Conns -> Seq(N)]
  /\ heartbeat \in [Conns -> Sensors \cup {NoID}]
  /\ wire \in [Conns -> Seq(Messages(N))]
  /\ unread \subseteq N

MapTypes(C) ==
  /\ DOMAIN activeSensors \subseteq Addrs
  /\ activeSensors \in
       [DOMAIN activeSensors -> [id : Sensors \cup Addrs, conn : C, seen : BOOLEAN]]
  /\ DOMAIN connToSensorID \subseteq Addrs
  /\ connToSensorID \in [DOMAIN connToSensorID -> Sensors]

Types ==
  /\ conns \in 0..MaxConns
  /\ ConnTypes(1..conns)
  /\ StoreTypes(Numbers)
  /\ LoopTypes(Numbers)
  /\ MapTypes(1..conns)

(* Who speaks on a connection, and what a goroutine has in its hands at     *)
(* each place of its code.                                                  *)
Busy == {"reading", "readingStore", "batch", "batchWrite"}

Control(c) ==
  /\ pc[c] = "none" <=> c \notin 1..conns
  /\ pc[c] = "none" => wire[c] = <<>> /\ heartbeat[c] = NoID
  /\ c \in 1..conns =>
       /\ heartbeat[c] \in {owner[c], NoID}
       /\ \A i \in DOMAIN wire[c] : wire[c][i].id \in {owner[c], NoID}
  /\ pc[c] \in {"reading", "readingStore"} => Len(todo[c]) = 1
  /\ todo[c] = <<>> <=> pc[c] \notin Busy

Controls == \A c \in Conns : Control(c)

(* An address is free again only when its socket is closed; a connection is *)
(* in the list while it is served, and in the other map under the name it   *)
(* gave itself.                                                             *)
Live(c) == pc[c] \notin {"none", "done"}

Sockets ==
  /\ open = {c \in 1..conns : Live(c)}
  /\ \A c, d \in 1..conns : Live(c) /\ Live(d) /\ addr[c] = addr[d] => c = d

Entries ==
  /\ \A a \in DOMAIN activeSensors :
       \E c \in 1..conns : Serving(c) /\ addr[c] = a
  /\ \A c \in 1..conns : Serving(c) =>
       addr[c] \in DOMAIN activeSensors /\ activeSensors[addr[c]].conn = c

Names ==
  /\ \A c \in named : pc[c] # "register"
  /\ \A c \in named : Serving(c) => activeSensors[addr[c]].id = owner[c]
  /\ \A a \in DOMAIN connToSensorID :
       \E c \in named : Serving(c) /\ addr[c] = a /\ connToSensorID[a] = owner[c]

Maps == Sockets /\ Entries /\ Names

(* The readings of a connection on their way: those in the hands of its     *)
(* goroutine are older than those on the wire, and those that were handled  *)
(* are older still.                                                         *)
InHand(c)  == ToSet(todo[c])
Waiting(c) == ReadingsIn(wire[c])

Before(S, T) == \A x \in S, y \in T : x < y

OrderedWire(w) ==
  \A i \in DOMAIN w :
    /\ Increasing(w[i].readings)
    /\ \A j \in DOMAIN w : i < j => Before(ToSet(w[i].readings), ToSet(w[j].readings))

HandledOn(c, seq) == {n \in ToSet(seq) : made[n].conn = c}

Owned ==
  \A c \in Conns : \A n \in InHand(c) \cup Waiting(c) : made[n].conn = c

OrderOn(c) ==
  /\ Increasing(todo[c])
  /\ OrderedWire(wire[c])
  /\ Before(InHand(c), Waiting(c))
  /\ Before(HandledOn(c, written) \cup HandledOn(c, added), Waiting(c))
  /\ \A n \in HandledOn(c, written), y \in InHand(c) :
       n < y \/ (pc[c] = "readingStore" /\ n = Current(c))
  /\ \A n \in HandledOn(c, added), y \in InHand(c) :
       n < y \/ (pc[c] = "batchWrite" /\ n = Current(c))

InOrder == \A c \in Conns : OrderOn(c)

(* A reading between the stores is where it should be. *)
Halfway ==
  \A c \in Conns :
    /\ pc[c] = "readingStore" => Current(c) \in ToSet(written)
    /\ pc[c] = "batchWrite" /\ made[Current(c)].valid => Current(c) \in ToSet(added)

Unread ==
  /\ unread \cap ToSet(written) = {}
  /\ \A c \in Conns : unread \cap (InHand(c) \cup Waiting(c)) = {}

OnlyValid == \A n \in ToSet(added) : made[n].valid

(* The places in added of a sensor's readings, and how many of them there   *)
(* are from the k-th on: the last of them are kept.                         *)
AddedFor(s) == {k \in DOMAIN added : made[added[k]].sensor = s}
Since(s, k) == Cardinality({j \in AddedFor(s) : k <= j})

LatestOf(s) ==
  LET kept == ReadingsOf(s)
  IN /\ Len(kept) = Min({Cardinality(AddedFor(s)), StoreCapacity})
     /\ \A k \in AddedFor(s) :
          Since(s, k) <= Len(kept) => kept[Len(kept) - Since(s, k) + 1] = added[k]

Latest == \A s \in Sensors : LatestOf(s)

IInv ==
  /\ Types
  /\ Controls
  /\ Maps
  /\ Owned
  /\ InOrder
  /\ ConnectionOrder
  /\ Halfway
  /\ Unread
  /\ OnlyValid
  /\ StoreAndDatabaseAgree
  /\ ReadMeansHandled
  /\ Latest

-----------------------------------------------------------------------------
(* Sequences of messages. *)

LEMMA AppendedWire ==
  ASSUME NEW M, \A m \in M : m.readings \in Seq(Nat), NEW w \in Seq(M), NEW new \in M
  PROVE  /\ ReadingsIn(Append(w, new)) = ReadingsIn(w) \cup ToSet(new.readings)
         /\ OrderedWire(w) /\ Increasing(new.readings)
              /\ Before(ReadingsIn(w), ToSet(new.readings)) => OrderedWire(Append(w, new))
<1> DEFINE u == Append(w, new)
<1>1. /\ Len(w) \in Nat /\ DOMAIN w = 1..Len(w) /\ DOMAIN u = 1..(Len(w) + 1)
      /\ \A i \in 1..Len(w) : u[i] = w[i]
      /\ u[Len(w) + 1] = new
  BY AppendProperties, LenProperties
<1> HIDE DEF u
<1>2. ReadingsIn(u) = ReadingsIn(w) \cup ToSet(new.readings)
  BY <1>1 DEF ReadingsIn
<1>3. ASSUME OrderedWire(w), Increasing(new.readings), Before(ReadingsIn(w), ToSet(new.readings))
      PROVE  OrderedWire(u)
  <2>1. ASSUME NEW i \in DOMAIN u
        PROVE  Increasing(u[i].readings)
    BY <1>1, <1>3, <2>1 DEF OrderedWire
  <2>2. ASSUME NEW i \in DOMAIN u, NEW j \in DOMAIN u, i < j
        PROVE  Before(ToSet(u[i].readings), ToSet(u[j].readings))
    <3>1. i \in 1..Len(w) /\ u[i] = w[i] /\ i \in DOMAIN w
      BY <1>1, <2>2
    <3>2. CASE j = Len(w) + 1
      <4>1. ToSet(w[i].readings) \subseteq ReadingsIn(w)
        BY <3>1 DEF ReadingsIn
      <4> QED
        BY <1>1, <1>3, <3>1, <3>2, <4>1 DEF Before
    <3>3. CASE j # Len(w) + 1
      BY <1>1, <1>3, <2>2, <3>1, <3>3 DEF OrderedWire
    <3> QED
      BY <3>2, <3>3
  <2> QED
    BY <2>1, <2>2 DEF OrderedWire
<1> QED
  BY <1>2, <1>3 DEF u

LEMMA TakenWire ==
  ASSUME NEW M, \A m \in M : m.readings \in Seq(Nat), NEW w \in Seq(M), w # <<>>
  PROVE  /\ ReadingsIn(w) = ToSet(Head(w).readings) \cup ReadingsIn(Tail(w))
         /\ OrderedWire(w) =>
              /\ Increasing(Head(w).readings)
              /\ OrderedWire(Tail(w))
              /\ Before(ToSet(Head(w).readings), ReadingsIn(Tail(w)))
<1> DEFINE u == Tail(w)
<1>1. /\ Len(w) \in Nat \ {0} /\ DOMAIN w = 1..Len(w) /\ DOMAIN u = 1..(Len(w) - 1)
      /\ \A i \in 1..(Len(w) - 1) : u[i] = w[i + 1]
      /\ Head(w) = w[1]
  BY HeadTailProperties, LenProperties, EmptySeq
<1> HIDE DEF u
<1>2. ReadingsIn(w) = ToSet(Head(w).readings) \cup ReadingsIn(u)
  <2>1. ASSUME NEW i \in DOMAIN w
        PROVE  i = 1 \/ (i - 1 \in DOMAIN u /\ w[i] = u[i - 1])
    BY <1>1, <2>1
  <2>2. ASSUME NEW i \in DOMAIN u
        PROVE  i + 1 \in DOMAIN w /\ u[i] = w[i + 1]
    BY <1>1, <2>2
  <2>3. 1 \in DOMAIN w
    BY <1>1
  <2> QED
    BY <1>1, <2>1, <2>2, <2>3 DEF ReadingsIn
<1>3. ASSUME OrderedWire(w)
      PROVE  /\ Increasing(Head(w).readings)
             /\ OrderedWire(u)
             /\ Before(ToSet(Head(w).readings), ReadingsIn(u))
  <2>1. Increasing(w[1].readings)
    BY <1>1, <1>3 DEF OrderedWire
  <2>2. ASSUME NEW i \in DOMAIN u
        PROVE  /\ i + 1 \in DOMAIN w /\ u[i] = w[i + 1] /\ 1 < i + 1 /\ i \in Nat
    BY <1>1, <2>2
  <2>3. OrderedWire(u)
    BY <1>3, <2>2 DEF OrderedWire
  <2>4. ASSUME NEW i \in DOMAIN u
        PROVE  Before(ToSet(w[1].readings), ToSet(u[i].readings))
    BY <1>1, <1>3, <2>2 DEF OrderedWire
  <2> QED
    BY <1>1, <2>1, <2>3, <2>4 DEF Before, ReadingsIn
<1> QED
  BY <1>2, <1>3 DEF u

LEMMA EmptyWire == ReadingsIn(<<>>) = {} /\ OrderedWire(<<>>)
BY DEF ReadingsIn, OrderedWire

-----------------------------------------------------------------------------
(* What a step does to each part of the state. *)

LEMMA TypesAreTheTypes == Types => HandlerTypeOK
BY DEF Types, ConnTypes, StoreTypes, LoopTypes, MapTypes, HandlerTypeOK, Entry

(* A connection more, or the same; a sensor sends, or nobody does. *)
Dials == \E s \in Sensors, a \in Addrs : Dial(s, a)
Sends(c) ==
  \/ \E id \in {owner[c], NoID} : SendHeartbeat(c, id)
  \/ \E valid \in BOOLEAN : SendReading(c, valid) \/ SendBatch(c, valid)

LEMMA Steps ==
  ASSUME [Next]_vars
  PROVE  \/ Dials
         \/ \E c \in 1..conns : Sends(c)
         \/ \E c \in 1..conns : ClientCloses(c) \/ ClientResets(c) \/ HandleConnection(c)
         \/ UNCHANGED vars
BY DEF Next, Sensor, Dials, Sends

LEMMA OthersKeepConns ==
  ASSUME NEW c, ClientCloses(c) \/ ClientResets(c) \/ HandleConnection(c)
  PROVE  UNCHANGED <<conns, addr, owner, made, messages>>
BY DEF ClientCloses, ClientResets, HandleConnection, Register, Receive, ReadEnds, Deadline, Leave,
   RemoveSensor, CloseConn, ReadingWrite, ReadingStore, BatchStore, BatchWrite, NameSensor,
   UpdateSensorLastSeen, tcpVars, sensorVars

(* Readings are handled in two actions each. *)
LEMMA StoreSteps ==
  ASSUME [Next]_vars
  PROVE  \/ UNCHANGED <<data, totalReadings, added>>
         \/ \E c \in 1..conns :
              /\ ReadingStore(c) \/ BatchStore(c)
              /\ StoreIfValid(Current(c))
<1>1. CASE Dials
  BY <1>1 DEF Dials, Dial, storeVars
<1>2. ASSUME NEW c \in 1..conns, Sends(c)
      PROVE  UNCHANGED <<data, totalReadings, added>>
  BY <1>2 DEF Sends, SendHeartbeat, SendReading, SendBatch, SendMessage, storeVars
<1>3. ASSUME NEW c \in 1..conns,
             ClientCloses(c) \/ ClientResets(c) \/ HandleConnection(c)
      PROVE  \/ UNCHANGED <<data, totalReadings, added>>
             \/ (ReadingStore(c) \/ BatchStore(c)) /\ StoreIfValid(Current(c))
  BY <1>3 DEF ClientCloses, ClientResets, HandleConnection, Register, Receive, ReadEnds, Deadline, Leave,
     RemoveSensor, CloseConn, ReadingWrite, ReadingStore, BatchStore, BatchWrite, NameSensor,
     UpdateSensorLastSeen, storeVars
<1>4. CASE UNCHANGED vars
  BY <1>4 DEF vars, storeVars
<1> QED
  BY <1>1, <1>2, <1>3, <1>4, Steps

LEMMA WriteSteps ==
  ASSUME [Next]_vars
  PROVE  \/ written' = written
         \/ \E c \in 1..conns :
              /\ ReadingWrite(c) \/ BatchWrite(c)
              /\ written' = Append(written, Current(c))
<1>1. CASE Dials
  BY <1>1 DEF Dials, Dial
<1>2. ASSUME NEW c \in 1..conns, Sends(c)
      PROVE  written' = written
  BY <1>2 DEF Sends, SendHeartbeat, SendReading, SendBatch, SendMessage
<1>3. ASSUME NEW c \in 1..conns,
             ClientCloses(c) \/ ClientResets(c) \/ HandleConnection(c)
      PROVE  \/ written' = written
             \/ (ReadingWrite(c) \/ BatchWrite(c)) /\ written' = Append(written, Current(c))
  BY <1>3 DEF ClientCloses, ClientResets, HandleConnection, Register, Receive, ReadEnds, Deadline, Leave,
     RemoveSensor, CloseConn, ReadingWrite, ReadingStore, BatchStore, BatchWrite, NameSensor,
     UpdateSensorLastSeen
<1>4. CASE UNCHANGED vars
  BY <1>4 DEF vars
<1> QED
  BY <1>1, <1>2, <1>3, <1>4, Steps

(* Readings are numbered once and keep their sensor, connection and validity. *)
LEMMA NextConns ==
  ASSUME conns \in 0..MaxConns, ConnTypes(1..conns), [Next]_vars
  PROVE  /\ conns' \in 0..MaxConns /\ 1..conns \subseteq 1..conns'
         /\ \A c \in 1..conns : addr'[c] = addr[c] /\ owner'[c] = owner[c]
         /\ addr' \in [1..conns' -> Addrs] /\ owner' \in [1..conns' -> Sensors]
         /\ made' \in Seq(Made(1..conns'))
         /\ Numbers \subseteq Numbers'
         /\ \A n \in Numbers : made'[n] = made[n]
<1> DEFINE M == Made(1..conns)
<1>0. /\ conns \in Nat /\ MaxConns \in Nat /\ made \in Seq(M) /\ Len(made) \in Nat
      /\ owner \in [1..conns -> Sensors] /\ addr \in [1..conns -> Addrs]
  BY HandlerAssumption DEF HandlerAssumption, ConnTypes
<1>1. CASE Dials
  <2> PICK s \in Sensors, a \in Addrs : Dial(s, a)
    BY <1>1 DEF Dials
  <2>1. /\ conns' = conns + 1 /\ conns < MaxConns
        /\ addr' = Append(addr, a) /\ owner' = Append(owner, s) /\ made' = made
    BY DEF Dial, sensorVars
  <2>2. addr \in Seq(Addrs) /\ owner \in Seq(Sensors) /\ Len(addr) = conns /\ Len(owner) = conns
    BY <1>0
  <2>3. /\ addr' \in [1..conns' -> Addrs] /\ owner' \in [1..conns' -> Sensors]
        /\ \A c \in 1..conns : addr'[c] = addr[c] /\ owner'[c] = owner[c]
    <3>1. /\ addr' \in Seq(Addrs) /\ Len(addr') = conns'
          /\ owner' \in Seq(Sensors) /\ Len(owner') = conns'
          /\ \A c \in 1..conns : addr'[c] = addr[c] /\ owner'[c] = owner[c]
      BY <2>1, <2>2, AppendProperties
    <3> QED
      BY <3>1
  <2>4. M \subseteq Made(1..conns')
    BY <1>0, <2>1 DEF Made
  <2>5. made' \in Seq(Made(1..conns'))
    BY <1>0, <2>1, <2>4, SeqMonotonic, Zenon
  <2> QED
    BY <1>0, <2>1, <2>3, <2>5 DEF Numbers
<1>2. ASSUME NEW c \in 1..conns, Sends(c)
      PROVE  /\ UNCHANGED <<conns, addr, owner>> /\ made' \in Seq(M)
             /\ Numbers \subseteq Numbers' /\ \A n \in Numbers : made'[n] = made[n]
  <2>1. UNCHANGED <<conns, addr, owner>>
    BY <1>2 DEF Sends, SendHeartbeat, SendReading, SendBatch, SendMessage, tcpVars
  <2>2. CASE made' = made
    BY <1>0, <2>1, <2>2 DEF Numbers
  <2>3. ASSUME NEW valid \in BOOLEAN, SendReading(c, valid)
        PROVE  /\ made' \in Seq(M) /\ Numbers \subseteq Numbers'
               /\ \A n \in Numbers : made'[n] = made[n]
    <3> DEFINE m == [sensor |-> owner[c], conn |-> c, valid |-> valid]
    <3>1. m \in M /\ made' = Append(made, m)
      BY <1>0, <2>3 DEF SendReading, Made
    <3> HIDE DEF m, M
    <3> QED
      BY <1>0, <3>1 DEF Numbers
  <2>4. ASSUME NEW valid \in BOOLEAN, SendBatch(c, valid)
        PROVE  /\ made' \in Seq(M) /\ Numbers \subseteq Numbers'
               /\ \A n \in Numbers : made'[n] = made[n]
    <3> DEFINE m == [sensor |-> owner[c], conn |-> c, valid |-> valid]
               two == [i \in 1..2 |-> m]
    <3>1. m \in M /\ made' = made \o two
      BY <1>0, <2>4 DEF SendBatch, Made
    <3> HIDE DEF m, M
    <3>2. two \in Seq(M) /\ Len(two) = 2
      BY <3>1
    <3> HIDE DEF two
    <3> QED
      BY <1>0, <3>1, <3>2, ConcatProperties DEF Numbers
  <2> HIDE DEF M
  <2> QED
    BY <1>2, <2>1, <2>2, <2>3, <2>4 DEF Sends, SendHeartbeat
<1>3. ASSUME NEW c \in 1..conns, ClientCloses(c) \/ ClientResets(c) \/ HandleConnection(c)
      PROVE  UNCHANGED <<conns, addr, owner, made>>
  BY <1>3, OthersKeepConns
<1>4. ASSUME UNCHANGED vars
      PROVE  UNCHANGED <<conns, addr, owner, made>>
  BY <1>4 DEF vars, tcpVars, sensorVars
<1>5. ASSUME UNCHANGED <<conns, addr, owner>>, made' \in Seq(M)
      PROVE  /\ conns' \in 0..MaxConns /\ 1..conns \subseteq 1..conns'
             /\ \A c \in 1..conns : addr'[c] = addr[c] /\ owner'[c] = owner[c]
             /\ addr' \in [1..conns' -> Addrs] /\ owner' \in [1..conns' -> Sensors]
             /\ made' \in Seq(Made(1..conns'))
  BY <1>0, <1>5
<1>6. ASSUME made' = made PROVE Numbers \subseteq Numbers' /\ \A n \in Numbers : made'[n] = made[n]
  BY <1>6 DEF Numbers
<1>7. made' = made => made' \in Seq(M)
  BY <1>0
<1> HIDE DEF M
<1>8. CASE \E c \in 1..conns : Sends(c)
  BY <1>2, <1>5, <1>8
<1>9. CASE \/ \E c \in 1..conns : ClientCloses(c) \/ ClientResets(c) \/ HandleConnection(c)
           \/ UNCHANGED vars
  BY <1>3, <1>4, <1>5, <1>6, <1>7, <1>9
<1> QED
  BY <1>1, <1>8, <1>9, Steps

LEMMA NextConnTypes ==
  ASSUME conns \in 0..MaxConns, ConnTypes(1..conns), [Next]_vars
  PROVE  ConnTypes(1..conns)'
<1>1. client' \subseteq 1..conns' /\ open' \subseteq 1..conns' /\ named' \subseteq 1..conns'
  <2>0. /\ client \subseteq 1..conns /\ open \subseteq 1..conns /\ named \subseteq 1..conns
        /\ conns \in Nat /\ 1..conns \subseteq 1..conns'
    BY HandlerAssumption, NextConns DEF HandlerAssumption, ConnTypes
  <2>1. CASE Dials
    BY <2>0, <2>1 DEF Dials, Dial, mapVars
  <2>2. ASSUME NEW c \in 1..conns, Sends(c)
        PROVE  UNCHANGED <<client, open, named>>
    BY <2>2 DEF Sends, SendHeartbeat, SendReading, SendBatch, SendMessage, tcpVars, mapVars
  <2>3. ASSUME NEW c \in 1..conns, ClientCloses(c) \/ ClientResets(c) \/ HandleConnection(c)
        PROVE  client' \subseteq client /\ open' \subseteq open /\ named' \subseteq named \cup {c}
    BY <2>3 DEF ClientCloses, ClientResets, HandleConnection, Register, Receive, ReadEnds, Deadline, Leave,
       RemoveSensor, CloseConn, ReadingWrite, ReadingStore, BatchStore, BatchWrite, NameSensor,
       UpdateSensorLastSeen, tcpVars, handlerVars, mapVars
  <2>4. CASE UNCHANGED vars
    BY <2>0, <2>4 DEF vars, tcpVars, mapVars
  <2> QED
    BY <2>0, <2>1, <2>2, <2>3, <2>4, Steps
<1> QED
  BY <1>1, NextConns DEF ConnTypes

(* Whoever handles a reading has it. *)
LEMMA HasCurrent ==
  ASSUME Types, Controls, NEW c \in 1..conns,
         pc[c] \in Busy
  PROVE  c \in Conns /\ todo[c] \in Seq(Numbers) /\ todo[c] # <<>> /\ Current(c) \in Numbers
<1>1. c \in Conns
  BY HandlerAssumption DEF HandlerAssumption, Types, Conns
<1>2. todo[c] \in Seq(Numbers) /\ todo[c] # <<>>
  BY <1>1 DEF Types, LoopTypes, Controls, Control
<1> QED
  BY <1>1, <1>2, HeadTailProperties DEF Current

(* What the store keeps of a sensor when a reading is added. *)
LEMMA RoomForOne ==
  ASSUME NEW N, NEW q \in Seq(N), Len(q) <= StoreCapacity, NEW n \in N
  PROVE  LET r == Append(Room(q), n)
         IN  /\ r \in Seq(N)
             /\ Len(r) = IF Len(q) < StoreCapacity THEN Len(q) + 1 ELSE StoreCapacity
             /\ r[Len(r)] = n
             /\ \A i \in 1..(Len(r) - 1) : r[Len(r) - i] = q[Len(q) - i + 1]
<1> DEFINE r == Append(Room(q), n)
<1> SUFFICES /\ r \in Seq(N)
             /\ Len(r) = IF Len(q) < StoreCapacity THEN Len(q) + 1 ELSE StoreCapacity
             /\ r[Len(r)] = n
             /\ \A i \in 1..(Len(r) - 1) : r[Len(r) - i] = q[Len(q) - i + 1]
  OBVIOUS
<1> HIDE DEF r
<1>0. StoreCapacity \in Nat \ {0} /\ Len(q) \in Nat /\ DOMAIN q = 1..Len(q)
  BY MemoryStoreAssumption, LenProperties DEF MemoryStoreAssumption
<1>1. CASE Len(q) < StoreCapacity
  <2>0. ~(Len(q) >= StoreCapacity)
    BY <1>0, <1>1
  <2>1. r = Append(q, n)
    BY <2>0, Zenon DEF Room, r
  <2>2. /\ r \in Seq(N) /\ Len(r) = Len(q) + 1 /\ r[Len(q) + 1] = n
        /\ \A i \in 1..Len(q) : r[i] = q[i]
    BY <2>1, AppendProperties
  <2> QED
    BY <1>0, <1>1, <2>2
<1>2. CASE Len(q) = StoreCapacity
  <2>1. /\ Room(q) = Tail(q) /\ Tail(q) \in Seq(N) /\ Len(Tail(q)) = Len(q) - 1
        /\ \A i \in 1..(Len(q) - 1) : Tail(q)[i] = q[i + 1]
    BY <1>0, <1>2, EmptySeq, HeadTailProperties DEF Room
  <2> DEFINE t == Tail(q)
  <2> HIDE DEF t
  <2>2. /\ t \in Seq(N) /\ Len(t) = Len(q) - 1
        /\ \A i \in 1..(Len(q) - 1) : t[i] = q[i + 1]
    BY <2>1 DEF t
  <2>3. r = Append(t, n)
    BY <2>1 DEF r, t
  <2>4. /\ r \in Seq(N) /\ Len(r) = Len(q) - 1 + 1 /\ r[Len(q) - 1 + 1] = n
        /\ \A i \in 1..(Len(q) - 1) : r[i] = t[i]
    BY <2>2, <2>3, AppendProperties
  <2>5. /\ r \in Seq(N) /\ Len(r) = Len(q) /\ r[Len(q)] = n
        /\ \A i \in 1..(Len(q) - 1) : r[i] = q[i + 1]
    BY <1>0, <2>2, <2>4
  <2>6. \A i \in 1..(Len(q) - 1) : Len(q) - i \in 1..(Len(q) - 1) /\ (Len(q) - i) + 1 = Len(q) - i + 1
    BY <1>0
  <2> QED
    BY <1>0, <1>2, <2>5, <2>6
<1>3. Len(q) < StoreCapacity \/ Len(q) = StoreCapacity
  <2>1. \A x, y \in Nat : x <= y => x < y \/ x = y
    OBVIOUS
  <2>2. StoreCapacity \in Nat
    BY <1>0
  <2> QED
    BY <1>0, <2>1, <2>2, Zenon
<1> QED
  BY <1>1, <1>2, <1>3, Zenon

LEMMA MadeIsTyped ==
  ASSUME Types, NEW n \in Numbers
  PROVE  made[n].sensor \in Sensors /\ made[n].conn \in 1..conns /\ made[n].valid \in BOOLEAN
<1>1. made \in Seq(Made(1..conns)) /\ n \in 1..Len(made)
  BY DEF Types, ConnTypes, Numbers
<1>2. made[n] \in Made(1..conns)
  BY <1>1, ElementOfSeq
<1> QED
  BY <1>2 DEF Made

LEMMA MoreReadings ==
  ASSUME NEW N, NEW O, N \subseteq O, StoreTypes(N)
  PROVE  StoreTypes(O)
<1>1. \A q \in Seq(N) : q \in Seq(O)
  BY SeqMonotonic
<1> QED
  BY <1>1 DEF StoreTypes

LEMMA NextStoreTypes ==
  ASSUME Types, Controls, [Next]_vars
  PROVE  StoreTypes(Numbers)'
<1>0. /\ Numbers \subseteq Numbers' /\ StoreTypes(Numbers)
  BY NextConns DEF Types
<1>1. CASE UNCHANGED <<data, totalReadings, added, written>>
  BY <1>1, <1>0, MoreReadings DEF StoreTypes
<1>2. ASSUME NEW c \in 1..conns, ReadingStore(c) \/ BatchStore(c), StoreIfValid(Current(c)),
             written' = written, made' = made
      PROVE  StoreTypes(Numbers)'
  <2>1. Current(c) \in Numbers /\ Numbers' = Numbers
    BY <1>2, HasCurrent DEF ReadingStore, BatchStore, Numbers, Busy
  <2>2. made[Current(c)].sensor \in Sensors
    BY <2>1, MadeIsTyped
  <2> PICK n \in Numbers : n = Current(c)
    BY <2>1
  <2> PICK s \in Sensors : s = made[n].sensor
    BY <2>2
  <2>3. CASE ~made[n].valid
    BY <1>0, <1>2, <2>1, <2>3 DEF StoreIfValid, storeVars, StoreTypes
  <2>4. CASE made[n].valid
    <3>1. Add(s, n) /\ added' = Append(added, n)
      BY <1>2, <2>4 DEF StoreIfValid
    <3>2. ReadingsOf(s) \in Seq(Numbers) /\ Len(ReadingsOf(s)) <= StoreCapacity
      BY <1>0, MemoryStoreAssumption DEF MemoryStoreAssumption, ReadingsOf, StoreTypes
    <3> DEFINE q == Append(Room(ReadingsOf(s)), n)
    <3>3. q \in Seq(Numbers) /\ Len(q) \in 1..StoreCapacity
      BY <3>2, RoomForOne, LenProperties, MemoryStoreAssumption DEF MemoryStoreAssumption
    <3>4. data' = [t \in DOMAIN data \cup {s} |-> IF t = s THEN q ELSE data[t]]
      BY <3>1 DEF Add
    <3> HIDE DEF q
    <3>5. data' \in [DOMAIN data' -> Seq(Numbers)]
          /\ \A t \in DOMAIN data' : t \in Sensors /\ Len(data'[t]) \in 1..StoreCapacity
      BY <1>0, <3>3, <3>4 DEF StoreTypes
    <3>6. added \in Seq(Numbers) /\ totalReadings = Len(added) /\ totalReadings' = totalReadings + 1
      BY <1>0, <3>1 DEF StoreTypes, Add
    <3>7. added' \in Seq(Numbers) /\ totalReadings' = Len(added')
      BY <3>1, <3>6, AppendProperties
    <3> QED
      BY <1>0, <1>2, <2>1, <3>5, <3>7 DEF StoreTypes
  <2> QED
    BY <2>3, <2>4
<1>3. ASSUME NEW c \in 1..conns, ReadingWrite(c) \/ BatchWrite(c), written' = Append(written, Current(c)),
             made' = made, UNCHANGED <<data, totalReadings, added>>
      PROVE  StoreTypes(Numbers)'
  <2>1. Current(c) \in Numbers /\ Numbers' = Numbers
    BY <1>3, HasCurrent DEF ReadingWrite, BatchWrite, Numbers, Busy
  <2>2. written' \in Seq(Numbers)
    BY <1>0, <1>3, <2>1, AppendProperties DEF StoreTypes
  <2> QED
    BY <1>0, <1>3, <2>1, <2>2 DEF StoreTypes
<1>4. \A c \in 1..conns : ReadingStore(c) \/ BatchStore(c) => written' = written /\ made' = made
  BY DEF ReadingStore, BatchStore, sensorVars
<1>5. \A c \in 1..conns : ReadingWrite(c) \/ BatchWrite(c) =>
        UNCHANGED <<made, data, totalReadings, added>>
  BY DEF ReadingWrite, BatchWrite, sensorVars, storeVars
<1> QED
  BY <1>1, <1>2, <1>3, <1>4, <1>5, StoreSteps, WriteSteps

(* Sequences of numbers or of messages stay such when there are more numbers. *)
LEMMA MoreMessages ==
  ASSUME NEW N, NEW O, N \subseteq O
  PROVE  /\ \A q \in Seq(N) : q \in Seq(O)
         /\ Messages(N) \subseteq Messages(O)
         /\ \A q \in Seq(Messages(N)) : q \in Seq(Messages(O))
<1>1. \A q \in Seq(N) : q \in Seq(O)
  BY SeqMonotonic
<1>2. Messages(N) \subseteq Messages(O)
  BY <1>1 DEF Messages
<1> QED
  BY <1>1, <1>2, SeqMonotonic

(* What a sensor sends: a heartbeat, or readings it has just made. *)
LEMMA SentMessage ==
  ASSUME Types, NEW c \in 1..conns, Sends(c)
  PROVE  \E new \in Messages(Numbers') :
           /\ SendMessage(c, new)
           /\ new.id \in {owner[c], NoID}
           /\ ToSet(new.readings) = Numbers' \ Numbers
           /\ Increasing(new.readings)
           /\ \A n \in ToSet(new.readings) : made'[n].conn = c /\ made'[n].sensor = owner[c]
<1>0. /\ made \in Seq(Made(1..conns)) /\ Len(made) \in Nat
      /\ owner[c] \in Sensors
  BY DEF Types, ConnTypes
<1>1. ASSUME NEW id \in {owner[c], NoID}, SendHeartbeat(c, id)
      PROVE  /\ SendMessage(c, Heartbeat(id)) /\ Heartbeat(id) \in Messages(Numbers')
             /\ Heartbeat(id).id = id /\ Heartbeat(id).readings = <<>>
             /\ Numbers' = Numbers
  BY <1>0, <1>1 DEF SendHeartbeat, Heartbeat, Messages, Numbers
<1>2. ASSUME NEW valid \in BOOLEAN, SendReading(c, valid)
      PROVE  LET n == Len(made) + 1
             IN  /\ SendMessage(c, Reading(n)) /\ Reading(n) \in Messages(Numbers')
                 /\ Reading(n).id = NoID /\ Reading(n).readings = <<n>>
                 /\ Numbers' = Numbers \cup {n} /\ n \notin Numbers /\ n \in Nat
                 /\ made'[n].conn = c /\ made'[n].sensor = owner[c]
  <2> DEFINE m == [sensor |-> owner[c], conn |-> c, valid |-> valid]
             n == Len(made) + 1
  <2>1. m \in Made(1..conns) /\ m.conn = c /\ m.sensor = owner[c] /\ made' = Append(made, m) /\ SendMessage(c, Reading(Len(made')))
    BY <1>0, <1>2 DEF Made, SendReading
  <2> HIDE DEF m
  <2>2. Len(made') = n /\ made'[n] = m
    BY <1>0, <2>1
  <2>3. Numbers' = Numbers \cup {n} /\ n \notin Numbers /\ n \in Numbers'
    BY <1>0, <2>2 DEF Numbers
  <2>4. Reading(n) \in Messages(Numbers')
    BY <2>3 DEF Reading, Messages
  <2> QED
    BY <1>0, <2>1, <2>2, <2>3, <2>4 DEF Reading
<1>3. ASSUME NEW valid \in BOOLEAN, SendBatch(c, valid)
      PROVE  LET n == Len(made) + 1
                 b == Batch(n, n + 1)
             IN  /\ SendMessage(c, b) /\ b \in Messages(Numbers')
                 /\ b.id = NoID /\ b.readings = <<n, n + 1>>
                 /\ Numbers' = Numbers \cup {n, n + 1} /\ {n, n + 1} \cap Numbers = {} /\ n \in Nat
                 /\ made'[n].conn = c /\ made'[n].sensor = owner[c]
                 /\ made'[n + 1].conn = c /\ made'[n + 1].sensor = owner[c]
  <2> DEFINE m == [sensor |-> owner[c], conn |-> c, valid |-> valid]
             n == Len(made) + 1
             b == Batch(n, n + 1)
             two == [i \in 1..2 |-> m]
  <2>1. m \in Made(1..conns) /\ m.conn = c /\ m.sensor = owner[c] /\ made' = made \o two
        /\ SendMessage(c, Batch(Len(made) + 1, Len(made')))
    BY <1>0, <1>3 DEF Made, SendBatch
  <2> HIDE DEF m
  <2>2. two \in Seq(Made(1..conns)) /\ Len(two) = 2 /\ two[1] = m /\ two[2] = m
    BY <2>1
  <2> HIDE DEF two
  <2>3. Len(made') = n + 1 /\ made'[n] = m /\ made'[n + 1] = m
    <3>0. /\ Len(made \o two) = Len(made) + Len(two)
          /\ \A i \in 1..(Len(made) + Len(two)) :
               (made \o two)[i] = IF i <= Len(made) THEN made[i] ELSE two[i - Len(made)]
      BY <1>0, <2>2, ConcatProperties
    <3>1. /\ Len(made') = Len(made) + 2
          /\ \A i \in 1..(Len(made) + 2) :
               made'[i] = IF i <= Len(made) THEN made[i] ELSE two[i - Len(made)]
      BY <2>1, <2>2, <3>0, Zenon
    <3>2. /\ n \in 1..(Len(made) + 2) /\ ~(n <= Len(made)) /\ n - Len(made) = 1
          /\ n + 1 \in 1..(Len(made) + 2) /\ ~(n + 1 <= Len(made)) /\ n + 1 - Len(made) = 2
          /\ n + 1 = Len(made) + 2
      BY <1>0
    <3> QED
      BY <2>2, <3>1, <3>2
  <2>4. Numbers' = Numbers \cup {n, n + 1} /\ {n, n + 1} \cap Numbers = {} /\ {n, n + 1} \subseteq Numbers'
    BY <1>0, <2>3 DEF Numbers
  <2>5. [i \in 1..((n + 1) - n + 1) |-> n + i - 1] = <<n, n + 1>>
    <3>1. (n + 1) - n + 1 = 2
      BY <1>0
    <3>2. [i \in 1..2 |-> n + i - 1] = <<n, n + 1>>
      BY <1>0
    <3> QED
      BY <3>1, <3>2
  <2>6. b.readings = <<n, n + 1>> /\ b.id = NoID /\ b.kind = "batch"
        /\ b = [kind |-> "batch", id |-> NoID, readings |-> <<n, n + 1>>]
    BY <2>5 DEF Batch
  <2>7. b \in Messages(Numbers')
    <3>1. <<n, n + 1>> \in Seq(Numbers') /\ <<n, n + 1>> # <<>>
      BY <2>4
    <3> QED
      BY <2>6, <3>1 DEF Messages
  <2> QED
    BY <1>0, <2>1, <2>3, <2>4, <2>6, <2>7
<1>4. CASE \E id \in {owner[c], NoID} : SendHeartbeat(c, id)
  <2> PICK id \in {owner[c], NoID} : SendHeartbeat(c, id)
    BY <1>4
  <2> DEFINE new == Heartbeat(id)
  <2>1. /\ SendMessage(c, new) /\ new \in Messages(Numbers') /\ new.id \in {owner[c], NoID}
        /\ new.readings = <<>> /\ Numbers' = Numbers
    BY <1>1
  <2>2. ToSet(<<>>) = {} /\ Increasing(<<>>)
    BY DEF ToSet, Increasing
  <2> QED
    BY <2>1, <2>2
<1>5. CASE \E valid \in BOOLEAN : SendReading(c, valid)
  <2> DEFINE n == Len(made) + 1  new == Reading(n)
  <2>1. /\ SendMessage(c, new) /\ new \in Messages(Numbers')
        /\ new.id = NoID /\ new.readings = <<n>>
        /\ Numbers' = Numbers \cup {n} /\ n \notin Numbers /\ n \in Nat
        /\ made'[n].conn = c /\ made'[n].sensor = owner[c]
    BY <1>2, <1>5
  <2> HIDE DEF n, new
  <2>2. ToSet(<<n>>) = {n} /\ Increasing(<<n>>)
    BY <2>1, Singleton
  <2> QED
    BY <2>1, <2>2
<1>6. CASE \E valid \in BOOLEAN : SendBatch(c, valid)
  <2> DEFINE n == Len(made) + 1  new == Batch(n, n + 1)
  <2>1. /\ SendMessage(c, new) /\ new \in Messages(Numbers')
        /\ new.id = NoID /\ new.readings = <<n, n + 1>>
        /\ Numbers' = Numbers \cup {n, n + 1} /\ {n, n + 1} \cap Numbers = {} /\ n \in Nat
        /\ made'[n].conn = c /\ made'[n].sensor = owner[c]
        /\ made'[n + 1].conn = c /\ made'[n + 1].sensor = owner[c]
    BY <1>3, <1>6
  <2> HIDE DEF n, new
  <2>2. ToSet(<<n, n + 1>>) = {n, n + 1} /\ Increasing(<<n, n + 1>>)
    BY <2>1 DEF ToSet, Increasing
  <2> QED
    BY <2>1, <2>2
<1> QED
  BY <1>4, <1>5, <1>6 DEF Sends

(* The messages of a sequence: what they hold are readings. *)
LEMMA WireReadings ==
  ASSUME NEW N, NEW w \in Seq(Messages(N))
  PROVE  /\ ReadingsIn(w) \subseteq N
         /\ \A i \in DOMAIN w : w[i] \in Messages(N)
         /\ w # <<>> => /\ Head(w) \in Messages(N) /\ Tail(w) \in Seq(Messages(N))
                        /\ Head(w) = w[1] /\ 1 \in DOMAIN w
                        /\ \A i \in DOMAIN Tail(w) : i + 1 \in DOMAIN w /\ Tail(w)[i] = w[i + 1]
<1> DEFINE M == Messages(N)
<1>1. w \in Seq(M) /\ \A m \in M : m.readings \in Seq(N)
  BY DEF Messages
<1> HIDE DEF M
<1>2. DOMAIN w = 1..Len(w) /\ Len(w) \in Nat /\ \A i \in DOMAIN w : w[i] \in M
  BY <1>1, ElementOfSeq, LenProperties
<1>3. \A q \in Seq(N) : ToSet(q) \subseteq N
  BY ElementOfSeq, LenProperties DEF ToSet
<1>4. ReadingsIn(w) \subseteq N
  BY <1>1, <1>2, <1>3 DEF ReadingsIn
<1>5. ASSUME w # <<>>
      PROVE  /\ Head(w) \in M /\ Tail(w) \in Seq(M) /\ Head(w) = w[1] /\ 1 \in DOMAIN w
             /\ \A i \in DOMAIN Tail(w) : i + 1 \in DOMAIN w /\ Tail(w)[i] = w[i + 1]
  <2>1. /\ Head(w) \in M /\ Tail(w) \in Seq(M) /\ Head(w) = w[1]
        /\ Len(Tail(w)) = Len(w) - 1 /\ DOMAIN Tail(w) = 1..Len(Tail(w))
        /\ \A i \in 1..Len(Tail(w)) : Tail(w)[i] = w[i + 1]
    BY <1>1, <1>5, HeadTailProperties, LenProperties
  <2>2. Len(w) \in Nat \ {0}
    BY <1>1, <1>2, <1>5, EmptySeq
  <2> QED
    BY <1>2, <2>1, <2>2
<1> QED
  BY <1>2, <1>4, <1>5 DEF M

LEMMA NextLoopTypes ==
  ASSUME Types, Controls, [Next]_vars
  PROVE  LoopTypes(Numbers)'
<1> DEFINE O == Numbers'
           Places == {"none", "register", "read", "reading", "readingStore", "batch", "batchWrite",
                      "heartbeat", "lastSeen", "remove", "close", "done"}
<1>0. /\ pc \in [Conns -> Places]
      /\ todo \in [Conns -> Seq(O)]
      /\ heartbeat \in [Conns -> Sensors \cup {NoID}]
      /\ wire \in [Conns -> Seq(Messages(O))]
      /\ unread \subseteq O
  <2>1. Numbers \subseteq O /\ LoopTypes(Numbers)
    BY NextConns DEF Types
  <2> HIDE DEF O
  <2> QED
    BY <2>1, MoreMessages DEF LoopTypes
<1>1. /\ \A c \in 1..conns : c \in Conns
      /\ conns < MaxConns => conns + 1 \in Conns
      /\ \A c \in Conns : ReadingsIn(wire[c]) \subseteq O
  BY <1>0, HandlerAssumption, WireReadings DEF HandlerAssumption, Types, Conns
<1>2. SUFFICES /\ pc' \in [Conns -> Places]
               /\ todo' \in [Conns -> Seq(O)]
               /\ heartbeat' \in [Conns -> Sensors \cup {NoID}]
               /\ wire' \in [Conns -> Seq(Messages(O))]
               /\ unread' \subseteq O
  <2>1. Conns' = Conns
    BY DEF Conns
  <2> QED
    BY <2>1 DEF LoopTypes
<1> HIDE DEF O
<1>3. CASE Dials
  BY <1>0, <1>1, <1>3 DEF Dials, Dial, wireVars
<1>4. ASSUME NEW c \in 1..conns, Sends(c)
      PROVE  /\ UNCHANGED <<pc, todo, heartbeat>>
             /\ wire' \in [Conns -> Seq(Messages(O))]
             /\ unread' \subseteq O
  <2> PICK new \in Messages(O) : SendMessage(c, new) /\ ToSet(new.readings) = O \ Numbers
    BY <1>4, SentMessage DEF O
  <2>1. /\ UNCHANGED <<pc, todo, heartbeat>>
        /\ \/ wire' = [wire EXCEPT ![c] = Append(wire[c], new)] /\ unread' = unread
           \/ wire' = wire /\ unread' = unread \cup ToSet(new.readings)
    BY DEF SendMessage
  <2>2. Append(wire[c], new) \in Seq(Messages(O))
    BY <1>0, <1>1, AppendProperties
  <2> QED
    BY <1>0, <2>1, <2>2
<1>5. ASSUME NEW c \in Conns, DropWire(c)
      PROVE  wire' \in [Conns -> Seq(Messages(O))] /\ unread' \subseteq O
  BY <1>0, <1>1, <1>5 DEF DropWire
<1>6. ASSUME NEW c \in 1..conns, Receive(c)
      PROVE  /\ pc' \in [Conns -> Places]
             /\ todo' \in [Conns -> Seq(O)]
             /\ heartbeat' \in [Conns -> Sensors \cup {NoID}]
             /\ wire' \in [Conns -> Seq(Messages(O))]
             /\ unread' = unread
  <2>1. Head(wire[c]) \in Messages(O) /\ Tail(wire[c]) \in Seq(Messages(O))
    BY <1>0, <1>1, <1>6, WireReadings DEF Receive
  <2> PICK message \in Messages(O) : message = Head(wire[c])
    BY <2>1
  <2>2. /\ todo' = [todo EXCEPT ![c] = message.readings]
        /\ heartbeat' = [heartbeat EXCEPT ![c] = message.id]
        /\ pc' = [pc EXCEPT ![c] = message.kind]
        /\ wire' = [wire EXCEPT ![c] = Tail(wire[c])]
        /\ unread' = unread
    BY <1>6 DEF Receive
  <2>3. message.kind \in Places /\ message.id \in Sensors \cup {NoID} /\ message.readings \in Seq(O)
    BY DEF Messages
  <2> QED
    BY <1>0, <2>1, <2>2, <2>3
<1>7. ASSUME NEW c \in 1..conns, BatchWrite(c)
      PROVE  todo' \in [Conns -> Seq(O)] /\ pc' \in [Conns -> Places]
  <2>1. Tail(todo[c]) \in Seq(O)
    <3>1. todo[c] # <<>> /\ todo[c] \in Seq(O)
      BY <1>0, <1>1, <1>7, HasCurrent DEF BatchWrite, Busy
    <3> QED
      BY <3>1, HeadTailProperties
  <2> QED
    BY <1>0, <2>1, <1>7 DEF BatchWrite
<1>8. ASSUME NEW c \in 1..conns,
             ClientCloses(c) \/ ClientResets(c) \/ HandleConnection(c), ~Receive(c)
      PROVE  /\ pc' \in [Conns -> Places]
             /\ todo' \in [Conns -> Seq(O)]
             /\ heartbeat' \in [Conns -> Sensors \cup {NoID}]
             /\ (wire' = wire /\ unread' = unread) \/ DropWire(c)
  <2>1. CASE ClientCloses(c) \/ ClientResets(c)
    BY <1>0, <2>1 DEF ClientCloses, ClientResets, handlerVars, wireVars
  <2>2. CASE \/ Register(c) \/ ReadEnds(c) \/ Deadline(c) \/ RemoveSensor(c) \/ CloseConn(c)
             \/ ReadingWrite(c) \/ BatchStore(c)
    BY <1>0, <2>2 DEF Register, ReadEnds, Deadline, Leave, RemoveSensor, CloseConn, ReadingWrite,
       BatchStore, wireVars
  <2>3. CASE BatchWrite(c)
    BY <1>0, <1>7, <2>3 DEF BatchWrite, wireVars
  <2>4. CASE ReadingStore(c)
    <3>1. /\ pc' = [pc EXCEPT ![c] = "read"] /\ todo' = [todo EXCEPT ![c] = <<>>]
          /\ UNCHANGED <<heartbeat, wire, unread>>
      BY <2>4 DEF ReadingStore, wireVars
    <3>2. <<>> \in Seq(O)
      OBVIOUS
    <3> QED
      BY <1>0, <3>1, <3>2
  <2>5. CASE NameSensor(c) \/ UpdateSensorLastSeen(c)
    BY <1>0, <2>5 DEF NameSensor, UpdateSensorLastSeen, wireVars
  <2> QED
    BY <1>8, <2>1, <2>2, <2>3, <2>4, <2>5 DEF HandleConnection
<1>9. CASE UNCHANGED vars
  BY <1>0, <1>9 DEF vars, handlerVars, wireVars
<1>10. CASE \E c \in 1..conns : Sends(c)
  BY <1>0, <1>4, <1>10
<1>11. CASE \E c \in 1..conns : ClientCloses(c) \/ ClientResets(c) \/ HandleConnection(c)
  BY <1>0, <1>1, <1>5, <1>6, <1>8, <1>11
<1> QED
  BY <1>3, <1>9, <1>10, <1>11, Steps

(* A goroutine and the sensor at its other end leave the others alone. *)
LEMMA OnlyOne ==
  ASSUME NEW c \in 1..conns,
         Sends(c) \/ ClientCloses(c) \/ ClientResets(c) \/ HandleConnection(c),
         LoopTypes(Numbers), NEW d \in Conns, d # c
  PROVE  /\ UNCHANGED <<conns, addr, owner>>
         /\ pc'[d] = pc[d] /\ todo'[d] = todo[d] /\ heartbeat'[d] = heartbeat[d]
         /\ wire'[d] = wire[d]
<1>0. /\ DOMAIN pc = Conns /\ DOMAIN todo = Conns /\ DOMAIN heartbeat = Conns /\ DOMAIN wire = Conns
  BY DEF LoopTypes
<1>1. CASE Sends(c)
  BY <1>0, <1>1 DEF Sends, SendHeartbeat, SendReading, SendBatch, SendMessage, tcpVars
<1>2. CASE ClientCloses(c) \/ ClientResets(c)
  BY <1>0, <1>2 DEF ClientCloses, ClientResets, DropWire, handlerVars, wireVars
<1>3. CASE HandleConnection(c)
  BY <1>0, <1>3, OthersKeepConns DEF HandleConnection, Register, Receive, ReadEnds, Deadline, Leave, DropWire,
     RemoveSensor, CloseConn, ReadingWrite, ReadingStore, BatchStore, BatchWrite, NameSensor,
     UpdateSensorLastSeen, wireVars, tcpVars
<1> QED
  BY <1>1, <1>2, <1>3

LEMMA NextControls ==
  ASSUME Types, Controls, [Next]_vars
  PROVE  Controls'
<1>0. /\ LoopTypes(Numbers) /\ Conns' = Conns /\ conns \in Nat
      /\ \A c \in 1..conns : c \in Conns /\ owner'[c] = owner[c]
      /\ conns < MaxConns => conns + 1 \in Conns
      /\ DOMAIN pc = Conns /\ DOMAIN todo = Conns /\ DOMAIN heartbeat = Conns /\ DOMAIN wire = Conns
  BY HandlerAssumption, NextConns DEF HandlerAssumption, Types, LoopTypes, Conns
<1>1. ASSUME NEW d \in Conns, Control(d),
             pc'[d] = pc[d], todo'[d] = todo[d], heartbeat'[d] = heartbeat[d], wire'[d] = wire[d],
             conns' = conns
      PROVE  Control(d)'
  BY <1>0, <1>1 DEF Control, Busy
<1>2. CASE Dials
  <2> PICK s \in Sensors, a \in Addrs : Dial(s, a)
    BY <1>2 DEF Dials
  <2>1. /\ conns' = conns + 1 /\ conns + 1 \in Conns
        /\ pc' = [pc EXCEPT ![conns'] = "register"]
        /\ UNCHANGED <<todo, heartbeat, wire>>
    BY <1>0 DEF Dial, wireVars
  <2>2. ASSUME NEW d \in Conns PROVE Control(d)'
    <3>0. Control(d)
      BY DEF Controls
    <3>1. CASE d = conns + 1
      <4>1. pc[d] = "none" /\ pc'[d] = "register"
        BY <1>0, <2>1, <3>0, <3>1 DEF Control
      <4> QED
        BY <1>0, <2>1, <3>0, <3>1, <4>1 DEF Control, Busy
    <3>2. CASE d # conns + 1
      <4>1. d \in 1..conns' <=> d \in 1..conns
        BY <1>0, <2>1, <3>2
      <4> QED
        BY <1>0, <2>1, <3>0, <3>2, <4>1 DEF Control, Busy
    <3> QED
      BY <3>1, <3>2
  <2> QED
    BY <1>0, <2>2 DEF Controls
<1>3. ASSUME NEW c \in 1..conns,
             Sends(c) \/ ClientCloses(c) \/ ClientResets(c) \/ HandleConnection(c)
      PROVE  Control(c)'
  <2>0. /\ Control(c) /\ conns' = conns /\ owner'[c] = owner[c] /\ c \in Conns
        /\ pc[c] # "none" /\ heartbeat[c] \in {owner[c], NoID}
        /\ wire[c] \in Seq(Messages(Numbers))
    <3>1. conns' = conns
      BY <1>3, OthersKeepConns DEF Sends, SendHeartbeat, SendReading, SendBatch, SendMessage, tcpVars
    <3> QED
      BY <1>0, <3>1 DEF Controls, Control, LoopTypes
  <2>1. CASE Sends(c)
    <3> PICK new \in Messages(Numbers') : SendMessage(c, new) /\ new.id \in {owner[c], NoID}
      BY <2>1, SentMessage
    <3>1. /\ UNCHANGED <<pc, todo, heartbeat>>
          /\ wire'[c] = Append(wire[c], new) \/ wire'[c] = wire[c]
      BY <1>0, <2>0 DEF SendMessage
    <3>2. \A i \in DOMAIN Append(wire[c], new) : Append(wire[c], new)[i].id \in {owner[c], NoID}
      <4>1. \A i \in DOMAIN wire[c] : wire[c][i].id \in {owner[c], NoID}
        BY <2>0 DEF Control
      <4> QED
        BY <2>0, <4>1
    <3> QED
      BY <2>0, <3>1, <3>2 DEF Control, Busy
  <2>2. CASE ClientCloses(c)
    BY <2>0, <2>2 DEF ClientCloses, handlerVars, wireVars, Control, Busy
  <2>3. ASSUME DropWire(c) PROVE wire'[c] = <<>>
    BY <1>0, <2>0, <2>3 DEF DropWire
  <2>4. CASE ClientResets(c) \/ ReadEnds(c) \/ Deadline(c)
    <3>1. /\ todo' = todo /\ heartbeat' = heartbeat /\ wire'[c] = <<>>
          /\ pc'[c] = pc[c] \/ (pc[c] = "read" /\ pc'[c] = "remove")
      BY <1>0, <2>0, <2>3, <2>4 DEF ClientResets, ReadEnds, Deadline, Leave
    <3> QED
      BY <2>0, <3>1 DEF Control, Busy
  <2>5. CASE Receive(c)
    <3> DEFINE message == wire[c][1]
    <3>1. /\ message \in Messages(Numbers) /\ message.id \in {owner[c], NoID}
          /\ Head(wire[c]) = message
          /\ \A i \in DOMAIN Tail(wire[c]) : i + 1 \in DOMAIN wire[c] /\ Tail(wire[c])[i] = wire[c][i + 1]
      BY <2>0, <2>5, WireReadings DEF Receive, Control
    <3> HIDE DEF message
    <3>2. /\ todo'[c] = message.readings /\ heartbeat'[c] = message.id /\ pc'[c] = message.kind
          /\ wire'[c] = Tail(wire[c])
      BY <1>0, <2>0, <2>5, <3>1 DEF Receive
    <3>3. /\ message.kind \in {"heartbeat", "reading", "batch"}
          /\ message.kind = "heartbeat" <=> message.readings = <<>>
          /\ message.kind = "reading" => Len(message.readings) = 1
      BY <3>1 DEF Messages
    <3>4. \A i \in DOMAIN wire'[c] : wire'[c][i].id \in {owner[c], NoID}
      BY <2>0, <3>1, <3>2 DEF Control
    <3> QED
      BY <2>0, <3>1, <3>2, <3>3, <3>4 DEF Control, Busy
  <2>6. CASE Register(c) \/ RemoveSensor(c) \/ CloseConn(c) \/ ReadingWrite(c) \/ BatchStore(c)
    <3>1. /\ UNCHANGED <<todo, heartbeat, wire>>
          /\ \/ pc[c] = "register" /\ pc'[c] = "read"
             \/ pc[c] = "remove" /\ pc'[c] = "close"
             \/ pc[c] = "close" /\ pc'[c] = "done"
             \/ pc[c] = "reading" /\ pc'[c] = "readingStore"
             \/ pc[c] = "batch" /\ pc'[c] = "batchWrite"
      BY <1>0, <2>0, <2>6 DEF Register, RemoveSensor, CloseConn, ReadingWrite, BatchStore, wireVars
    <3> QED
      BY <2>0, <3>1 DEF Control, Busy
  <2>7. CASE ReadingStore(c)
    <3>1. UNCHANGED <<heartbeat, wire>> /\ pc'[c] = "read" /\ todo'[c] = <<>>
      BY <1>0, <2>0, <2>7 DEF ReadingStore, wireVars
    <3> QED
      BY <2>0, <3>1 DEF Control, Busy
  <2>8. CASE BatchWrite(c)
    <3>1. /\ UNCHANGED <<heartbeat, wire>> /\ todo'[c] = Tail(todo[c])
          /\ pc'[c] = IF Tail(todo[c]) = <<>> THEN "read" ELSE "batch"
      BY <1>0, <2>0, <2>8 DEF BatchWrite, wireVars
    <3> QED
      BY <2>0, <3>1 DEF Control, Busy
  <2>9. CASE NameSensor(c) \/ UpdateSensorLastSeen(c)
    <3>1. /\ UNCHANGED <<todo, wire>>
          /\ \/ pc[c] = "heartbeat" /\ pc'[c] = "lastSeen" /\ heartbeat' = heartbeat
             \/ pc[c] = "lastSeen" /\ pc'[c] = "read" /\ heartbeat'[c] = NoID
      BY <1>0, <2>0, <2>9 DEF NameSensor, UpdateSensorLastSeen, wireVars
    <3> QED
      BY <2>0, <3>1 DEF Control, Busy
  <2> QED
    BY <1>3, <2>1, <2>2, <2>4, <2>5, <2>6, <2>7, <2>8, <2>9 DEF HandleConnection
<1>4. ASSUME NEW c \in 1..conns,
             Sends(c) \/ ClientCloses(c) \/ ClientResets(c) \/ HandleConnection(c)
      PROVE  Controls'
  <2>1. ASSUME NEW d \in Conns, d # c PROVE Control(d)'
    <3>1. Control(d)
      BY DEF Controls
    <3>2. /\ UNCHANGED <<conns, addr, owner>>
          /\ pc'[d] = pc[d] /\ todo'[d] = todo[d] /\ heartbeat'[d] = heartbeat[d]
          /\ wire'[d] = wire[d]
      BY <1>0, <1>4, <2>1, OnlyOne
    <3> QED
      BY <1>1, <3>1, <3>2
  <2> QED
    BY <1>0, <1>3, <1>4, <2>1 DEF Controls
<1>5. CASE UNCHANGED vars
  BY <1>5 DEF vars, tcpVars, handlerVars, wireVars, Controls, Control, Busy, Conns
<1> QED
  BY <1>2, <1>4, <1>5, Steps

-----------------------------------------------------------------------------
(* The two maps. *)



(* Whoever is served is in the same places as before. *)
SamePlaces ==
  \A d \in 1..conns :
    /\ Serving(d)' <=> Serving(d)
    /\ Live(d)' <=> Live(d)
    /\ pc'[d] = "register" <=> pc[d] = "register"

MapStep(c) == Register(c) \/ RemoveSensor(c) \/ CloseConn(c) \/ NameSensor(c) \/ UpdateSensorLastSeen(c)

LEMMA MapSteps ==
  ASSUME Types, Controls, [Next]_vars
  PROVE  \/ Dials
         \/ \E c \in 1..conns : MapStep(c)
         \/ SamePlaces /\ UNCHANGED <<conns, addr, owner, open, mapVars>>
<1>0. /\ LoopTypes(Numbers) /\ DOMAIN pc = Conns /\ \A c \in 1..conns : c \in Conns
  BY HandlerAssumption DEF HandlerAssumption, Types, LoopTypes, Conns
<1>1. ASSUME NEW c \in 1..conns,
             Sends(c) \/ ClientCloses(c) \/ ClientResets(c) \/ HandleConnection(c), ~MapStep(c)
      PROVE  SamePlaces /\ UNCHANGED <<conns, addr, owner, open, mapVars>>
  <2>1. /\ UNCHANGED <<conns, addr, owner, open, mapVars>>
        /\ \/ pc'[c] = pc[c]
           \/ pc[c] \in Busy \cup {"read"} /\ pc'[c] \in Busy \cup {"read", "remove", "heartbeat"}
    <3>1. CASE Sends(c)
      BY <3>1 DEF Sends, SendHeartbeat, SendReading, SendBatch, SendMessage, tcpVars
    <3>2. CASE ClientCloses(c) \/ ClientResets(c)
      BY <3>2 DEF ClientCloses, ClientResets, handlerVars
    <3>3. CASE Receive(c)
      <4>1. wire[c] \in Seq(Messages(Numbers)) /\ wire[c] # <<>>
        BY <1>0, <3>3 DEF LoopTypes, Receive
      <4>2. Head(wire[c]) \in Messages(Numbers)
        BY <4>1, WireReadings
      <4>3. Head(wire[c]).kind \in {"heartbeat", "reading", "batch"}
        BY <4>2 DEF Messages
      <4> QED
        BY <1>0, <3>3, <4>3 DEF Receive, tcpVars, Busy
    <3>4. CASE ReadEnds(c) \/ Deadline(c) \/ ReadingWrite(c) \/ ReadingStore(c) \/ BatchStore(c) \/ BatchWrite(c)
      BY <1>0, <3>4 DEF ReadEnds, Deadline, Leave, ReadingWrite, ReadingStore, BatchStore, BatchWrite,
         tcpVars, Busy
    <3> QED
      BY <1>1, <3>1, <3>2, <3>3, <3>4 DEF HandleConnection, MapStep
  <2>2. \A d \in 1..conns : d # c => pc'[d] = pc[d]
    BY <1>0, <1>1, OnlyOne
  <2> QED
    BY <2>1, <2>2 DEF SamePlaces, Serving, Live, Busy
<1>2. CASE UNCHANGED vars
  BY <1>2 DEF vars, tcpVars, handlerVars, SamePlaces, Serving, Live
<1> QED
  BY <1>1, <1>2, Steps

LEMMA NextSockets ==
  ASSUME Types, Controls, Maps, [Next]_vars
  PROVE  Sockets'
<1>0. /\ LoopTypes(Numbers) /\ DOMAIN pc = Conns /\ conns \in Nat
      /\ \A c \in 1..conns : c \in Conns
      /\ conns < MaxConns => conns + 1 \in Conns
      /\ \A c \in 1..conns : addr'[c] = addr[c]
      /\ addr \in [1..conns -> Addrs]
      /\ Sockets
  <2>1. LoopTypes(Numbers) /\ conns \in 0..MaxConns /\ ConnTypes(1..conns) /\ Sockets
    BY DEF Types, Maps
  <2>2. \A c \in 1..conns : addr'[c] = addr[c]
    BY <2>1, NextConns
  <2>3. DOMAIN pc = Conns /\ addr \in [1..conns -> Addrs]
    BY <2>1 DEF LoopTypes, ConnTypes
  <2>4. /\ conns \in Nat /\ \A c \in 1..conns : c \in Conns
        /\ conns < MaxConns => conns + 1 \in Conns
    BY HandlerAssumption, <2>1 DEF HandlerAssumption, Conns
  <2> QED
    BY <2>1, <2>2, <2>3, <2>4
<1>1. CASE Dials
  <2> PICK s \in Sensors, a \in Addrs : Dial(s, a)
    BY <1>1 DEF Dials
  <2> PICK k \in Conns : k = conns + 1
    BY <1>0 DEF Dial
  <2>1. /\ conns' = k
        /\ open' = open \cup {k} /\ addr' = Append(addr, a)
        /\ pc' = [pc EXCEPT ![k] = "register"]
        /\ \A c \in 1..conns : addr[c] = a => c \notin open
    BY DEF Dial
  <2>2. /\ \A d \in 1..conns : d # k /\ pc'[d] = pc[d]
        /\ pc'[k] = "register" /\ 1..conns' = 1..conns \cup {k}
    BY <1>0, <2>1
  <2>7. addr'[k] = a
    <3>1. addr \in Seq(Addrs) /\ Len(addr) = conns
      BY <1>0
    <3> QED
      BY <2>1, <3>1, AppendProperties
  <2>3. \A c \in 1..conns : Live(c)' <=> Live(c)
    BY <2>2 DEF Live
  <2>4. Live(k)'
    BY <2>2 DEF Live
  <2>5. open' = {c \in 1..conns' : Live(c)'}
    BY <1>0, <2>1, <2>2, <2>3, <2>4 DEF Sockets
  <2>6. ASSUME NEW c \in 1..conns', NEW d \in 1..conns', Live(c)', Live(d)', addr'[c] = addr'[d]
        PROVE  c = d
    <3>1. CASE c \in 1..conns /\ d \in 1..conns
      BY <1>0, <2>3, <2>6, <3>1 DEF Sockets
    <3>2. ASSUME NEW e \in 1..conns, Live(e)', addr'[e] = a
          PROVE  FALSE
      BY <1>0, <2>1, <2>3, <3>2 DEF Sockets
    <3> QED
      BY <2>2, <2>6, <2>7, <3>1, <3>2
  <2> QED
    BY <2>5, <2>6 DEF Sockets
<1>2. ASSUME NEW c \in 1..conns, MapStep(c)
      PROVE  Sockets'
  <2>1. /\ UNCHANGED <<conns, addr>>
        /\ \A d \in 1..conns : d # c => pc'[d] = pc[d]
    BY <1>0, <1>2, OnlyOne, OthersKeepConns DEF MapStep, HandleConnection
  <2>2. CASE CloseConn(c)
    <3>1. open' = open \ {c} /\ pc'[c] = "done"
      BY <1>0, <2>2 DEF CloseConn
    <3>2. \A d \in 1..conns : Live(d)' <=> d # c /\ Live(d)
      BY <2>1, <3>1 DEF Live
    <3> QED
      BY <1>0, <2>1, <3>1, <3>2 DEF Sockets
  <2>3. CASE Register(c) \/ RemoveSensor(c) \/ NameSensor(c) \/ UpdateSensorLastSeen(c)
    <3>1. open' = open /\ pc[c] \notin {"none", "done"} /\ pc'[c] \notin {"none", "done"}
      BY <1>0, <2>3 DEF Register, RemoveSensor, NameSensor, UpdateSensorLastSeen, tcpVars
    <3>2. \A d \in 1..conns : Live(d)' <=> Live(d)
      BY <2>1, <3>1 DEF Live
    <3> QED
      BY <1>0, <2>1, <3>1, <3>2 DEF Sockets
  <2> QED
    BY <1>2, <2>2, <2>3 DEF MapStep
<1>3. CASE SamePlaces /\ UNCHANGED <<conns, addr, owner, open, mapVars>>
  <2>1. (\A d \in 1..conns : Live(d)' <=> Live(d)) /\ UNCHANGED <<conns, addr, open>>
    BY <1>3 DEF SamePlaces
  <2> QED
    BY <1>0, <2>1 DEF Sockets
<1> QED
  BY <1>1, <1>2, <1>3, MapSteps

(* One goroutine changes the maps at the key of its own address.            *)
LEMMA OwnKey ==
  ASSUME Types, Controls, Maps, NEW c \in 1..conns, MapStep(c)
  PROVE  /\ UNCHANGED <<conns, addr, owner>> /\ Live(c) /\ c \in Conns /\ addr[c] \in Addrs
         /\ owner[c] \in Sensors /\ heartbeat[c] \in {owner[c], NoID}
         /\ \A d \in 1..conns : d # c => pc'[d] = pc[d] /\ (Serving(d)' <=> Serving(d))
         /\ \A d \in 1..conns : d # c /\ Serving(d) => addr[d] # addr[c]
<1>1. LoopTypes(Numbers) /\ \A d \in 1..conns : d \in Conns
  BY HandlerAssumption DEF HandlerAssumption, Types, Conns
<1>2. /\ UNCHANGED <<conns, addr, owner>>
      /\ \A d \in 1..conns : d # c => pc'[d] = pc[d]
  BY <1>1, OnlyOne, OthersKeepConns DEF MapStep, HandleConnection
<1>3. Live(c) /\ addr[c] \in Addrs /\ owner[c] \in Sensors /\ heartbeat[c] \in {owner[c], NoID}
  BY <1>1 DEF MapStep, Register, RemoveSensor, CloseConn, NameSensor, UpdateSensorLastSeen, Live,
     Types, ConnTypes, Controls, Control
<1>4. \A d \in 1..conns : d # c /\ Serving(d) => addr[d] # addr[c]
  BY <1>3 DEF Maps, Sockets, Serving, Live
<1> QED
  BY <1>1, <1>2, <1>3, <1>4 DEF Serving

LEMMA NextEntries ==
  ASSUME Types, Controls, Maps, [Next]_vars
  PROVE  Entries'
<1>0. /\ LoopTypes(Numbers) /\ DOMAIN pc = Conns /\ conns \in Nat
      /\ \A c \in 1..conns : c \in Conns /\ addr'[c] = addr[c]
      /\ DOMAIN activeSensors \subseteq Addrs /\ Entries
      /\ activeSensors \in
           [DOMAIN activeSensors -> [id : Sensors \cup Addrs, conn : 1..conns, seen : BOOLEAN]]
  BY HandlerAssumption, NextConns DEF HandlerAssumption, Types, LoopTypes, MapTypes, Conns, Maps
<1>1. ASSUME UNCHANGED <<conns, addr, activeSensors>>, \A d \in 1..conns : Serving(d)' <=> Serving(d)
      PROVE  Entries'
  BY <1>0, <1>1, Zenon DEF Entries
<1>2. CASE Dials
  <2> PICK s \in Sensors, a \in Addrs : Dial(s, a)
    BY <1>2 DEF Dials
  <2> PICK k \in Nat : k = conns + 1
    BY <1>0
  <2>1. /\ conns' = k /\ activeSensors' = activeSensors
        /\ pc' = [pc EXCEPT ![k] = "register"]
    BY DEF Dial, mapVars
  <2>2. /\ \A d \in 1..conns : d # k /\ pc'[d] = pc[d]
        /\ 1..conns' = 1..conns \cup {k}
        /\ k \in Conns => pc'[k] = "register"
    BY <1>0, <2>1
  <2>3. k \in Conns
    BY <1>0, HandlerAssumption DEF HandlerAssumption, Dial, Conns
  <2>4. (\A d \in 1..conns : Serving(d)' <=> Serving(d)) /\ ~Serving(k)'
    BY <2>2, <2>3 DEF Serving
  <2> QED
    BY <1>0, <2>1, <2>2, <2>4, Zenon DEF Entries
<1>3. ASSUME NEW c \in 1..conns, MapStep(c)
      PROVE  Entries'
  <2>0. /\ UNCHANGED <<conns, addr, owner>> /\ Live(c) /\ c \in Conns /\ addr[c] \in Addrs
        /\ \A d \in 1..conns : d # c => pc'[d] = pc[d] /\ (Serving(d)' <=> Serving(d))
        /\ \A d \in 1..conns : d # c /\ Serving(d) => addr[d] # addr[c]
    BY <1>3, OwnKey
  <2>1. CASE Register(c)
    <3>1. /\ activeSensors' = With(activeSensors, addr[c], [id |-> addr[c], conn |-> c, seen |-> FALSE])
          /\ Serving(c)'
      BY <1>0, <2>0, <2>1 DEF Register, Serving
    <3>2. /\ DOMAIN activeSensors' = DOMAIN activeSensors \cup {addr[c]}
          /\ activeSensors'[addr[c]].conn = c
          /\ \A a \in DOMAIN activeSensors : a # addr[c] => activeSensors'[a] = activeSensors[a]
      BY <3>1 DEF With
    <3> QED
      BY <1>0, <2>0, <3>1, <3>2, Zenon DEF Entries
  <2>2. CASE RemoveSensor(c)
    <3>1. activeSensors' = Without(activeSensors, addr[c]) /\ ~Serving(c)'
      BY <1>0, <2>0, <2>2 DEF RemoveSensor, Serving
    <3>2. /\ DOMAIN activeSensors' = DOMAIN activeSensors \ {addr[c]}
          /\ \A a \in DOMAIN activeSensors : a # addr[c] => activeSensors'[a] = activeSensors[a]
      BY <3>1 DEF Without
    <3>3. ASSUME NEW a \in DOMAIN activeSensors'
          PROVE  \E d \in 1..conns' : Serving(d)' /\ addr'[d] = a
      BY <1>0, <2>0, <3>2, <3>3, Zenon DEF Entries
    <3>4. ASSUME NEW d \in 1..conns', Serving(d)'
          PROVE  addr'[d] \in DOMAIN activeSensors' /\ activeSensors'[addr'[d]].conn = d
      <4>1. d \in 1..conns /\ d # c /\ Serving(d)
        BY <2>0, <3>1, <3>4, Zenon
      <4> QED
        BY <1>0, <2>0, <3>2, <4>1, Zenon DEF Entries
    <3> QED
      BY <3>3, <3>4, Zenon DEF Entries
  <2>3. CASE CloseConn(c)
    <3>1. activeSensors' = activeSensors /\ ~Serving(c)' /\ ~Serving(c)
      BY <1>0, <2>0, <2>3 DEF CloseConn, mapVars, Serving
    <3> QED
      BY <1>1, <2>0, <3>1
  <2>4. CASE NameSensor(c) \/ UpdateSensorLastSeen(c)
    <3>1. Serving(c)' /\ Serving(c)
      BY <1>0, <2>0, <2>4 DEF NameSensor, UpdateSensorLastSeen, Serving
    <3>2. /\ DOMAIN activeSensors' = DOMAIN activeSensors
          /\ \A a \in DOMAIN activeSensors : activeSensors'[a].conn = activeSensors[a].conn
      BY <1>0, <2>4 DEF NameSensor, UpdateSensorLastSeen
    <3>3. \A d \in 1..conns : Serving(d)' <=> Serving(d)
      BY <2>0, <3>1, Zenon
    <3> QED
      BY <1>0, <2>0, <3>2, <3>3, Zenon DEF Entries
  <2> QED
    BY <1>3, <2>1, <2>2, <2>3, <2>4 DEF MapStep
<1>4. CASE SamePlaces /\ UNCHANGED <<conns, addr, owner, open, mapVars>>
  BY <1>1, <1>4 DEF SamePlaces, mapVars
<1> QED
  BY <1>2, <1>3, <1>4, MapSteps

LEMMA NextNames ==
  ASSUME Types, Controls, Maps, [Next]_vars
  PROVE  Names'
<1>0. /\ LoopTypes(Numbers) /\ DOMAIN pc = Conns /\ conns \in Nat
      /\ \A c \in 1..conns : c \in Conns /\ addr'[c] = addr[c] /\ owner'[c] = owner[c]
  <2>1. LoopTypes(Numbers) /\ conns \in 0..MaxConns /\ ConnTypes(1..conns)
    BY DEF Types
  <2>2. \A c \in 1..conns : addr'[c] = addr[c] /\ owner'[c] = owner[c]
    BY <2>1, NextConns
  <2>3. DOMAIN pc = Conns
    BY <2>1 DEF LoopTypes
  <2>4. conns \in Nat /\ \A c \in 1..conns : c \in Conns
    BY HandlerAssumption, <2>1 DEF HandlerAssumption, Conns
  <2> QED
    BY <2>1, <2>2, <2>3, <2>4
<1>a. named \subseteq 1..conns /\ Entries /\ Names
  BY DEF Types, ConnTypes, Maps
<1>b. activeSensors \in
        [DOMAIN activeSensors -> [id : Sensors \cup Addrs, conn : 1..conns, seen : BOOLEAN]]
  BY DEF Types, MapTypes
<1>1. ASSUME UNCHANGED mapVars,
             \A d \in 1..conns : (Serving(d)' <=> Serving(d)) /\ (pc'[d] = "register" => pc[d] = "register")
      PROVE  Names'
  <2>1. UNCHANGED <<activeSensors, connToSensorID, named>>
    BY <1>1 DEF mapVars
  <2>2. \A d \in named : /\ d \in 1..conns /\ (Serving(d)' <=> Serving(d))
                         /\ addr'[d] = addr[d] /\ owner'[d] = owner[d]
    BY <1>0, <1>a, <1>1
  <2>3. \A d \in named : pc'[d] # "register"
    BY <1>0, <1>a, <1>1, <2>2, Zenon DEF Names
  <2>4. \A d \in named : Serving(d)' => activeSensors[addr'[d]].id = owner'[d]
    BY <1>0, <1>a, <2>2 DEF Names
  <2>5. \A a \in DOMAIN connToSensorID :
          \E d \in named : Serving(d)' /\ addr'[d] = a /\ connToSensorID[a] = owner'[d]
    BY <1>0, <1>a, <2>2 DEF Names
  <2> QED
    BY <2>1, <2>3, <2>4, <2>5 DEF Names
<1>2. CASE Dials
  <2> PICK s \in Sensors, a \in Addrs : Dial(s, a)
    BY <1>2 DEF Dials
  <2>1. \A d \in 1..conns : pc'[d] = pc[d]
    BY <1>0, <1>a DEF Dial
  <2>2. UNCHANGED mapVars
    BY DEF Dial
  <2> QED
    BY <1>1, <2>1, <2>2 DEF Serving
<1>3. ASSUME NEW c \in 1..conns, MapStep(c)
      PROVE  Names'
  <2>0. /\ UNCHANGED <<conns, addr, owner>> /\ Live(c) /\ c \in Conns /\ addr[c] \in Addrs
        /\ \A d \in 1..conns : d # c => pc'[d] = pc[d] /\ (Serving(d)' <=> Serving(d))
        /\ \A d \in 1..conns : d # c /\ Serving(d) => addr[d] # addr[c]
        /\ owner[c] \in Sensors /\ heartbeat[c] \in {owner[c], NoID}
    BY <1>3, OwnKey
  <2>1. CASE Register(c)
    <3>1. /\ activeSensors' = With(activeSensors, addr[c], [id |-> addr[c], conn |-> c, seen |-> FALSE])
          /\ UNCHANGED <<connToSensorID, named>> /\ pc'[c] # "register"
          /\ c \notin named
      BY <1>0, <1>a, <2>0, <2>1 DEF Register, Names
    <3>2. \A a \in DOMAIN activeSensors : a # addr[c] => activeSensors'[a] = activeSensors[a]
      BY <3>1 DEF With
    <3>3. \A d \in named : /\ d # c /\ d \in 1..conns
      BY <1>0, <1>a, <3>1
    <3>4. \A d \in named : Serving(d) => activeSensors'[addr[d]] = activeSensors[addr[d]]
      BY <1>0, <1>a, <2>0, <3>2, <3>3, Zenon DEF Entries
    <3> QED
      BY <1>0, <1>a, <2>0, <3>1, <3>3, <3>4, ZenonT(40) DEF Names
  <2>2. CASE RemoveSensor(c)
    <3>1. /\ activeSensors' = Without(activeSensors, addr[c])
          /\ connToSensorID' = Without(connToSensorID, addr[c])
          /\ named' = named /\ ~Serving(c)' /\ pc'[c] # "register"
      BY <1>0, <1>a, <2>0, <2>2 DEF RemoveSensor, Serving
    <3>2. /\ \A a \in DOMAIN activeSensors : a # addr[c] => activeSensors'[a] = activeSensors[a]
          /\ DOMAIN connToSensorID' = DOMAIN connToSensorID \ {addr[c]}
          /\ \A a \in DOMAIN connToSensorID : a # addr[c] => connToSensorID'[a] = connToSensorID[a]
      BY <3>1 DEF Without
    <3>3. \A d \in named : Serving(d)' =>
            d \in 1..conns /\ d # c /\ Serving(d) /\ activeSensors'[addr[d]] = activeSensors[addr[d]]
      BY <1>0, <1>a, <2>0, <3>1, <3>2, Zenon DEF Entries
    <3>4. \A a \in DOMAIN connToSensorID' :
            \E d \in named : Serving(d)' /\ addr[d] = a /\ connToSensorID'[a] = owner[d]
      <4>1. ASSUME NEW a \in DOMAIN connToSensorID, a # addr[c]
            PROVE  \E d \in named : Serving(d)' /\ addr[d] = a /\ connToSensorID'[a] = owner[d]
        <5>1. PICK d \in named : Serving(d) /\ addr[d] = a /\ connToSensorID[a] = owner[d]
          BY <1>0, <1>a DEF Names
        <5>2. d \in 1..conns /\ d # c /\ connToSensorID'[a] = connToSensorID[a]
          BY <1>0, <1>a, <3>2, <4>1, <5>1
        <5>3. Serving(d)'
          BY <2>0, <5>1, <5>2
        <5> QED
          BY <5>1, <5>2, <5>3
      <4> QED
        BY <3>2, <4>1
    <3>5. \A d \in named : pc'[d] # "register"
      BY <1>0, <1>a, <2>0, <3>1, Zenon DEF Names
    <3>6. \A d \in named : Serving(d)' => activeSensors'[addr[d]].id = owner[d]
      BY <1>0, <1>a, <3>3, Zenon DEF Names
    <3> QED
      BY <2>0, <3>1, <3>4, <3>5, <3>6, Zenon DEF Names
  <2>3. CASE CloseConn(c)
    <3>1. UNCHANGED mapVars /\ ~Serving(c)' /\ ~Serving(c) /\ pc'[c] # "register"
      BY <1>0, <1>a, <2>0, <2>3 DEF CloseConn, Serving
    <3> QED
      BY <1>1, <2>0, <3>1
  <2>4. CASE UpdateSensorLastSeen(c)
    <3>1. Serving(c)' /\ Serving(c) /\ pc'[c] # "register" /\ UNCHANGED <<connToSensorID, named>>
      BY <1>0, <1>a, <2>0, <2>4 DEF UpdateSensorLastSeen, Serving
    <3>2. \A a \in DOMAIN activeSensors : activeSensors'[a].id = activeSensors[a].id
      BY <1>0, <1>a, <2>4 DEF UpdateSensorLastSeen
    <3>3. \A d \in 1..conns : Serving(d)' <=> Serving(d)
      BY <2>0, <3>1, Zenon
    <3>4. \A d \in named : Serving(d) => activeSensors'[addr[d]].id = activeSensors[addr[d]].id
      BY <1>0, <1>a, <3>2, Zenon DEF Entries
    <3> QED
      BY <1>0, <1>a, <2>0, <3>1, <3>3, <3>4, Zenon DEF Names
  <2>5. CASE NameSensor(c)
    <3> DEFINE a == addr[c]  id == heartbeat[c]
    <3>0. /\ Serving(c)' /\ Serving(c) /\ pc'[c] # "register"
          /\ \A d \in 1..conns : Serving(d)' <=> Serving(d)
          /\ a \in DOMAIN activeSensors
      <4>1. Serving(c)' /\ Serving(c) /\ pc'[c] # "register"
        BY <1>0, <1>a, <2>0, <2>5 DEF NameSensor, Serving
      <4> QED
        BY <1>0, <1>a, <2>0, <4>1, Zenon DEF Entries
    <3>1. CASE id = NoID
      <4>1. UNCHANGED mapVars
        BY <2>5, <3>1 DEF NameSensor, mapVars
      <4>2. \A d \in 1..conns : pc'[d] = "register" => pc[d] = "register"
        BY <2>0, <3>0, Zenon
      <4> QED
        BY <1>1, <3>0, <4>1, <4>2
    <3>2. CASE id # NoID /\ a \in DOMAIN connToSensorID /\ connToSensorID[a] = id
      <4>1. UNCHANGED <<connToSensorID, activeSensors>> /\ named' = named \cup {c}
        BY <2>5, <3>2 DEF NameSensor
      <4>2. PICK e \in named : Serving(e) /\ addr[e] = a /\ connToSensorID[a] = owner[e]
        BY <1>0, <1>a, <3>2 DEF Names
      <4>3. e = c
        BY <1>0, <1>a, <2>0, <4>2, Zenon
      <4>4. named' = named
        BY <4>1, <4>2, <4>3
      <4>5. \A d \in named : pc'[d] # "register"
        BY <1>0, <1>a, <2>0, <3>0, Zenon DEF Names
      <4> QED
        BY <1>0, <1>a, <2>0, <3>0, <4>1, <4>4, <4>5, ZenonT(40) DEF Names
    <3>3. CASE id # NoID /\ ~(a \in DOMAIN connToSensorID /\ connToSensorID[a] = id)
      <4>1. /\ connToSensorID' = With(connToSensorID, a, id)
            /\ activeSensors' = [activeSensors EXCEPT ![a].id = id]
            /\ named' = named \cup {c} /\ id = owner[c]
        BY <2>0, <2>5, <3>0, <3>3 DEF NameSensor
      <4>2. /\ DOMAIN connToSensorID' = DOMAIN connToSensorID \cup {a}
            /\ connToSensorID'[a] = owner[c]
            /\ \A b \in DOMAIN connToSensorID : b # a => connToSensorID'[b] = connToSensorID[b]
        BY <4>1 DEF With
      <4>3. /\ activeSensors'[a].id = owner[c]
            /\ \A b \in DOMAIN activeSensors : b # a => activeSensors'[b] = activeSensors[b]
        BY <1>b, <3>0, <4>1
      <4> HIDE DEF a, id
      <4>4. a = addr[c]
        BY DEF a
      <4>5. \A d \in named' : d \in 1..conns /\ pc'[d] # "register"
        BY <1>0, <1>a, <2>0, <3>0, <4>1 DEF Names
      <4>6. \A d \in named' : Serving(d)' => activeSensors'[addr[d]].id = owner[d]
        <5>1. ASSUME NEW d \in named, d # c, Serving(d)
              PROVE  activeSensors'[addr[d]].id = owner[d]
          <6>1. d \in 1..conns /\ Serving(d) /\ addr[d] # a
            BY <1>0, <1>a, <2>0, <3>0, <4>4, <5>1
          <6>2. addr[d] \in DOMAIN activeSensors /\ activeSensors[addr[d]].id = owner[d]
            BY <1>0, <1>a, <6>1 DEF Entries, Names
          <6> QED
            BY <4>3, <6>1, <6>2
        <5> QED
          BY <1>0, <1>a, <3>0, <4>1, <4>3, <4>4, <4>5, <5>1
      <4>7. \A b \in DOMAIN connToSensorID' :
              \E d \in named' : Serving(d)' /\ addr[d] = b /\ connToSensorID'[b] = owner[d]
        <5>1. ASSUME NEW b \in DOMAIN connToSensorID, b # a
              PROVE  \E d \in named : Serving(d) /\ addr[d] = b /\ connToSensorID'[b] = owner[d]
          <6>1. PICK d \in named : Serving(d) /\ addr[d] = b /\ connToSensorID[b] = owner[d]
            BY <1>0, <1>a, <5>1 DEF Names
          <6> QED
            BY <4>2, <5>1, <6>1
        <5> QED
          BY <1>0, <1>a, <3>0, <4>1, <4>2, <4>4, <5>1
      <4> QED
        BY <2>0, <4>5, <4>6, <4>7, Zenon DEF Names
    <3> QED
      BY <3>1, <3>2, <3>3
  <2> QED
    BY <1>3, <2>1, <2>2, <2>3, <2>4, <2>5 DEF MapStep
<1>4. CASE SamePlaces /\ UNCHANGED <<conns, addr, owner, open, mapVars>>
  BY <1>1, <1>4, Zenon DEF SamePlaces
<1> QED
  BY <1>2, <1>3, <1>4, MapSteps

LEMMA NextMapTypes ==
  ASSUME Types, Controls, Maps, [Next]_vars
  PROVE  MapTypes(1..conns)'
<1> DEFINE E == [id : Sensors \cup Addrs, conn : 1..conns', seen : BOOLEAN]
<1>0. /\ DOMAIN activeSensors \subseteq Addrs /\ activeSensors \in [DOMAIN activeSensors -> E]
      /\ DOMAIN connToSensorID \subseteq Addrs /\ connToSensorID \in [DOMAIN connToSensorID -> Sensors]
      /\ 1..conns \subseteq 1..conns'
  <2>1. 1..conns \subseteq 1..conns'
    BY NextConns DEF Types
  <2>2. [id : Sensors \cup Addrs, conn : 1..conns, seen : BOOLEAN] \subseteq E
    BY <2>1
  <2> HIDE DEF E
  <2> QED
    BY <2>1, <2>2 DEF Types, MapTypes
<1>1. SUFFICES /\ DOMAIN activeSensors' \subseteq Addrs
               /\ activeSensors' \in [DOMAIN activeSensors' -> E]
               /\ DOMAIN connToSensorID' \subseteq Addrs
               /\ connToSensorID' \in [DOMAIN connToSensorID' -> Sensors]
  BY DEF MapTypes
<1>2. ASSUME NEW m, NEW S, m \in [DOMAIN m -> S], DOMAIN m \subseteq Addrs,
             NEW a \in Addrs, NEW v \in S
      PROVE  /\ DOMAIN With(m, a, v) \subseteq Addrs
             /\ With(m, a, v) \in [DOMAIN With(m, a, v) -> S]
             /\ DOMAIN Without(m, a) \subseteq Addrs
             /\ Without(m, a) \in [DOMAIN Without(m, a) -> S]
  BY <1>2 DEF With, Without
<1>3. ASSUME UNCHANGED mapVars
      PROVE  UNCHANGED <<activeSensors, connToSensorID>>
  BY <1>3 DEF mapVars
<1>4. CASE Dials
  BY <1>0, <1>3, <1>4 DEF Dials, Dial
<1>5. ASSUME NEW c \in 1..conns, MapStep(c)
      PROVE  /\ DOMAIN activeSensors' \subseteq Addrs
             /\ activeSensors' \in [DOMAIN activeSensors' -> E]
             /\ DOMAIN connToSensorID' \subseteq Addrs
             /\ connToSensorID' \in [DOMAIN connToSensorID' -> Sensors]
  <2>0. /\ addr[c] \in Addrs /\ heartbeat[c] \in {owner[c], NoID} /\ owner[c] \in Sensors
        /\ c \in 1..conns'
    BY <1>0, <1>5, OwnKey
  <2>1. CASE Register(c)
    <3> DEFINE e == [id |-> addr[c], conn |-> c, seen |-> FALSE]
    <3>1. activeSensors' = With(activeSensors, addr[c], e) /\ connToSensorID' = connToSensorID
      BY <2>1 DEF Register
    <3>2. e \in E
      BY <2>0
    <3> HIDE DEF e, E
    <3> QED
      BY <1>0, <1>2, <2>0, <3>1, <3>2
  <2>2. CASE RemoveSensor(c)
    <3>1. /\ activeSensors' = Without(activeSensors, addr[c])
          /\ connToSensorID' = Without(connToSensorID, addr[c])
      BY <2>2 DEF RemoveSensor
    <3> HIDE DEF E
    <3> QED
      BY <1>0, <2>0, <3>1 DEF Without
  <2>3. CASE CloseConn(c)
    BY <1>0, <1>3, <2>3 DEF CloseConn
  <2>4. CASE UpdateSensorLastSeen(c)
    BY <1>0, <2>4 DEF UpdateSensorLastSeen
  <2>5. CASE NameSensor(c)
    <3>1. CASE UNCHANGED <<activeSensors, connToSensorID>>
      BY <1>0, <3>1
    <3>2. CASE ~UNCHANGED <<activeSensors, connToSensorID>>
      <4>1. /\ heartbeat[c] \in Sensors
            /\ connToSensorID' = With(connToSensorID, addr[c], heartbeat[c])
            /\ activeSensors' = IF addr[c] \in DOMAIN activeSensors
                                  THEN [activeSensors EXCEPT ![addr[c]].id = heartbeat[c]]
                                  ELSE activeSensors
        BY <2>0, <2>5, <3>2 DEF NameSensor
      <4>2. /\ DOMAIN connToSensorID' \subseteq Addrs
            /\ connToSensorID' \in [DOMAIN connToSensorID' -> Sensors]
        BY <1>0, <1>2, <2>0, <4>1
      <4> QED
        BY <1>0, <4>1, <4>2
    <3> QED
      BY <3>1, <3>2
  <2> QED
    BY <1>5, <2>1, <2>2, <2>3, <2>4, <2>5 DEF MapStep
<1>6. CASE SamePlaces /\ UNCHANGED <<conns, addr, owner, open, mapVars>>
  BY <1>0, <1>3, <1>6
<1> QED
  BY <1>4, <1>5, <1>6, MapSteps

LEMMA NextMaps ==
  ASSUME Types, Controls, Maps, [Next]_vars
  PROVE  Maps'
BY NextSockets, NextEntries, NextNames DEF Maps

LEMMA NextTypes ==
  ASSUME Types, Controls, Maps, [Next]_vars
  PROVE  Types'
<1>1. conns' \in 0..MaxConns
  BY NextConns DEF Types
<1>2. ConnTypes(1..conns)'
  BY NextConnTypes DEF Types
<1> QED
  BY <1>1, <1>2, NextStoreTypes, NextLoopTypes, NextMapTypes DEF Types

(* What the maps show is what is served. *)
LEMMA MapsListTheServed ==
  ASSUME Types, Maps
  PROVE  ListsTheServed
<1>1. named \subseteq 1..conns
  BY DEF Types, ConnTypes
<1>2. {<<a, activeSensors[a].conn>> : a \in DOMAIN activeSensors}
        = {<<addr[c], c>> : c \in {d \in 1..conns : Serving(d)}}
  BY DEF Maps, Entries
<1>3. DOMAIN connToSensorID \subseteq {addr[c] : c \in {d \in named : Serving(d)}}
  BY DEF Maps, Names
<1> QED
  BY <1>2, <1>3 DEF ListsTheServed, Maps, Names

-----------------------------------------------------------------------------
(* How the readings move: from the wire into the hands of a goroutine, from *)
(* there to the two stores, or nowhere when the connection goes down.       *)

LEMMA SetOf ==
  ASSUME NEW N, NEW q \in Seq(N)
  PROVE  /\ ToSet(q) \subseteq N
         /\ \A i \in DOMAIN q : q[i] \in ToSet(q)
         /\ \A n \in N : ToSet(Append(q, n)) = ToSet(q) \cup {n}
<1>1. DOMAIN q = 1..Len(q) /\ Len(q) \in Nat /\ \A i \in 1..Len(q) : q[i] \in N
  BY LenProperties, ElementOfSeq
<1>2. ASSUME NEW n \in N PROVE ToSet(Append(q, n)) = ToSet(q) \cup {n}
  <2> DEFINE r == Append(q, n)
  <2>1. DOMAIN r = 1..(Len(q) + 1) /\ r[Len(q) + 1] = n /\ \A i \in 1..Len(q) : r[i] = q[i]
    BY AppendProperties
  <2> HIDE DEF r
  <2>2. ToSet(r) = ToSet(q) \cup {n}
    BY <1>1, <2>1 DEF ToSet
  <2> QED
    BY <2>2 DEF r
<1> QED
  BY <1>1, <1>2 DEF ToSet

LEMMA AllAreNumbers ==
  ASSUME Types
  PROVE  /\ Numbers \subseteq Nat /\ Conns' = Conns
         /\ ToSet(written) \subseteq Numbers /\ ToSet(added) \subseteq Numbers /\ unread \subseteq Numbers
         /\ \A c \in Conns : InHand(c) \subseteq Numbers /\ Waiting(c) \subseteq Numbers
         /\ \A c \in 1..conns : c \in Conns
<1>1. LoopTypes(Numbers) /\ StoreTypes(Numbers) /\ Numbers \subseteq Nat /\ Conns' = Conns
      /\ \A c \in 1..conns : c \in Conns
  BY HandlerAssumption DEF HandlerAssumption, Types, Numbers, Conns
<1>2. ToSet(written) \subseteq Numbers /\ ToSet(added) \subseteq Numbers /\ unread \subseteq Numbers
  BY <1>1, SetOf DEF StoreTypes, LoopTypes
<1>3. ASSUME NEW c \in Conns PROVE InHand(c) \subseteq Numbers /\ Waiting(c) \subseteq Numbers
  <2>1. todo[c] \in Seq(Numbers) /\ wire[c] \in Seq(Messages(Numbers))
    BY <1>1 DEF LoopTypes
  <2> QED
    BY <2>1, SetOf, WireReadings DEF InHand, Waiting
<1> QED
  BY <1>1, <1>2, <1>3

(* The readings stay where they are. *)
Halves == {"readingStore", "batchWrite"}

Quiet ==
  /\ UNCHANGED <<todo, wire, unread, written, added, data, made>>
  /\ \A d \in Conns : pc'[d] = pc[d] \/ {pc[d], pc'[d]} \cap Halves = {}

(* What was on a wire is lost. *)
Lost(c) ==
  /\ UNCHANGED <<todo, written, added, data, made>>
  /\ DropWire(c)
  /\ pc'[c] = pc[c] \/ {pc[c], pc'[c]} \cap Halves = {}

Handles(c) ==
  Sends(c) \/ Lost(c) \/ Receive(c) \/ ReadingWrite(c) \/ ReadingStore(c) \/ BatchStore(c) \/ BatchWrite(c)

Others(c) ==
  \A d \in Conns \ {c} :
    /\ pc'[d] = pc[d] /\ Current(d)' = Current(d) /\ todo'[d] = todo[d] /\ wire'[d] = wire[d]
    /\ InHand(d)' = InHand(d) /\ Waiting(d)' = Waiting(d)

LEMMA HandleSteps ==
  ASSUME Types, Controls, [Next]_vars
  PROVE  Quiet \/ \E c \in 1..conns : Handles(c) /\ Others(c)
<1>0. /\ LoopTypes(Numbers) /\ DOMAIN pc = Conns /\ \A c \in 1..conns : c \in Conns
      /\ conns < MaxConns => conns + 1 \in Conns
      /\ conns \in Nat
  BY HandlerAssumption DEF HandlerAssumption, Types, LoopTypes, Conns
<1>1. CASE Dials
  <2> PICK s \in Sensors, a \in Addrs : Dial(s, a)
    BY <1>1 DEF Dials
  <2> PICK k \in Conns : k = conns + 1
    BY <1>0 DEF Dial
  <2>1. /\ UNCHANGED <<todo, wire, unread, written, added, data, made>>
        /\ pc' = [pc EXCEPT ![k] = "register"]
    BY DEF Dial, wireVars, sensorVars, storeVars
  <2>2. pc[k] = "none"
    BY <1>0 DEF Controls, Control
  <2> QED
    BY <1>0, <2>1, <2>2 DEF Quiet, Halves
<1>2. ASSUME NEW c \in 1..conns, Sends(c) \/ ClientCloses(c) \/ ClientResets(c) \/ HandleConnection(c)
      PROVE  Others(c)
  BY <1>0, <1>2, OnlyOne DEF Others, InHand, Waiting, Current
<1>3. ASSUME NEW c \in 1..conns, ClientCloses(c) \/ Register(c) \/ RemoveSensor(c) \/ CloseConn(c)
             \/ NameSensor(c) \/ UpdateSensorLastSeen(c)
      PROVE  Quiet
  <2>1. CASE ClientCloses(c)
    BY <1>0, <2>1 DEF ClientCloses, handlerVars, wireVars, sensorVars, storeVars, Quiet
  <2>2. CASE Register(c) \/ RemoveSensor(c) \/ CloseConn(c)
    BY <1>0, <2>2 DEF Register, RemoveSensor, CloseConn, wireVars, sensorVars, storeVars, Quiet, Halves
  <2>3. CASE NameSensor(c) \/ UpdateSensorLastSeen(c)
    BY <1>0, <2>3 DEF NameSensor, UpdateSensorLastSeen, wireVars, sensorVars, storeVars, Quiet, Halves
  <2> QED
    BY <1>3, <2>1, <2>2, <2>3
<1>4. ASSUME NEW c \in 1..conns, ClientResets(c) \/ ReadEnds(c) \/ Deadline(c)
      PROVE  Lost(c)
  BY <1>0, <1>4 DEF ClientResets, ReadEnds, Deadline, Leave, sensorVars, storeVars, Lost, Halves
<1>5. CASE UNCHANGED vars
  BY <1>5 DEF vars, handlerVars, wireVars, sensorVars, storeVars, Quiet
<1>6. ASSUME NEW c \in 1..conns, Sends(c) \/ ClientCloses(c) \/ ClientResets(c) \/ HandleConnection(c)
      PROVE  Quiet \/ Handles(c)
  BY <1>3, <1>4, <1>6 DEF HandleConnection, Handles
<1> QED
  BY <1>1, <1>2, <1>5, <1>6, Steps

(* The readings that a step makes. *)
New == Numbers' \ Numbers

LEMMA SendEffect ==
  ASSUME Types, InOrder, [Next]_vars, NEW c \in 1..conns, Sends(c)
  PROVE  /\ UNCHANGED <<pc, todo, written, added, data>>
         /\ \/ Waiting(c)' = Waiting(c) \cup New /\ unread' = unread
            \/ Waiting(c)' = Waiting(c) /\ unread' = unread \cup New
         /\ OrderedWire(wire[c])'
         /\ \A n \in New : made'[n].conn = c
         /\ \A n \in Numbers, m \in New : n < m
<1>0. /\ c \in Conns /\ DOMAIN wire = Conns /\ wire[c] \in Seq(Messages(Numbers))
      /\ Waiting(c) \subseteq Numbers
      /\ OrderedWire(wire[c]) /\ Numbers \subseteq Numbers' /\ Len(made) \in Nat
  <2>1. c \in Conns /\ Waiting(c) \subseteq Numbers /\ Numbers \subseteq Numbers'
    BY AllAreNumbers, NextConns DEF Types
  <2>2. DOMAIN wire = Conns /\ wire[c] \in Seq(Messages(Numbers))
    BY <2>1 DEF Types, LoopTypes
  <2>3. Len(made) \in Nat
    BY DEF Types, ConnTypes
  <2>4. OrderedWire(wire[c])
    BY <2>1 DEF InOrder, OrderOn
  <2> QED
    BY <2>1, <2>2, <2>3, <2>4
<1>1. PICK new \in Messages(Numbers') :
        /\ SendMessage(c, new) /\ ToSet(new.readings) = New /\ Increasing(new.readings)
        /\ \A n \in ToSet(new.readings) : made'[n].conn = c
  BY SentMessage DEF New
<1>2. /\ UNCHANGED <<pc, todo, written, added, data>>
      /\ \/ wire'[c] = Append(wire[c], new) /\ unread' = unread
         \/ wire'[c] = wire[c] /\ unread' = unread \cup New
  BY <1>0, <1>1 DEF SendMessage, storeVars
<1>3. Len(made') \in Nat /\ \A n \in Numbers, m \in New : n < m
  <2>1. made' \in Seq(Made(1..conns'))
    BY NextConns DEF Types
  <2>2. Len(made') \in Nat
    BY <2>1
  <2> QED
    BY <1>0, <2>2 DEF Numbers, New
<1> DEFINE M == Messages(Numbers')
<1>4. wire[c] \in Seq(M) /\ new \in M /\ \A m \in M : m.readings \in Seq(Nat)
  <2>1. Numbers' \subseteq Nat
    BY <1>3 DEF Numbers
  <2>2. \A q \in Seq(Numbers') : q \in Seq(Nat)
    BY <2>1, SeqMonotonic
  <2> QED
    BY <1>0, <1>1, <2>2, MoreMessages DEF Messages
<1>5. CASE wire'[c] = wire[c] /\ unread' = unread \cup New
  BY <1>0, <1>1, <1>2, <1>3, <1>5 DEF Waiting
<1>6. CASE wire'[c] = Append(wire[c], new) /\ unread' = unread
  <2>1. Before(ReadingsIn(wire[c]), ToSet(new.readings))
    BY <1>0, <1>1, <1>3 DEF Before, Waiting
  <2> HIDE DEF M
  <2>2. /\ ReadingsIn(Append(wire[c], new)) = ReadingsIn(wire[c]) \cup ToSet(new.readings)
        /\ OrderedWire(Append(wire[c], new))
    BY <1>0, <1>1, <1>4, <2>1, AppendedWire
  <2> QED
    BY <1>1, <1>2, <1>3, <1>6, <2>2 DEF Waiting
<1> QED
  BY <1>2, <1>5, <1>6

LEMMA LostEffect ==
  ASSUME Types, NEW c \in 1..conns, Lost(c)
  PROVE  /\ UNCHANGED <<todo, written, added, data, made>>
         /\ Waiting(c)' = {} /\ OrderedWire(wire[c])'
         /\ unread' = unread \cup Waiting(c)
         /\ pc'[c] = pc[c] \/ {pc[c], pc'[c]} \cap Halves = {}
<1>1. c \in Conns /\ DOMAIN wire = Conns
  BY AllAreNumbers DEF Types, LoopTypes
<1>2. wire'[c] = <<>>
  BY <1>1 DEF Lost, DropWire
<1> QED
  BY <1>2, EmptyWire DEF Lost, DropWire, Waiting

LEMMA ReceiveEffect ==
  ASSUME Types, Controls, InOrder, NEW c \in 1..conns, Receive(c)
  PROVE  /\ UNCHANGED <<unread, written, added, data, made>>
         /\ InHand(c) = {} /\ pc[c] = "read" /\ pc'[c] \in {"heartbeat", "reading", "batch"}
         /\ Waiting(c) = InHand(c)' \cup Waiting(c)'
         /\ Before(InHand(c)', Waiting(c)')
         /\ Increasing(todo[c])' /\ OrderedWire(wire[c])'
<1>0. /\ c \in Conns /\ DOMAIN wire = Conns /\ DOMAIN todo = Conns /\ DOMAIN pc = Conns
      /\ wire[c] \in Seq(Messages(Numbers)) /\ OrderedWire(wire[c])
      /\ wire[c] # <<>> /\ pc[c] = "read" /\ todo[c] = <<>>
  BY AllAreNumbers DEF Types, LoopTypes, InOrder, OrderOn, Receive, Controls, Control, Busy
<1> DEFINE M == Messages(Numbers)
           message == Head(wire[c])
<1>1. /\ wire[c] \in Seq(M) /\ \A m \in M : m.readings \in Seq(Nat) /\ m.kind \in {"heartbeat", "reading", "batch"}
      /\ message \in M
  <2>1. \A q \in Seq(Numbers) : q \in Seq(Nat)
    BY AllAreNumbers, SeqMonotonic
  <2> QED
    BY <1>0, <2>1, WireReadings DEF Messages
<1>2. /\ todo'[c] = message.readings /\ pc'[c] = message.kind /\ wire'[c] = Tail(wire[c])
      /\ UNCHANGED <<unread, written, added, data, made>>
  BY <1>0 DEF Receive, storeVars, sensorVars
<1> HIDE DEF M, message
<1>3. /\ ReadingsIn(wire[c]) = ToSet(message.readings) \cup ReadingsIn(Tail(wire[c]))
      /\ Increasing(message.readings)
      /\ OrderedWire(Tail(wire[c]))
      /\ Before(ToSet(message.readings), ReadingsIn(Tail(wire[c])))
  BY <1>0, <1>1, TakenWire DEF message
<1>4. ToSet(<<>>) = {}
  BY DEF ToSet
<1> QED
  BY <1>0, <1>1, <1>2, <1>3, <1>4 DEF InHand, Waiting

(* The reading a goroutine handles is the oldest of those it has.           *)
LEMMA CurrentIsOldest ==
  ASSUME Types, Controls, InOrder, NEW c \in 1..conns, pc[c] \in Busy
  PROVE  /\ c \in Conns /\ Current(c) \in InHand(c) /\ Current(c) \in Numbers
         /\ Tail(todo[c]) \in Seq(Nat) /\ Increasing(Tail(todo[c]))
         /\ InHand(c) = {Current(c)} \cup ToSet(Tail(todo[c]))
         /\ \A x \in ToSet(Tail(todo[c])) : Current(c) < x
         /\ pc[c] \in {"reading", "readingStore"} => InHand(c) = {Current(c)}
<1>1. c \in Conns /\ todo[c] \in Seq(Numbers) /\ todo[c] # <<>> /\ Current(c) \in Numbers
  BY HasCurrent
<1>2. todo[c] \in Seq(Nat)
  BY <1>1, AllAreNumbers, SeqMonotonic
<1>3. Increasing(todo[c])
  BY <1>1 DEF InOrder, OrderOn
<1>4. /\ Tail(todo[c]) \in Seq(Nat) /\ Increasing(Tail(todo[c]))
      /\ ToSet(todo[c]) = {Current(c)} \cup ToSet(Tail(todo[c]))
      /\ \A x \in ToSet(Tail(todo[c])) : Current(c) < x
  BY <1>1, <1>2, <1>3, TakeOldest DEF Current
<1>5. ASSUME pc[c] \in {"reading", "readingStore"} PROVE ToSet(Tail(todo[c])) = {}
  <2>1. Len(todo[c]) = 1
    BY <1>1, <1>5 DEF Controls, Control
  <2>2. Len(Tail(todo[c])) = 0
    BY <1>1, <1>2, <2>1, HeadTailProperties
  <2>3. Tail(todo[c]) = <<>>
    BY <1>4, <2>2, EmptySeq
  <2> QED
    BY <2>3 DEF ToSet
<1> QED
  BY <1>1, <1>4, <1>5 DEF InHand

LEMMA HandleEffect ==
  ASSUME Types, Controls, InOrder, NEW c \in 1..conns,
         ReadingWrite(c) \/ ReadingStore(c) \/ BatchStore(c) \/ BatchWrite(c)
  PROVE  /\ UNCHANGED <<unread, made>> /\ Waiting(c)' = Waiting(c) /\ OrderedWire(wire[c])'
         /\ Increasing(todo[c])'
         /\ c \in Conns /\ Current(c) \in InHand(c) /\ Current(c) \in Numbers /\ pc[c] \in Busy
         /\ ReadingWrite(c) =>
              /\ UNCHANGED <<todo, added, data>> /\ pc[c] = "reading" /\ pc'[c] = "readingStore"
              /\ InHand(c) = {Current(c)} /\ InHand(c)' = InHand(c) /\ Current(c)' = Current(c)
              /\ written' = Append(written, Current(c))
         /\ ReadingStore(c) =>
              /\ written' = written /\ pc[c] = "readingStore" /\ pc'[c] = "read"
              /\ InHand(c) = {Current(c)} /\ InHand(c)' = {}
              /\ StoreIfValid(Current(c))
         /\ BatchStore(c) =>
              /\ UNCHANGED <<todo, written>> /\ pc[c] = "batch" /\ pc'[c] = "batchWrite"
              /\ InHand(c)' = InHand(c) /\ Current(c)' = Current(c)
              /\ \A x \in InHand(c) : Current(c) <= x
              /\ StoreIfValid(Current(c))
         /\ BatchWrite(c) =>
              /\ UNCHANGED <<added, data>> /\ pc[c] = "batchWrite" /\ pc'[c] \in {"read", "batch"}
              /\ InHand(c) = {Current(c)} \cup InHand(c)'
              /\ \A x \in InHand(c)' : Current(c) < x
              /\ written' = Append(written, Current(c))
<1>0. /\ pc[c] \in Busy
      /\ DOMAIN todo = Conns /\ DOMAIN pc = Conns
  BY DEF ReadingWrite, ReadingStore, BatchStore, BatchWrite, Busy, Types, LoopTypes
<1>1. /\ c \in Conns /\ Current(c) \in InHand(c) /\ Current(c) \in Numbers
      /\ Tail(todo[c]) \in Seq(Nat) /\ Increasing(Tail(todo[c]))
      /\ InHand(c) = {Current(c)} \cup ToSet(Tail(todo[c]))
      /\ \A x \in ToSet(Tail(todo[c])) : Current(c) < x
      /\ pc[c] \in {"reading", "readingStore"} => InHand(c) = {Current(c)}
  BY <1>0, CurrentIsOldest
<1>2. Increasing(todo[c]) /\ OrderedWire(wire[c]) /\ Increasing(<<>>) /\ ToSet(<<>>) = {}
  <2>1. Increasing(todo[c]) /\ OrderedWire(wire[c])
    BY <1>1 DEF InOrder, OrderOn
  <2>2. Increasing(<<>>) /\ ToSet(<<>>) = {}
    BY DEF Increasing, ToSet
  <2> QED
    BY <2>1, <2>2
<1>3. UNCHANGED <<unread, made, wire>>
  BY DEF ReadingWrite, ReadingStore, BatchStore, BatchWrite, wireVars, sensorVars
<1>4. ASSUME ReadingWrite(c)
      PROVE  /\ UNCHANGED <<todo, added, data>> /\ pc[c] = "reading" /\ pc'[c] = "readingStore"
             /\ InHand(c) = {Current(c)} /\ InHand(c)' = InHand(c) /\ Current(c)' = Current(c)
             /\ written' = Append(written, Current(c))
             /\ Increasing(todo[c])'
  BY <1>0, <1>1, <1>2, <1>4 DEF ReadingWrite, InHand, Current, storeVars
<1>5. ASSUME ReadingStore(c)
      PROVE  /\ written' = written /\ pc[c] = "readingStore" /\ pc'[c] = "read"
             /\ InHand(c) = {Current(c)} /\ InHand(c)' = {}
             /\ StoreIfValid(Current(c))
             /\ Increasing(todo[c])'
  BY <1>0, <1>1, <1>2, <1>5 DEF ReadingStore, InHand
<1>6. ASSUME BatchStore(c)
      PROVE  /\ UNCHANGED <<todo, written>> /\ pc[c] = "batch" /\ pc'[c] = "batchWrite"
             /\ InHand(c)' = InHand(c) /\ Current(c)' = Current(c)
             /\ \A x \in InHand(c) : Current(c) <= x
             /\ StoreIfValid(Current(c))
             /\ Increasing(todo[c])'
  <2>1. \A x \in InHand(c) : Current(c) <= x
    BY <1>1, AllAreNumbers
  <2> QED
    BY <1>0, <1>1, <1>2, <1>6, <2>1 DEF BatchStore, InHand, Current
<1>7. ASSUME BatchWrite(c)
      PROVE  /\ UNCHANGED <<added, data>> /\ pc[c] = "batchWrite" /\ pc'[c] \in {"read", "batch"}
             /\ InHand(c) = {Current(c)} \cup InHand(c)'
             /\ \A x \in InHand(c)' : Current(c) < x
             /\ written' = Append(written, Current(c))
             /\ Increasing(todo[c])'
  <2>1. todo'[c] = Tail(todo[c])
    BY <1>0, <1>1, <1>7 DEF BatchWrite
  <2> QED
    BY <1>0, <1>1, <1>7, <2>1 DEF BatchWrite, InHand, storeVars
<1> QED
  BY <1>0, <1>1, <1>2, <1>3, <1>4, <1>5, <1>6, <1>7 DEF Waiting

(* What StoreIfValid does to the readings in the store. *)
LEMMA StoredSet ==
  ASSUME Types, NEW n \in Numbers, StoreIfValid(n)
  PROVE  ToSet(added)' = IF made[n].valid THEN ToSet(added) \cup {n} ELSE ToSet(added)
<1>1. added \in Seq(Numbers)
  BY DEF Types, StoreTypes
<1>2. ToSet(Append(added, n)) = ToSet(added) \cup {n}
  BY <1>1, SetOf
<1> QED
  BY <1>2 DEF StoreIfValid, storeVars

LEMMA WrittenSet ==
  ASSUME Types, NEW n \in Numbers, written' = Append(written, n)
  PROVE  ToSet(written)' = ToSet(written) \cup {n}
<1>1. written \in Seq(Numbers)
  BY DEF Types, StoreTypes
<1>2. ToSet(Append(written, n)) = ToSet(written) \cup {n}
  BY <1>1, SetOf
<1> QED
  BY <1>2

(* Each reading of a connection stays one of its own. *)
LEMMA NextOwned ==
  ASSUME Types, Controls, InOrder, Owned, [Next]_vars
  PROVE  Owned'
<1>0. /\ Conns' = Conns
      /\ \A d \in Conns : InHand(d) \subseteq Numbers /\ Waiting(d) \subseteq Numbers
      /\ \A n \in Numbers : made'[n] = made[n]
      /\ \A d \in Conns : \A n \in InHand(d) \cup Waiting(d) : made[n].conn = d
  BY AllAreNumbers, NextConns DEF Types, Owned
<1>1. CASE Quiet
  BY <1>0, <1>1 DEF Quiet, Owned, InHand, Waiting
<1>2. ASSUME NEW c \in 1..conns, Handles(c), Others(c)
      PROVE  Owned'
  <2>1. InHand(c)' \cup Waiting(c)' \subseteq InHand(c) \cup Waiting(c) \cup {n \in New : made'[n].conn = c}
    <3>1. CASE Sends(c)
      BY <3>1, SendEffect DEF InHand
    <3>2. CASE Lost(c)
      BY <3>2, LostEffect DEF InHand
    <3>3. CASE Receive(c)
      BY <3>3, ReceiveEffect
    <3>4. CASE ReadingWrite(c) \/ ReadingStore(c) \/ BatchStore(c) \/ BatchWrite(c)
      BY <3>4, HandleEffect
    <3> QED
      BY <1>2, <3>1, <3>2, <3>3, <3>4 DEF Handles
  <2>2. ASSUME NEW d \in Conns, NEW n \in InHand(d)' \cup Waiting(d)'
        PROVE  made'[n].conn = d
    <3>1. CASE d = c
      BY <1>0, <2>1, <2>2, <3>1
    <3>2. CASE d # c
      BY <1>0, <1>2, <2>2, <3>2 DEF Others
    <3> QED
      BY <3>1, <3>2
  <2> QED
    BY <1>0, <2>2 DEF Owned
<1> QED
  BY <1>1, <1>2, HandleSteps

(* Nothing overtakes anything on its connection. *)
LEMMA NextInOrder ==
  ASSUME Types, Controls, InOrder, Owned, [Next]_vars
  PROVE  InOrder'
<1>0. /\ Conns' = Conns
      /\ \A d \in Conns : InHand(d) \subseteq Numbers /\ Waiting(d) \subseteq Numbers
      /\ \A n \in Numbers : made'[n] = made[n]
      /\ ToSet(written) \subseteq Numbers /\ ToSet(added) \subseteq Numbers
      /\ \A d \in Conns : \A n \in InHand(d) : made[n].conn = d
      /\ Numbers \subseteq Nat
  BY AllAreNumbers, NextConns DEF Types, Owned
<1>a. \A d \in Conns : OrderOn(d)
  BY DEF InOrder
<1>1. SUFFICES \A d \in Conns : OrderOn(d)'
  BY <1>0 DEF InOrder
<1>2. CASE Quiet
  <2>1. ASSUME NEW d \in Conns PROVE OrderOn(d)'
    <3>1. HandledOn(d, written)' = HandledOn(d, written) /\ HandledOn(d, added)' = HandledOn(d, added)
      BY <1>0, <1>2 DEF Quiet, HandledOn
    <3>2. /\ InHand(d)' = InHand(d) /\ Waiting(d)' = Waiting(d) /\ Current(d)' = Current(d)
          /\ todo'[d] = todo[d] /\ wire'[d] = wire[d]
          /\ pc'[d] = "readingStore" <=> pc[d] = "readingStore"
          /\ pc'[d] = "batchWrite" <=> pc[d] = "batchWrite"
      BY <1>2 DEF Quiet, Halves, InHand, Waiting, Current
    <3> QED
      BY <1>a, <3>1, <3>2 DEF OrderOn
  <2> QED
    BY <2>1
<1>3. ASSUME NEW c \in 1..conns, Handles(c), Others(c)
      PROVE  \A d \in Conns : OrderOn(d)'
  <2>0. /\ c \in Conns /\ OrderOn(c)
    BY <1>a, AllAreNumbers
  <2>1. /\ ToSet(written)' \subseteq ToSet(written) \cup InHand(c)
        /\ ToSet(added)' \subseteq ToSet(added) \cup InHand(c)
    <3>1. CASE Sends(c)
      BY <3>1, SendEffect
    <3>2. CASE Lost(c)
      BY <3>2, LostEffect
    <3>3. CASE Receive(c)
      BY <3>3, ReceiveEffect
    <3>4. CASE ReadingWrite(c) \/ BatchWrite(c)
      BY <3>4, HandleEffect, WrittenSet
    <3>5. CASE ReadingStore(c) \/ BatchStore(c)
      BY <3>5, HandleEffect, StoredSet
    <3> QED
      BY <1>3, <3>1, <3>2, <3>3, <3>4, <3>5 DEF Handles
  <2>2. ASSUME NEW d \in Conns, d # c PROVE OrderOn(d)'
    <3>1. HandledOn(d, written)' \subseteq HandledOn(d, written) /\ HandledOn(d, added)' \subseteq HandledOn(d, added)
      <4>1. \A n \in ToSet(written) \cup ToSet(added) : made'[n] = made[n]
        BY <1>0
      <4>2. \A n \in InHand(c) : made'[n].conn # d
        BY <1>0, <2>0, <2>2
      <4> QED
        BY <2>1, <4>1, <4>2 DEF HandledOn
    <3>2. OrderOn(d)
      BY <1>a
    <3> QED
      BY <1>3, <2>2, <3>1, <3>2 DEF OrderOn, Others, Before
  <2>3. OrderOn(c)'
    <3>0. /\ HandledOn(c, written) \subseteq Numbers /\ HandledOn(c, added) \subseteq Numbers
          /\ HandledOn(c, written)' \subseteq HandledOn(c, written) \cup InHand(c)
          /\ HandledOn(c, added)' \subseteq HandledOn(c, added) \cup InHand(c)
      BY <1>0, <2>1 DEF HandledOn
    <3>a. /\ ToSet(written)' = ToSet(written) => HandledOn(c, written)' = HandledOn(c, written)
          /\ ToSet(added)' = ToSet(added) => HandledOn(c, added)' = HandledOn(c, added)
          /\ \A n \in Numbers : ToSet(written)' = ToSet(written) \cup {n}
               => HandledOn(c, written)' \subseteq HandledOn(c, written) \cup {n}
          /\ \A n \in Numbers : ToSet(added)' \subseteq ToSet(added) \cup {n}
               => HandledOn(c, added)' \subseteq HandledOn(c, added) \cup {n}
      BY <1>0 DEF HandledOn
    <3>1. CASE Sends(c)
      <4>1. /\ UNCHANGED <<pc, todo, written, added>>
            /\ Waiting(c)' \subseteq Waiting(c) \cup New
            /\ OrderedWire(wire[c])'
            /\ \A n \in Numbers, m \in New : n < m
        BY <3>1, SendEffect
      <4>2. /\ HandledOn(c, written)' = HandledOn(c, written) /\ HandledOn(c, added)' = HandledOn(c, added)
            /\ InHand(c)' = InHand(c) /\ Current(c)' = Current(c) /\ InHand(c) \subseteq Numbers
        BY <1>0, <2>0, <3>a, <4>1 DEF InHand, Current
      <4> QED
        BY <2>0, <3>0, <4>1, <4>2 DEF OrderOn, Before
    <3>2. CASE Lost(c)
      <4>1. /\ UNCHANGED <<todo, written, added>>
            /\ Waiting(c)' = {} /\ OrderedWire(wire[c])'
            /\ pc'[c] = "readingStore" <=> pc[c] = "readingStore"
            /\ pc'[c] = "batchWrite" <=> pc[c] = "batchWrite"
        BY <3>2, LostEffect DEF Halves
      <4>2. /\ HandledOn(c, written)' = HandledOn(c, written) /\ HandledOn(c, added)' = HandledOn(c, added)
            /\ InHand(c)' = InHand(c) /\ Current(c)' = Current(c)
        BY <3>a, <4>1 DEF InHand, Current
      <4> QED
        BY <2>0, <4>1, <4>2 DEF OrderOn, Before
    <3>3. CASE Receive(c)
      <4>1. /\ UNCHANGED <<written, added>>
            /\ Waiting(c) = InHand(c)' \cup Waiting(c)'
            /\ Before(InHand(c)', Waiting(c)')
            /\ Increasing(todo[c])' /\ OrderedWire(wire[c])'
        BY <3>3, ReceiveEffect
      <4>2. HandledOn(c, written)' = HandledOn(c, written) /\ HandledOn(c, added)' = HandledOn(c, added)
        BY <3>a, <4>1
      <4> QED
        BY <2>0, <4>1, <4>2 DEF OrderOn, Before
    <3>4. CASE ReadingWrite(c)
      <4>1. /\ Waiting(c)' = Waiting(c) /\ OrderedWire(wire[c])' /\ Increasing(todo[c])'
            /\ pc[c] = "reading" /\ pc'[c] = "readingStore" /\ Current(c) \in InHand(c)
            /\ InHand(c) = {Current(c)} /\ InHand(c)' = InHand(c) /\ Current(c)' = Current(c)
            /\ added' = added
            /\ ToSet(written)' = ToSet(written) \cup {Current(c)} /\ Current(c) \in Numbers
        BY <3>4, HandleEffect, WrittenSet
      <4>2. HandledOn(c, written)' \subseteq HandledOn(c, written) \cup {Current(c)}
            /\ HandledOn(c, added)' = HandledOn(c, added)
        BY <3>a, <4>1
      <4> QED
        BY <2>0, <4>1, <4>2 DEF OrderOn, Before
    <3>5. CASE ReadingStore(c)
      <4>1. /\ Waiting(c)' = Waiting(c) /\ OrderedWire(wire[c])' /\ Increasing(todo[c])'
            /\ InHand(c)' = {}
        BY <3>5, HandleEffect
      <4> QED
        BY <2>0, <3>0, <4>1 DEF OrderOn, Before
    <3>6. CASE BatchStore(c)
      <4>1. /\ Waiting(c)' = Waiting(c) /\ OrderedWire(wire[c])' /\ Increasing(todo[c])'
            /\ pc[c] = "batch" /\ pc'[c] = "batchWrite" /\ Current(c) \in InHand(c)
            /\ InHand(c)' = InHand(c) /\ Current(c)' = Current(c)
            /\ written' = written
            /\ \A x \in InHand(c) : Current(c) <= x
            /\ ToSet(added)' \subseteq ToSet(added) \cup {Current(c)} /\ Current(c) \in Numbers
        BY <3>6, HandleEffect, StoredSet
      <4>2. HandledOn(c, added)' \subseteq HandledOn(c, added) \cup {Current(c)}
            /\ HandledOn(c, written)' = HandledOn(c, written)
        BY <3>a, <4>1
      <4>3. InHand(c) \subseteq Nat
        BY <1>0, <2>0
      <4>4. \A n \in HandledOn(c, added)', y \in InHand(c)' :
              n < y \/ (pc'[c] = "batchWrite" /\ n = Current(c)')
        BY <2>0, <4>1, <4>2 DEF OrderOn
      <4> QED
        BY <2>0, <3>0, <4>1, <4>2, <4>3, <4>4 DEF OrderOn, Before
    <3>7. CASE BatchWrite(c)
      <4>1. /\ Waiting(c)' = Waiting(c) /\ OrderedWire(wire[c])' /\ Increasing(todo[c])'
            /\ pc[c] = "batchWrite" /\ Current(c) \in InHand(c)
            /\ InHand(c) = {Current(c)} \cup InHand(c)'
            /\ \A x \in InHand(c)' : Current(c) < x
            /\ added' = added
            /\ ToSet(written)' = ToSet(written) \cup {Current(c)} /\ Current(c) \in Numbers
        BY <3>7, HandleEffect, WrittenSet
      <4>2. HandledOn(c, written)' \subseteq HandledOn(c, written) \cup {Current(c)}
            /\ HandledOn(c, added)' = HandledOn(c, added)
        BY <3>a, <4>1
      <4> QED
        BY <2>0, <4>1, <4>2 DEF OrderOn, Before
    <3> QED
      BY <1>3, <3>1, <3>2, <3>3, <3>4, <3>5, <3>6, <3>7 DEF Handles
  <2> QED
    BY <2>2, <2>3
<1> QED
  BY <1>2, <1>3, HandleSteps

(* A newer reading of its connection at the end keeps the order, and the     *)
(* order keeps every reading from being there twice.                         *)
LEMMA OneMoreInOrder ==
  ASSUME NEW q \in Seq(Numbers), InConnectionOrder(q), NEW n \in Numbers,
         \A m \in HandledOn(made[n].conn, q) : m < n
  PROVE  InConnectionOrder(Append(q, n))
<1> DEFINE r == Append(q, n)
<1>1. /\ DOMAIN q = 1..Len(q) /\ DOMAIN r = 1..(Len(q) + 1) /\ Len(q) \in Nat
      /\ r[Len(q) + 1] = n /\ \A i \in 1..Len(q) : r[i] = q[i] /\ q[i] \in ToSet(q)
  BY AppendProperties, LenProperties, SetOf
<1> HIDE DEF r
<1>2. ASSUME NEW i \in DOMAIN r, NEW j \in DOMAIN r, i < j, made[r[i]].conn = made[r[j]].conn
      PROVE  r[i] < r[j]
  <2>1. i \in 1..Len(q) /\ r[i] = q[i] /\ q[i] \in ToSet(q)
    BY <1>1, <1>2
  <2>2. CASE j = Len(q) + 1
    BY <1>1, <1>2, <2>1, <2>2 DEF HandledOn
  <2>3. CASE j # Len(q) + 1
    BY <1>1, <1>2, <2>1, <2>3 DEF InConnectionOrder
  <2> QED
    BY <2>2, <2>3
<1>3. InConnectionOrder(r)
  BY <1>2 DEF InConnectionOrder
<1> QED
  BY <1>3 DEF r

LEMMA OrderedOnce ==
  ASSUME NEW q \in Seq(Numbers), InConnectionOrder(q)
  PROVE  IsInjective(q)
<1>1. DOMAIN q = 1..Len(q) /\ Len(q) \in Nat /\ \A i \in 1..Len(q) : q[i] \in Nat
  BY LenProperties, ElementOfSeq DEF Numbers
<1>2. ASSUME NEW i \in DOMAIN q, NEW j \in DOMAIN q, q[i] = q[j], i # j
      PROVE  FALSE
  <2>0. i \in Nat /\ j \in Nat
    BY <1>1
  <2>1. CASE i < j
    BY <1>1, <1>2, <2>1 DEF InConnectionOrder
  <2>2. CASE j < i
    BY <1>1, <1>2, <2>2 DEF InConnectionOrder
  <2> QED
    BY <1>2, <2>0, <2>1, <2>2
<1> QED
  BY <1>2 DEF IsInjective

LEMMA NextConnectionOrder ==
  ASSUME Types, Controls, InOrder, Owned, ConnectionOrder, [Next]_vars
  PROVE  ConnectionOrder'
<1>0. /\ added \in Seq(Numbers) /\ written \in Seq(Numbers)
      /\ \A n \in Numbers : made'[n] = made[n]
      /\ \A c \in 1..conns : c \in Conns
  BY AllAreNumbers, NextConns DEF Types, StoreTypes
<1>1. ASSUME NEW q \in Seq(Numbers), InConnectionOrder(q)
      PROVE  \A i, j \in DOMAIN q : i < j /\ made'[q[i]].conn = made'[q[j]].conn => q[i] < q[j]
  <2>1. \A i \in DOMAIN q : q[i] \in Numbers
    BY LenProperties, ElementOfSeq
  <2> QED
    BY <1>0, <1>1, <2>1 DEF InConnectionOrder
<1>2. InConnectionOrder(added)'
  <2>1. CASE added' = added
    BY <1>0, <1>1, <2>1 DEF ConnectionOrder, InConnectionOrder
  <2>2. ASSUME NEW c \in 1..conns, ReadingStore(c) \/ BatchStore(c), added' # added
        PROVE  InConnectionOrder(added)'
    <3>1. /\ made' = made /\ Current(c) \in Numbers /\ Current(c) \in InHand(c)
          /\ pc[c] # "batchWrite" /\ StoreIfValid(Current(c))
      BY <2>2, HandleEffect
    <3>2. added' = Append(added, Current(c))
      BY <2>2, <3>1 DEF StoreIfValid
    <3>3. made[Current(c)].conn = c /\ \A m \in HandledOn(c, added) : m < Current(c)
      BY <1>0, <3>1 DEF Owned, InOrder, OrderOn
    <3>4. InConnectionOrder(Append(added, Current(c)))
      BY <1>0, <3>1, <3>3, OneMoreInOrder DEF ConnectionOrder
    <3> QED
      BY <3>1, <3>2, <3>4 DEF InConnectionOrder
  <2> QED
    BY <2>1, <2>2, StoreSteps
<1>3. InConnectionOrder(written)'
  <2>1. CASE written' = written
    BY <1>0, <1>1, <2>1 DEF ConnectionOrder, InConnectionOrder
  <2>2. ASSUME NEW c \in 1..conns, ReadingWrite(c) \/ BatchWrite(c)
        PROVE  InConnectionOrder(written)'
    <3>1. /\ made' = made /\ Current(c) \in Numbers /\ Current(c) \in InHand(c)
          /\ pc[c] # "readingStore" /\ written' = Append(written, Current(c))
      BY <2>2, HandleEffect
    <3>3. made[Current(c)].conn = c /\ \A m \in HandledOn(c, written) : m < Current(c)
      BY <1>0, <3>1 DEF Owned, InOrder, OrderOn
    <3>4. InConnectionOrder(Append(written, Current(c)))
      BY <1>0, <3>1, <3>3, OneMoreInOrder DEF ConnectionOrder
    <3> QED
      BY <3>1, <3>4 DEF InConnectionOrder
  <2> QED
    BY <2>1, <2>2, WriteSteps
<1> QED
  BY <1>2, <1>3 DEF ConnectionOrder

(* What is between the stores is in the first of the two, and only valid     *)
(* readings are in the store.                                                *)
LEMMA NextHalfway ==
  ASSUME Types, Controls, InOrder, Halfway, OnlyValid, [Next]_vars
  PROVE  Halfway' /\ OnlyValid'
<1>0. /\ Conns' = Conns /\ \A c \in 1..conns : c \in Conns
      /\ \A n \in Numbers : made'[n] = made[n]
      /\ ToSet(written) \subseteq Numbers /\ ToSet(added) \subseteq Numbers
      /\ \A c \in 1..conns : pc[c] \in Halves => Current(c) \in Numbers
  BY AllAreNumbers, NextConns, HasCurrent DEF Types, Halves, Busy
<1>a. \A c \in Conns : pc[c] \in Halves => Current(c) \in Numbers
  BY <1>0 DEF Controls, Control, Halves
<1>1. CASE Quiet
  <2>1. OnlyValid'
    BY <1>0, <1>1 DEF Quiet, OnlyValid
  <2>2. Halfway'
    BY <1>0, <1>a, <1>1 DEF Quiet, Halves, Halfway, Current
  <2> QED
    BY <2>1, <2>2
<1>2. ASSUME NEW c \in 1..conns, Handles(c), Others(c)
      PROVE  Halfway' /\ OnlyValid'
  <2>1. /\ ToSet(written) \subseteq ToSet(written)'
        /\ ToSet(added) \subseteq ToSet(added)'
        /\ \A n \in ToSet(added)' \ ToSet(added) : n \in Numbers /\ made[n].valid
        /\ pc'[c] = "readingStore" => Current(c)' \in ToSet(written)'
        /\ pc'[c] = "batchWrite" =>
             /\ Current(c)' = Current(c) /\ Current(c) \in Numbers
             /\ made[Current(c)].valid => Current(c) \in ToSet(added)'
    <3>a. /\ pc[c] = "readingStore" => Current(c) \in ToSet(written)
          /\ pc[c] = "batchWrite" /\ made[Current(c)].valid => Current(c) \in ToSet(added)
          /\ pc[c] = "batchWrite" => Current(c) \in Numbers
      BY <1>0 DEF Halfway, Halves
    <3>1. CASE Sends(c)
      BY <3>a, <3>1, SendEffect DEF Current
    <3>2. CASE Lost(c)
      BY <3>a, <3>2, LostEffect DEF Current, Halves
    <3>3. CASE Receive(c)
      BY <3>3, ReceiveEffect
    <3>4. CASE ReadingWrite(c) \/ BatchWrite(c)
      BY <3>4, HandleEffect, WrittenSet
    <3>5. CASE ReadingStore(c) \/ BatchStore(c)
      BY <3>5, HandleEffect, StoredSet
    <3> QED
      BY <1>2, <3>1, <3>2, <3>3, <3>4, <3>5 DEF Handles
  <2>2. OnlyValid'
    BY <1>0, <2>1 DEF OnlyValid
  <2>3. ASSUME NEW d \in Conns
        PROVE  /\ pc'[d] = "readingStore" => Current(d)' \in ToSet(written)'
               /\ pc'[d] = "batchWrite" /\ made'[Current(d)'].valid => Current(d)' \in ToSet(added)'
    <3>1. CASE d = c
      BY <1>0, <2>1, <3>1
    <3>2. CASE d # c
      <4>1. pc'[d] = pc[d] /\ Current(d)' = Current(d)
        BY <1>2, <3>2 DEF Others
      <4> QED
        BY <1>0, <1>a, <2>1, <4>1 DEF Halfway, Halves
    <3> QED
      BY <3>1, <3>2
  <2> QED
    BY <1>0, <2>2, <2>3 DEF Halfway
<1> QED
  BY <1>1, <1>2, HandleSteps

(* A valid reading is in both stores or on its way from one to the other.   *)
LEMMA BetweenMembers ==
  ASSUME Types, Controls
  PROVE  \A n : n \in BetweenStores <=> \E c \in Conns : pc[c] \in Halves /\ n = Current(c)
<1>1. \A c \in Conns : pc[c] \in Halves => c \in 1..conns
  BY DEF Controls, Control, Halves
<1>2. \A c \in 1..conns : c \in Conns
  BY AllAreNumbers
<1> QED
  BY <1>1, <1>2 DEF BetweenStores, Halves

Agree ==
  /\ \A n \in ToSet(written) \ ToSet(added) : made[n].valid => n \in BetweenStores
  /\ \A n \in ToSet(added) \ ToSet(written) : n \in BetweenStores

LEMMA AgreeIsAgreement ==
  ASSUME Types, ConnectionOrder, OnlyValid
  PROVE  StoreAndDatabaseAgree <=> Agree
<1>1. IsInjective(written) /\ IsInjective(added)
  BY OrderedOnce DEF Types, StoreTypes, ConnectionOrder
<1> QED
  BY <1>1 DEF StoreAndDatabaseAgree, Agree, OnlyValid

LEMMA NextAgree ==
  ASSUME Types, Controls, InOrder, Halfway, OnlyValid, Agree, [Next]_vars, Types', Controls'
  PROVE  Agree'
<1>0. /\ Conns' = Conns /\ \A c \in 1..conns : c \in Conns
      /\ \A n \in Numbers : made'[n] = made[n]
      /\ ToSet(written) \subseteq Numbers /\ ToSet(added) \subseteq Numbers
  BY AllAreNumbers, NextConns DEF Types
<1>b. \A n : n \in BetweenStores <=> \E c \in Conns : pc[c] \in Halves /\ n = Current(c)
  BY BetweenMembers
<1>c. \A n : n \in BetweenStores' <=> \E c \in Conns : pc'[c] \in Halves /\ n = Current(c)'
  <2>1. ASSUME Types', Controls'
        PROVE  \A n : n \in BetweenStores' <=> \E c \in Conns' : pc'[c] \in Halves /\ n = Current(c)'
    <3>1. \A c \in Conns' : pc'[c] \in Halves => c \in 1..conns'
      BY <2>1 DEF Controls, Control, Halves
    <3>2. \A c \in 1..conns' : c \in Conns'
      BY <2>1, HandlerAssumption DEF HandlerAssumption, Types, Conns
    <3> QED
      BY <3>1, <3>2 DEF BetweenStores, Halves
  <2> QED
    BY <1>0, <2>1
<1>1. CASE Quiet
  <2>1. \A n \in BetweenStores : n \in BetweenStores'
    BY <1>1, <1>b, <1>c DEF Quiet, Halves, Current
  <2> QED
    BY <1>0, <1>1, <2>1 DEF Agree, Quiet
<1>2. ASSUME NEW c \in 1..conns, Handles(c), Others(c)
      PROVE  Agree'
  <2>0. c \in Conns
    BY <1>0
  (* Who is between the stores stays there but for the reading of c. *)
  <2>1. \A n \in BetweenStores : n \in BetweenStores' \/ (pc[c] \in Halves /\ n = Current(c))
    BY <1>2, <1>b, <1>c DEF Others
  <2>2. CASE Sends(c) \/ Lost(c) \/ Receive(c)
    <3>1. /\ UNCHANGED <<written, added>>
          /\ \/ pc'[c] = pc[c] /\ Current(c)' = Current(c)
             \/ {pc[c], pc'[c]} \cap Halves = {}
      <4>1. CASE Sends(c)
        BY <4>1, SendEffect DEF Current
      <4>2. CASE Lost(c)
        BY <4>2, LostEffect DEF Current
      <4>3. CASE Receive(c)
        BY <4>3, ReceiveEffect DEF Halves
      <4> QED
        BY <2>2, <4>1, <4>2, <4>3
    <3>2. \A n \in BetweenStores : n \in BetweenStores'
      BY <2>0, <2>1, <3>1, <1>c
    <3> QED
      BY <1>0, <3>1, <3>2 DEF Agree
  <2>3. CASE ReadingWrite(c) \/ BatchStore(c)
    <3>1. /\ pc[c] \notin Halves /\ pc'[c] \in Halves /\ Current(c)' = Current(c) /\ Current(c) \in Numbers
          /\ ToSet(written)' \subseteq ToSet(written) \cup {Current(c)}
          /\ ToSet(added)' \subseteq ToSet(added) \cup {Current(c)}
          /\ ToSet(written) \subseteq ToSet(written)'
          /\ ToSet(added) \subseteq ToSet(added)'
          /\ made' = made
      BY <2>3, HandleEffect, WrittenSet, StoredSet DEF Halves
    <3>2. (\A n \in BetweenStores : n \in BetweenStores') /\ Current(c) \in BetweenStores'
      BY <2>0, <2>1, <3>1, <1>c
    <3> QED
      BY <3>1, <3>2 DEF Agree
  <2>4. CASE ReadingStore(c) \/ BatchWrite(c)
    <3>1. /\ pc[c] \in Halves /\ Current(c) \in Numbers
          /\ ToSet(written)' = ToSet(written) \cup {Current(c)}
          /\ \/ ToSet(added)' = ToSet(added) \cup {Current(c)}
             \/ ToSet(added)' = ToSet(added) /\ ~made[Current(c)].valid
          /\ made' = made
      <4>1. CASE ReadingStore(c)
        <5>1. Current(c) \in ToSet(written)
          BY <2>0, <4>1, HandleEffect DEF Halfway
        <5> QED
          BY <4>1, <5>1, HandleEffect, StoredSet DEF Halves
      <4>2. CASE BatchWrite(c)
        <5>1. made[Current(c)].valid => Current(c) \in ToSet(added)
          BY <2>0, <4>2, HandleEffect DEF Halfway
        <5> QED
          BY <4>2, <5>1, HandleEffect, WrittenSet DEF Halves
      <4> QED
        BY <2>4, <4>1, <4>2
    <3> QED
      BY <2>1, <3>1 DEF Agree, OnlyValid
  <2> QED
    BY <1>2, <2>2, <2>3, <2>4 DEF Handles
<1> QED
  BY <1>1, <1>2, HandleSteps

(* What waits on a wire is nowhere else. *)
LEMMA WaitingOnly ==
  ASSUME Types, InOrder, Owned, NEW c \in Conns, NEW n \in Waiting(c)
  PROVE  /\ n \notin ToSet(written)
         /\ \A d \in Conns : n \notin InHand(d) /\ (n \in Waiting(d) => d = c)
<1>1. n \in Nat /\ made[n].conn = c
  BY AllAreNumbers DEF Owned
<1>2. OrderOn(c)
  BY DEF InOrder
<1>3. n \notin ToSet(written)
  BY <1>1, <1>2 DEF OrderOn, HandledOn, Before
<1>4. ASSUME NEW d \in Conns PROVE n \notin InHand(d) /\ (n \in Waiting(d) => d = c)
  <2>1. n \in InHand(d) \cup Waiting(d) => d = c
    BY <1>1 DEF Owned
  <2> QED
    BY <1>1, <1>2, <2>1 DEF OrderOn, Before
<1> QED
  BY <1>3, <1>4

(* What one goroutine or sensor does to the places where readings are.      *)
Moves(c) ==
  /\ \A d \in Conns \ {c} : InHand(d)' = InHand(d) /\ Waiting(d)' = Waiting(d)
  /\ \/ (* new readings, on the wire or lost *)
        /\ InHand(c)' = InHand(c) /\ ToSet(written)' = ToSet(written)
        /\ \/ Waiting(c)' = Waiting(c) \cup New /\ unread' = unread
           \/ Waiting(c)' = Waiting(c) /\ unread' = unread \cup New
     \/ (* the wire is dropped *)
        /\ InHand(c)' = InHand(c) /\ ToSet(written)' = ToSet(written) /\ New = {}
        /\ Waiting(c)' = {} /\ unread' = unread \cup Waiting(c)
     \/ (* a message is read *)
        /\ InHand(c) = {} /\ ToSet(written)' = ToSet(written) /\ New = {} /\ unread' = unread
        /\ Waiting(c) = InHand(c)' \cup Waiting(c)'
     \/ (* a reading is handled *)
        /\ Waiting(c)' = Waiting(c) /\ New = {} /\ unread' = unread
        /\ ToSet(written) \subseteq ToSet(written)'
        /\ ToSet(written)' \subseteq ToSet(written) \cup InHand(c)
        /\ InHand(c)' \subseteq InHand(c)
        /\ InHand(c) \subseteq InHand(c)' \cup ToSet(written)'

LEMMA MoveSteps ==
  ASSUME Types, Controls, InOrder, Halfway, [Next]_vars
  PROVE  \/ UNCHANGED <<todo, wire, unread, written, made>>
         \/ \E c \in 1..conns : Moves(c)
<1>1. ASSUME NEW c \in 1..conns, Handles(c), Others(c)
      PROVE  Moves(c)
  <2>1. \A d \in Conns \ {c} : InHand(d)' = InHand(d) /\ Waiting(d)' = Waiting(d)
    BY <1>1 DEF Others
  <2>2. made' = made => New = {}
    BY DEF New, Numbers
  <2>3. CASE Sends(c)
    BY <2>1, <2>3, SendEffect DEF Moves, InHand
  <2>4. CASE Lost(c)
    BY <2>1, <2>2, <2>4, LostEffect DEF Moves, InHand
  <2>5. CASE Receive(c)
    BY <2>1, <2>2, <2>5, ReceiveEffect DEF Moves
  <2>6. CASE ReadingWrite(c)
    <3>1. /\ UNCHANGED <<made, unread>> /\ Waiting(c)' = Waiting(c)
          /\ InHand(c)' = InHand(c) /\ ToSet(written)' = ToSet(written) \cup {Current(c)}
          /\ Current(c) \in InHand(c)
      BY <2>6, HandleEffect, WrittenSet
    <3> QED
      BY <2>1, <2>2, <3>1 DEF Moves
  <2>7. CASE ReadingStore(c)
    <3>1. /\ UNCHANGED <<made, unread, written>> /\ Waiting(c)' = Waiting(c)
          /\ InHand(c) = {Current(c)} /\ InHand(c)' = {} /\ c \in Conns /\ pc[c] = "readingStore"
      BY <2>7, HandleEffect
    <3>2. Current(c) \in ToSet(written)
      BY <3>1 DEF Halfway
    <3> QED
      BY <2>1, <2>2, <3>1, <3>2 DEF Moves
  <2>8. CASE BatchStore(c)
    <3>1. /\ UNCHANGED <<made, unread, written>> /\ Waiting(c)' = Waiting(c) /\ InHand(c)' = InHand(c)
      BY <2>8, HandleEffect
    <3> QED
      BY <2>1, <2>2, <3>1 DEF Moves
  <2>9. CASE BatchWrite(c)
    <3>1. /\ UNCHANGED <<made, unread>> /\ Waiting(c)' = Waiting(c)
          /\ InHand(c) = {Current(c)} \cup InHand(c)'
          /\ ToSet(written)' = ToSet(written) \cup {Current(c)}
      BY <2>9, HandleEffect, WrittenSet
    <3> QED
      BY <2>1, <2>2, <3>1 DEF Moves
  <2> QED
    BY <1>1, <2>3, <2>4, <2>5, <2>6, <2>7, <2>8, <2>9 DEF Handles
<1> QED
  BY <1>1, HandleSteps DEF Quiet

LEMMA NextUnread ==
  ASSUME Types, Controls, InOrder, Owned, Halfway, Unread, [Next]_vars
  PROVE  Unread'
<1>0. /\ Conns' = Conns /\ \A c \in 1..conns : c \in Conns
      /\ ToSet(written) \subseteq Numbers /\ unread \subseteq Numbers
      /\ \A d \in Conns : InHand(d) \subseteq Numbers /\ Waiting(d) \subseteq Numbers
      /\ New \cap Numbers = {}
  BY AllAreNumbers DEF New
<1>1. CASE UNCHANGED <<todo, wire, unread, written, made>>
  BY <1>0, <1>1 DEF Unread, InHand, Waiting
<1>2. ASSUME NEW c \in 1..conns, Moves(c), NEW d \in Conns, NEW n \in unread',
             n \in InHand(d)' \cup Waiting(d)' \cup ToSet(written)'
      PROVE  FALSE
  <2>0. c \in Conns
    BY <1>0
  <2>1. n \in unread => n \notin InHand(c) \cup Waiting(c) \cup ToSet(written)
                        /\ n \notin InHand(d) \cup Waiting(d) \cup ToSet(written)
    BY <2>0 DEF Unread
  <2>2. n \in Waiting(c) => n \notin InHand(d) \cup ToSet(written) /\ n \notin InHand(c)
                            /\ (n \in Waiting(d) => d = c)
    BY <2>0, WaitingOnly
  <2>3. CASE d = c
    BY <1>0, <1>2, <2>0, <2>1, <2>2, <2>3 DEF Moves
  <2>4. CASE d # c
    <3>1. InHand(d)' = InHand(d) /\ Waiting(d)' = Waiting(d)
      BY <1>2, <2>4 DEF Moves
    <3> QED
      BY <1>0, <1>2, <2>0, <2>1, <2>2, <2>4, <3>1 DEF Moves
  <2> QED
    BY <2>3, <2>4
<1>3. ASSUME NEW c \in 1..conns, Moves(c)
      PROVE  Unread'
  <2>1. c \in Conns
    BY <1>0
  <2>2. unread' \cap ToSet(written)' = {}
    BY <1>2, <1>3, <2>1
  <2> QED
    BY <1>0, <1>2, <1>3, <2>2 DEF Unread
<1> QED
  BY <1>1, <1>3, MoveSteps

(* Every reading is somewhere. *)
Somewhere(n) ==
  n \in unread \/ n \in ToSet(written) \/ \E c \in Conns : n \in InHand(c) \cup Waiting(c)

Accounted == \A n \in Numbers : Somewhere(n)

LEMMA AccountedIsHandled ==
  ASSUME Types, Controls, InOrder, Owned, Unread
  PROVE  ReadMeansHandled <=> Accounted
<1> DEFINE waiting == UNION {ReadingsIn(wire[c]) : c \in Conns}
           inHand  == UNION {ToSet(todo[c]) : c \in Conns}
<1>1. /\ \A n : n \in waiting <=> \E c \in Conns : n \in Waiting(c)
      /\ \A n : n \in inHand <=> \E c \in Conns : n \in InHand(c)
  BY DEF Waiting, InHand
<1> HIDE DEF waiting, inHand
<1>2. waiting \cup inHand \cup ToSet(written) \cup unread \subseteq Numbers
  BY <1>1, AllAreNumbers
<1>3. (waiting \cup unread) \cap (inHand \cup ToSet(written)) = {}
  BY <1>1, WaitingOnly DEF Unread
<1>4. \A c \in Conns : pc[c] = "read" => todo[c] = <<>>
  BY DEF Controls, Control, Busy
<1>5. (waiting \cup inHand \cup ToSet(written) \cup unread = Numbers) <=> Accounted
  BY <1>1, <1>2 DEF Accounted, Somewhere
<1> QED
  BY <1>3, <1>4, <1>5 DEF ReadMeansHandled, waiting, inHand

LEMMA NextAccounted ==
  ASSUME Types, Controls, InOrder, Halfway, Accounted, [Next]_vars
  PROVE  Accounted'
<1>0. Conns' = Conns /\ (\A c \in 1..conns : c \in Conns) /\ Numbers' \subseteq Numbers \cup New
  BY AllAreNumbers DEF New
<1>1. CASE UNCHANGED <<todo, wire, unread, written, made>>
  BY <1>0, <1>1 DEF Accounted, Somewhere, InHand, Waiting, Numbers
<1>2. ASSUME NEW c \in 1..conns, Moves(c), NEW n \in Numbers'
      PROVE  Somewhere(n)'
  <2>0. c \in Conns
    BY <1>0
  <2>1. CASE \E d \in Conns \ {c} : n \in InHand(d) \cup Waiting(d)
    BY <1>0, <1>2, <2>1 DEF Moves, Somewhere
  <2>2. CASE \/ n \in unread \/ n \in ToSet(written) \/ n \in InHand(c) \cup Waiting(c)
             \/ n \in New
    <3>1. n \in unread' \/ n \in ToSet(written)' \/ n \in InHand(c)' \cup Waiting(c)'
      BY <1>2, <2>2 DEF Moves
    <3> QED
      BY <1>0, <2>0, <3>1 DEF Somewhere
  <2> QED
    BY <1>0, <1>2, <2>1, <2>2 DEF Accounted, Somewhere
<1> QED
  BY <1>1, <1>2, MoveSteps DEF Accounted

-----------------------------------------------------------------------------
(* The most recent readings of a sensor. *)

LEMMA LeastOfTwo == \A a, b \in Nat : Min({a, b}) = IF a <= b THEN a ELSE b
BY DEF Min

LEMMA LeastOfThree ==
  ASSUME NEW a \in Nat, NEW b \in Nat, NEW d \in Nat
  PROVE  Min({a, b, d}) = Min({a, Min({b, d})})
<1>1. \A x, y \in Nat : Min({x, y}) = IF x <= y THEN x ELSE y
  BY LeastOfTwo
<1>2. \E x \in {a, b, d} : \A y \in {a, b, d} : x <= y
  OBVIOUS
<1>3. Min({a, b, d}) \in {a, b, d} /\ \A y \in {a, b, d} : Min({a, b, d}) <= y
  BY <1>2 DEF Min
<1>4. Min({b, d}) = IF b <= d THEN b ELSE d
  BY <1>1
<1>5. Min({a, Min({b, d})}) = IF a <= Min({b, d}) THEN a ELSE Min({b, d})
  BY <1>1, <1>4
<1> QED
  BY <1>3, <1>4, <1>5

(* Counting from the end: an element at the end is the first, and moves all  *)
(* the others back by one.                                                   *)
LEMMA CountFromEnd ==
  ASSUME NEW m \in Nat, NEW A \in SUBSET (1..m)
  PROVE  /\ Cardinality(A) \in Nat
         /\ Cardinality(A \cup {m + 1}) = Cardinality(A) + 1
         /\ \A k \in A : /\ Cardinality({j \in A : k <= j}) \in 1..Cardinality(A)
                         /\ Cardinality({j \in A \cup {m + 1} : k <= j})
                              = Cardinality({j \in A : k <= j}) + 1
         /\ Cardinality({j \in A \cup {m + 1} : m + 1 <= j}) = 1
<1>1. IsFiniteSet(A) /\ m + 1 \notin A
  <2>1. IsFiniteSet(1..m)
    BY FS_Interval
  <2>2. IsFiniteSet(A)
    BY <2>1, FS_Subset
  <2>3. m + 1 \notin 1..m
    OBVIOUS
  <2> QED
    BY <2>2, <2>3
<1>2. Cardinality(A) \in Nat /\ Cardinality(A \cup {m + 1}) = Cardinality(A) + 1
  BY <1>1, FS_AddElement, FS_CardinalityType
<1>3. ASSUME NEW k \in A
      PROVE  /\ Cardinality({j \in A : k <= j}) \in 1..Cardinality(A)
             /\ Cardinality({j \in A \cup {m + 1} : k <= j}) = Cardinality({j \in A : k <= j}) + 1
  <2> DEFINE B == {j \in A : k <= j}
  <2>1. B \in SUBSET A /\ k \in B /\ m + 1 \notin B
    BY <1>1
  <2>2. {j \in A \cup {m + 1} : k <= j} = B \cup {m + 1}
    OBVIOUS
  <2> HIDE DEF B
  <2>3. IsFiniteSet(B) /\ Cardinality(B) <= Cardinality(A) /\ Cardinality(B) \in Nat
    BY <1>1, <2>1, FS_Subset, FS_CardinalityType
  <2>4. Cardinality(B) # 0
    BY <2>1, <2>3, FS_EmptySet
  <2>5. Cardinality(B \cup {m + 1}) = Cardinality(B) + 1
    BY <2>1, <2>3, FS_AddElement
  <2>6. Cardinality(B) \in 1..Cardinality(A)
    BY <1>2, <2>3, <2>4
  <2> QED
    BY <2>2, <2>5, <2>6 DEF B
<1>4. Cardinality({j \in A \cup {m + 1} : m + 1 <= j}) = 1
  <2>0. (\A j \in A : ~(m + 1 <= j)) /\ m + 1 <= m + 1
    OBVIOUS
  <2>1. {j \in A \cup {m + 1} : m + 1 <= j} = {m + 1}
    BY <2>0
  <2> QED
    BY <2>1, FS_Singleton
<1> QED
  BY <1>2, <1>3, <1>4

LEMMA KeptTypes ==
  ASSUME Types, NEW s \in Sensors
  PROVE  /\ StoreCapacity \in Nat \ {0} /\ ReadingsOf(s) \in Seq(Numbers)
         /\ Len(ReadingsOf(s)) \in 0..StoreCapacity
         /\ added \in Seq(Numbers) /\ DOMAIN added = 1..Len(added) /\ Len(added) \in Nat
         /\ AddedFor(s) \in SUBSET (1..Len(added))
<1>1. StoreTypes(Numbers) /\ StoreCapacity \in Nat \ {0}
  BY MemoryStoreAssumption DEF MemoryStoreAssumption, Types
<1>2. ReadingsOf(s) \in Seq(Numbers) /\ Len(ReadingsOf(s)) \in 0..StoreCapacity
  BY <1>1 DEF ReadingsOf, StoreTypes
<1>3. added \in Seq(Numbers) /\ DOMAIN added = 1..Len(added) /\ Len(added) \in Nat
  BY <1>1, LenProperties DEF StoreTypes
<1> QED
  BY <1>1, <1>2, <1>3 DEF AddedFor

LEMMA AddedLast ==
  ASSUME Types, NEW s \in Sensors, LatestOf(s), NEW n \in Numbers, made[n].sensor = s,
         made' = made, Add(s, n), added' = Append(added, n)
  PROVE  LatestOf(s)'
<1> DEFINE q == ReadingsOf(s)
           r == Append(Room(q), n)
           A == AddedFor(s)
           m == Len(added)
<1>1. /\ StoreCapacity \in Nat \ {0} /\ q \in Seq(Numbers) /\ Len(q) \in 0..StoreCapacity
      /\ m \in Nat /\ A \in SUBSET (1..m) /\ added \in Seq(Numbers) /\ DOMAIN added = 1..m
  BY KeptTypes
<1>2. DOMAIN added' = 1..(m + 1) /\ added'[m + 1] = n /\ \A k \in 1..m : added'[k] = added[k]
  BY <1>1, AppendProperties
<1>3. AddedFor(s)' = A \cup {m + 1}
  BY <1>1, <1>2 DEF AddedFor
<1>4. ReadingsOf(s)' = r
  BY DEF Add, ReadingsOf
<1>5. /\ Len(q) = Min({Cardinality(A), StoreCapacity})
      /\ \A k \in A : Since(s, k) <= Len(q) => q[Len(q) - Since(s, k) + 1] = added[k]
  BY DEF LatestOf
<1> HIDE DEF q, A, m
<1>6. /\ r \in Seq(Numbers)
      /\ Len(r) = IF Len(q) < StoreCapacity THEN Len(q) + 1 ELSE StoreCapacity
      /\ r[Len(r)] = n
      /\ \A i \in 1..(Len(r) - 1) : r[Len(r) - i] = q[Len(q) - i + 1]
  BY <1>1, RoomForOne
<1> HIDE DEF r
<1>7. /\ Cardinality(A) \in Nat /\ Cardinality(AddedFor(s)') = Cardinality(A) + 1
      /\ \A k \in A : Since(s, k) \in Nat \ {0}
      /\ \A k \in A : Cardinality({j \in AddedFor(s)' : k <= j}) = Since(s, k) + 1
      /\ Cardinality({j \in AddedFor(s)' : m + 1 <= j}) = 1
  <2>1. \A k : Since(s, k) = Cardinality({j \in A : k <= j})
    BY DEF Since, A
  <2>2. /\ Cardinality(A) \in Nat
        /\ Cardinality(A \cup {m + 1}) = Cardinality(A) + 1
        /\ \A k \in A : /\ Cardinality({j \in A : k <= j}) \in 1..Cardinality(A)
                        /\ Cardinality({j \in A \cup {m + 1} : k <= j})
                             = Cardinality({j \in A : k <= j}) + 1
        /\ Cardinality({j \in A \cup {m + 1} : m + 1 <= j}) = 1
    BY <1>1, CountFromEnd
  <2>3. \A k \in A : Since(s, k) \in 1..Cardinality(A)
    BY <2>1, <2>2
  <2>4. \A k \in A : Since(s, k) \in Nat \ {0}
    BY <2>2, <2>3
  <2> QED
    BY <1>3, <2>1, <2>2, <2>4
<1>8. Len(r) = Min({Cardinality(A) + 1, StoreCapacity})
  <2>1. \A x \in Nat : Min({x, StoreCapacity}) = IF x <= StoreCapacity THEN x ELSE StoreCapacity
    BY <1>1, LeastOfTwo
  <2>2. /\ Len(q) = IF Cardinality(A) <= StoreCapacity THEN Cardinality(A) ELSE StoreCapacity
        /\ Cardinality(A) + 1 \in Nat
    BY <1>5, <1>7, <2>1
  <2> DEFINE x == Cardinality(A)
  <2> HIDE DEF x
  <2>3. /\ x \in Nat /\ Len(q) = (IF x <= StoreCapacity THEN x ELSE StoreCapacity)
        /\ Min({x + 1, StoreCapacity}) = (IF x + 1 <= StoreCapacity THEN x + 1 ELSE StoreCapacity)
    BY <1>7, <2>1, <2>2 DEF x
  <2>4. Len(r) = Min({x + 1, StoreCapacity})
    BY <1>1, <1>6, <2>3
  <2> QED
    BY <2>4 DEF x
<1>9. ASSUME NEW k \in AddedFor(s)', NEW i \in Nat, i = Cardinality({j \in AddedFor(s)' : k <= j}),
             i <= Len(r)
      PROVE  r[Len(r) - i + 1] = added'[k]
  <2>0. Len(r) \in Nat \ {0} /\ Len(q) \in Nat
    BY <1>1, <1>6
  <2>1. CASE k = m + 1
    <3>1. i = 1
      BY <1>7, <1>9, <2>1
    <3>2. Len(r) - 1 + 1 = Len(r)
      BY <2>0
    <3> QED
      BY <1>2, <1>6, <2>1, <3>1, <3>2
  <2>2. CASE k # m + 1
    <3> DEFINE o == Since(s, k)
    <3>1. k \in A /\ i = o + 1 /\ o \in Nat \ {0}
      BY <1>3, <1>7, <1>9, <2>2
    <3> HIDE DEF o
    <3>2. o \in 1..(Len(r) - 1) /\ Len(r) - i + 1 = Len(r) - o /\ o <= Len(q)
      BY <1>1, <1>6, <1>9, <2>0, <3>1
    <3>3. r[Len(r) - o] = q[Len(q) - o + 1]
      BY <1>6, <3>2
    <3>4. q[Len(q) - o + 1] = added[k]
      BY <1>5, <3>1, <3>2 DEF o
    <3>5. added'[k] = added[k]
      BY <1>1, <1>2, <3>1
    <3> QED
      BY <3>2, <3>3, <3>4, <3>5
  <2> QED
    BY <2>1, <2>2
<1>10. ASSUME NEW k \in AddedFor(s)'
       PROVE  Cardinality({j \in AddedFor(s)' : k <= j}) \in Nat
  <2>1. k \in A \/ k = m + 1
    BY <1>3, <1>10
  <2>2. ASSUME k \in A PROVE Cardinality({j \in AddedFor(s)' : k <= j}) \in Nat
    <3>1. Cardinality({j \in AddedFor(s)' : k <= j}) = Since(s, k) + 1 /\ Since(s, k) \in Nat
      BY <1>7, <2>2
    <3> QED
      BY <3>1
  <2>3. ASSUME k = m + 1 PROVE Cardinality({j \in AddedFor(s)' : k <= j}) \in Nat
    BY <1>7, <2>3
  <2> QED
    BY <2>1, <2>2, <2>3
<1> QED
  BY <1>4, <1>7, <1>8, <1>9, <1>10 DEF LatestOf, Since

LEMMA AddedElsewhere ==
  ASSUME Types, NEW s \in Sensors, LatestOf(s), NEW n \in Numbers, made[n].sensor # s,
         made' = made, Add(made[n].sensor, n), added' = Append(added, n)
  PROVE  LatestOf(s)'
<1>1. /\ added \in Seq(Numbers) /\ DOMAIN added = 1..Len(added) /\ Len(added) \in Nat
      /\ AddedFor(s) \in SUBSET (1..Len(added))
  BY KeptTypes
<1>2. /\ DOMAIN added' = 1..(Len(added) + 1) /\ added'[Len(added) + 1] = n
      /\ \A k \in 1..Len(added) : added'[k] = added[k]
  BY <1>1, AppendProperties
<1>3. AddedFor(s)' = AddedFor(s) /\ \A k \in AddedFor(s) : added'[k] = added[k]
  BY <1>1, <1>2 DEF AddedFor
<1>4. ReadingsOf(s)' = ReadingsOf(s)
  BY DEF Add, ReadingsOf
<1>5. \A k : Since(s, k)' = Since(s, k)
  BY <1>3 DEF Since
<1> QED
  BY <1>3, <1>4, <1>5 DEF LatestOf

LEMMA NextLatest ==
  ASSUME Types, Controls, InOrder, Latest, [Next]_vars
  PROVE  Latest'
<1>1. CASE UNCHANGED <<data, totalReadings, added>>
  <2>1. ASSUME NEW s \in Sensors PROVE LatestOf(s)'
    <3>1. \A k \in DOMAIN added : made'[added[k]] = made[added[k]]
      <4>1. \A k \in DOMAIN added : added[k] \in Numbers
        BY LenProperties, ElementOfSeq DEF Types, StoreTypes
      <4> QED
        BY <4>1, NextConns DEF Types
    <3>2. AddedFor(s)' = AddedFor(s)
      BY <1>1, <3>1 DEF AddedFor
    <3>3. ReadingsOf(s)' = ReadingsOf(s) /\ added' = added /\ \A k : Since(s, k)' = Since(s, k)
      BY <1>1, <3>2 DEF ReadingsOf, Since
    <3> QED
      BY <3>2, <3>3 DEF Latest, LatestOf
  <2> QED
    BY <2>1 DEF Latest
<1>2. ASSUME NEW c \in 1..conns, ReadingStore(c) \/ BatchStore(c),
             ~UNCHANGED <<data, totalReadings, added>>
      PROVE  Latest'
  <2>1. made' = made /\ Current(c) \in Numbers /\ StoreIfValid(Current(c))
    BY <1>2, HandleEffect
  <2> PICK n \in Numbers : n = Current(c)
    BY <2>1
  <2>2. Add(made[n].sensor, n) /\ added' = Append(added, n)
    BY <1>2, <2>1 DEF StoreIfValid, storeVars
  <2>3. ASSUME NEW s \in Sensors PROVE LatestOf(s)'
    <3>1. LatestOf(s)
      BY DEF Latest
    <3>2. CASE made[n].sensor = s
      BY <2>1, <2>2, <3>1, <3>2, AddedLast
    <3>3. CASE made[n].sensor # s
      BY <2>1, <2>2, <3>1, <3>3, AddedElsewhere
    <3> QED
      BY <3>2, <3>3
  <2> QED
    BY <2>3 DEF Latest
<1> QED
  BY <1>1, <1>2, StoreSteps

(* GetLatest returns the last readings that were added for a sensor, newest *)
(* first, as many as were asked for and are kept.                           *)
ServesTheLatest ==
  \A s \in Sensors, n \in 1..(StoreCapacity + 1) :
    LET latest == GetLatest(s, n)
    IN /\ Len(latest) = Min({n, Cardinality(AddedFor(s)), StoreCapacity})
       /\ latest \in Seq(Numbers)
       /\ \A k \in AddedFor(s) :
            Since(s, k) <= Len(latest) => latest[Since(s, k)] = added[k]

LEMMA LatestIsServed ==
  ASSUME Types, Latest
  PROVE  ServesTheLatest
<1> SUFFICES ASSUME NEW s \in Sensors, NEW n \in 1..(StoreCapacity + 1)
             PROVE  /\ Len(GetLatest(s, n)) = Min({n, Cardinality(AddedFor(s)), StoreCapacity})
                    /\ GetLatest(s, n) \in Seq(Numbers)
                    /\ \A k \in AddedFor(s) : Since(s, k) <= Len(GetLatest(s, n))
                         => GetLatest(s, n)[Since(s, k)] = added[k]
  BY DEF ServesTheLatest
<1> DEFINE q == ReadingsOf(s)
           A == AddedFor(s)
           size == IF n < Len(q) THEN n ELSE Len(q)
           r == GetLatest(s, n)
<1>1. /\ StoreCapacity \in Nat \ {0} /\ q \in Seq(Numbers) /\ Len(q) \in 0..StoreCapacity
      /\ Len(added) \in Nat /\ A \in SUBSET (1..Len(added))
  BY KeptTypes
<1>2. /\ Len(q) = Min({Cardinality(A), StoreCapacity})
      /\ \A k \in A : Since(s, k) <= Len(q) => q[Len(q) - Since(s, k) + 1] = added[k]
  BY DEF Latest, LatestOf
<1>3. r = [i \in 1..size |-> q[Len(q) - i + 1]]
  BY DEF GetLatest
<1>4. Cardinality(A) \in Nat /\ \A k \in A : Since(s, k) \in Nat \ {0}
  <2>1. /\ Cardinality(A) \in Nat
        /\ \A k \in A : Cardinality({j \in A : k <= j}) \in 1..Cardinality(A)
    BY <1>1, CountFromEnd
  <2> HIDE DEF q, r, size
  <2>2. \A k \in A : Since(s, k) \in 1..Cardinality(A)
    BY <2>1 DEF Since
  <2> QED
    BY <2>1, <2>2
<1> HIDE DEF q, A, r
<1>5. size \in Nat /\ size <= Len(q) /\ Len(r) = size /\ r \in Seq(Numbers)
  <2>1. size \in Nat /\ size <= Len(q)
    BY <1>1
  <2>2. \A i \in 1..size : q[Len(q) - i + 1] \in Numbers
    <3>1. \A i \in 1..size : Len(q) - i + 1 \in 1..Len(q)
      BY <1>1, <2>1
    <3> QED
      BY <1>1, <3>1, ElementOfSeq
  <2>3. r \in [1..size -> Numbers]
    BY <1>3, <2>2
  <2>4. r \in Seq(Numbers)
    <3> PICK k \in Nat : k = size
      BY <2>1
    <3>1. r \in [1..k -> Numbers]
      BY <2>3
    <3> QED
      BY <3>1, SeqDef, Zenon
  <2> QED
    BY <1>3, <2>1, <2>4
<1>6. size = Min({n, Cardinality(A), StoreCapacity})
  <2>1. Min({n, Cardinality(A), StoreCapacity}) = Min({n, Len(q)})
    <3>1. n \in Nat /\ Cardinality(A) \in Nat /\ StoreCapacity \in Nat
      BY <1>1, <1>4
    <3>2. Min({n, Cardinality(A), StoreCapacity}) = Min({n, Min({Cardinality(A), StoreCapacity})})
      BY <3>1, LeastOfThree
    <3> QED
      BY <1>2, <3>2
  <2>2. Min({n, Len(q)}) = IF n <= Len(q) THEN n ELSE Len(q)
    BY <1>1, LeastOfTwo
  <2> QED
    BY <1>1, <2>1, <2>2
<1>7. ASSUME NEW k \in A, Since(s, k) <= size
      PROVE  r[Since(s, k)] = added[k]
  <2>1. Since(s, k) \in 1..size /\ Since(s, k) <= Len(q)
    BY <1>1, <1>4, <1>5, <1>7
  <2>2. r[Since(s, k)] = q[Len(q) - Since(s, k) + 1]
    BY <1>3, <2>1
  <2> QED
    BY <1>2, <2>1, <2>2
<1> QED
  BY <1>5, <1>6, <1>7 DEF A, r

-----------------------------------------------------------------------------
(* The invariant holds at the start and is kept by every step. *)

LEMMA InitInductive == Init => IInv
<1> SUFFICES ASSUME Init PROVE IInv
  OBVIOUS
<1>1. /\ conns = 0 /\ addr = <<>> /\ owner = <<>> /\ client = {} /\ open = {} /\ named = {}
      /\ made = <<>> /\ written = <<>> /\ added = <<>> /\ unread = {}
      /\ activeSensors = <<>> /\ connToSensorID = <<>> /\ data = <<>> /\ totalReadings = 0
      /\ pc = [c \in Conns |-> "none"] /\ todo = [c \in Conns |-> <<>>]
      /\ wire = [c \in Conns |-> <<>>] /\ heartbeat = [c \in Conns |-> NoID]
  BY DEF Init, StoreInit
<1>2. /\ DOMAIN <<>> = {} /\ Len(<<>>) = 0 /\ ToSet(<<>>) = {} /\ 1..0 = {}
      /\ \A S : <<>> \in Seq(S) /\ <<>> \in [{} -> S]
      /\ Increasing(<<>>) /\ ReadingsIn(<<>>) = {} /\ OrderedWire(<<>>)
  <2>1. /\ DOMAIN <<>> = {} /\ Len(<<>>) = 0 /\ 1..0 = {}
        /\ \A S : <<>> \in Seq(S) /\ <<>> \in [{} -> S]
    OBVIOUS
  <2> QED
    BY <2>1, EmptyWire DEF ToSet, Increasing
<1>3. Numbers = {}
  BY <1>1, <1>2 DEF Numbers
<1>4. Types
  <2>1. conns \in 0..MaxConns
    BY <1>1, HandlerAssumption DEF HandlerAssumption
  <2>2. ConnTypes(1..conns)
    BY <1>1, <1>2 DEF ConnTypes
  <2>3. StoreTypes(Numbers)
    BY <1>1, <1>2 DEF StoreTypes
  <2>4. LoopTypes(Numbers)
    BY <1>1, <1>2 DEF LoopTypes
  <2>5. MapTypes(1..conns)
    BY <1>1, <1>2 DEF MapTypes
  <2> QED
    BY <2>1, <2>2, <2>3, <2>4, <2>5 DEF Types
<1>5. Controls
  BY <1>1, <1>2 DEF Controls, Control, Busy
<1>6. Maps
  BY <1>1, <1>2 DEF Maps, Sockets, Entries, Names
<1>7. Owned /\ InOrder /\ Halfway /\ Unread /\ OnlyValid
  <2>1. \A c \in Conns : InHand(c) = {} /\ Waiting(c) = {} /\ todo[c] = <<>> /\ wire[c] = <<>> /\ pc[c] = "none"
    BY <1>1, <1>2 DEF InHand, Waiting
  <2>2. Owned
    BY <2>1 DEF Owned
  <2>3. InOrder
    BY <1>1, <1>2, <2>1 DEF InOrder, OrderOn, Before
  <2>4. Halfway /\ Unread /\ OnlyValid
    BY <1>1, <1>2, <2>1 DEF Halfway, Unread, OnlyValid
  <2> QED
    BY <2>2, <2>3, <2>4
<1>8. ConnectionOrder
  BY <1>1, <1>2 DEF ConnectionOrder, InConnectionOrder
<1>9. Agree
  BY <1>1, <1>2 DEF Agree
<1>10. Accounted
  BY <1>3 DEF Accounted
<1>11. Latest
  <2>1. ASSUME NEW s \in Sensors PROVE LatestOf(s)
    <3>1. AddedFor(s) = {} /\ ReadingsOf(s) = <<>>
      BY <1>1, <1>2 DEF AddedFor, ReadingsOf
    <3>2. Cardinality({}) = 0
      BY FS_EmptySet
    <3>3. Min({0, StoreCapacity}) = 0
      BY LeastOfTwo, MemoryStoreAssumption DEF MemoryStoreAssumption
    <3> QED
      BY <1>2, <3>1, <3>2, <3>3 DEF LatestOf
  <2> QED
    BY <2>1 DEF Latest
<1> QED
  BY <1>4, <1>5, <1>6, <1>7, <1>8, <1>9, <1>10, <1>11, AgreeIsAgreement, AccountedIsHandled DEF IInv

LEMMA NextInductive == IInv /\ [Next]_vars => IInv'
<1> SUFFICES ASSUME IInv, [Next]_vars PROVE IInv'
  OBVIOUS
<1>1. /\ Types /\ Controls /\ Maps /\ Owned /\ InOrder /\ ConnectionOrder /\ Halfway /\ Unread
      /\ OnlyValid /\ Latest /\ Agree /\ Accounted
  BY AgreeIsAgreement, AccountedIsHandled DEF IInv
<1>2. Types' /\ Controls' /\ Maps'
  BY <1>1, NextTypes, NextControls, NextMaps
<1>3. Owned' /\ InOrder' /\ ConnectionOrder' /\ Halfway' /\ OnlyValid' /\ Unread' /\ Latest'
  BY <1>1, NextOwned, NextInOrder, NextConnectionOrder, NextHalfway, NextUnread, NextLatest
<1>4. StoreAndDatabaseAgree'
  <2>1. Agree'
    BY <1>1, <1>2, NextAgree
  <2>2. ASSUME Types', ConnectionOrder', OnlyValid', Agree' PROVE StoreAndDatabaseAgree'
    BY <2>2, AgreeIsAgreement, PTL
  <2> QED
    BY <1>2, <1>3, <2>1, <2>2
<1>5. ReadMeansHandled'
  <2>1. Accounted'
    BY <1>1, NextAccounted
  <2> QED
    BY <1>2, <1>3, <2>1, AccountedIsHandled, PTL
<1> QED
  BY <1>2, <1>3, <1>4, <1>5 DEF IInv

(* The invariant that all the others follow from. *)
THEOREM Inductive == Spec => []IInv
BY InitInductive, NextInductive, PTL DEF Spec

(* Every variable has its type; in particular every address in the maps is  *)
(* one, and every reading the goroutines and the stores hold has been made.  *)
THEOREM TypeCorrect == Spec => []HandlerTypeOK
<1>1. IInv => HandlerTypeOK
  BY TypesAreTheTypes DEF IInv
<1> QED
  BY <1>1, Inductive, PTL

(* GetActiveSensors lists the connections that are served, and only those,  *)
(* under the names they gave themselves, however often an address returns.  *)
THEOREM Listed == Spec => []ListsTheServed
<1>1. IInv => ListsTheServed
  BY MapsListTheServed DEF IInv
<1> QED
  BY <1>1, Inductive, PTL

(* Every reading that was read from a connection is handled to its end, once. *)
THEOREM Handled == Spec => []ReadMeansHandled
<1>1. IInv => ReadMeansHandled
  BY DEF IInv
<1> QED
  BY <1>1, Inductive, PTL

(* The MemoryStore and the DBWriter are given the same valid readings, each *)
(* once, although handleReading and handleBatch give them in a different    *)
(* order and the goroutines interleave between the two.                     *)
THEOREM Agreement == Spec => []StoreAndDatabaseAgree
<1>1. IInv => StoreAndDatabaseAgree
  BY DEF IInv
<1> QED
  BY <1>1, Inductive, PTL

(* The readings of a connection reach both in the order of measurement. *)
THEOREM InOrderOfMeasurement == Spec => []ConnectionOrder
<1>1. IInv => ConnectionOrder
  BY DEF IInv
<1> QED
  BY <1>1, Inductive, PTL

-----------------------------------------------------------------------------
(* Readings that come late.  The goroutine of an earlier connection may     *)
(* still have some when the sensor dials again; a sensor writes on its last *)
(* connection only, so no others can come after newer ones.                 *)

OwnSensor == \A n \in Numbers : made[n].sensor = owner[made[n].conn]

OneClient == \A c, d \in 1..conns : c < d /\ owner[c] = owner[d] => c \notin client

MadeInTurn ==
  \A m, n \in Numbers : m < n /\ made[m].sensor = made[n].sensor => made[m].conn <= made[n].conn

Overtaken == \A c, d \in 1..conns : c < d /\ owner[c] = owner[d] => Unhandled(c) \subseteq overtaken

LateOnes ==
  \A k, l \in DOMAIN added :
    k < l /\ made[added[k]].sensor = made[added[l]].sensor
      => added[k] < added[l] \/ added[l] \in overtaken

Turns == OwnSensor /\ OneClient /\ MadeInTurn

LEMMA TurnSteps ==
  ASSUME [Next]_vars
  PROVE  \/ Dials
         \/ \E c \in 1..conns : Sends(c)
         \/ UNCHANGED <<conns, owner, made, overtaken>> /\ client' \subseteq client
<1>1. ASSUME NEW c \in 1..conns, ClientCloses(c) \/ ClientResets(c) \/ HandleConnection(c)
      PROVE  UNCHANGED <<conns, owner, made, overtaken>> /\ client' \subseteq client
  <2>1. UNCHANGED <<conns, owner, made>>
    BY <1>1, OthersKeepConns
  <2>2. overtaken' = overtaken /\ client' \subseteq client
    BY <1>1 DEF ClientCloses, ClientResets, HandleConnection, Register, Receive, ReadEnds, Deadline,
       Leave, RemoveSensor, CloseConn, ReadingWrite, ReadingStore, BatchStore, BatchWrite,
       NameSensor, UpdateSensorLastSeen, tcpVars
  <2> QED
    BY <2>1, <2>2
<1>2. UNCHANGED vars => UNCHANGED <<conns, owner, made, overtaken>> /\ client' \subseteq client
  BY DEF vars, tcpVars, sensorVars
<1> QED
  BY <1>1, <1>2, Steps

(* The readings a step makes are those of the last connection of a sensor.  *)
LEMMA NextTurns ==
  ASSUME Types, InOrder, Turns, [Next]_vars
  PROVE  Turns'
<1>0. /\ conns \in Nat /\ Numbers \subseteq Nat /\ 1..conns \subseteq 1..conns'
      /\ \A n \in Numbers : made'[n] = made[n] /\ made[n].conn \in 1..conns
      /\ \A c \in 1..conns : owner'[c] = owner[c]
      /\ OwnSensor /\ OneClient /\ MadeInTurn
  <2>1. conns \in 0..MaxConns /\ ConnTypes(1..conns)
    BY DEF Types
  <2>2. conns \in Nat
    BY <2>1, HandlerAssumption DEF HandlerAssumption
  <2>3. Numbers \subseteq Nat
    BY AllAreNumbers
  <2>4. /\ 1..conns \subseteq 1..conns'
        /\ \A n \in Numbers : made'[n] = made[n]
        /\ \A c \in 1..conns : owner'[c] = owner[c]
    BY <2>1, NextConns
  <2>5. \A n \in Numbers : made[n].conn \in 1..conns
    BY MadeIsTyped
  <2> QED
    BY <2>2, <2>3, <2>4, <2>5 DEF Turns
<1>1. ASSUME Numbers' = Numbers PROVE OwnSensor' /\ MadeInTurn'
  BY <1>0, <1>1 DEF OwnSensor, MadeInTurn
<1>2. CASE Dials
  <2> PICK s \in Sensors, a \in Addrs : Dial(s, a)
    BY <1>2 DEF Dials
  <2>1. /\ made' = made /\ conns' = conns + 1 /\ client' = client \cup {conns + 1}
        /\ owner' = Append(owner, s)
        /\ \A c \in 1..conns : owner[c] = s => c \notin client
    BY DEF Dial, sensorVars
  <2>2. owner'[conns + 1] = s
    <3>1. owner \in Seq(Sensors) /\ Len(owner) = conns
      BY <1>0 DEF Types, ConnTypes
    <3> QED
      BY <2>1, <3>1, AppendProperties
  <2>3. Numbers' = Numbers
    BY <2>1 DEF Numbers
  <2>4. ASSUME NEW c \in 1..conns', NEW d \in 1..conns', c < d, owner'[c] = owner'[d]
        PROVE  c \notin client'
    <3>1. c \in 1..conns /\ owner'[c] = owner[c] /\ c # conns + 1
      <4>1. conns \in Nat /\ c \in 1..(conns + 1) /\ d \in 1..(conns + 1)
        BY <1>0, <2>1
      <4>2. c \in 1..conns /\ c # conns + 1
        BY <2>4, <4>1
      <4> QED
        BY <1>0, <4>2
    <3>2. CASE d = conns + 1
      BY <2>1, <2>2, <2>4, <3>1, <3>2
    <3>3. CASE d # conns + 1
      <4>1. d \in 1..conns
        BY <1>0, <2>1, <2>4, <3>3
      <4> QED
        BY <1>0, <2>1, <2>4, <3>1, <4>1 DEF OneClient
    <3> QED
      BY <3>2, <3>3
  <2> QED
    BY <1>1, <2>3, <2>4 DEF OneClient, Turns
<1>3. ASSUME NEW c \in 1..conns, Sends(c)
      PROVE  Turns'
  <2>1. PICK new \in Messages(Numbers') :
          /\ SendMessage(c, new)
          /\ ToSet(new.readings) = New
          /\ \A n \in ToSet(new.readings) : made'[n].conn = c /\ made'[n].sensor = owner[c]
    BY <1>3, SentMessage DEF New
  <2>2. c \in client /\ UNCHANGED <<conns, owner, client>>
    BY <2>1 DEF SendMessage, tcpVars
  <2>3. \A n \in New : made'[n].conn = c /\ made'[n].sensor = owner[c]
    BY <2>1
  <2>4. \A n \in Numbers, m \in New : n < m
    BY <1>3, SendEffect
  <2>5. OneClient'
    BY <1>0, <2>2 DEF OneClient
  <2>6. OwnSensor'
    BY <1>0, <2>2, <2>3 DEF OwnSensor, New
  <2>7. ASSUME NEW m \in Numbers', NEW n \in Numbers', m < n, made'[m].sensor = made'[n].sensor
        PROVE  made'[m].conn <= made'[n].conn
    <3>1. CASE n \in Numbers
      <4>1. m \in Numbers
        <5>1. m \notin New
          BY <1>0, <2>4, <2>7, <3>1 DEF New, Numbers
        <5> QED
          BY <5>1 DEF New
      <4> QED
        BY <1>0, <2>7, <3>1, <4>1 DEF MadeInTurn
    <3>2. CASE n \in New /\ m \in New
      BY <2>3, <3>2
    <3>3. CASE n \in New /\ m \in Numbers
      <4>1. made'[m].conn \in 1..conns /\ owner[made'[m].conn] = owner[c] /\ made'[n].conn = c
        BY <1>0, <2>3, <2>7, <3>3 DEF OwnSensor
      <4>2. ~(c < made'[m].conn)
        BY <1>0, <2>2, <4>1 DEF OneClient
      <4> QED
        BY <1>0, <4>1, <4>2
    <3> QED
      BY <3>1, <3>2, <3>3 DEF New
  <2> QED
    BY <2>5, <2>6, <2>7 DEF MadeInTurn, Turns
<1>4. CASE UNCHANGED <<conns, owner, made, overtaken>> /\ client' \subseteq client
  <2>1. Numbers' = Numbers
    BY <1>4 DEF Numbers
  <2> QED
    BY <1>0, <1>1, <1>4, <2>1 DEF OneClient, Turns
<1> QED
  BY <1>2, <1>3, <1>4, TurnSteps

(* What a connection has when its sensor dials again is overtaken, and it   *)
(* gets nothing more.                                                       *)
LEMMA NextOvertaken ==
  ASSUME Types, Controls, InOrder, Turns, Overtaken, [Next]_vars
  PROVE  Overtaken' /\ overtaken \subseteq overtaken'
<1>0. /\ conns \in Nat /\ OneClient
      /\ \A c \in 1..conns : owner'[c] = owner[c] /\ c \in Conns
  BY HandlerAssumption, NextConns, AllAreNumbers DEF HandlerAssumption, Types, Turns
<1>1. CASE Dials
  <2> PICK s \in Sensors, a \in Addrs : Dial(s, a)
    BY <1>1 DEF Dials
  <2>1. /\ UNCHANGED <<wire, todo>> /\ conns' = conns + 1 /\ owner' = Append(owner, s)
        /\ overtaken' = overtaken \cup UNION {Unhandled(c) : c \in {d \in 1..conns : owner[d] = s}}
    BY DEF Dial, wireVars
  <2>2. owner'[conns + 1] = s
    <3>1. owner \in Seq(Sensors) /\ Len(owner) = conns
      BY <1>0 DEF Types, ConnTypes
    <3> QED
      BY <2>1, <3>1, AppendProperties
  <2>3. ASSUME NEW c \in 1..conns', NEW d \in 1..conns', c < d, owner'[c] = owner'[d]
        PROVE  Unhandled(c)' \subseteq overtaken'
    <3>1. c \in 1..conns /\ owner'[c] = owner[c] /\ Unhandled(c)' = Unhandled(c)
      <4>1. c \in 1..conns
        BY <1>0, <2>1, <2>3
      <4> QED
        BY <1>0, <2>1, <4>1 DEF Unhandled
    <3>2. CASE d = conns + 1
      <4>1. c \in {e \in 1..conns : owner[e] = s}
        BY <2>2, <2>3, <3>1, <3>2
      <4>2. Unhandled(c) \in {Unhandled(e) : e \in {f \in 1..conns : owner[f] = s}}
        BY <4>1
      <4> QED
        BY <2>1, <3>1, <4>2
    <3>3. CASE d # conns + 1
      <4>1. d \in 1..conns
        BY <1>0, <2>1, <2>3, <3>3
      <4> QED
        BY <1>0, <2>1, <2>3, <3>1, <4>1 DEF Overtaken
    <3> QED
      BY <3>2, <3>3
  <2> QED
    BY <2>1, <2>3 DEF Overtaken
<1>2. CASE ~Dials
  <2>1. UNCHANGED <<conns, owner, overtaken>>
    <3>1. ASSUME NEW c \in 1..conns, Sends(c) PROVE UNCHANGED <<conns, owner, overtaken>>
      BY <3>1 DEF Sends, SendHeartbeat, SendReading, SendBatch, SendMessage, tcpVars
    <3> QED
      BY <1>2, <3>1, TurnSteps
  <2>2. ASSUME NEW c \in 1..conns, NEW d \in 1..conns, c < d, owner[c] = owner[d]
        PROVE  Unhandled(c)' \subseteq overtaken
    <3>1. c \in Conns /\ c \notin client /\ Unhandled(c) \subseteq overtaken
      BY <1>0, <2>2 DEF OneClient, Overtaken
    <3>2. Unhandled(c) = InHand(c) \cup Waiting(c) /\ Unhandled(c)' = InHand(c)' \cup Waiting(c)'
      BY DEF Unhandled, InHand, Waiting
    <3>3. InHand(c)' \cup Waiting(c)' \subseteq InHand(c) \cup Waiting(c)
      <4>1. CASE Quiet
        BY <4>1 DEF Quiet, InHand, Waiting
      <4>2. ASSUME NEW e \in 1..conns, Handles(e), Others(e), e # c
            PROVE  InHand(c)' \cup Waiting(c)' \subseteq InHand(c) \cup Waiting(c)
        BY <3>1, <4>2 DEF Others
      <4>3. ASSUME Handles(c)
            PROVE  InHand(c)' \cup Waiting(c)' \subseteq InHand(c) \cup Waiting(c)
        <5>1. ~Sends(c)
          BY <3>1 DEF Sends, SendHeartbeat, SendReading, SendBatch, SendMessage
        <5>2. CASE Lost(c)
          BY <5>2, LostEffect DEF InHand
        <5>3. CASE Receive(c)
          BY <5>3, ReceiveEffect
        <5>4. CASE ReadingWrite(c) \/ ReadingStore(c) \/ BatchStore(c) \/ BatchWrite(c)
          BY <5>4, HandleEffect
        <5> QED
          BY <4>3, <5>1, <5>2, <5>3, <5>4 DEF Handles
      <4> QED
        BY <4>1, <4>2, <4>3, HandleSteps
    <3> QED
      BY <3>1, <3>2, <3>3
  <2> QED
    BY <2>1, <2>2 DEF Overtaken
<1> QED
  BY <1>1, <1>2

(* A reading that is added has older ones of its connection before it, and  *)
(* older ones of earlier connections; where one of a later connection is    *)
(* before it, it was overtaken.                                             *)
LEMMA NextLateOnes ==
  ASSUME Types, Controls, Owned, InOrder, Turns, Overtaken, LateOnes, [Next]_vars
  PROVE  LateOnes'
<1>0. /\ added \in Seq(Numbers) /\ Len(added) \in Nat /\ DOMAIN added = 1..Len(added)
      /\ \A k \in DOMAIN added : added[k] \in Numbers /\ added[k] \in ToSet(added)
      /\ \A n \in Numbers : made'[n] = made[n] /\ made[n].conn \in 1..conns
      /\ \A c \in 1..conns : c \in Conns
      /\ Numbers \subseteq Nat /\ conns \in Nat
  <2>1. added \in Seq(Numbers) /\ conns \in Nat
    BY HandlerAssumption DEF HandlerAssumption, Types, StoreTypes
  <2>2. /\ Len(added) \in Nat /\ DOMAIN added = 1..Len(added)
        /\ \A k \in DOMAIN added : added[k] \in Numbers /\ added[k] \in ToSet(added)
    BY <2>1, LenProperties, ElementOfSeq, SetOf
  <2> QED
    BY <2>1, <2>2, NextConns, MadeIsTyped, AllAreNumbers DEF Types
<1>1. overtaken \subseteq overtaken'
  BY NextOvertaken
<1>2. CASE added' = added
  BY <1>0, <1>1, <1>2 DEF LateOnes
<1>3. ASSUME NEW c \in 1..conns, ReadingStore(c) \/ BatchStore(c), added' # added
      PROVE  LateOnes'
  <2>1. /\ made' = made /\ Current(c) \in Numbers /\ Current(c) \in InHand(c)
        /\ pc[c] # "batchWrite" /\ StoreIfValid(Current(c))
    BY <1>3, HandleEffect
  <2> PICK n \in Numbers : n = Current(c)
    BY <2>1
  <2>2. added' = Append(added, n)
    BY <1>3, <2>1 DEF StoreIfValid
  <2>3. made[n].conn = c /\ \A m \in HandledOn(c, added) : m < n
    BY <1>0, <2>1 DEF Owned, InOrder, OrderOn
  <2>4. /\ DOMAIN added' = 1..(Len(added) + 1) /\ added'[Len(added) + 1] = n
        /\ \A k \in 1..Len(added) : added'[k] = added[k]
    BY <1>0, <2>2, AppendProperties
  <2>5. ASSUME NEW k \in 1..Len(added), made[added[k]].sensor = made[n].sensor
        PROVE  added[k] < n \/ n \in overtaken
    <3> PICK p \in Numbers : p = added[k] /\ p \in ToSet(added)
      BY <1>0
    <3> PICK e \in 1..conns : e = made[p].conn
      BY <1>0
    <3>1. owner[e] = owner[c]
      BY <2>3, <2>5 DEF Turns, OwnSensor
    <3>2. CASE e = c
      BY <2>3, <3>2 DEF HandledOn
    <3>3. CASE e < c
      <4>1. ~(n < p)
        <5>1. n < p => made[n].conn <= made[p].conn
          BY <2>5 DEF Turns, MadeInTurn
        <5> QED
          BY <1>0, <2>3, <3>3, <5>1
      <4>2. n # p
        BY <2>3, <3>3, <1>0
      <4> QED
        BY <1>0, <4>1, <4>2
    <3>4. CASE c < e
      <4>1. n \in Unhandled(c)
        BY <2>1 DEF Unhandled, InHand
      <4> QED
        BY <3>1, <3>4, <4>1 DEF Overtaken
    <3> QED
      BY <1>0, <3>2, <3>3, <3>4
  <2>6. ASSUME NEW k \in DOMAIN added', NEW l \in DOMAIN added', k < l,
               made'[added'[k]].sensor = made'[added'[l]].sensor
        PROVE  added'[k] < added'[l] \/ added'[l] \in overtaken'
    <3>1. k \in 1..Len(added) /\ added'[k] = added[k]
      BY <1>0, <2>4, <2>6
    <3>2. CASE l = Len(added) + 1
      BY <1>1, <2>1, <2>4, <2>5, <2>6, <3>1, <3>2
    <3>3. CASE l # Len(added) + 1
      <4>1. l \in 1..Len(added) /\ added'[l] = added[l]
        BY <1>0, <2>4, <2>6, <3>3
      <4> QED
        BY <1>0, <1>1, <2>1, <2>6, <3>1, <4>1 DEF LateOnes
    <3> QED
      BY <3>2, <3>3
  <2> QED
    BY <2>6 DEF LateOnes
<1> QED
  BY <1>2, <1>3, StoreSteps

LateInv == Turns /\ Overtaken /\ LateOnes

LEMMA LateInductive ==
  /\ Init => LateInv
  /\ IInv /\ LateInv /\ [Next]_vars => LateInv'
<1>1. ASSUME Init PROVE LateInv
  <2>1. conns = 0 /\ made = <<>> /\ added = <<>>
    BY <1>1 DEF Init
  <2>2. Numbers = {} /\ 1..conns = {} /\ DOMAIN added = {}
    BY <2>1 DEF Numbers
  <2> QED
    BY <2>2 DEF LateInv, Turns, OwnSensor, OneClient, MadeInTurn, Overtaken, LateOnes
<1>2. ASSUME IInv, LateInv, [Next]_vars PROVE LateInv'
  <2>1. Types /\ Controls /\ Owned /\ InOrder /\ Turns /\ Overtaken /\ LateOnes
    BY <1>2 DEF IInv, LateInv
  <2> QED
    BY <1>2, <2>1, NextTurns, NextOvertaken, NextLateOnes DEF LateInv
<1> QED
  BY <1>1, <1>2

(* Places are counted without gaps: an earlier one has more from it on, and *)
(* every count up to their number is one place's.                           *)
LEMMA EveryCount ==
  ASSUME NEW m \in Nat, NEW A \in SUBSET (1..m)
  PROVE  /\ \A k, l \in A : k < l =>
              Cardinality({j \in A : l <= j}) < Cardinality({j \in A : k <= j})
         /\ \A i \in 1..Cardinality(A) : \E k \in A : Cardinality({j \in A : k <= j}) = i
<1> DEFINE From(k) == {j \in A : k <= j}
           f == [k \in A |-> Cardinality(From(k))]
<1>1. IsFiniteSet(A) /\ Cardinality(A) \in Nat
  <2>1. IsFiniteSet(1..m)
    BY FS_Interval
  <2>2. IsFiniteSet(A)
    BY <2>1, FS_Subset
  <2> QED
    BY <2>2, FS_CardinalityType
<1>2. \A k \in A : k \in Nat /\ k \in From(k) /\ From(k) \in SUBSET A
  OBVIOUS
<1>3. \A k \in A : Cardinality(From(k)) \in 1..Cardinality(A)
  BY CountFromEnd
<1>4. ASSUME NEW k \in A, NEW l \in A, k < l
      PROVE  Cardinality(From(l)) < Cardinality(From(k))
  <2>0. ~(l <= k) /\ \A j \in A : l <= j => k <= j
    BY <1>2, <1>4
  <2>1. From(l) \in SUBSET From(k) /\ k \notin From(l) /\ k \in From(k)
    BY <1>2, <2>0, Zenon
  <2>2. IsFiniteSet(From(k))
    BY <1>1, <1>2, FS_Subset
  <2>3. Cardinality(From(l)) \in Nat /\ Cardinality(From(k)) \in Nat
    BY <1>1, <1>3
  <2> HIDE DEF From
  <2>4. /\ Cardinality(From(l)) <= Cardinality(From(k))
        /\ Cardinality(From(l)) = Cardinality(From(k)) => From(l) = From(k)
    BY <2>1, <2>2, FS_Subset
  <2>5. Cardinality(From(l)) # Cardinality(From(k))
    BY <2>1, <2>4
  <2> QED
    BY <2>3, <2>4, <2>5
<1> HIDE DEF From
<1>5. f \in Injection(A, 1..Cardinality(A))
  <2>1. ASSUME NEW k \in A, NEW l \in A, f[k] = f[l]
        PROVE  k = l
    <3>1. ~(k < l) /\ ~(l < k)
      BY <1>1, <1>3, <1>4, <2>1
    <3> QED
      BY <1>2, <3>1
  <2>2. f \in [A -> 1..Cardinality(A)]
    BY <1>3
  <2> HIDE DEF f
  <2> QED
    BY <2>1, <2>2 DEF Injection, IsInjective
<1>6. f \in Surjection(A, 1..Cardinality(A))
  <2> DEFINE n == Cardinality(A)
  <2>1. IsFiniteSet(1..n) /\ Cardinality(1..n) = n
    BY <1>1, FS_Interval
  <2> HIDE DEF f
  <2> QED
    BY <1>5, <2>1, FS_Injection
<1>7. \A i \in 1..Cardinality(A) : \E k \in A : Cardinality(From(k)) = i
  <2>1. \A i \in 1..Cardinality(A) : \E k \in A : f[k] = i
    <3> HIDE DEF f
    <3> QED
      BY <1>6 DEF Surjection
  <2> QED
    BY <2>1
<1> QED
  BY <1>4, <1>7 DEF From

(* A reading is in the store once. *)
LEMMA StoredOnce ==
  ASSUME Types, ConnectionOrder, NEW s \in Sensors
  PROVE  Cardinality(AddedFor(s)) = Cardinality({m \in ToSet(added) : made[m].sensor = s})
<1> DEFINE A == AddedFor(s)
           stored == {m \in ToSet(added) : made[m].sensor = s}
           f == [k \in A |-> added[k]]
<1>1. /\ added \in Seq(Numbers) /\ DOMAIN added = 1..Len(added) /\ Len(added) \in Nat
      /\ AddedFor(s) \in SUBSET (1..Len(added))
  BY KeptTypes
<1>2. \A k, l \in DOMAIN added : added[k] = added[l] => k = l
  BY <1>1, OrderedOnce DEF ConnectionOrder, IsInjective
<1>3. IsFiniteSet(A)
  <2>1. PICK m \in Nat : m = Len(added)
    BY <1>1
  <2>2. IsFiniteSet(1..m)
    BY FS_Interval
  <2> QED
    BY <1>1, <2>1, <2>2, FS_Subset
<1>4. \A m : m \in stored <=> \E k \in A : m = added[k]
  BY DEF AddedFor, ToSet
<1>5. \A k \in A : k \in DOMAIN added
  BY DEF AddedFor
<1> HIDE DEF A, stored
<1>6. f \in Bijection(A, stored)
  <2>1. f \in [A -> stored]
    BY <1>4
  <2>2. \A k, l \in A : f[k] = f[l] => k = l
    BY <1>2, <1>5
  <2>3. \A m \in stored : \E k \in A : f[k] = m
    BY <1>4
  <2> HIDE DEF f
  <2> QED
    BY <2>1, <2>2, <2>3 DEF Bijection, Injection, Surjection, IsInjective
<1>7. Cardinality(stored) = Cardinality(A)
  <2>1. ExistsBijection(A, stored)
    BY <1>6 DEF ExistsBijection
  <2> QED
    BY <1>3, <2>1, FS_Bijection
<1> QED
  BY <1>7 DEF A, stored

(* The last readings added are the most recent ones but for those overtaken. *)
LEMMA LatestAreMostRecent ==
  ASSUME Types, ConnectionOrder, ServesTheLatest, LateOnes
  PROVE  ServesTheMostRecent
<1> SUFFICES ASSUME NEW s \in Sensors, NEW n \in 1..(StoreCapacity + 1)
             PROVE  LET stored == {m \in ToSet(added) : made[m].sensor = s}
                        latest == GetLatest(s, n)
                    IN /\ Len(latest) = Min({n, Cardinality(stored), StoreCapacity})
                       /\ \A i \in DOMAIN latest :
                            /\ latest[i] \in stored
                            /\ latest[i] \in overtaken
                                 \/ \A m \in stored : m > latest[i]
                                      => \E j \in 1..(i - 1) : latest[j] = m
  BY DEF ServesTheMostRecent
<1> DEFINE stored == {m \in ToSet(added) : made[m].sensor = s}
           latest == GetLatest(s, n)
           A == AddedFor(s)
<1>1. /\ Len(latest) = Min({n, Cardinality(A), StoreCapacity})
      /\ latest \in Seq(Numbers)
      /\ \A k \in A : Since(s, k) <= Len(latest) => latest[Since(s, k)] = added[k]
  BY DEF ServesTheLatest
<1>2. Cardinality(A) = Cardinality(stored)
  BY StoredOnce
<1>3. /\ Len(added) \in Nat /\ DOMAIN added = 1..Len(added) /\ A \in SUBSET (1..Len(added))
      /\ added \in Seq(Numbers) /\ StoreCapacity \in Nat
  BY KeptTypes
<1>4. /\ \A k, l \in A : k < l => Since(s, l) < Since(s, k)
      /\ \A i \in 1..Cardinality(A) : \E k \in A : Since(s, k) = i
      /\ Cardinality(A) \in Nat
      /\ \A k \in A : Since(s, k) \in 1..Cardinality(A)
  <2> PICK m \in Nat : m = Len(added)
    BY <1>3
  <2>1. A \in SUBSET (1..m)
    BY <1>3
  <2> HIDE DEF A
  <2>2. /\ \A k, l \in A : k < l =>
              Cardinality({j \in A : l <= j}) < Cardinality({j \in A : k <= j})
        /\ \A i \in 1..Cardinality(A) : \E k \in A : Cardinality({j \in A : k <= j}) = i
        /\ Cardinality(A) \in Nat
        /\ \A k \in A : Cardinality({j \in A : k <= j}) \in 1..Cardinality(A)
    BY <2>1, EveryCount, CountFromEnd
  <2>3. \A k : Since(s, k) = Cardinality({j \in A : k <= j})
    BY DEF Since, A
  <2> QED
    BY <2>2, <2>3
<1>5. /\ \A m : m \in stored <=> \E k \in A : m = added[k]
      /\ \A k \in A : k \in DOMAIN added /\ made[added[k]].sensor = s /\ added[k] \in Nat
  <2>1. \A k \in DOMAIN added : added[k] \in Nat
    BY <1>3, ElementOfSeq DEF Numbers
  <2> QED
    BY <2>1 DEF AddedFor, ToSet
<1>6. Len(latest) \in Nat /\ DOMAIN latest = 1..Len(latest) /\ Len(latest) <= Cardinality(A)
  <2>1. Len(latest) \in Nat /\ DOMAIN latest = 1..Len(latest)
    BY <1>1, LenProperties
  <2>2. Min({n, Cardinality(A), StoreCapacity}) <= Cardinality(A)
    <3> PICK a \in Nat, b \in Nat, d \in Nat : a = n /\ b = Cardinality(A) /\ d = StoreCapacity
      BY <1>3, <1>4
    <3>1. \E x \in {a, b, d} : \A y \in {a, b, d} : x <= y
      OBVIOUS
    <3>2. Min({a, b, d}) <= b
      BY <3>1 DEF Min
    <3> QED
      BY <3>2
  <2> QED
    BY <1>1, <2>1, <2>2
<1> HIDE DEF A, latest, stored
<1>7. ASSUME NEW i \in DOMAIN latest
      PROVE  /\ latest[i] \in stored
             /\ latest[i] \in overtaken
                  \/ \A m \in stored : m > latest[i] => \E j \in 1..(i - 1) : latest[j] = m
  <2>0. i \in 1..Cardinality(A) /\ i <= Len(latest) /\ i \in Nat
    BY <1>4, <1>6
  <2> PICK k \in A : Since(s, k) = i
    BY <1>4, <2>0
  <2>1. latest[i] = added[k] /\ added[k] \in stored
    BY <1>1, <1>5, <2>0
  <2>2. ASSUME latest[i] \notin overtaken, NEW m \in stored, m > latest[i]
        PROVE  \E j \in 1..(i - 1) : latest[j] = m
    <3> PICK l \in A : m = added[l]
      BY <1>5
    <3>1. ~(l < k)
      <4>1. l < k => added[l] < added[k] \/ added[k] \in overtaken
        BY <1>5 DEF LateOnes
      <4>2. ~(added[l] < added[k])
        BY <1>5, <2>1, <2>2
      <4> QED
        BY <2>1, <2>2, <4>1, <4>2
    <3>2. l # k
      BY <1>5, <2>1, <2>2
    <3>3. k < l
      <4>1. k \in Nat /\ l \in Nat
        BY <1>3
      <4> QED
        BY <3>1, <3>2, <4>1
    <3>4. Since(s, l) < i /\ Since(s, l) \in 1..Cardinality(A)
      BY <1>4, <3>3
    <3>5. Since(s, l) \in 1..(i - 1) /\ Since(s, l) <= Len(latest)
      BY <1>4, <1>6, <2>0, <3>4
    <3>6. latest[Since(s, l)] = m
      BY <1>1, <3>5
    <3> QED
      BY <3>5, <3>6
  <2> QED
    BY <2>1, <2>2
<1> QED
  BY <1>1, <1>2, <1>7 DEF stored, latest

(* GetLatest serves the most recent readings of a sensor, newest first, for *)
(* any number of connections, any capacity and any number asked for; only   *)
(* those that were not handled when their sensor dialed again can be out of *)
(* place.                                                                   *)
THEOREM MostRecentServed == Spec => []ServesTheMostRecent
<1>1. IInv /\ LateInv => ServesTheMostRecent
  BY LatestIsServed, LatestAreMostRecent DEF IInv, LateInv
<1> QED
  BY <1>1, Inductive, LateInductive, PTL DEF Spec

=============================================================================
