------------------------------- MODULE Handler -------------------------------
(***************************************************************************)
(* internal/server/handler.go: the server's end of the sensor connections. *)
(* Every connection has a goroutine (handleConnection) that registers it,  *)
(* handles its messages one by one and removes it.  The goroutines share   *)
(* the two maps under h.mutex, the MemoryStore and the DBWriter.           *)
(*                                                                         *)
(* A connection is the number of its upgrade.  A reading is its number in  *)
(* the order of measurement; made says whose it is, on which connection it *)
(* was sent, and whether IsValid() accepts it.  The acknowledgment after   *)
(* every message changes nothing here, whether it can be written or not.   *)
(***************************************************************************)
EXTENDS MemoryStore, SequencesExt

CONSTANTS
  Sensors,            \* sensor IDs
  Addrs,              \* remote addresses, the keys of the maps
  NoID,               \* the empty sensor ID
  MaxConns,           \* bound on the number of connections
  MaxMessages         \* bound on the number of messages

ASSUME HandlerAssumption ==
  /\ NoID \notin Sensors \cup Addrs
  /\ Sensors \cap Addrs = {}
  /\ MaxConns \in Nat
  /\ MaxMessages \in Nat

VARIABLES
  conns,            \* number of connections so far
  addr,             \* conn.RemoteAddr() of each
  owner,            \* the sensor at the other end of each
  client,           \* connections open at the sensor's end
  open,             \* connections open at the server's end
  overtaken,        \* history: readings not handled when their sensor dialed again
  wire,             \* messages written by the sensor and not yet read
  pc,               \* where handleConnection is
  todo,             \* readings of the message being handled that remain
  heartbeat,        \* sensor ID of the heartbeat being handled
  activeSensors,    \* h.activeSensors: address -> entry
  connToSensorID,   \* h.connToSensorID: address -> sensor ID
  made,             \* history: every reading sent
  messages,         \* number of messages sent
  written,          \* history: readings given to DBWriter.Write, in order
  added,            \* history: readings added to the store, in order
  named,            \* history: connections that sent a heartbeat with an ID
  unread            \* history: readings that no goroutine read

tcpVars     == <<conns, addr, owner, client, open, overtaken>>
sensorVars  == <<made, messages>>
wireVars    == <<wire, unread>>
handlerVars == <<wireVars, pc, todo, heartbeat>>
mapVars     == <<activeSensors, connToSensorID, named>>
vars        == <<storeVars, tcpVars, handlerVars, mapVars, sensorVars, written, added>>

Conns == 1..MaxConns

Heartbeat(id) == [kind |-> "heartbeat", id |-> id, readings |-> <<>>]
Reading(n)    == [kind |-> "reading", id |-> NoID, readings |-> <<n>>]
Batch(first, last) ==
  [kind |-> "batch", id |-> NoID, readings |-> [i \in 1..(last - first + 1) |-> first + i - 1]]

(* The readings of a sequence of messages. *)
ReadingsIn(seq) == UNION {ToSet(seq[i].readings) : i \in DOMAIN seq}

(* What was sent on a connection and is not handled yet. *)
Unhandled(c) == ToSet(todo[c]) \cup ReadingsIn(wire[c])

(* What is written on a connection and not read yet is lost with it. *)
DropWire(c) ==
  /\ wire' = [wire EXCEPT ![c] = <<>>]
  /\ unread' = unread \cup ReadingsIn(wire[c])

(* m[key] = value and delete(m, key) *)
With(m, key, value) == [k \in DOMAIN m \cup {key} |-> IF k = key THEN value ELSE m[k]]
Without(m, key) == [k \in DOMAIN m \ {key} |-> m[k]]

Init ==
  /\ StoreInit
  /\ conns = 0
  /\ addr = <<>>
  /\ owner = <<>>
  /\ client = {}
  /\ open = {}
  /\ overtaken = {}
  /\ wire = [c \in Conns |-> <<>>]
  /\ pc = [c \in Conns |-> "none"]
  /\ todo = [c \in Conns |-> <<>>]
  /\ heartbeat = [c \in Conns |-> NoID]
  /\ activeSensors = <<>>
  /\ connToSensorID = <<>>
  /\ made = <<>>
  /\ messages = 0
  /\ written = <<>>
  /\ added = <<>>
  /\ named = {}
  /\ unread = {}

-----------------------------------------------------------------------------
(* The sensors.  Connection.Run dials again only after it has closed the    *)
(* previous connection, so a sensor has one open connection; the server may *)
(* still be busy with earlier ones.                                         *)

Dial(s, a) ==
  /\ conns < MaxConns
  /\ \A c \in 1..conns : owner[c] = s => c \notin client
  /\ \A c \in 1..conns : addr[c] = a => c \notin client \cup open
  /\ conns' = conns + 1
  /\ addr' = Append(addr, a)
  /\ owner' = Append(owner, s)
  /\ client' = client \cup {conns'}
  /\ open' = open \cup {conns'}
  /\ overtaken' = overtaken \cup UNION {Unhandled(c) : c \in {d \in 1..conns : owner[d] = s}}
  /\ pc' = [pc EXCEPT ![conns'] = "register"]
  /\ UNCHANGED <<storeVars, wireVars, todo, heartbeat, mapVars, sensorVars, written, added>>

(* The goroutine is in its read loop; it is registered and not yet removed. *)
Reads(c)   == pc[c] \notin {"none", "remove", "close", "done"}
Serving(c) == pc[c] \notin {"none", "register", "close", "done"}

(* A write on a connection that the server has given up succeeds at the     *)
(* sensor and reaches nobody.                                               *)
SendMessage(c, message) ==
  /\ c \in client
  /\ messages < MaxMessages
  /\ messages' = messages + 1
  /\ IF Reads(c)
       THEN wire' = [wire EXCEPT ![c] = Append(@, message)] /\ UNCHANGED unread
       ELSE unread' = unread \cup ToSet(message.readings) /\ UNCHANGED wire
  /\ UNCHANGED <<storeVars, tcpVars, pc, todo, heartbeat, mapVars, written, added>>

SendHeartbeat(c, id) == SendMessage(c, Heartbeat(id)) /\ UNCHANGED made

SendReading(c, valid) ==
  /\ made' = Append(made, [sensor |-> owner[c], conn |-> c, valid |-> valid])
  /\ SendMessage(c, Reading(Len(made')))

SendBatch(c, valid) ==
  /\ made' = made \o [i \in 1..2 |-> [sensor |-> owner[c], conn |-> c, valid |-> valid]]
  /\ SendMessage(c, Batch(Len(made) + 1, Len(made')))

(* The sensor's end closes.  What it had written is still delivered, or the *)
(* connection is reset and what the server had not read is gone.  The next  *)
(* dial comes a reconnect interval later, so that even after a reset the    *)
(* address is taken again only when the server has closed its end.          *)
ClientCloses(c) ==
  /\ c \in client
  /\ client' = client \ {c}
  /\ UNCHANGED <<storeVars, conns, addr, owner, open, overtaken, handlerVars, mapVars,
                 sensorVars, written, added>>

ClientResets(c) ==
  /\ c \in client
  /\ client' = client \ {c}
  /\ DropWire(c)
  /\ UNCHANGED <<storeVars, conns, addr, owner, open, overtaken, pc, todo, heartbeat, mapVars,
                 sensorVars, written, added>>

-----------------------------------------------------------------------------
(* Mistakes the code could make, for the runs that check the properties. *)

(* The two defers in the other order: the socket is closed first. *)
BugRemoveSensor(c) ==
  /\ pc[c] = "remove"
  /\ open' = open \ {c}
  /\ IF c \in open
       THEN UNCHANGED <<activeSensors, connToSensorID, pc>>
       ELSE /\ activeSensors' = Without(activeSensors, addr[c])
            /\ connToSensorID' = Without(connToSensorID, addr[c])
            /\ pc' = [pc EXCEPT ![c] = "close"]
  /\ UNCHANGED <<storeVars, conns, addr, owner, client, overtaken, wireVars, todo, heartbeat,
                 named, sensorVars, written, added>>

(* removeSensor forgets the second map. *)
BugForgetsOneMap(c) ==
  /\ pc[c] = "remove"
  /\ activeSensors' = Without(activeSensors, addr[c])
  /\ pc' = [pc EXCEPT ![c] = "close"]
  /\ UNCHANGED <<storeVars, tcpVars, wireVars, todo, heartbeat, connToSensorID, named,
                 sensorVars, written, added>>

(* The batch is gone through from its end. *)
BugReceive(c) ==
  /\ pc[c] = "read"
  /\ wire[c] # <<>>
  /\ LET message == Head(wire[c])
     IN /\ todo' = [todo EXCEPT ![c] = Reverse(message.readings)]
        /\ heartbeat' = [heartbeat EXCEPT ![c] = message.id]
        /\ pc' = [pc EXCEPT ![c] = message.kind]
  /\ wire' = [wire EXCEPT ![c] = Tail(@)]
  /\ UNCHANGED <<storeVars, tcpVars, unread, mapVars, sensorVars, written, added>>

(* The validity is not tested. *)
BugStoreIfValid(n) == Add(made[n].sensor, n) /\ added' = Append(added, n)

(* An invalid reading ends the batch. *)
BugBatchStore(c) ==
  /\ pc[c] = "batch"
  /\ IF made[Head(todo[c])].valid
       THEN /\ Add(made[Head(todo[c])].sensor, Head(todo[c]))
            /\ added' = Append(added, Head(todo[c]))
            /\ pc' = [pc EXCEPT ![c] = "batchWrite"]
       ELSE /\ UNCHANGED <<storeVars, added>>
            /\ pc' = [pc EXCEPT ![c] = "read"]
  /\ UNCHANGED <<tcpVars, wireVars, todo, heartbeat, mapVars, sensorVars, written>>

(* The goroutine waits for the sensor without a deadline. *)
BugDeadline(c) ==
  /\ pc[c] = "read"
  /\ c \notin client
  /\ pc' = [pc EXCEPT ![c] = "remove"]
  /\ DropWire(c)
  /\ UNCHANGED <<storeVars, tcpVars, todo, heartbeat, mapVars, sensorVars, written, added>>

-----------------------------------------------------------------------------
(* handleConnection *)

Register(c) ==
  /\ pc[c] = "register"
  /\ activeSensors' = With(activeSensors, addr[c], [id |-> addr[c], conn |-> c, seen |-> FALSE])
  /\ pc' = [pc EXCEPT ![c] = "read"]
  /\ UNCHANGED <<storeVars, tcpVars, wireVars, todo, heartbeat, connToSensorID, named, sensorVars,
                 written, added>>

(* ReadJSON and the dispatch of handleMessage.  The sensors send the three   *)
(* kinds only and what they send decodes; a message of another kind, or one  *)
(* that did not decode, would be logged and change nothing.                  *)
Receive(c) ==
  /\ pc[c] = "read"
  /\ wire[c] # <<>>
  /\ LET message == Head(wire[c])
     IN /\ todo' = [todo EXCEPT ![c] = message.readings]
        /\ heartbeat' = [heartbeat EXCEPT ![c] = message.id]
        /\ pc' = [pc EXCEPT ![c] = message.kind]
  /\ wire' = [wire EXCEPT ![c] = Tail(@)]
  /\ UNCHANGED <<storeVars, tcpVars, unread, mapVars, sensorVars, written, added>>

(* ReadJSON fails: the sensor's end is closed and everything is read, or    *)
(* the read deadline of sixty seconds, set once, has passed.                *)
Leave(c) ==
  /\ pc[c] = "read"
  /\ pc' = [pc EXCEPT ![c] = "remove"]
  /\ DropWire(c)
  /\ UNCHANGED <<storeVars, tcpVars, todo, heartbeat, mapVars, sensorVars, written, added>>

ReadEnds(c) == c \notin client /\ wire[c] = <<>> /\ Leave(c)
Deadline(c) == Leave(c)

(* The deferred calls run last to first: removeSensor, then conn.Close.     *)
RemoveSensor(c) ==
  /\ pc[c] = "remove"
  /\ activeSensors' = Without(activeSensors, addr[c])
  /\ connToSensorID' = Without(connToSensorID, addr[c])
  /\ pc' = [pc EXCEPT ![c] = "close"]
  /\ UNCHANGED <<storeVars, tcpVars, wireVars, todo, heartbeat, named, sensorVars, written, added>>

CloseConn(c) ==
  /\ pc[c] = "close"
  /\ open' = open \ {c}
  /\ pc' = [pc EXCEPT ![c] = "done"]
  /\ UNCHANGED <<storeVars, conns, addr, owner, client, overtaken, wireVars, todo, heartbeat,
                 mapVars, sensorVars, written, added>>

-----------------------------------------------------------------------------
(* handleReading and handleBatch.  The first gives the reading to the       *)
(* database writer before it tests its validity, the second afterwards;     *)
(* the writer gets valid and invalid readings alike.                        *)

Current(c) == Head(todo[c])

StoreIfValid(n) ==
  IF made[n].valid
    THEN Add(made[n].sensor, n) /\ added' = Append(added, n)
    ELSE UNCHANGED <<storeVars, added>>

ReadingWrite(c) ==
  /\ pc[c] = "reading"
  /\ written' = Append(written, Current(c))
  /\ pc' = [pc EXCEPT ![c] = "readingStore"]
  /\ UNCHANGED <<storeVars, tcpVars, wireVars, todo, heartbeat, mapVars, sensorVars, added>>

ReadingStore(c) ==
  /\ pc[c] = "readingStore"
  /\ StoreIfValid(Current(c))
  /\ todo' = [todo EXCEPT ![c] = <<>>]
  /\ pc' = [pc EXCEPT ![c] = "read"]
  /\ UNCHANGED <<tcpVars, wireVars, heartbeat, mapVars, sensorVars, written>>

BatchStore(c) ==
  /\ pc[c] = "batch"
  /\ StoreIfValid(Current(c))
  /\ pc' = [pc EXCEPT ![c] = "batchWrite"]
  /\ UNCHANGED <<tcpVars, wireVars, todo, heartbeat, mapVars, sensorVars, written>>

BatchWrite(c) ==
  /\ pc[c] = "batchWrite"
  /\ written' = Append(written, Current(c))
  /\ todo' = [todo EXCEPT ![c] = Tail(@)]
  /\ pc' = [pc EXCEPT ![c] = IF Tail(todo[c]) = <<>> THEN "read" ELSE "batch"]
  /\ UNCHANGED <<storeVars, tcpVars, wireVars, heartbeat, mapVars, sensorVars, added>>

-----------------------------------------------------------------------------
(* handleHeartbeat: two critical sections of h.mutex. *)

NameSensor(c) ==
  LET a == addr[c]  id == heartbeat[c]
  IN /\ pc[c] = "heartbeat"
     /\ IF id # NoID /\ (a \in DOMAIN connToSensorID => connToSensorID[a] # id)
          THEN /\ connToSensorID' = With(connToSensorID, a, id)
               /\ activeSensors' = IF a \in DOMAIN activeSensors
                                     THEN [activeSensors EXCEPT ![a].id = id]
                                     ELSE activeSensors
          ELSE UNCHANGED <<connToSensorID, activeSensors>>
     /\ named' = IF id # NoID THEN named \cup {c} ELSE named
     /\ pc' = [pc EXCEPT ![c] = "lastSeen"]
     /\ UNCHANGED <<storeVars, tcpVars, wireVars, todo, heartbeat, sensorVars, written, added>>

UpdateSensorLastSeen(c) ==
  /\ pc[c] = "lastSeen"
  /\ activeSensors' = IF addr[c] \in DOMAIN activeSensors
                        THEN [activeSensors EXCEPT ![addr[c]].seen = TRUE]
                        ELSE activeSensors
  /\ heartbeat' = [heartbeat EXCEPT ![c] = NoID]
  /\ pc' = [pc EXCEPT ![c] = "read"]
  /\ UNCHANGED <<storeVars, tcpVars, wireVars, todo, connToSensorID, named, sensorVars, written, added>>

-----------------------------------------------------------------------------
HandleConnection(c) ==
  \/ Register(c) \/ Receive(c) \/ ReadEnds(c) \/ Deadline(c) \/ RemoveSensor(c) \/ CloseConn(c)
  \/ ReadingWrite(c) \/ ReadingStore(c) \/ BatchStore(c) \/ BatchWrite(c)
  \/ NameSensor(c) \/ UpdateSensorLastSeen(c)

Sensor(c) ==
  \/ \E id \in {owner[c], NoID} : SendHeartbeat(c, id)
  \/ \E valid \in BOOLEAN : SendReading(c, valid) \/ SendBatch(c, valid)
  \/ ClientCloses(c) \/ ClientResets(c)

Next ==
  \/ \E s \in Sensors, a \in Addrs : Dial(s, a)
  \/ \E c \in 1..conns : Sensor(c) \/ HandleConnection(c)

Spec == Init /\ [][Next]_vars

(* Every goroutine is scheduled, and its read deadline is not put off by    *)
(* the messages that arrive.                                                *)
Fairness ==
  \A c \in Conns : WF_vars(HandleConnection(c)) /\ SF_vars(Deadline(c))

FairSpec == Spec /\ Fairness

-----------------------------------------------------------------------------
(* Properties *)

Numbers == 1..Len(made)
Entry   == [id : Sensors \cup Addrs, conn : 1..conns, seen : BOOLEAN]

HandlerTypeOK ==
  /\ data \in [DOMAIN data -> Seq(Numbers)]
  /\ \A s \in DOMAIN data : s \in Sensors /\ Len(data[s]) \in 1..StoreCapacity
  /\ totalReadings = Len(added)
  /\ addr \in [1..conns -> Addrs]
  /\ owner \in [1..conns -> Sensors]
  /\ client \subseteq 1..conns
  /\ open \subseteq 1..conns
  /\ pc \in [Conns -> {"none", "register", "read", "reading", "readingStore", "batch", "batchWrite",
                       "heartbeat", "lastSeen", "remove", "close", "done"}]
  /\ todo \in [Conns -> Seq(Numbers)]
  /\ heartbeat \in [Conns -> Sensors \cup {NoID}]
  /\ DOMAIN activeSensors \subseteq Addrs
  /\ activeSensors \in [DOMAIN activeSensors -> Entry]
  /\ DOMAIN connToSensorID \subseteq Addrs
  /\ connToSensorID \in [DOMAIN connToSensorID -> Sensors]
  /\ written \in Seq(Numbers)
  /\ added \in Seq(Numbers)

(* GetActiveSensors lists exactly the connections whose goroutine is between *)
(* Register and RemoveSensor, each under its own address, although the key   *)
(* is an address that a later connection can have again.  Once a connection  *)
(* has sent a heartbeat with its sensor ID the list shows that ID, never the *)
(* address or the name of an earlier connection that had the same address,   *)
(* and no name outlives its connection.                                      *)
ListsTheServed ==
  /\ {<<a, activeSensors[a].conn>> : a \in DOMAIN activeSensors}
       = {<<addr[c], c>> : c \in {d \in 1..conns : Serving(d)}}
  /\ \A c \in named : Serving(c) => activeSensors[addr[c]].id = owner[c]
  /\ DOMAIN connToSensorID \subseteq {addr[c] : c \in {d \in named : Serving(d)}}

(* The readings in the hands of the handlers, between the two stores. *)
BetweenStores == {Current(c) : c \in {d \in 1..conns : pc[d] \in {"readingStore", "batchWrite"}}}

(* Store and database get the same valid readings, each once; they differ    *)
(* only by the readings whose handler is between the two.                    *)
StoreAndDatabaseAgree ==
  LET valid == {n \in ToSet(written) : made[n].valid}
  IN /\ IsInjective(written)
     /\ IsInjective(added)
     /\ valid \ ToSet(added) \subseteq BetweenStores
     /\ ToSet(added) \ valid \subseteq BetweenStores

(* A reading that was sent is on its wire, in the hands of its handler, or   *)
(* handled; the others went down with their connection before they were      *)
(* read.  No handler stops in the middle of a message.                       *)
ReadMeansHandled ==
  LET waiting == UNION {ReadingsIn(wire[c]) : c \in Conns}
      inHand  == UNION {ToSet(todo[c]) : c \in Conns}
  IN /\ waiting \cup inHand \cup ToSet(written) \cup unread = Numbers
     /\ (waiting \cup unread) \cap (inHand \cup ToSet(written)) = {}
     /\ \A c \in Conns : pc[c] = "read" => todo[c] = <<>>

(* The readings of one connection reach the store and the database in the    *)
(* order they were measured.                                                 *)
InConnectionOrder(seq) ==
  \A i, j \in DOMAIN seq : i < j /\ made[seq[i]].conn = made[seq[j]].conn => seq[i] < seq[j]

ConnectionOrder == InConnectionOrder(added) /\ InConnectionOrder(written)

(* store.go:44, 82: GetLatest returns the most recent readings of a sensor,  *)
(* newest first, as many as were asked for and are kept: every stored        *)
(* reading measured after one that is returned is returned before it,        *)
(* however the goroutines of the sensor's connections interleave.  Only      *)
(* readings that an earlier connection had not handled when the sensor       *)
(* dialed again can come late: then they stand before newer ones, or have    *)
(* pushed them out, and GetCurrent may return one.                           *)
ServesTheMostRecent ==
  \A s \in Sensors, n \in 1..(StoreCapacity + 1) :
    LET stored == {m \in ToSet(added) : made[m].sensor = s}
        latest == GetLatest(s, n)
    IN /\ Len(latest) = Min({n, Cardinality(stored), StoreCapacity})
       /\ \A i \in DOMAIN latest :
            /\ latest[i] \in stored
            /\ latest[i] \in overtaken
                 \/ \A m \in stored : m > latest[i] => \E j \in 1..(i - 1) : latest[j] = m

(* Every connection leaves the list in the end, also when its sensor is gone *)
(* without a trace: the read deadline ends it.                               *)
EveryConnectionEnds == \A c \in Conns : (pc[c] = "register") ~> (pc[c] = "done")

=============================================================================
