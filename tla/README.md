# Verification of dht-monitor

dht-monitor measures temperature and humidity with a DHT11 sensor on a
Raspberry Pi (`cmd/sensor`), sends the readings over a WebSocket to a server
(`cmd/server`), which keeps the latest ones in memory, all of them in SQLite,
and serves both to a dashboard. This directory holds TLA+ modules that model the
parts in which order, concurrency and failure decide whether a reading arrives,
TLC configurations that check them on small instances, and theorems that TLAPS
proves for every value of the constants.

Paths below are relative to the repository's root. `PROJECT.json` says for
every definition which lines it models.

## 1. The system

| part | code | state | operations |
|---|---|---|---|
| sensor reader | `internal/sensor/reader.go`, `dht.go` | channel `readings` (10) | `Start` (ticker loop), `readAndPublish` |
| reading buffer | `internal/client/buffer.go` | `readings`, `stats`, mutex | `Push`, `PopBatch`, `Clear`; `Peek`, `Size`, `Stats` only read |
| client coordinator | `cmd/sensor/main.go` | the reading or batch in hand | `coordinateData`, `handleNewReading`, `drainBuffer`, status ticker, signal handler |
| connection manager | `internal/client/connection.go` | `state` under `stateMutex`, `conn` under nothing, backoff, `lastPong` | `Run`, `Connect`, read loop, heartbeat loop, `Send`, `SendBatch`, `disconnect`, `Close` |
| WebSocket handler | `internal/server/handler.go` | `activeSensors`, `connToSensorID`, one goroutine per connection | `handleConnection`, `handleReading`, `handleBatch`, `handleHeartbeat`, `removeSensor` |
| memory store | `internal/server/store.go` | a ring of readings per sensor | `Add`, `Clear`, reads |
| database writer | `internal/storage/dbwriter.go` | `writeChan`, the goroutine's `batch`, counters | `Write`, `writerLoop`, `flush`, `Stop`, `Stats` |
| SQLite store | `internal/storage/sqlite.go` | table `readings` | `InsertBatch`, range queries, `DeleteOlderThan`, statistics |
| retention cleaner | `internal/storage/retention.go` | counters | `cleanupLoop`, `RunNow`, `Stop` |
| REST API | `internal/server/api.go` | none | memory first, database as fallback; paging through history |
| server program | `cmd/server/main.go` | - | start, and the shutdown sequence |
| configuration | `internal/config` | - | defaults, environment, validation |
| dashboard | `web/templates/dashboard.html` | view state | overlapping asynchronous loads |

How a reading travels:

    Reader --channel--> coordinator --+--> Connection.Send --------+
                             |        +--> buffer --> SendBatch ---+--> socket
                             |             (when down or behind)   |
       IsConnected() <-------+------ Run / read loop / heartbeat <-+
                                                                   |
    dashboard <-- API <-- MemoryStore <--+-- handler goroutine <---+
                           SQLite <-- DBWriter <--+

What is hard in it:

* **Concurrency.** Five goroutines touch one `Connection`, one of its fields
  without the mutex. Each server connection is a goroutine, and after a reconnect
  two of them serve one sensor. The writer's goroutine races `Write` and `Stop`.
* **Failure.** A link can go down between `IsConnected`, the second test in
  `Send` and the write; a batch is popped before it is sent; a transaction can
  fail; the server process can die with readings in memory.
* **Ordering.** Immediate sends, buffered readings and the channel must together
  keep the order of measurement; a connection's state is announced before the
  registration is written.
* **Liveness and shutdown.** A send outside a select, a read without a deadline,
  a `WaitGroup` that waits for both loops, a drain that does not look at ctx.
* **Bounds.** Full buffer, full channel, unset sizes, capped backoff.

`PROJECT.json` lists the hazards line by line, with the property for each.

## 2. Modules

| module | models | builds on |
|---|---|---|
| `ReadingBuffer` | `buffer.go`, one action per critical section | - |
| `BufferUsers` | the buffer under any sequence of its calls, for the proofs | `ReadingBuffer` |
| `SensorClient` | reader, channel, coordinator, buffer, shutdown | `ReadingBuffer`, `Link` |
| `Link` | what the connection promises to the coordinator (abstract) | - |
| `Connection` | the goroutines, mutex and sockets of `connection.go` | implements `Link` |
| `MemoryStore` | `store.go` | - |
| `Handler` | `handler.go`: goroutines, maps, both destinations of a reading | `MemoryStore` |
| `ReadingLog` | what the database writer promises (abstract) | - |
| `DBWriter` | `dbwriter.go` with `InsertBatch` | implements `ReadingLog` |
| `Archive` | `sqlite.go`, `retention.go`, scrolling through `/api/history`, the end of the store in `main` | - |
| `ClientConfig` | `config.go`: defaults, environment, validation | - |
| `KeepAlive` | heartbeats, pong timeout, backoff and the server's read deadline, with a clock | `ClientConfig` |
| `ServerConfig` | `server_config.go`, and which configurations `main` survives | - |
| `Dashboard` | `dashboard.html` over `api.go`, memory store and database, and the life of the server process | `ServerConfig`, `MemoryStore` |
| `Histories`, `HistoryLemmas` | increasing sequences, and lemmas on queues | - |
| `DBWriterProofs`, `ConnectionProofs`, `KeepAliveProofs`, `HandlerProofs`, `ArchiveProofs`, `DashboardProofs`, `SensorClientProofs` | theorems about the modules they are named for (the last one also about `ReadingBuffer` and `BufferUsers`) | |
| `MC...` | constants of the TLC instances | |

Conventions. A reading is a number: the number of the call that offered it or
of the measurement that made it, so that order and loss can be stated; its
content plays no part in a decision, except its validity in `Handler`.
Histories (`accepted`, `sent`, `lost`, ...) are variables no guard of a modelled
step reads. Operators named `Bug...` are wrong forms of one definition, a
plausible mistake each; no action uses them. They are there to see that a
property notices the mistake.

### DBWriter

`pc` is where `writerLoop` is: in its select (`select`), in its stop case
(`drain`), before the transaction (`insert`), before the counters (`record`),
returned (`done`). `WriteQueued` and `WriteDropped` are the two cases of the
select in `Write`; `WriteHandedOver` is the send on the unbuffered channel that
`channel_size: 0` makes. `config` is what the process was started with; both
sizes come from the file unvalidated. `InsertBatch(ok)` is one transaction. `Stop` closes
`stopChan` and `StopReturn` is the end of its `wg.Wait`. `Crash` is the process
dying and coming back, perhaps with another configuration, with a new writer:
only `rows` survives. Handlers may
call `Write` after `Stop`, as the server's `main` lets them.

### ReadingBuffer, BufferUsers

`Push` has three outcomes: kept, kept over the oldest, refused. `overflowed`
records what a full buffer gave up. `Clear` keeps the high-water mark, as the
code does. `BufferUsers` calls `Push`, `PopBatch` and `Clear` in any order and
without a bound; no run needs it, since its four properties are proved for every
capacity, and `SensorClient` runs the buffer as the program uses it.

### SensorClient

`reader`, `coord` are the two program counters; `hand` is the reading that
`handleNewReading` works on, `inflight` the batch between `PopBatch` and the
result of `SendBatch`. Every test of `IsConnected` and every write is a step of
its own, so the link can change in between; a send can also fail before its write,
without a link or because `NewMessage` cannot encode the reading. `link` follows the
module `Link`, which `Connection` is checked to implement. `StatisticsAgree`, part of
`EveryReadingAccountedFor`, compares the buffer's counters and its high-water mark with
the histories. Which of the readings sent went through the buffer is in no variable, so
`TotalPushed` is held between two bounds there; `BufferUsers` has it exactly.

### Connection

`run`, `reading`, `beating`, `sender`, `closer` are the program counters of the
five goroutines. `mu` is `stateMutex` held over a write; shorter critical
sections are single steps that need it free. `conn` is assigned without it, in
its own step. A socket is `open` on this side, `alive` while the peer has not
gone, `failed` after a write error or a close message, which gorilla keeps, and
`unregistered` (a history) if its registration could not be written: only such a
socket may be left open behind `conn`. `Close` is three steps, the close message, the
socket and the state, and reads `conn` anew in the second. Time is abstract:
a tick, a deadline or the ageing of the last pong can come at any moment.

### ClientConfig, KeepAlive

A configuration is a record of the fields that decide something; `LoadConfig` is
`ApplyDefaults`, `OverrideFromEnv` and `Validate` in the order of the code, and
yields the set of the configurations that are accepted, one or none. `KeepAlive`
starts from one of them. It has what `Connection` leaves out, time: `nextTick` is
the ticker of the heartbeat loop, `lastPong` the last acknowledgment, `acks` when
the acknowledgments on their way arrive at the latest, `deadline` the read
deadline of the server, `wake` and `backoff` the wait before the next dial. `Tick`
lets no timer that is due and no message over a network that is up be overtaken.
`BeatSends` and `BeatChecks` are two steps without time between them, which is the
point: the answer to a heartbeat cannot be in time for its own check. A network
that is `cut` delays and loses nothing that TCP would deliver; the races of the
goroutines are in `Connection`.

### ServerConfig, Dashboard

`LoadAppConfig` is like `LoadConfig`; a malformed `SERVER_PORT` makes
`OverrideFromEnv` return before it reads the token. `DatabaseStarts` is what a
configuration needs so that nothing panics when `main` starts the writer.

In `Dashboard`, `made` says when every reading was taken, by order of arrival;
`data` is the memory store (the module `MemoryStore`, as in `Handler`), `queue` the
writer with its channel and batch, which `DBWriter` has in detail, and `rows` the
table. `Restart` is any end of the process and its next start, after a signal
or not. `page` is the state of the script: mode, window, the range in view, whether
the timer runs, and what is on the screen. `load` is the sequence of the calls of
`loadLiveData` and `loadHistoricalData` that have not returned, each somewhere between
two awaits; answers come in any order. `Due` and `left` are histories: what an
answer could have shown.

The server answers for the first sensor of a Go map when a request names none, and
the page names none. Readings come from any sensor in the model; the instance has
one sensor, for with two the page switches between them as the map's order does.

### Handler

`pc[c]` is where the goroutine of connection `c` is; the two critical sections
of a heartbeat and the two destinations of a reading are separate steps.
`wire[c]` holds what the sensor has written and the server has not read.
`overtaken` is a history: when a sensor dials again, what its earlier connections
have sent and no goroutine has handled yet.
Addresses, the keys of both maps, come back when a socket is closed at both
ends. After a reset TCP would free the address at once; the model assumes that
it is not dialed from again until the goroutine has noticed the reset, since the
client waits a reconnect interval before it dials. Without this assumption
`removeSensor`, which deletes whatever entry the address has, could remove the
entry of the next connection.

### Archive

`rows` is the table, and `recorded_at` the stored text as the number it shows when
read as UTC; `taken` is when the reading was really made, which the code does not
store. `Stored` is what `Timestamp.Format` does: it adds the offset of the zone the
reading carries. Ids are `lastId + 1`, as AUTOINCREMENT makes them, and `erased` keeps
the ids of the rows deleted: none is given again. The pool has one connection, so a statement is one step.
`cleanup[c]` is a call of `runCleanup`, by the loop or through `RunNow` (which only
tests call): the clock is read, the delete waits for the connection, and the count
is added under the mutex. `Stop`, `LoopStops` and `CloseStore` are the end of
`main`; `Restart` is any end of the process with the next start. `scroll` is a
client that asks for pages until `has_more` is false. `OrderLimit` is SQL's
`ORDER BY ... LIMIT`, with ties in any order. `totalCleanups` and
`lastDeleteCount`, which only `Stats` shows, are left out.

## 3. Runs

| run | question | bounds and why they are enough |
|---|---|---|
| `dbwriter` | order, accounting, counters, Stop, refinement, liveness | batch 2, channel 3, 5 writes, 1 crash: full channel, full and partial batch, a drain longer than a batch; and both options 0: an unbuffered channel, batches of one. The writes are finite: a channel that never runs empty is not among the behaviours, but it fills the batch, which then leaves by its size |
| `dbwriter_stop` | *violated*: does Stop leave nothing? | as above, no crash |
| `client` | order, accounting, which readings are given up, shutdown, nothing waits forever | both modes; buffer 3, channel 1, batch 2, 5 readings: overflow, drains of two batches, partial batches, channel and reader full |
| `client_hang` | *violated*: does the reader stop after cancel? | as above |
| `conn` | use of `c.conn`, leaks, refinement of `Link`, backoff, Run returns, reconnects | 2 sockets: a reconnect with a goroutine that still holds what it saw of the first; intervals 1, 2, 3 |
| `conn_dead` | *violated*: is a dead link dropped? | 1 socket |
| `keepalive` | is silence noticed, is a healthy connection kept, is an outage short, are the timers positive? | unit 10 s; four files (defaults; a shorter ping; ping equal to and shorter than the pong timeout), with and without a token; 2 cuts of the network of any length, clock to 26: four lives of a connection that the server ends after 6, doubled and capped waits, cuts in every phase |
| `keepalive_default` | *violated*: is a healthy connection kept with the defaults? | as above |
| `handler` | both destinations of a reading, order, the most recent readings, the two maps, end of every connection | 1 sensor, 2 connections at once on 2 addresses or one after the other on the same, 2 messages of 1 or 2 readings, ring of 2: a reading of the first connection that is late pushes out one of the second |
| `archive` | counts, scrolling, expiry, Stop | 2 rows over 3 instants (tied or not), pages of 1 and 2, retention 1, 2 callers of `runCleanup`, 1 restart; one sensor, so the `sensor_id` filter is not exercised |
| `archive_zone` | *violated*: is a reading kept for the retention period? | as above, readings in UTC or one unit west of it |
| `dashboard` | the window in view, charts without holes, a live page catches up | with and without a database; 2 readings and 1 per answer, so that an answer can be cut and the cut can tie; window 1, retention 1, clock to 2, so that a reading leaves the window and the table; 2 loads, enough for one to overtake another; any number of restarts |

But for `archive` and `dashboard`, runs do not report deadlocks: every instance is bounded, and after cancel,
`Stop` or the last message the programs really stop. "Everyone waits" is
covered by the liveness properties instead.

### Fairness

* `DBWriter`: the writer's goroutine is scheduled (weak fairness), and Go's
  select picks at random among ready cases, so a case that is ready again and
  again is taken (strong fairness on receive, tick and stop).
* `SensorClient`: both goroutines are scheduled; the select cases as above.
  Nothing is assumed about the sensor, the link, or how a write ends.
* `Connection`: goroutines are scheduled, `sync.RWMutex` does not starve a
  waiting writer (strong fairness on the steps that need it), a write ends
  because of its deadline. With the peer gone the last pong ages. A peer need not
  send anything, and need not ever close - except in `FairServerSpec`, where the
  server's read deadline (`handler.go:140`) closes every connection.
* `Archive`: the loop is scheduled and its ticker ticks; a delete that can succeed
  again and again does; select takes a ready stop in the end. Nobody need insert,
  scroll, call `RunNow` or stop the program.
* `Handler`: goroutines are scheduled; the read deadline, set once, passes.
* `Dashboard`: every fetch ends, the script goes on and its timer fires (weak
  fairness); requests may fail, but not all of them from some time on (strong
  fairness on an answer to some load). Nobody need send, flush, erase, restart or
  press a button.
* `KeepAlive` states no fairness: what must happen by a time is a safety property
  of a clock that waits for the timers.

### What the violations show

The `findings` of `PROJECT.json` quote the sentence that each contradicts.

1. `Stop` of the writer flushes what was accepted before the call
   (`StopSettlesThePast` holds, and is proved), but not "any remaining data":
   handlers still write, and `main` stops the writer before the HTTP server.
2. The sensor's reader blocks forever when the coordinator left first with the
   channel full, and `run` waits for it.
3. A connection that the heartbeat loop gave up stays "connected" while the peer
   is silent: `runMessageLoops` waits for the read loop, which is in `ReadJSON`.
   For the same reason `Run` returns after cancel only if the peer goes away in
   the end, which `FairServerSpec` states as an assumption about the server.
4. With the default intervals the heartbeat loop gives up a connection that works,
   unless a reading was acknowledged in the last ten seconds before its tick: it
   tests the age of the last acknowledgment right after sending the heartbeat
   (`connection.go:344-348`), thirty seconds after the one before. The read loop
   stays, so by 3. nothing is dropped: the connection goes on without heartbeats,
   and the server closes it sixty seconds after it began.
5. The rows of a sensor west of UTC are erased early: times are stored in the zone
   they carry and compared with UTC.

Seen while modelling, and not a run.

* Sensor. `Connect` announces the state before it writes the registration
  (`connection.go:130-134`), so a reading can be the first message. With
  `drop_oldest: false` the reading that starts the drain of a full buffer is refused
  just before there is room for it (`main.go:260` ignores the result of `Push`). A
  configuration without a buffer size gets `drop_oldest: true`, one with a size keeps
  false when it says nothing. Negative durations pass `Validate` and panic in
  `NewTicker`.
* Handler. What an earlier connection still held when its sensor dialed again becomes
  the current reading and pushes newer ones out of the ring, though `store.go:44` and
  `store.go:82` say the most recent. `ServesTheMostRecent` states their claim with this
  one exception (`overtaken`) and TLC and the proof confirm it; without the exception
  TLC refutes it on the same instance. An invalid reading
  is logged as ignored and written to the database (`handler.go:191-199`). The
  read deadline (`handler.go:140`) is moved only by WebSocket pongs, which nobody
  sends, so every connection ends after `pongWait`, busy or not; `KeepAlive` counts on
  it, and `OutageIsShort` says that the sensor is soon back.
* Configuration of the database. Its `retention_days`, `flush_period` and
  `channel_size` have no default and are not validated: 0 days erases everything
  older than a second, where `retention.go:30` says 30 (`storage.retention_days`
  gets that default, and nothing reads it); a flush period of 0 panics.
* Page. After a restart `/api/current` is a 404 and `/api/history` is empty until a
  sensor has sent again, although the database has its readings: without a
  `sensor_id` only memory is asked which sensors there are, and the fallback at
  `api.go:59` is not reached. In historical mode a late answer for an earlier window,
  or a failed request, replaces the chart and nothing corrects it until the next
  button; only in live mode does the timer (`LiveCatchesUp`). The page shows the 50
  newest readings of a window and ignores `has_more`.

## 4. Proofs

TLAPS checks all proofs; nothing is assumed but the named assumptions on the
constants in each module. Every safety invariant and every action property that a
passing run checks is proved, for all values of the constants. Each proof has an
inductive invariant `IInv` (`UsersIInv` for the buffer alone), the conjunction of
what is proved and of the parts named below; TLC checked each on an instance
before it was proved.

**DBWriterProofs** - for all configurations (sizes of 0 included), any number of
writes and crashes, and restarts with another configuration. `FirstInFirstOut` (accepted = settled, then batch, then
channel) is not inductive alone: that the channel's head follows the batch needs
`LoopShape` (what `batch` is at each program point), that rows are increasing
needs `Increasing(accepted)`, and that `Stop` settles the past needs
`StopProgress`, which says for each program point of the stopping loop where the
promised readings can be. `IInv` is their conjunction with the type invariant and
the channel's capacity. `Refinement` follows step by step: a write is Accept or
Refuse, a successful transaction Commit(n), a failed one or a crash Lose(n),
everything else a stutter.

**HistoryLemmas** - concatenations of queues and increasing sequences, which the
proofs cite instead of unfolding sequences.

**SensorClientProofs** - for all sizes, any number of readings, outages and failed
writes. `SentInOrder` is about what was sent, yet rests on everything behind it: the
stations sent, in flight, buffered, in hand, channel and reader are one line
(`Sorted`), and the order of one send follows from the order of the line. `Accounts`
keeps the books of the line, the lost batches and the overflow as sets; its form,
`Books`, has one lemma per way a reading moves (made, published, received, buffered,
displaced, refused, sent, batched, lost), and each action is one or two of these.
`Shape` says at which program counters hand and batch are empty. The two properties
and `GivesUpTheOldest` are read off. `StatisticsAgree` is inductive beside them: by the
books no reading overflows twice and no batch was lost before, so each counts once.

The module begins with the buffer, for every capacity, both modes and any number of
calls: what `Push` and `PopBatch` do to readings in order, and the four properties of
`BufferUsers`. The counters of `StatsAddUp` need the number of readings that
overflowed, so `Overflow` says that this set is finite and that no reading overflows
twice: with `drop_oldest` it is older than what is buffered.

**KeepAliveProofs** - for all files and environments whose durations are not
negative, all timeouts and any number of cuts. `AcceptedDurations` derives from
`LoadConfig` that every accepted duration is positive. `OnTime` relates the next tick
to the last acknowledgment and gives `SilenceIsNoticed`. `Answered` gives
`NoFalseAlarm`: the answer to the last heartbeat has come or arrives within the round
trip, before the next check. `Arriving` and `Leaving` follow the last acknowledgments
and the end of a connection through the read loop, the next checks of the heartbeat
loop and the wait, and add up to the bound of `OutageIsShort`.

**ConnectionProofs** - for any number of dials and any intervals. The properties
rest on the order in which `Connect`, the loops and `disconnect` run, not on any
test in the code. `MutexHolder` and `LoopsInsideRun` say which goroutine can be in
a write and when the loops exist; `SocketWhenNeeded` derives from them where
`c.conn` is a socket and that the state is not "connected" between two dials;
`NothingUsableBetween` says that the socket which the next dial overwrites is
closed or has failed, which for `run = "done"` is `NothingUsableAfterRun`: no write
can succeed then, whatever the state says. `OnlyUnregisteredLeak` needs to know that a
socket which was registered stays in `conn` until `disconnect` has closed it. `Refinement` maps the state and the current socket to
`Link`: `SetConnected` is GoUp, a failed write or `Close` is Break, every other
change of the state is GoDown. It is what lets `SensorClient` use `Link` for the
connection.

**HandlerProofs** - for any sensors, addresses, connections at a time and one after
the other, messages, and a store of any capacity.
`ListsTheServed` rests on `Sockets`: no two goroutines that are not done have
the same address, so an entry belongs to one of them (`Entries`, `Names`). That is
where the assumption on addresses (section 2) enters; without it the theorem is
false. `ConnectionOrder` needs the whole way of a reading: what a goroutine has in
its hands is older than what waits on its wire, and what was handled is older still,
but for the one reading that has reached one of its destinations and not the other
(`InOrder`, `Owned`). `StoreAndDatabaseAgree` needs `Halfway`, which says where that
reading already is: `handleReading` writes first and stores then, `handleBatch` the
other way round. `ReadMeansHandled` needs `Unread`. `ServesTheMostRecent` has two halves.
`ServesTheLatest` compares the ring of a sensor with the history of all `Add` calls:
`Latest` says that the reading which is the n-th from the end in the history is the
n-th from the end in the ring, as far as the ring goes, and the lemma `CountFromEnd`
moves these places by one with each reading of the sensor and leaves them for the
readings of others. `LateInv` relates the order of adding to the order of measuring:
a sensor's connections send one after the other (`OneClient`, `MadeInTurn`), what is
unhandled on any but its last is in `overtaken`, and so a reading added after a newer
one of its sensor is (`LateOnes`).

**ArchiveProofs** - for any sensors, zones, retention, page sizes, rows and restarts.
`NoIdAgain`, which gives the type invariant, keeps the ids of erased rows apart from
those of the table and below `lastId`. `TableFinite` counts the rows by their ids; with it `CountsAgree` follows from `Calls`
(only a call that has deleted has rows to count). `ScrollIsExact` speaks of the end
of a scroll; on the way, `NotAgain` says that no row the client was shown lies beyond
its cursor, and `NothingSkipped` that a row which is due was shown, ties with the
far end of a page, or lies beyond the cursor. `PageOf` is what `ORDER BY .. LIMIT`
guarantees, ties in any order, and `Answer` what that makes of a page in either
direction. `KeptEastOfUTC` is the other half of the violated `KeptForRetention`: it
holds for every retention if no sensor's clock is west of UTC.

**DashboardProofs** - for any sensors, accepted configurations, windows, limits and
loads at a time. `Looks` is the window in view as the buttons change it. Of
`ChartHasNoHoles` the chart is the last station; `Loads` says the same of every
answer that has not been drawn yet, and of every request that what is due lies in
the range it asks for. `RangeHasNoHoles` and `LatestHasNoHoles` say it of the two
sources of an answer, the query with its limit and the ring in memory, whose order
is `Memory`. `Grows` is what makes an old answer stay right: the log of readings is
only appended to, whatever is erased or lost in a restart.

`BatchIsBounded` of `DBWriter`, `WritersHaveASocket` of `Connection`,
`KeptForRetention` east of UTC and the properties of `BufferUsers` have theorems and no
run that passes for them.

Only model-checked: all liveness (under fairness, out of the prover's reach).
The modules are composed by hand where one stands for another in less detail: the
`queue` of `Dashboard` for `DBWriter`, its `rows` for `Archive`.

## 5. Not modelled, and why

* Contents: JSON, formatting, measurements, tokens and origins; the message types.
* Reads that no modelled behaviour depends on: daily and storage statistics, the list
  of sensors, `/api/dashboard-data`, the badge, the theme and the drawing of the page.
* The requests served after `main` has closed the database and before the process
  ends. Those that need the database fail, which is one of the ways a request can
  fail in `Dashboard`; what is added to memory then is gone with the process.
* Configuration fields that decide nothing in the modules: location, host, paths, HTTP
  timeouts, logging.
* `Clear` of the memory store, `InsertReading` and `SetHistoricalStore`, which only
  tests call, and `Migrate`.
* The GPIO driver, and the scripts that build and copy the programs.

## 6. Plan

The modules of the first plan are built but for one: `Delivery`, the client, the
link and the handler composed, from measurement to row. Client and handler are
checked against the same `Link` and the same order of the messages of a connection,
so it would relate what each promises: `SentInOrder` and `ConnectionOrder` on either
side of a wire. What else would add most, in this order:

1. `Delivery`, as one module over the messages of both sides, with the refinements
   that relate it to `SensorClient` and `Handler`.
2. The writer and the table of `Dashboard` as refinements: `queue` and `rows` from
   `DBWriter` and `Archive`.
3. Two sensors in `Dashboard`, for the answers about one that replace those about
   the other.
