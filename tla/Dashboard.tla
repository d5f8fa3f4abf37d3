------------------------------ MODULE Dashboard ------------------------------
(***************************************************************************)
(* The dashboard page (web/templates/dashboard.html) in front of the       *)
(* server: cmd/server/main.go with the memory store, the database behind   *)
(* the writer and the cleaner, and the requests the page makes             *)
(* (internal/server/api.go).  Loads of the page overlap: a timer starts    *)
(* them, and buttons do, before earlier ones have their answers.           *)
(*                                                                         *)
(* A reading is its number in the order of arrival; made says whose it is  *)
(* and when it was taken.  The unit of time is one that the windows of the *)
(* page are multiples of; all clocks show UTC (module Archive has those    *)
(* that do not).  A load is one call of loadLiveData or loadHistoricalData *)
(* from its first fetch to its last answer.                                *)
(***************************************************************************)
EXTENDS ServerConfig, MemoryStore, FiniteSets, SequencesExt

CONSTANTS
  Sensors,       \* sensors that send readings
  Files,         \* configuration files of the server
  Envs,          \* its environments
  DefaultLimit,  \* readings per answer when a request names no limit, 50
  Windows,       \* lengths the page offers, in units of time
  Initial,       \* the one it begins with
  MaxLoads,      \* bound on the loads at one time
  MaxReadings,   \* bound on the readings that arrive
  MaxTime        \* bound on the clock

ASSUME DashboardAssumption ==
  /\ \A file \in Files : IsFile(file)
  /\ \A env \in Envs : IsEnvironment(env)
  /\ \A file \in Files, env \in Envs :
       \A c \in LoadAppConfig(file, env) : c.buffer_size = StoreCapacity
  /\ DefaultLimit \in Nat \ {0}
  /\ Windows \subseteq Nat \ {0} /\ Initial \in Windows
  /\ {MaxLoads, MaxReadings, MaxTime} \subseteq Nat

VARIABLES
  config,        \* what main was started with
  now,           \* the clock of sensors, server and browser
  made,          \* history: sensor and time of every reading, by arrival
  queue,         \* the DBWriter's channel and batch
  rows,          \* the table: readings inserted and not erased
  page,          \* what the page shows, and the state of its script
  load           \* the loads that run, in the order they began

serverVars == <<storeVars, config, made, queue, rows>>
vars       == <<serverVars, now, page, load>>

Readings == DOMAIN made
NoChart  == [readings |-> {}, left |-> {}]

(* A load that has asked for the current reading or for a history, or has   *)
(* its answer: the readings in it and, of a history, those it left out of   *)
(* the ones that were there from the request to the answer.                 *)
AskedCurrent                == [pc |-> "current"]
CurrentCame(answer)         == [pc |-> "currentCame", answer |-> answer]
AskedHistory(from, to, due) == [pc |-> "history", from |-> from, to |-> to, due |-> due]
HistoryCame(answer, due)    ==
  [pc |-> "historyCame", answer |-> answer, left |-> due \ answer]

(* The last lines of the script: setMode('live') with nothing shown yet.   *)
Init ==
  /\ \E file \in Files, env \in Envs :
       config \in {c \in LoadAppConfig(file, env) : DatabaseStarts(c)}
  /\ now = 0
  /\ StoreInit
  /\ made = <<>>
  /\ queue = <<>>
  /\ rows = {}
  /\ page = [mode |-> "live", window |-> Initial, view |-> <<>>,
             refresh |-> TRUE, current |-> {}, chart |-> NoChart]
  /\ load = <<AskedCurrent>>

-----------------------------------------------------------------------------
(* The server.                                                             *)

Tick ==
  /\ now < MaxTime
  /\ now' = now + 1
  /\ UNCHANGED <<serverVars, page, load>>

(* The handler of a connection adds a reading to the store and gives it to *)
(* the writer, which may refuse it once the channel is full.               *)
Receive ==
  /\ Len(made) < MaxReadings
  /\ \E s \in Sensors, taken \in 0..now :
       /\ made' = Append(made, [sensor |-> s, taken |-> taken])
       /\ Add(s, Len(made'))
  /\ \/ config.db_enabled /\ queue' = Append(queue, Len(made'))
     \/ ~config.db_enabled /\ UNCHANGED queue
     \/ Len(queue) >= config.db_channel_size /\ UNCHANGED queue
  /\ UNCHANGED <<config, now, rows, page, load>>

(* The writer flushes a batch, or its transaction fails and drops it.      *)
Flush ==
  /\ \E n \in 1..Len(queue) :
       /\ queue' = SubSeq(queue, n + 1, Len(queue))
       /\ \/ rows' = rows \cup {queue[i] : i \in 1..n}
          \/ UNCHANGED rows
  /\ UNCHANGED <<storeVars, config, now, made, page, load>>

(* The cleaner is given Database.RetentionDays.                            *)
DeleteOlderThan ==
  /\ config.db_enabled
  /\ rows' = {r \in rows : made[r].taken >= now - config.db_retention_days}
  /\ rows' # rows
  /\ UNCHANGED <<storeVars, config, now, made, queue, page, load>>

(* The process dies, or after a signal main stops the writer, which flushes *)
(* what it has, and ends, and is started again: what was in memory is gone. *)
(* The requests that find the database closed are among those that fail.    *)
Restart ==
  /\ rows' \in {rows, rows \cup Range(queue)}
  /\ data' = <<>>
  /\ totalReadings' = 0
  /\ queue' = <<>>
  /\ UNCHANGED <<config, now, made, page, load>>

-----------------------------------------------------------------------------
(* The requests of the page.  It names no sensor: the server takes one of  *)
(* those the memory store has, in the order of a Go map.                   *)

(* The answer to GET /api/current, empty when there is none: 404.  A sensor *)
(* of the memory store has a reading there, so the database is not asked.  *)
HandleCurrent ==
  IF data = <<>> THEN {{}} ELSE {{GetCurrentReading(s)} : s \in DOMAIN data}

(* Mistake: the bound is not in the range. *)
BugGetReadingsInRange(s, from, to, limit) ==
  LET found == {r \in rows : made[r].sensor = s /\ made[r].taken \in (from + 1)..to}
  IN  {some \in kSubset(Min({limit, Cardinality(found)}), found) :
         \A r \in some, q \in found \ some : made[r].taken >= made[q].taken}

(* ORDER BY recorded_at DESC LIMIT limit: of those that tie at the cut, any. *)
GetReadingsInRange(s, from, to, limit) ==
  LET found == {r \in rows : made[r].sensor = s /\ made[r].taken \in from..to}
  IN  {some \in kSubset(Min({limit, Cardinality(found)}), found) :
         \A r \in some, q \in found \ some : made[r].taken >= made[q].taken}

(* GET /api/history?start=..&end=.., without a database from memory, where *)
(* start and end do not count.                                              *)
HandleHistory(s, from, to) ==
  IF config.db_enabled
  THEN GetReadingsInRange(s, from, to, DefaultLimit)
  ELSE {Range(GetLatest(s, DefaultLimit))}

(* What an answer about a sensor may show.                                  *)
Kept(s) ==
  IF config.db_enabled THEN {r \in rows : made[r].sensor = s} ELSE Range(ReadingsOf(s))
Due(from, to) ==
  {r \in UNION {Kept(s) : s \in Sensors} : config.db_enabled => made[r].taken \in from..to}

Becomes(l, next) ==
  /\ load' = [load EXCEPT ![l] = next]
  /\ UNCHANGED <<serverVars, now, page>>

AnswerCurrent(l) ==
  /\ load[l].pc = "current"
  /\ \E answer \in HandleCurrent : Becomes(l, CurrentCame(answer))

AnswerHistory(l) ==
  /\ load[l].pc = "history"
  /\ \/ data = <<>> /\ Becomes(l, HistoryCame({}, {}))
     \/ \E s \in DOMAIN data : \E answer \in HandleHistory(s, load[l].from, load[l].to) :
          Becomes(l, HistoryCame(answer, load[l].due \cap Kept(s)))

(* The network, the server or the database fails.                          *)
NoAnswer(l) ==
  \/ load[l].pc = "current" /\ Becomes(l, CurrentCame({}))
  \/ load[l].pc = "history" /\ Becomes(l, HistoryCame({}, {}))

-----------------------------------------------------------------------------
(* The page.  Its script runs from one await to the next.                  *)

Begins(asked) ==
  /\ Len(load) < MaxLoads
  /\ load' = Append(load, asked)

loadLiveData == Begins(AskedCurrent)
loadHistoricalData ==
  LET from == page'.view[1]
      to   == page'.view[2]
  IN  Begins(AskedHistory(from, to, Due(from, to)))

(* The current reading is shown as it comes, be it older than the one shown *)
(* already; without an answer the one shown stays.  The badge and the       *)
(* statistics are left out: their request takes its time.  Then the script  *)
(* asks for the chart.                                                      *)
ShowCurrent(l) ==
  /\ load[l].pc = "currentCame"
  /\ page' = [page EXCEPT !.current = IF load[l].answer = {} THEN @ ELSE load[l].answer]
  /\ LET from == now - page.window
     IN  load' = [load EXCEPT ![l] = AskedHistory(from, now, Due(from, now))]
  /\ UNCHANGED <<serverVars, now>>

(* updateChart draws what came last, whatever it was asked for.             *)
ShowHistory(l) ==
  /\ load[l].pc = "historyCame"
  /\ page' = [page EXCEPT !.chart = [readings |-> load[l].answer, left |-> load[l].left]]
  /\ load' = RemoveAt(load, l)
  /\ UNCHANGED <<serverVars, now>>

(* Every five seconds in live mode. *)
Refresh ==
  /\ page.refresh
  /\ loadLiveData
  /\ UNCHANGED <<serverVars, now, page>>

(* Mistake: the timer is stopped and not started again. *)
BugSetModeLive ==
  /\ page' = [page EXCEPT !.mode = "live", !.view = <<>>, !.refresh = FALSE]
  /\ loadLiveData
  /\ UNCHANGED <<serverVars, now>>

setModeLive ==
  /\ page' = [page EXCEPT !.mode = "live", !.view = <<>>, !.refresh = TRUE]
  /\ loadLiveData
  /\ UNCHANGED <<serverVars, now>>

setModeHistorical ==
  /\ page' = [page EXCEPT !.mode = "historical", !.refresh = FALSE,
                          !.view = <<now - page.window, now>>]
  /\ loadHistoricalData
  /\ UNCHANGED <<serverVars, now>>

(* The buttons of the windows and of the navigation are hidden in live mode. *)
setTimeWindow ==
  /\ page.mode = "historical"
  /\ \E w \in Windows :
       page' = [page EXCEPT !.window = w, !.view = <<page.view[2] - w, page.view[2]>>]
  /\ loadHistoricalData
  /\ UNCHANGED <<serverVars, now>>

(* Nobody goes back to before the beginning of time: a bound.              *)
navigatePrevious ==
  /\ page.mode = "historical"
  /\ page.view[1] > 0
  /\ page' = [page EXCEPT !.view = <<page.view[1] - page.window, page.view[1]>>]
  /\ loadHistoricalData
  /\ UNCHANGED <<serverVars, now>>

(* Mistake: the window goes on into the future. *)
BugNavigateNext ==
  /\ page.mode = "historical"
  /\ page' = [page EXCEPT !.view = <<page.view[2], page.view[2] + page.window>>]
  /\ loadHistoricalData
  /\ UNCHANGED <<serverVars, now>>

navigateNext ==
  /\ page.mode = "historical"
  /\ page' = [page EXCEPT !.view = <<page.view[2], Min({page.view[2] + page.window, now})>>]
  /\ loadHistoricalData
  /\ UNCHANGED <<serverVars, now>>

-----------------------------------------------------------------------------
Server == Receive \/ Flush \/ DeleteOlderThan \/ Restart

Proceed(l) ==
  AnswerCurrent(l) \/ AnswerHistory(l) \/ NoAnswer(l) \/ ShowCurrent(l) \/ ShowHistory(l)

User == setModeLive \/ setModeHistorical \/ setTimeWindow \/ navigatePrevious \/ navigateNext

Next ==
  \/ Tick \/ Server \/ User \/ Refresh
  \/ \E l \in DOMAIN load : Proceed(l)

Spec == Init /\ [][Next]_vars

(* Every fetch ends, so the load that began first goes on; the browser runs *)
(* the timer; requests may fail, but not all from some time on.  Nothing is *)
(* assumed about the sensors, the writer, the cleaner, the end of the       *)
(* server, or the user.                                                     *)
Fairness ==
  /\ WF_vars(Refresh)
  /\ WF_vars(load # <<>> /\ Proceed(1))
  /\ SF_vars(\E l \in DOMAIN load : AnswerCurrent(l))
  /\ SF_vars(\E l \in DOMAIN load : AnswerHistory(l))

FairSpec == Spec /\ Fairness

-----------------------------------------------------------------------------
(* The type of the state.  The page looks at a window in historical mode    *)
(* only, one that ends no later than now and is no longer than the chosen   *)
(* one, however the user goes back and forth and changes its length.        *)
DashboardTypeOK ==
  /\ config.buffer_size = StoreCapacity
  /\ now \in 0..MaxTime
  /\ \A r \in Readings : made[r] \in [sensor : Sensors, taken : 0..now]
  /\ rows \cup Range(queue) \cup page.current \cup page.chart.readings \subseteq Readings
  /\ page.window \in Windows /\ page.refresh \in BOOLEAN
  /\ IF page.mode = "live"
     THEN page.view = <<>>
     ELSE /\ page.mode = "historical"
          /\ page.view[1] <= page.view[2] /\ page.view[2] <= now
          /\ page.view[2] - page.view[1] <= page.window
  /\ \A l \in DOMAIN load : load[l].pc \in {"current", "currentCame", "history", "historyCame"}

(* The database orders readings by time, the memory store by arrival.       *)
Newer(r, q) == IF config.db_enabled THEN made[r].taken > made[q].taken ELSE r > q

(* The chart has no holes, whichever answer drew it: what it leaves out,    *)
(* of the readings that were there from the request to the answer, does     *)
(* not fit in and is not newer than anything it shows, while readings       *)
(* arrive, are flushed and are erased and the server is restarted.          *)
ChartHasNoHoles ==
  \A r \in page.chart.left :
    /\ Cardinality(page.chart.readings) = DefaultLimit
    /\ \A q \in page.chart.readings : ~Newer(r, q)

(* A reading belongs in the chart while it is stored, not too old for the   *)
(* window, and not behind as many others as the page gets, unless another   *)
(* sensor may be answered for.                                              *)
HasClaim(r) ==
  LET s == made[r].sensor
  IN  /\ DOMAIN data = {s}
      /\ r \in Kept(s)
      /\ config.db_enabled => made[r].taken >= now - page.window
      /\ Cardinality({q \in Kept(s) \ {r} : ~Newer(r, q)}) < DefaultLimit

IsCurrent(r) == data # <<>> /\ \A s \in DOMAIN data : GetCurrentReading(s) = r

UpToDate ==
  \A r \in Readings :
    /\ HasClaim(r) => r \in page.chart.readings
    /\ IsCurrent(r) => page.current = {r}

(* A page in live mode is up to date again and again, for all the loads     *)
(* that overlap, fail, and are overtaken by older answers, however often    *)
(* the user left live mode before and the server was started again: what is *)
(* stored appears in the chart, and the numbers become those of the store.  *)
LiveCatchesUp == []<>(page.mode = "live" => UpToDate)

=============================================================================
