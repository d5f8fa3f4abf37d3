------------------------------- MODULE Archive -------------------------------
(***************************************************************************)
(* The table of readings on disk (internal/storage/sqlite.go), the         *)
(* goroutine that erases old ones (internal/storage/retention.go), the end *)
(* of the server program, and a client that scrolls through the history of *)
(* a sensor page by page (GET /api/history, internal/server/api.go).       *)
(*                                                                         *)
(* The pool holds one connection, so each statement on the table is one    *)
(* step.  Time counts in the unit of the stored texts, a second; a text is *)
(* the number it shows when read as UTC, which is how every query reads it.*)
(***************************************************************************)
EXTENDS Integers, Sequences, FiniteSets, SequencesExt

CONSTANTS
  Sensors,         \* the sensors that have readings
  Zones,           \* offsets from UTC of the sensors' local time
  RetentionDays,   \* Database.RetentionDays, in units of time
  Limits,          \* page sizes a client asks for
  MaxRows,         \* bound on the readings ever inserted
  MaxTime,         \* bound on the clock
  MaxRestarts      \* bound on the starts after the first

ASSUME ArchiveAssumption ==
  /\ Zones \subseteq Int
  /\ RetentionDays \in Nat
  /\ Limits \subseteq Nat \ {0}
  /\ {MaxRows, MaxTime, MaxRestarts} \subseteq Nat

VARIABLES
  rows,            \* the table: what was inserted and not deleted
  lastId,          \* AUTOINCREMENT: the id of the newest row ever inserted
  erased,          \* history: the ids of the rows ever deleted
  now,             \* the server's clock
  program,         \* main: "running", "stopping" the cleaner, then "closed"
  cleanup,         \* the calls of runCleanup, one per caller
  totalDeleted,    \* rows the cleaner counted
  restarts,        \* starts of the server after the first
  erasedBefore,    \* history: rows erased before the last start
  scroll           \* the client that scrolls

vars == <<rows, lastId, erased, now, program, cleanup, totalDeleted, restarts, erasedBefore, scroll>>

(* runCleanup is called by cleanupLoop and, through RunNow, by others. *)
Callers == {"loop", "manual"}

Texts == {t + z : t \in 0..MaxTime, z \in Zones}
Rows == [id : 1..MaxRows, sensor : Sensors, taken : 0..MaxTime, recorded_at : Texts]
ErasedSoFar == lastId - Cardinality(rows)

NoScroll == [pc |-> "idle", mode |-> "before", sensor |-> CHOOSE s \in Sensors : TRUE,
             limit |-> CHOOSE n \in Limits : TRUE, cursor |-> 0,
             due |-> {}, shown |-> <<>>, edges |-> {}]

Init ==
  /\ rows = {}
  /\ lastId = 0
  /\ erased = {}
  /\ now = 0
  /\ program = "running"
  /\ cleanup = [c \in Callers |-> [pc |-> IF c = "loop" THEN "starting" ELSE "idle",
                                   cutoff |-> 0, deleted |-> 0]]
  /\ totalDeleted = 0
  /\ restarts = 0
  /\ erasedBefore = 0
  /\ scroll = NoScroll

-----------------------------------------------------------------------------
(* Queries of the store.                                                   *)

Precedes(r, s, order) ==
  IF order = "DESC" THEN r.recorded_at > s.recorded_at ELSE r.recorded_at < s.recorded_at

(* ORDER BY .. LIMIT limit: the first rows in the order, those that tie in *)
(* any order, and any of those that tie at the cut.                        *)
OrderLimit(found, order, limit) ==
  LET size == IF limit < Cardinality(found) THEN limit ELSE Cardinality(found)
      InOrder(page) == \A i, j \in DOMAIN page : i < j => ~Precedes(page[j], page[i], order)
      Foremost(page) == \A r \in found \ ToSet(page) :
                          \A i \in DOMAIN page : ~Precedes(r, page[i], order)
  IN  {page \in SetToAllKPermutations(found) :
         Len(page) = size /\ InOrder(page) /\ Foremost(page)}

(* Mistakes the code could make: a bound that is not strict, and pages of  *)
(* later readings left oldest first.                                       *)
BugGetReadingsBefore(sensor, before, limit) ==
  OrderLimit({r \in rows : r.sensor = sensor /\ r.recorded_at <= before}, "DESC", limit)
BugGetReadingsAfter(sensor, after, limit) ==
  OrderLimit({r \in rows : r.sensor = sensor /\ r.recorded_at > after}, "ASC", limit)

(* The possible answers, newest reading first. *)
GetReadingsBefore(sensor, before, limit) ==
  OrderLimit({r \in rows : r.sensor = sensor /\ r.recorded_at < before}, "DESC", limit)
GetReadingsAfter(sensor, after, limit) ==
  {Reverse(page) : page \in
     OrderLimit({r \in rows : r.sensor = sensor /\ r.recorded_at > after}, "ASC", limit)}

-----------------------------------------------------------------------------
(* The writer and the cleaner.                                             *)

(* Timestamp.Format("2006-01-02 15:04:05") prints the time in the zone it  *)
(* carries and leaves the zone out.                                        *)
Stored(taken, zone) == taken + zone

(* Mistake: INTEGER PRIMARY KEY without AUTOINCREMENT, which continues    *)
(* from the largest id in the table.                                      *)
BugNewId == IF rows = {} THEN 1 ELSE Max({r.id : r \in rows}) + 1
NewId == lastId + 1

(* A reading the writer inserts, taken now or long ago: the sensor buffers *)
(* what it cannot send.  The rows of a batch come one after the other,     *)
(* which allows more than the transaction does.  The writer is stopped     *)
(* before the cleaner.                                                     *)
InsertReading ==
  /\ program = "running"
  /\ lastId < MaxRows
  /\ \E s \in Sensors, taken \in 0..now, z \in Zones :
       rows' = rows \cup {[id |-> NewId, sensor |-> s, taken |-> taken,
                           recorded_at |-> Stored(taken, z)]}
  /\ lastId' = lastId + 1
  /\ UNCHANGED <<erased, now, program, cleanup, totalDeleted, restarts, erasedBefore, scroll>>

Tick ==
  /\ now < MaxTime
  /\ now' = now + 1
  /\ UNCHANGED <<rows, lastId, erased, program, cleanup, totalDeleted, restarts, erasedBefore, scroll>>

(* The loop starts with a cleanup and is then woken by its ticker; RunNow  *)
(* can be called whenever.  DeleteOlderThan reads the clock, and waits for *)
(* the connection.                                                         *)
CallCleanup(c) ==
  /\ cleanup[c].pc \in {"starting", "idle"}
  /\ cleanup' = [cleanup EXCEPT ![c].pc = "deleting", ![c].cutoff = now - RetentionDays]
  /\ UNCHANGED <<rows, lastId, erased, now, program, totalDeleted, restarts, erasedBefore, scroll>>

Expired(cutoff) == {r \in rows : r.recorded_at < cutoff}

(* Mistake: only the newest row of the table is looked at. *)
BugDeleteOlderThan(c) ==
  /\ cleanup[c].pc = "deleting"
  /\ program # "closed"
  /\ LET gone == {r \in Expired(cleanup[c].cutoff) : r.id = lastId}
     IN  /\ rows' = rows \ gone
         /\ erased' = erased \cup {r.id : r \in gone}
         /\ cleanup' = [cleanup EXCEPT ![c].pc = "counting", ![c].cutoff = 0,
                                       ![c].deleted = Cardinality(gone)]
  /\ UNCHANGED <<lastId, now, program, totalDeleted, restarts, erasedBefore, scroll>>

DeleteOlderThan(c) ==
  /\ cleanup[c].pc = "deleting"
  /\ program # "closed"
  /\ rows' = rows \ Expired(cleanup[c].cutoff)
  /\ erased' = erased \cup {r.id : r \in Expired(cleanup[c].cutoff)}
  /\ cleanup' = [cleanup EXCEPT ![c].pc = "counting", ![c].cutoff = 0,
                                ![c].deleted = Cardinality(Expired(cleanup[c].cutoff))]
  /\ UNCHANGED <<lastId, now, program, totalDeleted, restarts, erasedBefore, scroll>>

(* The statement fails: the disk, or a closed database.  Nothing is        *)
(* counted but the attempt, and the caller goes on.                        *)
DeleteFails(c) ==
  /\ cleanup[c].pc = "deleting"
  /\ cleanup' = [cleanup EXCEPT ![c].pc = "idle", ![c].cutoff = 0]
  /\ UNCHANGED <<rows, lastId, erased, now, program, totalDeleted, restarts, erasedBefore, scroll>>

(* Mistake: the total is overwritten. *)
BugCountDeleted(c) ==
  /\ cleanup[c].pc = "counting"
  /\ totalDeleted' = cleanup[c].deleted
  /\ cleanup' = [cleanup EXCEPT ![c].pc = "idle", ![c].deleted = 0]
  /\ UNCHANGED <<rows, lastId, erased, now, program, restarts, erasedBefore, scroll>>

(* Under c.mu. *)
CountDeleted(c) ==
  /\ cleanup[c].pc = "counting"
  /\ totalDeleted' = totalDeleted + cleanup[c].deleted
  /\ cleanup' = [cleanup EXCEPT ![c].pc = "idle", ![c].deleted = 0]
  /\ UNCHANGED <<rows, lastId, erased, now, program, restarts, erasedBefore, scroll>>

-----------------------------------------------------------------------------
(* The end of the program, and its next start.                             *)

(* RetentionCleaner.Stop closes stopChan and waits. *)
Stop ==
  /\ program = "running"
  /\ program' = "stopping"
  /\ UNCHANGED <<rows, lastId, erased, now, cleanup, totalDeleted, restarts, erasedBefore, scroll>>

(* Mistake: Stop waits before it closes stopChan. *)
BugLoopStops ==
  /\ program = "closed"
  /\ cleanup["loop"].pc = "idle"
  /\ cleanup' = [cleanup EXCEPT !["loop"].pc = "left"]
  /\ UNCHANGED <<rows, lastId, erased, now, program, totalDeleted, restarts, erasedBefore, scroll>>

LoopStops ==
  /\ program = "stopping"
  /\ cleanup["loop"].pc = "idle"
  /\ cleanup' = [cleanup EXCEPT !["loop"].pc = "left"]
  /\ UNCHANGED <<rows, lastId, erased, now, program, totalDeleted, restarts, erasedBefore, scroll>>

(* wg.Wait returns, Stop returns, and main closes the store. *)
CloseStore ==
  /\ program = "stopping"
  /\ cleanup["loop"].pc = "left"
  /\ program' = "closed"
  /\ UNCHANGED <<rows, lastId, erased, now, cleanup, totalDeleted, restarts, erasedBefore, scroll>>

(* The process ends, in good order or not, and is started again on its     *)
(* file: Migrate keeps the table, the cleaner counts from zero.            *)
Restart ==
  /\ restarts < MaxRestarts
  /\ restarts' = restarts + 1
  /\ program' = "running"
  /\ cleanup' = [c \in Callers |-> [pc |-> IF c = "loop" THEN "starting" ELSE "idle",
                                    cutoff |-> 0, deleted |-> 0]]
  /\ totalDeleted' = 0
  /\ erasedBefore' = ErasedSoFar
  /\ UNCHANGED <<rows, lastId, erased, now, scroll>>

-----------------------------------------------------------------------------
(* A client that scrolls back from now, or forward from the beginning of   *)
(* time: it asks for a page, and as long as has_more is set for the next   *)
(* one, from the far end of the page it has.                               *)

BeginScroll ==
  /\ scroll.pc = "idle"
  /\ \E mode \in {"before", "after"}, s \in Sensors, n \in Limits :
     LET t == IF mode = "before" THEN now + 1 ELSE -1
     IN  scroll' = [pc |-> "scrolling", mode |-> mode, sensor |-> s, limit |-> n, cursor |-> t,
                  due |-> {r.id : r \in {q \in rows :
                             /\ q.sensor = s
                             /\ IF mode = "before" THEN q.recorded_at < t
                                                   ELSE q.recorded_at > t}},
                  shown |-> <<>>, edges |-> {}]
  /\ UNCHANGED <<rows, lastId, erased, now, program, cleanup, totalDeleted, restarts, erasedBefore>>

(* Mistake: a page as long as the limit is taken for the last one. *)
BugHasMore(page) == Len(page) > scroll.limit
HasMore(page) == Len(page) >= scroll.limit

(* The two modes that scroll; start= and end= are not modelled. *)
queryHistoricalStore ==
  IF scroll.mode = "before"
  THEN GetReadingsBefore(scroll.sensor, scroll.cursor, scroll.limit)
  ELSE GetReadingsAfter(scroll.sensor, scroll.cursor, scroll.limit)

(* A page from the database, and what the client makes of it.  On a closed *)
(* store the answer is an error and the client is where it was.            *)
HandleHistory ==
  /\ scroll.pc = "scrolling"
  /\ program # "closed"
  /\ \E page \in queryHistoricalStore :
       LET ids == [i \in DOMAIN page |-> page[i].id]
           edge == IF scroll.mode = "before" THEN page[Len(page)].recorded_at
                                             ELSE page[1].recorded_at
       IN  scroll' = IF HasMore(page)
                     THEN [scroll EXCEPT !.cursor = edge, !.edges = @ \cup {edge},
                                         !.shown = @ \o ids]
                     ELSE [scroll EXCEPT !.pc = "done", !.shown = @ \o ids]
  /\ UNCHANGED <<rows, lastId, erased, now, program, cleanup, totalDeleted, restarts, erasedBefore>>

-----------------------------------------------------------------------------
Cleanup(c) == CallCleanup(c) \/ DeleteOlderThan(c) \/ DeleteFails(c) \/ CountDeleted(c)

Next ==
  \/ InsertReading \/ Tick
  \/ \E c \in Callers : Cleanup(c)
  \/ Stop \/ LoopStops \/ CloseStore \/ Restart
  \/ BeginScroll \/ HandleHistory

Spec == Init /\ [][Next]_vars

(* The goroutine of the loop and main are scheduled, the ticker ticks, and *)
(* select takes a ready stop among ready arms sooner or later.  The disk   *)
(* does not fail forever.  Nobody has to call RunNow or to scroll.         *)
Fairness ==
  /\ WF_vars(Cleanup("loop"))
  /\ SF_vars(DeleteOlderThan("loop"))
  /\ SF_vars(LoopStops)
  /\ WF_vars(CloseStore)

FairSpec == Spec /\ Fairness

-----------------------------------------------------------------------------
(* The type of the state.  A row has an id of its own, none above lastId   *)
(* and none that an erased row had, before or after a restart:             *)
(* AUTOINCREMENT (sqlite.go:119) gives no id twice.                        *)
ArchiveTypeOK ==
  /\ rows \subseteq Rows
  /\ \A r, q \in rows : r.id = q.id => r = q
  /\ lastId \in 0..MaxRows /\ \A r \in rows : r.id <= lastId
  /\ erased \subseteq 1..lastId /\ \A r \in rows : r.id \notin erased
  /\ now \in 0..MaxTime
  /\ program \in {"running", "stopping", "closed"}
  /\ cleanup \in [Callers -> [pc : {"idle", "starting", "deleting", "counting", "left"},
                              cutoff : -RetentionDays..MaxTime, deleted : 0..MaxRows]]
  /\ totalDeleted \in 0..MaxRows
  /\ restarts \in 0..MaxRestarts
  /\ erasedBefore \in 0..MaxRows
  /\ scroll.shown \in Seq(1..MaxRows)

(* Whatever cleanups run at the same time, fail, or are cut off by the end *)
(* of the process, the rows erased since the start are those in            *)
(* totalDeleted and those a runCleanup has yet to add under c.mu.          *)
CountsAgree ==
  ErasedSoFar - erasedBefore =
    totalDeleted + cleanup["loop"].deleted + cleanup["manual"].deleted

(* A client that scrolls through the history of a sensor, with before= or  *)
(* with after=, while readings are inserted and erased and the server is   *)
(* restarted, is shown no reading twice.  When has_more ends the scroll,   *)
(* it has seen every reading the table had when it began and still has,    *)
(* but for those that share their second with the far end of a page: the   *)
(* bound of the next page is strict and leaves them out.                   *)
ScrollIsExact ==
  /\ IsInjective(scroll.shown)
  /\ scroll.pc = "done" =>
       \A r \in rows : r.id \in scroll.due =>
         r.id \in ToSet(scroll.shown) \/ r.recorded_at \in scroll.edges

(* A reading older than the retention period, also one that arrives when   *)
(* it already is, does not stay in the table of a server that keeps        *)
(* running: cleanups that fail are made good by later ones.                *)
ExpiredAreErased ==
  \A id \in 1..MaxRows :
    (\E r \in rows : r.id = id /\ r.recorded_at < now - RetentionDays)
      ~> (program # "running" \/ \A r \in rows : r.id # id)

(* The end of the program is not held up by the cleaner, whatever it is    *)
(* doing when Stop is called: the store is closed, or the process killed   *)
(* and started again.                                                      *)
StopClosesTheStore == program = "stopping" ~> program \in {"closed", "running"}

(* "DeleteOlderThan removes readings older than the specified number of    *)
(* days" (sqlite.go:450): no step takes a reading out of the table that is *)
(* not older than that.  Not so for a sensor whose clock is west of UTC:   *)
(* its readings carry time.Now() in local time (reading.go:62) and are     *)
(* stored without the zone (sqlite.go:187), the cutoff is UTC.             *)
KeptForRetention == [][\A r \in rows \ rows' : now - r.taken > RetentionDays]_vars

=============================================================================
