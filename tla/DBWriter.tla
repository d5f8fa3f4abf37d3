------------------------------ MODULE DBWriter ------------------------------
(***************************************************************************)
(* internal/storage/dbwriter.go: the asynchronous batched writer between   *)
(* the WebSocket handlers and SQLite.                                      *)
(*                                                                         *)
(* Handlers call Write, a non-blocking send on writeChan.  One goroutine,  *)
(* writerLoop, collects readings into a batch and flushes the batch when   *)
(* it is full, when the flush ticker fires, or when Stop closes stopChan.  *)
(* InsertBatch is one transaction: all rows of a batch or none.            *)
(*                                                                         *)
(* A reading is the number of the Write call that offered it.  Its content *)
(* plays no part in any decision of the writer.                            *)
(***************************************************************************)
EXTENDS Naturals, Sequences, SequencesExt, Histories

CONSTANTS
  Configs,       \* values of DBWriterConfig; the server validates neither field
  MaxOffered,    \* bound on the number of Write calls
  MaxCrashes     \* bound on the number of process crashes

ASSUME DBWriterAssumption ==
  /\ Configs \subseteq [batchSize : Nat, channelSize : Nat]
  /\ MaxOffered \in Nat
  /\ MaxCrashes \in Nat

VARIABLES
  config,        \* the configuration the process was started with
  writeChan,     \* the channel's contents
  batch,         \* writerLoop's local slice
  pc,            \* where writerLoop is
  draining,      \* writerLoop is in its stopChan case and returns after the flush
  insert,        \* outcome of the last InsertBatch, until flush records it
  stopper,       \* the caller of Stop: not called, in wg.Wait, or returned
  rows,          \* rows of the readings table, in the order of insertion
  stats,         \* totalWritten, totalBatches, totalErrors
  offered,       \* history: number of Write calls, the last reading's number
  accepted,      \* history: readings for which Write returned true, in order
  settled,       \* history: accepted readings that left the writer, in order
  forgotten,     \* history: settled readings that are not in rows
  promised,      \* history: how many readings were accepted when Stop was called
  crashes        \* number of crashes so far

loopVars == <<batch, pc, draining, insert>>
dbVars   == <<rows, settled, forgotten>>
vars     == <<config, writeChan, loopVars, stopper, dbVars, stats, offered, accepted,
              promised, crashes>>

BatchSize   == config.batchSize
ChannelSize == config.channelSize    \* 0 makes writeChan unbuffered

NoStats  == [written |-> 0, batches |-> 0, errors |-> 0]
NoInsert == [count |-> 0, ok |-> TRUE]
Stopped  == stopper # "idle"      \* stopChan is closed

-----------------------------------------------------------------------------
Init ==
  /\ config \in Configs
  /\ writeChan = <<>>
  /\ batch = <<>>
  /\ pc = "select"
  /\ draining = FALSE
  /\ insert = NoInsert
  /\ stopper = "idle"
  /\ rows = <<>>
  /\ stats = NoStats
  /\ offered = 0
  /\ accepted = <<>>
  /\ settled = <<>>
  /\ forgotten = {}
  /\ promised = 0
  /\ crashes = 0

-----------------------------------------------------------------------------
(* Mistakes the code could make.  No action below uses these operators: each *)
(* is the wrong form of one definition that some property has to notice.     *)

(* The reading is numbered before the call is counted. *)
BugWriteStale ==
  /\ offered < MaxOffered
  /\ offered' = offered + 1
  /\ Len(writeChan) < ChannelSize
  /\ writeChan' = Append(writeChan, offered)
  /\ accepted' = Append(accepted, offered)
  /\ UNCHANGED <<loopVars, stopper, dbVars, stats, promised, crashes, config>>

(* Write returns true although the hand-over did not take place. *)
BugHandOverLost ==
  /\ offered < MaxOffered
  /\ offered' = offered + 1
  /\ ChannelSize = 0
  /\ pc = "select"
  /\ accepted' = Append(accepted, offered')
  /\ UNCHANGED <<writeChan, loopVars, stopper, dbVars, stats, promised, crashes, config>>

(* The newest reading of the channel is taken first. *)
BugReceiveNewest ==
  /\ pc = "select"
  /\ writeChan # <<>>
  /\ batch' = Append(batch, Last(writeChan))
  /\ writeChan' = Front(writeChan)
  /\ pc' = IF Len(batch') >= BatchSize THEN "insert" ELSE "select"
  /\ UNCHANGED <<draining, insert, stopper, dbVars, stats, offered, accepted,
                 promised, crashes, config>>

(* The ticker only flushes a full batch. *)
BugTickFullOnly ==
  /\ pc = "select"
  /\ batch # <<>>
  /\ Len(batch) >= BatchSize
  /\ pc' = "insert"
  /\ UNCHANGED <<writeChan, batch, draining, insert, stopper, dbVars, stats,
                 offered, accepted, promised, crashes, config>>

(* The stop case returns at once. *)
BugStopNoDrain ==
  /\ pc = "select"
  /\ stopper # "idle"
  /\ pc' = "done"
  /\ draining' = TRUE
  /\ UNCHANGED <<writeChan, batch, insert, stopper, dbVars, stats, offered,
                 accepted, promised, crashes, config>>

(* draining is never set back to false when the channel is empty. *)
BugDrainForever ==
  /\ pc = "drain"
  /\ writeChan = <<>>
  /\ batch # <<>>
  /\ pc' = "drain"
  /\ UNCHANGED <<writeChan, batch, draining, insert, stopper, dbVars, stats,
                 offered, accepted, promised, crashes, config>>

(* The batch is not replaced after the flush. *)
BugKeepBatch(ok) ==
  /\ pc = "insert"
  /\ rows' = IF ok THEN rows \o batch ELSE rows
  /\ forgotten' = IF ok THEN forgotten ELSE forgotten \cup ToSet(batch)
  /\ settled' = settled \o batch
  /\ insert' = [count |-> Len(batch), ok |-> ok]
  /\ pc' = "record"
  /\ UNCHANGED <<writeChan, batch, draining, stopper, stats, offered, accepted,
                 promised, crashes, config>>

(* Rows inserted one by one, without a transaction: an error keeps the first. *)
BugNoTransaction(ok) ==
  /\ pc = "insert"
  /\ rows' = IF ok THEN rows \o batch ELSE Append(rows, Head(batch))
  /\ forgotten' = IF ok THEN forgotten ELSE forgotten \cup ToSet(batch)
  /\ settled' = settled \o batch
  /\ insert' = [count |-> Len(batch), ok |-> ok]
  /\ batch' = <<>>
  /\ pc' = "record"
  /\ UNCHANGED <<writeChan, draining, stopper, stats, offered, accepted,
                 promised, crashes, config>>

(* totalWritten also counts a batch whose transaction failed. *)
BugCountFailures ==
  /\ pc = "record"
  /\ stats' = [stats EXCEPT !.written = @ + insert.count, !.batches = @ + 1]
  /\ insert' = [count |-> 0, ok |-> TRUE]
  /\ pc' = IF draining THEN "done" ELSE "select"
  /\ UNCHANGED <<writeChan, batch, draining, stopper, dbVars, offered,
                 accepted, promised, crashes, config>>

-----------------------------------------------------------------------------
(* Write, called by any handler at any time: Stop does not close writeChan *)
(* and main stops the writer before the HTTP server.                       *)

Offer ==
  /\ offered < MaxOffered
  /\ offered' = offered + 1

(* The writer takes reading r into its batch; a full batch is flushed. *)
TakeIntoBatch(r) ==
  /\ batch' = Append(batch, r)
  /\ pc' = IF Len(batch') >= BatchSize THEN "insert" ELSE "select"
  /\ UNCHANGED <<draining, insert>>

WriteQueued ==
  /\ Offer
  /\ Len(writeChan) < ChannelSize
  /\ writeChan' = Append(writeChan, offered')
  /\ accepted' = Append(accepted, offered')
  /\ UNCHANGED <<loopVars, stopper, dbVars, stats, promised, crashes, config>>

(* On an unbuffered channel a send succeeds only with the loop parked in its *)
(* select, which the closing of stopChan ends; the loop holds the reading at *)
(* once.                                                                     *)
WriteHandedOver ==
  /\ Offer
  /\ ChannelSize = 0
  /\ pc = "select"
  /\ ~Stopped
  /\ TakeIntoBatch(offered')
  /\ accepted' = Append(accepted, offered')
  /\ UNCHANGED <<writeChan, stopper, dbVars, stats, promised, crashes, config>>

(* The default case: no room in the channel, the reading is dropped. *)
WriteDropped ==
  /\ Offer
  /\ Len(writeChan) >= ChannelSize
  /\ UNCHANGED <<writeChan, loopVars, stopper, dbVars, stats, accepted,
                 promised, crashes, config>>

-----------------------------------------------------------------------------
(* writerLoop *)

Receive ==
  /\ pc = "select"
  /\ writeChan # <<>>
  /\ TakeIntoBatch(Head(writeChan))
  /\ writeChan' = Tail(writeChan)
  /\ UNCHANGED <<stopper, dbVars, stats, offered, accepted, promised, crashes, config>>

FlushTick ==
  /\ pc = "select"
  /\ batch # <<>>
  /\ pc' = "insert"
  /\ UNCHANGED <<writeChan, batch, draining, insert, stopper, dbVars, stats,
                 offered, accepted, promised, crashes, config>>

SeeStop ==
  /\ pc = "select"
  /\ Stopped
  /\ pc' = "drain"
  /\ draining' = TRUE
  /\ UNCHANGED <<writeChan, batch, insert, stopper, dbVars, stats, offered,
                 accepted, promised, crashes, config>>

DrainOne ==
  /\ pc = "drain"
  /\ writeChan # <<>>
  /\ batch' = Append(batch, Head(writeChan))
  /\ writeChan' = Tail(writeChan)
  /\ UNCHANGED <<pc, draining, insert, stopper, dbVars, stats, offered,
                 accepted, promised, crashes, config>>

DrainEnd ==
  /\ pc = "drain"
  /\ writeChan = <<>>
  /\ pc' = IF batch # <<>> THEN "insert" ELSE "done"
  /\ UNCHANGED <<writeChan, batch, draining, insert, stopper, dbVars, stats,
                 offered, accepted, promised, crashes, config>>

(* flush: the transaction, then the counters under w.mu.  The slice is only *)
(* replaced after flush returns, but nobody else can see it.                *)
InsertBatch(ok) ==
  /\ pc = "insert"
  /\ rows' = IF ok THEN rows \o batch ELSE rows
  /\ forgotten' = IF ok THEN forgotten ELSE forgotten \cup ToSet(batch)
  /\ settled' = settled \o batch
  /\ insert' = [count |-> Len(batch), ok |-> ok]
  /\ batch' = <<>>
  /\ pc' = "record"
  /\ UNCHANGED <<writeChan, draining, stopper, stats, offered, accepted,
                 promised, crashes, config>>

RecordFlush ==
  /\ pc = "record"
  /\ stats' = IF insert.ok
                THEN [stats EXCEPT !.written = @ + insert.count,
                                   !.batches = @ + 1]
                ELSE [stats EXCEPT !.errors = @ + 1]
  /\ insert' = NoInsert
  /\ pc' = IF draining THEN "done" ELSE "select"
  /\ UNCHANGED <<writeChan, batch, draining, stopper, dbVars, offered,
                 accepted, promised, crashes, config>>

-----------------------------------------------------------------------------
(* Stop: close(stopChan), then wait for writerLoop to return. *)

Stop ==
  /\ stopper = "idle"
  /\ stopper' = "waiting"
  /\ promised' = Len(accepted)
  /\ UNCHANGED <<writeChan, loopVars, dbVars, stats, offered, accepted, crashes, config>>

StopReturn ==
  /\ stopper = "waiting"
  /\ pc = "done"
  /\ stopper' = "returned"
  /\ UNCHANGED <<writeChan, loopVars, dbVars, stats, offered, accepted,
                 promised, crashes, config>>

(* The process dies and is restarted, with any configuration, with a new     *)
(* writer; only rows survive.                                                *)
Crash ==
  /\ crashes < MaxCrashes
  /\ crashes' = crashes + 1
  /\ config' \in Configs
  /\ settled' = settled \o batch \o writeChan
  /\ forgotten' = forgotten \cup ToSet(batch) \cup ToSet(writeChan)
  /\ writeChan' = <<>>
  /\ batch' = <<>>
  /\ pc' = "select"
  /\ draining' = FALSE
  /\ insert' = NoInsert
  /\ stopper' = "idle"
  /\ stats' = NoStats
  /\ promised' = 0
  /\ UNCHANGED <<rows, offered, accepted>>

-----------------------------------------------------------------------------
Write == WriteQueued \/ WriteHandedOver \/ WriteDropped

WriterLoop ==
  \/ Receive \/ FlushTick \/ SeeStop \/ DrainOne \/ DrainEnd
  \/ \E ok \in BOOLEAN : InsertBatch(ok)
  \/ RecordFlush

Next == Write \/ WriterLoop \/ Stop \/ StopReturn \/ Crash

Spec == Init /\ [][Next]_vars

(* The writer goroutine is scheduled; Go's select picks at random among the *)
(* ready cases, so a case that is ready again and again is taken.           *)
Fairness ==
  /\ WF_vars(WriterLoop)
  /\ SF_vars(Receive)
  /\ SF_vars(FlushTick)
  /\ SF_vars(SeeStop)
  /\ WF_vars(StopReturn)

FairSpec == Spec /\ Fairness

-----------------------------------------------------------------------------
(* Properties *)

TypeOK ==
  /\ config \in Configs
  /\ offered \in Nat
  /\ writeChan \in Seq(1..offered)
  /\ batch \in Seq(1..offered)
  /\ pc \in {"select", "insert", "record", "drain", "done"}
  /\ draining \in BOOLEAN
  /\ insert \in [count : Nat, ok : BOOLEAN]
  /\ stopper \in {"idle", "waiting", "returned"}
  /\ rows \in Seq(1..offered)
  /\ stats \in [written : Nat, batches : Nat, errors : Nat]
  /\ accepted \in Seq(1..offered)
  /\ settled \in Seq(1..offered)
  /\ forgotten \subseteq 1..offered
  /\ promised \in Nat
  /\ crashes \in Nat

(* Every reading for which Write returned true is at each moment in exactly  *)
(* one place - flushed, in the batch, or in the channel - and the places are *)
(* passed in the order of the Write calls: nothing is skipped, repeated or   *)
(* overtaken, whatever the interleaving of ticks, full batches, Stop, crash. *)
FirstInFirstOut == accepted = settled \o batch \o writeChan

(* The table holds exactly the settled readings that no failed transaction   *)
(* and no crash took, each once, in the order they were offered.             *)
RowsAccountedFor ==
  /\ Increasing(rows)
  /\ ToSet(rows) \cup forgotten = ToSet(settled)
  /\ ToSet(rows) \cap forgotten = {}

(* A batch that reached its limit is flushed before the next reading is      *)
(* taken; with batch_size unset (0) every reading is a transaction alone.    *)
BatchIsBounded == pc = "select" => Len(batch) = 0 \/ Len(batch) < BatchSize

(* Stats() never reports a row that is not in the table, and is behind the   *)
(* table by at most the one batch that flush committed and has not counted.  *)
StatsFollowRows ==
  crashes = 0 =>
    Len(rows) = stats.written + (IF insert.ok THEN insert.count ELSE 0)

(* When Stop returns, every reading accepted before the call has been        *)
(* flushed: it is a row, or its transaction failed and was counted.          *)
StopSettlesThePast == stopper = "returned" => Len(settled) >= promised

(* dbwriter.go:155 says that Stop flushes any remaining data.  Handlers are  *)
(* still running then and Write still accepts, so data can remain.           *)
StopLeavesNothing == stopper = "returned" => writeChan = <<>>

(* The writer implements the abstract log: the line is the batch followed by *)
(* the channel, and only the outcome of InsertBatch moves readings out of it.*)
Log == INSTANCE ReadingLog WITH line <- batch \o writeChan, log <- rows

ImplementsLog == Log!Spec

(* A reading accepted before Stop is called is flushed in the end (or lost   *)
(* with the process): the ticker does not let a partial batch wait forever.  *)
AcceptedIsSettled ==
  \A n \in 1..MaxOffered :
    (Len(accepted) >= n /\ ~Stopped) ~> (Len(settled) >= n)

(* Stop returns (unless the process dies first): writerLoop sees the closed  *)
(* channel from every point of its loop, drains and leaves.                  *)
StopReturns == (stopper = "waiting") ~> (stopper # "waiting")

=============================================================================
