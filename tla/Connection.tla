----------------------------- MODULE Connection -----------------------------
(***************************************************************************)
(* internal/client/connection.go: the goroutines around one reconnecting   *)
(* WebSocket connection - Run, the read loop and the heartbeat loop it     *)
(* starts, the goroutine that sends readings, and the caller of Close -    *)
(* with stateMutex, the unlocked field conn, and the sockets.              *)
(*                                                                         *)
(* A socket is the number of the dial that opened it; conn = 0 is nil.     *)
(* The content of messages is left out.                                    *)
(***************************************************************************)
EXTENDS Naturals

CONSTANTS
  MaxDials,          \* bound on the number of successful dials
  BaseInterval,      \* config.ReconnectInterval
  MaxInterval        \* config.MaxReconnectInterval

ASSUME ConnectionAssumption ==
  /\ MaxDials \in Nat
  /\ BaseInterval \in Nat \ {0}
  /\ MaxInterval \in Nat \ {0}

VARIABLES
  cancelled,   \* the context given to Run is done
  state,       \* c.state
  conn,        \* c.conn
  mu,          \* who holds stateMutex over a write: "free" or a writer
  run,         \* where Run is
  interval,    \* currentReconnectInterval
  reading,     \* where the read loop is
  beating,     \* where the heartbeat loop is
  pong,        \* timeSinceLastPong() is within pongTimeout ("fresh") or not
  sender,      \* the goroutine that calls Send or SendBatch
  closer,      \* the caller of Close
  dials,       \* number of sockets dialed so far
  open,        \* sockets not closed on this side
  alive,       \* sockets whose peer has not gone away
  failed,      \* sockets a write has failed on; gorilla fails all later ones
  unregistered \* history: sockets whose registration could not be written

lockVars   == <<state, mu>>
runVars    == <<run, interval>>
loopVars   == <<reading, beating, pong>>
socketVars == <<open, alive, failed, unregistered>>
vars       == <<cancelled, lockVars, conn, runVars, loopVars, sender, closer, dials, socketVars>>

Sockets == 1..MaxDials
Free    == mu = "free"

Init ==
  /\ cancelled = FALSE
  /\ state = "disconnected"
  /\ conn = 0
  /\ mu = "free"
  /\ run = "top"
  /\ interval = BaseInterval
  /\ reading = "off"
  /\ beating = "off"
  /\ pong = "stale"
  /\ sender = "idle"
  /\ closer = "idle"
  /\ dials = 0
  /\ open = {}
  /\ alive = {}
  /\ failed = {}
  /\ unregistered = {}

-----------------------------------------------------------------------------
(* Mistakes the code could make, for the runs that check the properties. *)

(* Connect does not set the state before it dials. *)
BugStateKept ==
  /\ run = "connect"
  /\ Free
  /\ run' = "dial"
  /\ UNCHANGED <<cancelled, lockVars, conn, interval, loopVars, sender, closer, dials, socketVars>>

(* The WaitGroup counts the heartbeat loop only. *)
BugJoinOne ==
  /\ run = "loops"
  /\ beating = "done"
  /\ beating' = "off"
  /\ run' = "disconnect"
  /\ UNCHANGED <<cancelled, lockVars, conn, interval, reading, pong, sender, closer, dials, socketVars>>

(* A connection that a write has failed on is taken for a closed one, and    *)
(* runMessageLoops returns without disconnect.                               *)
BugFailedKept ==
  /\ run = "loops"
  /\ reading = "done"
  /\ beating = "done"
  /\ reading' = "off"
  /\ beating' = "off"
  /\ run' = IF conn \in failed THEN "wait" ELSE "disconnect"
  /\ UNCHANGED <<cancelled, lockVars, conn, interval, pong, sender, closer, dials, socketVars>>

(* disconnect sets the state and does not close the socket. *)
BugNotClosed ==
  /\ run = "disconnect"
  /\ Free
  /\ state' = "disconnected"
  /\ run' = "wait"
  /\ UNCHANGED <<cancelled, mu, conn, interval, loopVars, sender, closer, dials, socketVars>>

(* disconnect calls setState with the mutex held. *)
BugLockedTwice ==
  /\ run = "disconnect"
  /\ Free
  /\ mu' = "run"
  /\ UNCHANGED <<cancelled, state, conn, runVars, loopVars, sender, closer, dials, socketVars>>

(* The doubled interval is not capped. *)
BugNoCap ==
  /\ run = "wait"
  /\ interval < 8 * MaxInterval
  /\ interval' = 2 * interval
  /\ run' = "top"
  /\ UNCHANGED <<cancelled, lockVars, conn, loopVars, sender, closer, dials, socketVars>>

(* Run does not look at ctx at the top of its loop. *)
BugRunTop ==
  /\ run = "top"
  /\ run' = "connect"
  /\ UNCHANGED <<cancelled, lockVars, conn, interval, loopVars, sender, closer, dials, socketVars>>

-----------------------------------------------------------------------------
(* sendMessage: the mutex is held while the message is written to the socket *)
(* c.conn is at that moment.                                                 *)

Lock(w) == Free /\ mu' = w /\ UNCHANGED state

Written(w) ==
  /\ mu = w
  /\ mu' = "free"
  /\ conn \in open \ failed
  /\ UNCHANGED <<state, conn, open, alive, failed>>

(* A write fails on a socket closed here or after an earlier failure, and    *)
(* can fail on any other: the peer is gone, or ten seconds pass.             *)
WriteFailed(w) ==
  /\ mu = w
  /\ mu' = "free"
  /\ failed' = failed \cup {conn}
  /\ UNCHANGED <<state, conn, open, alive>>

-----------------------------------------------------------------------------
(* Run and Connect *)

RunTop ==
  /\ run = "top"
  /\ run' = IF cancelled THEN "done" ELSE "connect"
  /\ UNCHANGED <<cancelled, lockVars, conn, interval, loopVars, sender, closer, dials, socketVars>>

SetConnecting ==
  /\ run = "connect"
  /\ Free
  /\ state' = "connecting"
  /\ run' = "dial"
  /\ UNCHANGED <<cancelled, mu, conn, interval, loopVars, sender, closer, dials, socketVars>>

DialFails ==
  /\ run = "dial"
  /\ Free
  /\ state' = "disconnected"
  /\ run' = "wait"
  /\ UNCHANGED <<cancelled, mu, conn, interval, loopVars, sender, closer, dials, socketVars>>

DialSucceeds ==
  /\ run = "dial"
  /\ dials < MaxDials
  /\ dials' = dials + 1
  /\ open' = open \cup {dials'}
  /\ alive' = alive \cup {dials'}
  /\ run' = "assign"
  /\ UNCHANGED <<cancelled, lockVars, conn, interval, loopVars, sender, closer, failed, unregistered>>

(* c.conn = conn, without the mutex. *)
AssignConn ==
  /\ run = "assign"
  /\ conn' = dials
  /\ run' = "announce"
  /\ UNCHANGED <<cancelled, lockVars, interval, loopVars, sender, closer, dials, socketVars>>

SetConnected ==
  /\ run = "announce"
  /\ Free
  /\ state' = "connected"
  /\ interval' = BaseInterval
  /\ run' = "register"
  /\ UNCHANGED <<cancelled, mu, conn, loopVars, sender, closer, dials, socketVars>>

RegisterLock ==
  /\ run = "register"
  /\ Lock("run")
  /\ UNCHANGED <<cancelled, conn, runVars, loopVars, sender, closer, dials, socketVars>>

(* A registration that cannot be written leaves the state and the socket. *)
Register ==
  /\ run = "register"
  /\ \/ Written("run") /\ run' = "start" /\ UNCHANGED unregistered
     \/ WriteFailed("run") /\ run' = "wait" /\ unregistered' = unregistered \cup {conn}
  /\ UNCHANGED <<cancelled, interval, loopVars, sender, closer, dials>>

StartLoops ==
  /\ run = "start"
  /\ reading' = "check"
  /\ beating' = "start"
  /\ run' = "loops"
  /\ UNCHANGED <<cancelled, lockVars, conn, interval, pong, sender, closer, dials, socketVars>>

JoinLoops ==
  /\ run = "loops"
  /\ reading = "done"
  /\ beating = "done"
  /\ reading' = "off"
  /\ beating' = "off"
  /\ run' = "disconnect"
  /\ UNCHANGED <<cancelled, lockVars, conn, interval, pong, sender, closer, dials, socketVars>>

Disconnect ==
  /\ run = "disconnect"
  /\ Free
  /\ state' = "disconnected"
  /\ open' = open \ {conn}
  /\ run' = "wait"
  /\ UNCHANGED <<cancelled, mu, conn, interval, loopVars, sender, closer, dials, alive, failed, unregistered>>

(* waitBeforeReconnect doubles the interval after the wait, so a wait cut    *)
(* short by ctx leaves it alone.                                             *)
WaitOver ==
  /\ run = "wait"
  /\ interval' = IF 2 * interval > MaxInterval THEN MaxInterval ELSE 2 * interval
  /\ run' = "top"
  /\ UNCHANGED <<cancelled, lockVars, conn, loopVars, sender, closer, dials, socketVars>>

WaitCancelled ==
  /\ run = "wait"
  /\ cancelled
  /\ run' = "top"
  /\ UNCHANGED <<cancelled, lockVars, conn, interval, loopVars, sender, closer, dials, socketVars>>

-----------------------------------------------------------------------------
(* readLoop: ctx is looked at between messages only; ReadJSON has no deadline. *)

ReadCheck ==
  /\ reading = "check"
  /\ reading' = IF cancelled THEN "done" ELSE "read"
  /\ UNCHANGED <<cancelled, lockVars, conn, runVars, beating, pong, sender, closer, dials, socketVars>>

(* A message arrives; an ack refreshes the last pong, others do not. *)
ReadMessage ==
  /\ reading = "read"
  /\ conn \in open \cap alive
  /\ pong' \in {pong, "fresh"}
  /\ reading' = "check"
  /\ UNCHANGED <<cancelled, lockVars, conn, runVars, beating, sender, closer, dials, socketVars>>

ReadError ==
  /\ reading = "read"
  /\ conn \notin open \cap alive
  /\ reading' = "done"
  /\ UNCHANGED <<cancelled, lockVars, conn, runVars, beating, pong, sender, closer, dials, socketVars>>

-----------------------------------------------------------------------------
(* heartbeatLoop *)

BeatStart ==
  /\ beating = "start"
  /\ pong' = "fresh"
  /\ beating' = "select"
  /\ UNCHANGED <<cancelled, lockVars, conn, runVars, reading, sender, closer, dials, socketVars>>

BeatStops ==
  /\ beating = "select"
  /\ cancelled
  /\ beating' = "done"
  /\ UNCHANGED <<cancelled, lockVars, conn, runVars, reading, pong, sender, closer, dials, socketVars>>

BeatTick ==
  /\ beating = "select"
  /\ Lock("beat")
  /\ beating' = "send"
  /\ UNCHANGED <<cancelled, conn, runVars, reading, pong, sender, closer, dials, socketVars>>

SendHeartbeat ==
  /\ beating = "send"
  /\ \/ Written("beat") /\ beating' = "check"
     \/ WriteFailed("beat") /\ beating' = "done"
  /\ UNCHANGED <<cancelled, runVars, reading, pong, sender, closer, dials, unregistered>>

(* The answer to the heartbeat just sent cannot have arrived: the age of the *)
(* previous one is tested.                                                   *)
CheckPong ==
  /\ beating = "check"
  /\ beating' = IF pong = "stale" THEN "done" ELSE "select"
  /\ UNCHANGED <<cancelled, lockVars, conn, runVars, reading, pong, sender, closer, dials, socketVars>>

-----------------------------------------------------------------------------
(* Send and SendBatch, from one goroutine: IsConnected, unlock, lock, write. *)

SendCheck ==
  /\ sender = "idle"
  /\ Free
  /\ state = "connected"
  /\ sender' = "checked"
  /\ UNCHANGED <<cancelled, lockVars, conn, runVars, loopVars, closer, dials, socketVars>>

SendLock ==
  /\ sender = "checked"
  /\ Lock("send")
  /\ sender' = "locked"
  /\ UNCHANGED <<cancelled, conn, runVars, loopVars, closer, dials, socketVars>>

SendWrite ==
  /\ sender = "locked"
  /\ Written("send") \/ WriteFailed("send")
  /\ sender' = "idle"
  /\ UNCHANGED <<cancelled, runVars, loopVars, closer, dials, unregistered>>

(* NewMessage fails: the message is not encoded and nothing is written. *)
SendNotEncoded ==
  /\ sender = "checked"
  /\ sender' = "idle"
  /\ UNCHANGED <<cancelled, lockVars, conn, runVars, loopVars, closer, dials, socketVars>>

-----------------------------------------------------------------------------
(* Close uses c.conn without the mutex, then sets the state.  It does not    *)
(* stop Run: nothing receives from stopChan.  cmd/sensor/main.go calls it    *)
(* after Run has returned, the tests at any time.                            *)

(* A close message is tried for up to a second; gorilla fails all writes     *)
(* after one.  The test for nil reads c.conn as well; it is never nil again. *)
CloseMessage ==
  /\ closer = "idle"
  /\ closer' = IF conn = 0 THEN "state" ELSE "socket"
  /\ failed' \in {failed} \cup (IF conn = 0 THEN {} ELSE {failed \cup {conn}})
  /\ UNCHANGED <<cancelled, lockVars, conn, runVars, loopVars, sender, dials, open, alive,
                 unregistered>>

(* c.conn may be another socket by now. *)
CloseSocket ==
  /\ closer = "socket"
  /\ open' = open \ {conn}
  /\ closer' = "state"
  /\ UNCHANGED <<cancelled, lockVars, conn, runVars, loopVars, sender, dials, alive, failed,
                 unregistered>>

CloseState ==
  /\ closer = "state"
  /\ Free
  /\ state' = "disconnected"
  /\ closer' = "closed"
  /\ UNCHANGED <<cancelled, mu, conn, runVars, loopVars, sender, dials, socketVars>>

-----------------------------------------------------------------------------
(* The environment: the signal handler, time, and the servers. *)

Cancel ==
  /\ ~cancelled
  /\ cancelled' = TRUE
  /\ UNCHANGED <<lockVars, conn, runVars, loopVars, sender, closer, dials, socketVars>>

PongAges ==
  /\ pong = "fresh"
  /\ pong' = "stale"
  /\ UNCHANGED <<cancelled, lockVars, conn, runVars, reading, beating, sender, closer, dials, socketVars>>

PeerGoes(s) ==
  /\ s \in alive
  /\ alive' = alive \ {s}
  /\ UNCHANGED <<cancelled, lockVars, conn, runVars, loopVars, sender, closer, dials, open, failed,
                 unregistered>>

-----------------------------------------------------------------------------
Run ==
  \/ RunTop \/ SetConnecting \/ DialFails \/ DialSucceeds \/ AssignConn \/ SetConnected
  \/ RegisterLock \/ Register \/ StartLoops \/ JoinLoops \/ Disconnect
  \/ WaitOver \/ WaitCancelled

ReadLoop == ReadCheck \/ ReadMessage \/ ReadError

HeartbeatLoop == BeatStart \/ BeatStops \/ BeatTick \/ SendHeartbeat \/ CheckPong

Send == SendCheck \/ SendLock \/ SendWrite \/ SendNotEncoded

Close == CloseMessage \/ CloseSocket \/ CloseState

Next ==
  \/ Run \/ ReadLoop \/ HeartbeatLoop \/ Send \/ Close
  \/ Cancel \/ PongAges \/ \E s \in Sockets : PeerGoes(s)

Spec == Init /\ [][Next]_vars

(* The goroutines are scheduled and Go's mutex does not starve a waiter, so  *)
(* a step that is possible again and again is taken.  select between ctx and *)
(* the ticker takes ctx in the end.  With the peer gone no ack arrives and   *)
(* the last pong ages.  How a dial or a write ends is not assumed, nor that  *)
(* a peer ever sends anything.                                               *)
Fairness ==
  /\ SF_vars(Run)
  /\ WF_vars(ReadCheck)
  /\ WF_vars(ReadError)
  /\ SF_vars(HeartbeatLoop)
  /\ SF_vars(BeatStops)
  /\ SF_vars(SendLock)
  /\ WF_vars(SendWrite)
  /\ WF_vars(CloseSocket)
  /\ SF_vars(CloseState)
  /\ WF_vars(PongAges /\ conn \notin alive)

FairSpec == Spec /\ Fairness

(* The server closes every connection: handler.go:140 sets a read deadline   *)
(* of 60 seconds that only WebSocket pongs, which nobody sends, would move.  *)
ServerCloses == \A s \in Sockets : WF_vars(PeerGoes(s))

FairServerSpec == FairSpec /\ ServerCloses

-----------------------------------------------------------------------------
(* Properties *)

(* Types; the wait between two dials grows no longer than MaxInterval, which *)
(* the configuration does not force to be the larger of the two.             *)
ConnectionTypeOK ==
  /\ cancelled \in BOOLEAN
  /\ state \in {"disconnected", "connecting", "connected"}
  /\ dials \in 0..MaxDials
  /\ conn \in 0..dials
  /\ mu \in {"free", "run", "beat", "send"}
  /\ run \in {"top", "connect", "dial", "assign", "announce", "register", "start", "loops",
             "disconnect", "wait", "done"}
  /\ interval \in Nat \ {0}
  /\ interval = BaseInterval \/ interval <= MaxInterval
  /\ reading \in {"off", "check", "read", "done"}
  /\ beating \in {"off", "start", "select", "send", "check", "done"}
  /\ pong \in {"fresh", "stale"}
  /\ sender \in {"idle", "checked", "locked"}
  /\ closer \in {"idle", "socket", "state", "closed"}
  /\ open \subseteq 1..dials
  /\ alive \subseteq 1..dials
  /\ failed \subseteq 1..dials
  /\ unregistered \subseteq 1..dials

(* sendMessage uses c.conn without a test for nil: whoever holds the mutex   *)
(* for a write finds a socket there, although Connect assigns the field      *)
(* without the mutex and IsConnected was tested under an earlier lock.       *)
WritersHaveASocket == mu # "free" => conn # 0

(* The read loop and the heartbeat loop read c.conn without the mutex at     *)
(* every use.  Run assigns it only when neither loop is running, so a loop   *)
(* never moves to another connection and no socket has two readers.          *)
LoopsKeepTheirSocket == [][conn' # conn => reading = "off" /\ beating = "off"]_vars

(* A socket that the connection no longer points to is closed, except one    *)
(* whose registration could not be written: Connect returns without closing  *)
(* it and the next dial overwrites the field.  A socket on which a heartbeat *)
(* or a reading could not be written is closed like any other.               *)
OnlyUnregisteredLeak ==
  open \ {conn} \subseteq unregistered \cup (IF run = "assign" THEN {dials} ELSE {})

(* Once Run has returned no write can succeed: not of a sender that saw the  *)
(* state "connected" before, nor where it still says so because the last     *)
(* registration failed.                                                      *)
NothingUsableAfterRun == run = "done" => conn \notin open \ failed

(* To the goroutine that sends, the connection is a Link.                    *)
LinkState ==
  IF state # "connected" THEN "down"
  ELSE IF conn \in open \ failed THEN "up" ELSE "broken"

AsLink == INSTANCE Link WITH link <- LinkState

ImplementsLink == AsLink!Spec

(* connection.go:156-157: Run blocks until context is cancelled.  It returns *)
(* after cancel from the middle of a dial, a wait, a write, or with both     *)
(* loops running - provided that the peer goes away in the end.              *)
RunReturns == cancelled ~> (run = "done")

(* Every connection is lost in the end, and every loss leads to a new dial.  *)
Reconnects == (run = "loops") ~> (run = "dial" \/ cancelled)

(* connection.go:193, 349: the loops run until the connection fails, and a   *)
(* connection whose heartbeat fails or is not answered appears dead.         *)
DeadLinkIsDropped == (beating = "done") ~> (state # "connected")

=============================================================================
