------------------------------ MODULE KeepAlive ------------------------------
(***************************************************************************)
(* How long a connection lives: the heartbeat loop and the read loop of    *)
(* internal/client/connection.go with their durations, the wait before a   *)
(* reconnect, and at the other end the acknowledgments and the read        *)
(* deadline of internal/server/handler.go.  The module Connection has the  *)
(* same loops with their mutex and their races, but no clock.              *)
(*                                                                         *)
(* Time is discrete.  It may not pass a timer that is due, nor the time by *)
(* which an acknowledgment arrives over a network that is up.  Writes take *)
(* no time.  A network that is cut loses nothing: TCP delivers what was    *)
(* written once the network is back, or the connection is closed by then.  *)
(***************************************************************************)
EXTENDS ClientConfig, Sequences

CONSTANTS
  Files,            \* configuration files of the sensor
  Envs,             \* its environments
  HandshakeTimeout, \* of the dialer, 10 s in the code
  PongWait,         \* the server's read deadline, 60 s in the code
  RoundTrip,        \* the time by which an acknowledgment arrives
  MaxInFlight,      \* bound on the messages that wait for their acknowledgment
  MaxCuts,          \* bound on the failures of the network
  MaxTime           \* bound on the clock

ASSUME KeepAliveAssumption ==
  /\ {HandshakeTimeout, RoundTrip, MaxInFlight, MaxCuts, MaxTime} \subseteq Nat
  /\ PongWait \in Nat \ {0}
  /\ \A file \in Files : IsFile(file)
  /\ \A env \in Envs : IsEnvironment(env)

VARIABLES
  config,           \* what the sensor was started with
  now,
  run,              \* Connection.Run: "waiting" to dial, or in the message "loops"
  wake,             \* when the wait is over
  backoff,          \* currentReconnectInterval
  reading,          \* readLoop is in ReadJSON
  beat,             \* heartbeatLoop: "select", "sent" its heartbeat, or "off"
  nextTick,         \* the next tick of its ticker
  lastPong,         \* c.lastPong
  acks,             \* when the acknowledgments on their way arrive at the latest
  serverOpen,       \* the handler of this connection is in its read loop
  deadline,         \* of its reads
  closedAt,         \* when the server closed its last connection
  network,          \* "up" or "cut"
  cuts,             \* number of cuts so far
  heard,            \* history: when the server was last heard of
  disturbed         \* history: the network was cut since the last Connect

clientVars  == <<run, wake, backoff, reading, beat, nextTick, lastPong, heard>>
serverVars  == <<serverOpen, deadline, closedAt>>
networkVars == <<network, cuts, disturbed>>
vars        == <<config, now, clientVars, acks, serverVars, networkVars>>

Ping      == config.ping_interval
Pong      == config.pong_timeout
Reconnect == config.reconnect_interval

Lesser(a, b) == IF a < b THEN a ELSE b

Init ==
  /\ \E file \in Files, env \in Envs : config \in LoadConfig(file, env)
  /\ now = 0
  /\ run = "waiting"
  /\ wake = 0
  /\ backoff = Reconnect
  /\ reading = FALSE
  /\ beat = "off"
  /\ nextTick = 0
  /\ lastPong = 0
  /\ heard = 0
  /\ acks = <<>>
  /\ serverOpen = FALSE
  /\ deadline = 0
  /\ closedAt = 0
  /\ network = "up"
  /\ cuts = 0
  /\ disturbed = FALSE

-----------------------------------------------------------------------------
(* Connection.Run                                                          *)

(* Mistake: the backoff of earlier failures stays. *)
BugConnect ==
  /\ run = "waiting"
  /\ now = wake
  /\ network = "up"
  /\ run' = "loops"
  /\ UNCHANGED backoff
  /\ reading' = TRUE
  /\ beat' = "select"
  /\ nextTick' = now + Ping
  /\ lastPong' = now
  /\ heard' = now
  /\ acks' = <<now + RoundTrip>>
  /\ serverOpen' = TRUE
  /\ deadline' = now + PongWait
  /\ disturbed' = FALSE
  /\ UNCHANGED <<config, now, wake, closedAt, network, cuts>>

(* Connect: the handshake, the registration, and the start of both loops,  *)
(* which takes no time.  At the other end the goroutine of the handler     *)
(* sets its deadline.                                                      *)
Connect ==
  /\ run = "waiting"
  /\ now = wake
  /\ network = "up"
  /\ run' = "loops"
  /\ backoff' = Reconnect
  /\ reading' = TRUE
  /\ beat' = "select"
  /\ nextTick' = now + Ping
  /\ lastPong' = now
  /\ heard' = now
  /\ acks' = <<now + RoundTrip>>
  /\ serverOpen' = TRUE
  /\ deadline' = now + PongWait
  /\ disturbed' = FALSE
  /\ UNCHANGED <<config, now, wake, closedAt, network, cuts>>

(* Mistake: the doubled interval has no limit. *)
BugWait(since) ==
  /\ run' = "waiting"
  /\ wake' = since + backoff
  /\ backoff' = 2 * backoff

(* waitBeforeReconnect: the interval is doubled after the wait. *)
Wait(since) ==
  /\ run' = "waiting"
  /\ wake' = since + backoff
  /\ backoff' = Lesser(2 * backoff, config.max_reconnect_interval)

DialFails ==
  /\ run = "waiting"
  /\ now = wake
  /\ network = "cut"
  /\ Wait(now + HandshakeTimeout)
  /\ UNCHANGED <<config, now, reading, beat, nextTick, lastPong, heard, acks, serverVars,
                 networkVars>>

(* wg.Wait returns and disconnect closes the socket.  What ended the read  *)
(* loop is that the server has closed its end, after the last              *)
(* acknowledgment.                                                         *)
Disconnect ==
  /\ run = "loops"
  /\ ~reading
  /\ beat = "off"
  /\ Wait(now)
  /\ UNCHANGED <<config, now, reading, beat, nextTick, lastPong, heard, acks, serverVars,
                 networkVars>>

-----------------------------------------------------------------------------
(* A message, on its way to the server and back.  The server acknowledges  *)
(* every message as long as it reads.                                      *)
SendMessage == acks' = IF serverOpen THEN Append(acks, now + RoundTrip) ELSE acks

(* The coordinator sends whenever the state says connected. *)
SendReading ==
  /\ run = "loops"
  /\ serverOpen => Len(acks) < MaxInFlight
  /\ SendMessage
  /\ UNCHANGED <<config, now, clientVars, serverVars, networkVars>>

(* Mistake: what is heard of is what was sent. *)
BugBeatSends ==
  /\ beat = "select"
  /\ now = nextTick
  /\ beat' = "sent"
  /\ nextTick' = nextTick + Ping
  /\ lastPong' = now
  /\ SendMessage
  /\ UNCHANGED <<config, now, run, wake, backoff, reading, heard, serverVars, networkVars>>

BeatSends ==
  /\ beat = "select"
  /\ now = nextTick
  /\ beat' = "sent"
  /\ nextTick' = nextTick + Ping
  /\ SendMessage
  /\ UNCHANGED <<config, now, run, wake, backoff, reading, lastPong, heard, serverVars,
                 networkVars>>

(* A socket that the server has closed refuses writes sooner or later. *)
BeatFails ==
  /\ beat = "select"
  /\ now = nextTick
  /\ ~serverOpen
  /\ beat' = "off"
  /\ UNCHANGED <<config, now, run, wake, backoff, reading, nextTick, lastPong, heard, acks,
                 serverVars, networkVars>>

(* Mistakes: a silence as long as the timeout is too long, or none is. *)
BugBeatChecksEarly ==
  /\ beat = "sent"
  /\ beat' = IF now - lastPong >= Pong THEN "off" ELSE "select"
  /\ UNCHANGED <<config, now, run, wake, backoff, reading, nextTick, lastPong, heard, acks,
                 serverVars, networkVars>>

BugBeatNeverChecks ==
  /\ beat = "sent"
  /\ beat' = "select"
  /\ UNCHANGED <<config, now, run, wake, backoff, reading, nextTick, lastPong, heard, acks,
                 serverVars, networkVars>>

(* Right after the heartbeat was sent, not after its answer had time to    *)
(* come.                                                                   *)
BeatChecks ==
  /\ beat = "sent"
  /\ beat' = IF now - lastPong > Pong THEN "off" ELSE "select"
  /\ UNCHANGED <<config, now, run, wake, backoff, reading, nextTick, lastPong, heard, acks,
                 serverVars, networkVars>>

(* readLoop and handleMessage: an acknowledgment, of whatever message. *)
ReceiveAck ==
  /\ reading
  /\ network = "up"
  /\ acks # <<>>
  /\ acks' = Tail(acks)
  /\ lastPong' = now
  /\ heard' = now
  /\ UNCHANGED <<config, now, run, wake, backoff, reading, beat, nextTick, serverVars,
                 networkVars>>

(* ReadJSON fails: the end of the connection comes behind the              *)
(* acknowledgments.  The heartbeat loop is not told.                       *)
ReadFails ==
  /\ reading
  /\ network = "up"
  /\ ~serverOpen
  /\ acks = <<>>
  /\ reading' = FALSE
  /\ UNCHANGED <<config, now, run, wake, backoff, beat, nextTick, lastPong, heard, acks,
                 serverVars, networkVars>>

-----------------------------------------------------------------------------
(* The deadline is set once: only a WebSocket pong moves it, an answer to  *)
(* pings that nobody sends.  What the server has not read is not           *)
(* acknowledged.                                                           *)
ServerDeadline ==
  /\ serverOpen
  /\ now = deadline
  /\ serverOpen' = FALSE
  /\ closedAt' = now
  /\ \E n \in 0..Len(acks) : acks' = SubSeq(acks, 1, n)
  /\ UNCHANGED <<config, now, clientVars, deadline, networkVars>>

Cut ==
  /\ network = "up"
  /\ cuts < MaxCuts
  /\ network' = "cut"
  /\ cuts' = cuts + 1
  /\ disturbed' = TRUE
  /\ UNCHANGED <<config, now, clientVars, acks, serverVars>>

(* What waited is on its way again. *)
Heal ==
  /\ network = "cut"
  /\ network' = "up"
  /\ acks' = [i \in DOMAIN acks |-> now + RoundTrip]
  /\ UNCHANGED <<config, now, clientVars, serverVars, cuts, disturbed>>

(* Timers fire when they are due, and what the network carries arrives.    *)
(* The goroutines leave, dial and disconnect at once.                      *)
Tick ==
  /\ now < MaxTime
  /\ run = "waiting" => now < wake
  /\ beat = "select" => now < nextTick
  /\ beat # "sent"
  /\ run = "loops" => reading \/ beat # "off"
  /\ serverOpen => now < deadline
  /\ network = "up" => \A i \in DOMAIN acks : now < acks[i]
  /\ reading /\ network = "up" /\ ~serverOpen => acks # <<>> \/ now < closedAt + RoundTrip
  /\ now' = now + 1
  /\ UNCHANGED <<config, clientVars, acks, serverVars, networkVars>>

-----------------------------------------------------------------------------
Next ==
  \/ Connect \/ DialFails \/ Disconnect
  \/ SendReading \/ BeatSends \/ BeatFails \/ BeatChecks \/ ReceiveAck \/ ReadFails
  \/ ServerDeadline \/ Cut \/ Heal \/ Tick

Spec == Init /\ [][Next]_vars

-----------------------------------------------------------------------------
(* The type of the state.  A ticker's period is positive, or the ticker    *)
(* panics, and the backoff stays within the configured limits, through any *)
(* sequence of failed dials.                                               *)
KeepAliveTypeOK ==
  /\ {Ping, Pong, Reconnect, config.max_reconnect_interval} \subseteq Nat \ {0}
  /\ {now, wake, nextTick, lastPong, heard, deadline, closedAt, cuts} \subseteq Nat
  /\ run \in {"waiting", "loops"}
  /\ backoff \in Nat
  /\ backoff = Reconnect \/ backoff <= config.max_reconnect_interval
  /\ reading \in BOOLEAN
  /\ beat \in {"select", "sent", "off"}
  /\ acks \in Seq(Nat)
  /\ serverOpen \in BOOLEAN
  /\ network \in {"up", "cut"}
  /\ disturbed \in BOOLEAN

(* The heartbeat loop does not go on for longer than a ping interval and a *)
(* pong timeout without a word from the server, whether the network failed *)
(* or the server is gone.                                                  *)
SilenceIsNoticed == beat # "off" => now - heard <= Ping + Pong

(* "No pong received, connection appears dead" (connection.go:349): the    *)
(* heartbeat loop gives up no connection that the server reads and whose   *)
(* network never failed.  Not so with the defaults: a ping every 30        *)
(* seconds, and 10 seconds for the pong.                                   *)
HealthyIsKept == run = "loops" /\ serverOpen /\ ~disturbed => beat # "off"

(* It is so for a configuration whose ping interval is not longer than its *)
(* pong timeout, when an answer comes within a ping interval.              *)
NoFalseAlarm == Ping <= Pong /\ RoundTrip < Ping => HealthyIsKept

(* A sensor whose network works is not without a server for long: when the *)
(* server closes the connection, the read loop notices, the heartbeat loop *)
(* leaves at one of its next ticks, and the dial follows after the first   *)
(* reconnect interval, however many dials failed before.                   *)
OutageIsShort ==
  ~serverOpen /\ ~disturbed =>
    now - closedAt <= RoundTrip + Ping + Pong + Reconnect

=============================================================================
