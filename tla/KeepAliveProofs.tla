--------------------------- MODULE KeepAliveProofs ---------------------------
(***************************************************************************)
(* Theorems about KeepAlive for all durations, all configuration files     *)
(* whose durations are not negative, and any number of failures of the     *)
(* network.                                                                *)
(***************************************************************************)
EXTENDS KeepAlive, SequenceTheorems, TLAPS

-----------------------------------------------------------------------------
(* The configuration.                                                      *)

(* Whatever a file leaves out and an environment overrides, a              *)
(* configuration that is accepted has positive durations: the defaults     *)
(* close every gap that Validate does not look at.                         *)
THEOREM AcceptedDurations ==
  ASSUME NEW file, IsFile(file), NEW env, IsEnvironment(env),
         NEW c \in LoadConfig(file, env)
  PROVE  \A d \in Durations : c[d] \in Nat \ {0}
<1> DEFINE filled == ApplyDefaults(file)
<1>1. c = OverrideFromEnv(filled, env)
  BY DEF LoadConfig
<1>2. Durations \subseteq DOMAIN file
  BY DEF IsFile
<1>3. DOMAIN filled = DOMAIN file
  BY DEF ApplyDefaults
<1> SUFFICES ASSUME NEW d \in Durations PROVE c[d] \in Nat \ {0}
  OBVIOUS
<1>4. d \notin DOMAIN env
  BY DEF IsEnvironment, Durations
<1>5. c[d] = filled[d]
  BY <1>1, <1>2, <1>3, <1>4 DEF OverrideFromEnv
<1>6. d # "buffer_size" /\ d # "drop_oldest"
  BY DEF Durations
<1>7. filled[d] = IF file[d] = 0 THEN DefaultDuration[d] ELSE file[d]
  BY <1>2, <1>6 DEF ApplyDefaults
<1>8. file[d] \in Nat /\ DefaultDuration[d] \in Nat \ {0}
  BY ClientConfigAssumption DEF ClientConfigAssumption, IsFile
<1> QED
  BY <1>5, <1>7, <1>8

-----------------------------------------------------------------------------
(* The inductive invariant.                                                *)

ConfigOK ==
  /\ Ping \in Nat \ {0}
  /\ Pong \in Nat \ {0}
  /\ Reconnect \in Nat \ {0}
  /\ config.max_reconnect_interval \in Nat \ {0}

Types ==
  /\ now \in Nat /\ wake \in Nat /\ backoff \in Nat /\ nextTick \in Nat
  /\ lastPong \in Nat /\ heard \in Nat /\ deadline \in Nat /\ closedAt \in Nat /\ cuts \in Nat
  /\ acks \in Seq(Nat)

Controls ==
  /\ run \in {"waiting", "loops"}
  /\ beat \in {"select", "sent", "off"}
  /\ network \in {"up", "cut"}
  /\ reading \in BOOLEAN /\ serverOpen \in BOOLEAN /\ disturbed \in BOOLEAN

(* Which loops are there, and what is on its way. *)
Shape ==
  /\ run = "waiting" => beat = "off" /\ ~reading
  /\ serverOpen => reading
  /\ ~reading => acks = <<>>
  /\ network = "cut" => disturbed

(* No timer is overdue, and the heartbeat loop has had its check. *)
OnTime ==
  /\ lastPong = heard
  /\ heard <= now
  /\ closedAt <= now
  /\ run = "waiting" => now <= wake
  /\ beat = "select" => now <= nextTick /\ nextTick <= heard + Ping + Pong
  /\ beat = "sent" => nextTick = now + Ping /\ now <= heard + Ping + Pong
  /\ beat = "select" => nextTick <= now + Ping

BackoffBounded ==
  /\ backoff = Reconnect \/ backoff <= config.max_reconnect_interval
  /\ run = "loops" => backoff = Reconnect

(* The answer to the last heartbeat has come or is on its way. *)
Answered ==
  Ping <= Pong /\ RoundTrip < Ping /\ serverOpen /\ ~disturbed =>
    /\ beat # "off"
    /\ heard >= nextTick - Ping
         \/ \E i \in DOMAIN acks : acks[i] <= nextTick - Ping + RoundTrip
    /\ beat = "sent" => heard >= now - Ping

(* What is on its way over a network that never failed arrives in time, and *)
(* with it the end of the connection.                                       *)
Arriving ==
  ~disturbed =>
    /\ \A i \in DOMAIN acks : now <= acks[i]
    /\ serverOpen => \A i \in DOMAIN acks : acks[i] <= now + RoundTrip
    /\ ~serverOpen => \A i \in DOMAIN acks : acks[i] <= closedAt + RoundTrip

Leaving ==
  ~disturbed /\ ~serverOpen =>
    /\ reading => now <= closedAt + RoundTrip
    /\ heard <= closedAt + RoundTrip
    /\ run = "loops" => now <= closedAt + RoundTrip + Ping + Pong
    /\ run = "waiting" => wake <= closedAt + RoundTrip + Ping + Pong + Reconnect

IInv ==
  /\ ConfigOK /\ Types /\ Controls
  /\ Shape /\ OnTime /\ BackoffBounded
  /\ Answered /\ Arriving /\ Leaving

-----------------------------------------------------------------------------
LEMMA InitConfig == Init => ConfigOK
<1> SUFFICES ASSUME Init PROVE ConfigOK
  OBVIOUS
<1>1. PICK file \in Files, env \in Envs : config \in LoadConfig(file, env)
  BY DEF Init
<1>2. IsFile(file) /\ IsEnvironment(env)
  BY KeepAliveAssumption DEF KeepAliveAssumption
<1>3. \A d \in Durations : config[d] \in Nat \ {0}
  BY <1>1, <1>2, AcceptedDurations
<1> QED
  BY <1>3 DEF ConfigOK, Ping, Pong, Reconnect, Durations

LEMMA InitInductive == Init => IInv
<1> SUFFICES ASSUME Init PROVE IInv
  OBVIOUS
<1>1. ConfigOK
  BY InitConfig
<1>2. RoundTrip \in Nat
  BY KeepAliveAssumption DEF KeepAliveAssumption
<1>3. Types
  BY <1>1 DEF Init, ConfigOK, Types
<1>8. Controls
  BY Zenon DEF Init, Controls
<1>4. Shape /\ OnTime /\ BackoffBounded
  BY <1>1 DEF Init, ConfigOK, Shape, OnTime, BackoffBounded
<1>5. Answered /\ Arriving
  BY DEF Init, Answered, Arriving
<1>6. Leaving
  BY <1>1, <1>2 DEF Init, ConfigOK, Leaving
<1> QED
  BY <1>1, <1>3, <1>4, <1>5, <1>6, <1>8 DEF IInv

(* The configuration stays. *)
LEMMA NextConfig ==
  ASSUME [Next]_vars
  PROVE  /\ Ping' = Ping /\ Pong' = Pong /\ Reconnect' = Reconnect
         /\ config'.max_reconnect_interval = config.max_reconnect_interval
<1>1. config' = config
  BY DEF Next, vars, Connect, DialFails, Disconnect, SendReading, BeatSends, BeatFails, BeatChecks,
     ReceiveAck, ReadFails, ServerDeadline, Cut, Heal, Tick
<1> QED
  BY <1>1 DEF Ping, Pong, Reconnect

LEMMA NextConfigOK ==
  ASSUME ConfigOK, [Next]_vars
  PROVE  ConfigOK'
BY NextConfig DEF ConfigOK

LEMMA NextControls ==
  ASSUME Controls, [Next]_vars
  PROVE  Controls'
<1> USE DEF Controls
<1>1. CASE Connect \/ DialFails \/ Disconnect
  BY <1>1 DEF Connect, DialFails, Disconnect, Wait, serverVars, networkVars
<1>2. CASE SendReading \/ BeatSends \/ BeatFails \/ BeatChecks
  BY <1>2 DEF SendReading, BeatSends, BeatFails, BeatChecks, clientVars, serverVars, networkVars
<1>3. CASE ReceiveAck \/ ReadFails \/ ServerDeadline \/ Cut \/ Heal \/ Tick
  BY <1>3 DEF ReceiveAck, ReadFails, ServerDeadline, Cut, Heal, Tick, clientVars, serverVars,
     networkVars
<1>4. CASE UNCHANGED vars
  BY <1>4 DEF vars, clientVars, serverVars, networkVars
<1> QED
  BY <1>1, <1>2, <1>3, <1>4 DEF Next

(* What a step does to the acknowledgments on their way. *)
LEMMA Acks ==
  ASSUME Types, Controls, [Next]_vars
  PROVE  acks' \in Seq(Nat)
<1> RoundTrip \in Nat
  BY KeepAliveAssumption DEF KeepAliveAssumption
<1> USE DEF Types
<1>1. CASE Connect
  BY <1>1 DEF Connect
<1>2. CASE SendReading \/ BeatSends
  <2>1. SendMessage
    BY <1>2 DEF SendReading, BeatSends
  <2>2. now + RoundTrip \in Nat
    OBVIOUS
  <2>3. Append(acks, now + RoundTrip) \in Seq(Nat)
    BY <2>2
  <2> QED
    BY <2>1, <2>3 DEF SendMessage
<1>3. CASE ReceiveAck
  BY <1>3 DEF ReceiveAck
<1>4. CASE ServerDeadline
  <2>1. PICK n \in 0..Len(acks) : acks' = SubSeq(acks, 1, n)
    BY <1>4 DEF ServerDeadline
  <2> QED
    BY <2>1
<1>5. CASE Heal
  <2>1. acks' = [i \in 1..Len(acks) |-> now + RoundTrip] /\ now + RoundTrip \in Nat
    BY <1>5 DEF Heal
  <2> QED
    BY <2>1
<1>6. CASE DialFails \/ Disconnect \/ BeatFails \/ BeatChecks \/ ReadFails \/ Cut \/ Tick
           \/ UNCHANGED vars
  BY <1>6 DEF DialFails, Disconnect, BeatFails, BeatChecks, ReadFails, Cut, Tick, vars
<1> QED
  BY <1>1, <1>2, <1>3, <1>4, <1>5, <1>6 DEF Next

LEMMA NextTypes ==
  ASSUME ConfigOK, Types, Controls, [Next]_vars
  PROVE  Types'
<1> RoundTrip \in Nat /\ HandshakeTimeout \in Nat /\ PongWait \in Nat
  BY KeepAliveAssumption DEF KeepAliveAssumption
<1>1. acks' \in Seq(Nat)
  BY Acks
<1> DEFINE Numbers == /\ now \in Nat /\ wake \in Nat /\ backoff \in Nat /\ nextTick \in Nat
                      /\ lastPong \in Nat /\ heard \in Nat /\ deadline \in Nat
                      /\ closedAt \in Nat /\ cuts \in Nat
<1>2. Numbers'
  <2>0. Numbers
    BY DEF Types
  <2> USE DEF ConfigOK
  <2>1. CASE Connect
    BY <2>0, <2>1 DEF Connect
  <2>2. CASE DialFails \/ Disconnect
    BY <2>0, <2>2 DEF DialFails, Disconnect, Wait, Lesser, serverVars, networkVars
  <2>3. CASE SendReading \/ BeatSends \/ BeatFails \/ BeatChecks
    BY <2>0, <2>3 DEF SendReading, BeatSends, BeatFails, BeatChecks, clientVars, serverVars,
       networkVars
  <2>4. CASE ReceiveAck \/ ReadFails \/ ServerDeadline
    BY <2>0, <2>4 DEF ReceiveAck, ReadFails, ServerDeadline, clientVars, serverVars, networkVars
  <2>5. CASE Cut \/ Heal \/ Tick
    <3>1. now' \in {now, now + 1} /\ cuts' \in {cuts, cuts + 1}
      BY <2>5 DEF Cut, Heal, Tick, networkVars
    <3>2. now' \in Nat /\ cuts' \in Nat
      BY <2>0, <3>1
    <3>3. UNCHANGED <<clientVars, serverVars>>
      BY <2>5 DEF Cut, Heal, Tick, networkVars
    <3> QED
      BY <2>0, <3>2, <3>3 DEF clientVars, serverVars
  <2>6. CASE UNCHANGED vars
    BY <2>0, <2>6 DEF vars, clientVars, serverVars, networkVars
  <2> HIDE DEF Numbers, ConfigOK
  <2> QED
    BY <2>1, <2>2, <2>3, <2>4, <2>5, <2>6, Zenon DEF Next
<1> QED
  BY <1>1, <1>2 DEF Types

-----------------------------------------------------------------------------
LEMMA NextShape ==
  ASSUME Controls, Types, Shape, [Next]_vars
  PROVE  Shape'
<1> USE DEF Shape, Controls
<1>1. CASE Connect \/ DialFails \/ Disconnect
  BY <1>1 DEF Connect, DialFails, Disconnect, Wait, serverVars, networkVars
<1>2. CASE SendReading \/ BeatSends
  BY <1>2 DEF SendReading, BeatSends, SendMessage, clientVars, serverVars, networkVars
<1>3. CASE BeatFails \/ BeatChecks \/ ReadFails \/ Cut \/ Tick
  BY <1>3 DEF BeatFails, BeatChecks, ReadFails, Cut, Tick, clientVars, serverVars, networkVars
<1>4. CASE ReceiveAck
  BY <1>4 DEF ReceiveAck, serverVars, networkVars
<1>5. CASE ServerDeadline
  BY <1>5 DEF ServerDeadline, clientVars, networkVars
<1>6. CASE Heal
  <2>1. ~reading => acks' = <<>>
    <3>1. CASE acks = <<>>
      BY <1>6, <3>1 DEF Heal
    <3> QED
      BY <3>1
  <2> QED
    BY <1>6, <2>1 DEF Heal, clientVars, serverVars
<1>7. CASE UNCHANGED vars
  BY <1>7 DEF vars, clientVars, serverVars, networkVars
<1> QED
  BY <1>1, <1>2, <1>3, <1>4, <1>5, <1>6, <1>7 DEF Next

LEMMA NextOnTime ==
  ASSUME ConfigOK, Types, Controls, Shape, OnTime, [Next]_vars
  PROVE  OnTime'
<1> /\ Ping' = Ping /\ Pong' = Pong
    /\ HandshakeTimeout \in Nat
  BY NextConfig, KeepAliveAssumption DEF KeepAliveAssumption
<1> USE DEF OnTime, ConfigOK, Types, Controls
<1>1. CASE Connect
  BY <1>1 DEF Connect
<1>2. CASE DialFails \/ Disconnect
  BY <1>2 DEF DialFails, Disconnect, Wait, Shape, serverVars
<1>3. CASE SendReading
  BY <1>3 DEF SendReading, clientVars, serverVars
<1>4. CASE BeatSends
  BY <1>4 DEF BeatSends, serverVars
<1>5. CASE BeatFails
  BY <1>5 DEF BeatFails, serverVars
<1>10. CASE BeatChecks
  BY <1>10 DEF BeatChecks, serverVars
<1>6. CASE ReceiveAck
  BY <1>6 DEF ReceiveAck, Shape, serverVars
<1>7. CASE ReadFails \/ Cut \/ Heal \/ UNCHANGED vars
  <2>1. /\ now' = now /\ run' = run /\ wake' = wake /\ beat' = beat /\ nextTick' = nextTick
        /\ lastPong' = lastPong /\ heard' = heard /\ closedAt' = closedAt
    BY <1>7, Zenon DEF ReadFails, Cut, Heal, vars, clientVars, serverVars
  <2> QED
    BY <2>1
<1>8. CASE Tick
  BY <1>8 DEF Tick, clientVars, serverVars
<1>9. CASE ServerDeadline
  <2>1. /\ now' = now /\ run' = run /\ wake' = wake /\ beat' = beat /\ nextTick' = nextTick
        /\ lastPong' = lastPong /\ heard' = heard /\ closedAt' = now
    BY <1>9, Zenon DEF ServerDeadline, clientVars
  <2> QED
    BY <2>1
<1> QED
  BY <1>1, <1>2, <1>3, <1>4, <1>5, <1>6, <1>7, <1>8, <1>9, <1>10 DEF Next

LEMMA NextBackoffBounded ==
  ASSUME ConfigOK, Types, Controls, Shape, BackoffBounded, [Next]_vars
  PROVE  BackoffBounded'
<1> /\ Reconnect' = Reconnect
    /\ config'.max_reconnect_interval = config.max_reconnect_interval
  BY NextConfig
<1> USE DEF BackoffBounded, ConfigOK, Types, Controls
<1>1. CASE Connect
  BY <1>1 DEF Connect
<1>2. CASE DialFails \/ Disconnect
  BY <1>2 DEF DialFails, Disconnect, Wait, Lesser
<1>3. CASE SendReading \/ BeatSends \/ BeatFails \/ BeatChecks \/ ReceiveAck \/ ReadFails
           \/ ServerDeadline \/ Cut \/ Heal \/ Tick \/ UNCHANGED vars
  <2>1. backoff' = backoff /\ run' = run
    BY <1>3, Zenon DEF SendReading, BeatSends, BeatFails, BeatChecks, ReceiveAck, ReadFails,
       ServerDeadline, Cut, Heal, Tick, vars, clientVars
  <2> QED
    BY <2>1
<1> QED
  BY <1>1, <1>2, <1>3 DEF Next

(* What is said of all acknowledgments on their way is said of those that   *)
(* remain when the first has come or the last are cut off, and of a new one. *)
LEMMA SomeAcks ==
  ASSUME Types, NEW low \in Int, NEW high \in Int,
         \A i \in DOMAIN acks : low <= acks[i] /\ acks[i] <= high,
         NEW rest,
         \/ rest = acks
         \/ acks # <<>> /\ rest = Tail(acks)
         \/ \E n \in 0..Len(acks) : rest = SubSeq(acks, 1, n)
         \/ \E due \in Nat : low <= due /\ due <= high /\ rest = Append(acks, due)
  PROVE  \A i \in DOMAIN rest : low <= rest[i] /\ rest[i] <= high
<1> USE DEF Types
<1>1. CASE rest = acks
  BY <1>1
<1>2. CASE acks # <<>> /\ rest = Tail(acks)
  BY <1>2
<1>3. ASSUME NEW n \in 0..Len(acks), rest = SubSeq(acks, 1, n)
      PROVE  \A i \in DOMAIN rest : low <= rest[i] /\ rest[i] <= high
  BY <1>3
<1>4. ASSUME NEW due \in Nat, low <= due, due <= high, rest = Append(acks, due)
      PROVE  \A i \in DOMAIN rest : low <= rest[i] /\ rest[i] <= high
  BY <1>4
<1> QED
  BY <1>1, <1>2, <1>3, <1>4

-----------------------------------------------------------------------------
(* A heartbeat that is due finds the answer to the last one, which was due *)
(* before.                                                                 *)
LEMMA NextAnswered ==
  ASSUME ConfigOK, Types, Controls, Shape, OnTime, Answered, Arriving, [Next]_vars
  PROVE  Answered'
<1> Ping' = Ping /\ Pong' = Pong /\ RoundTrip \in Nat
  BY NextConfig, KeepAliveAssumption DEF KeepAliveAssumption
<1> USE DEF Answered, ConfigOK, Types
<1>1. CASE Connect
  BY <1>1 DEF Connect
<1>2. CASE SendReading
  <2> SUFFICES ASSUME Ping <= Pong, RoundTrip < Ping, serverOpen, ~disturbed,
                      serverOpen' = serverOpen
               PROVE  Answered'
    BY <1>2 DEF SendReading, serverVars, networkVars
  <2>1. /\ acks' = Append(acks, now + RoundTrip)
        /\ now' = now /\ beat' = beat /\ heard' = heard /\ nextTick' = nextTick
    BY <1>2 DEF SendReading, SendMessage, clientVars
  <2>2. \A i \in DOMAIN acks : i \in DOMAIN acks' /\ acks'[i] = acks[i]
    BY <2>1
  <2> QED
    BY <2>1, <2>2
<1>3. CASE BeatSends
  <2> SUFFICES ASSUME Ping <= Pong, RoundTrip < Ping, serverOpen, ~disturbed
               PROVE  Answered'
    BY <1>3 DEF BeatSends, serverVars, networkVars
  <2>1. /\ acks' = Append(acks, now + RoundTrip) /\ now = nextTick
        /\ now' = now /\ beat' = "sent" /\ heard' = heard /\ nextTick' = nextTick + Ping
    BY <1>3 DEF BeatSends, SendMessage
  <2>2. heard >= now - Ping
    BY <2>1 DEF Arriving
  <2>3. Len(acks) + 1 \in DOMAIN acks' /\ acks'[Len(acks) + 1] = now + RoundTrip
    BY <2>1
  <2> QED
    BY <2>1, <2>2, <2>3
<1>4. CASE BeatChecks
  BY <1>4 DEF BeatChecks, OnTime, serverVars, networkVars
<1>5. CASE ReceiveAck
  <2>1. /\ now' = now /\ beat' = beat /\ heard' = now /\ nextTick' = nextTick
        /\ serverOpen' = serverOpen /\ disturbed' = disturbed
    BY <1>5 DEF ReceiveAck, serverVars, networkVars
  <2> QED
    BY <2>1 DEF OnTime, Controls
<1>6. CASE Tick
  BY <1>6 DEF Tick, clientVars, serverVars, networkVars
<1>7. CASE DialFails \/ Disconnect \/ BeatFails \/ ReadFails
  <2>1. ~serverOpen'
    BY <1>7 DEF DialFails, Disconnect, BeatFails, ReadFails, Shape, serverVars
  <2> QED
    BY <2>1
<1>8. CASE ServerDeadline
  BY <1>8 DEF ServerDeadline
<1>9. CASE Cut \/ Heal
  BY <1>9 DEF Cut, Heal, Shape
<1>10. CASE UNCHANGED vars
  BY <1>10 DEF vars, clientVars, serverVars, networkVars
<1> QED
  BY <1>1, <1>2, <1>3, <1>4, <1>5, <1>6, <1>7, <1>8, <1>9, <1>10 DEF Next

LEMMA NextArriving ==
  ASSUME ConfigOK, Types, Controls, Shape, OnTime, Arriving, [Next]_vars
  PROVE  Arriving'
<1> RoundTrip \in Nat
  BY KeepAliveAssumption DEF KeepAliveAssumption
<1> USE DEF Types
<1>1. CASE Connect
  BY <1>1 DEF Connect, Arriving
<1>2. CASE SendReading \/ BeatSends
  <2>1. /\ now' = now /\ serverOpen' = serverOpen /\ closedAt' = closedAt
        /\ disturbed' = disturbed
    BY <1>2 DEF SendReading, BeatSends, serverVars, networkVars
  <2>2. CASE ~serverOpen
    <3>1. acks' = acks
      BY <1>2, <2>2 DEF SendReading, BeatSends, SendMessage
    <3> QED
      BY <2>1, <3>1 DEF Arriving
  <2>3. CASE serverOpen
    <3> SUFFICES ASSUME ~disturbed PROVE Arriving'
      BY <2>1 DEF Arriving
    <3>1. acks' = Append(acks, now + RoundTrip)
      BY <1>2, <2>3 DEF SendReading, BeatSends, SendMessage
    <3>2. \A i \in DOMAIN acks : now <= acks[i] /\ acks[i] <= now + RoundTrip
      BY <2>3 DEF Arriving
    <3>3. \A i \in DOMAIN acks' : now <= acks'[i] /\ acks'[i] <= now + RoundTrip
      BY <3>1, <3>2
    <3> QED
      BY <2>1, <2>3, <3>3 DEF Arriving
  <2> QED
    BY <2>2, <2>3
<1>3. CASE ReceiveAck
  <2>1. /\ now' = now /\ serverOpen' = serverOpen /\ closedAt' = closedAt
        /\ disturbed' = disturbed /\ acks # <<>> /\ acks' = Tail(acks)
    BY <1>3 DEF ReceiveAck, serverVars, networkVars
  <2>2. \A i \in DOMAIN acks' : i + 1 \in DOMAIN acks /\ acks'[i] = acks[i + 1]
    BY <2>1
  <2> QED
    BY <2>1, <2>2 DEF Arriving
<1>4. CASE ServerDeadline
  <2>1. /\ now' = now /\ serverOpen /\ ~serverOpen' /\ closedAt' = now
        /\ disturbed' = disturbed
    BY <1>4, Zenon DEF ServerDeadline, networkVars
  <2>2. PICK n \in 0..Len(acks) : acks' = SubSeq(acks, 1, n)
    BY <1>4, Zenon DEF ServerDeadline
  <2>3. \A i \in DOMAIN acks' : i \in DOMAIN acks /\ acks'[i] = acks[i]
    BY <2>2
  <2> QED
    BY <2>1, <2>3 DEF Arriving
<1>5. CASE Tick
  <2>1. /\ now' = now + 1 /\ serverOpen' = serverOpen /\ closedAt' = closedAt
        /\ disturbed' = disturbed /\ acks' = acks
        /\ network = "up" => \A i \in DOMAIN acks : now < acks[i]
    BY <1>5 DEF Tick, serverVars, networkVars
  <2>2. ~disturbed => network = "up"
    BY DEF Shape, Controls
  <2> QED
    BY <2>1, <2>2 DEF Arriving
<1>6. CASE Cut \/ Heal
  BY <1>6 DEF Cut, Heal, Shape, Arriving
<1>7. CASE DialFails \/ Disconnect \/ BeatFails \/ BeatChecks \/ ReadFails \/ UNCHANGED vars
  <2>1. /\ now' = now /\ serverOpen' = serverOpen /\ closedAt' = closedAt
        /\ disturbed' = disturbed /\ acks' = acks
    BY <1>7, Zenon DEF DialFails, Disconnect, BeatFails, BeatChecks, ReadFails, vars, serverVars,
       networkVars
  <2> QED
    BY <2>1 DEF Arriving
<1> QED
  BY <1>1, <1>2, <1>3, <1>4, <1>5, <1>6, <1>7 DEF Next

(* After the server is gone: first the read loop, then the heartbeat loop, *)
(* then the wait.                                                          *)
LEMMA NextLeaving ==
  ASSUME ConfigOK, Types, Controls, Shape, OnTime, BackoffBounded, Arriving, Leaving, [Next]_vars
  PROVE  Leaving'
<1> /\ Ping' = Ping /\ Pong' = Pong /\ Reconnect' = Reconnect
    /\ RoundTrip \in Nat
  BY NextConfig, KeepAliveAssumption DEF KeepAliveAssumption
<1> USE DEF Leaving, ConfigOK, Types, Controls
<1>1. CASE Connect
  BY <1>1 DEF Connect
<1>2. CASE DialFails
  BY <1>2 DEF DialFails, Shape, networkVars
<1>3. CASE Disconnect
  BY <1>3 DEF Disconnect, Wait, BackoffBounded, serverVars, networkVars
<1>4. CASE SendReading \/ BeatSends \/ BeatFails \/ BeatChecks \/ UNCHANGED vars
  <2>1. /\ now' = now /\ reading' = reading /\ heard' = heard /\ run' = run /\ wake' = wake
        /\ closedAt' = closedAt /\ serverOpen' = serverOpen /\ disturbed' = disturbed
    BY <1>4, Zenon DEF SendReading, BeatSends, BeatFails, BeatChecks, vars, clientVars, serverVars,
       networkVars
  <2> QED
    BY <2>1
<1>5. CASE ReceiveAck
  BY <1>5 DEF ReceiveAck, serverVars, networkVars
<1>6. CASE ReadFails
  BY <1>6 DEF ReadFails, serverVars, networkVars
<1>7. CASE ServerDeadline
  <2>1. /\ now' = now /\ reading' = reading /\ heard' = heard /\ run' = run /\ wake' = wake
        /\ closedAt' = now /\ serverOpen
    BY <1>7, Zenon DEF ServerDeadline, clientVars
  <2> QED
    BY <2>1 DEF Shape, OnTime
<1>8. CASE Cut \/ Heal
  BY <1>8 DEF Cut, Heal, Shape
<1>9. CASE Tick
  <2> SUFFICES ASSUME ~disturbed, ~serverOpen PROVE Leaving'
    BY <1>9 DEF Tick, serverVars, networkVars
  <2>1. /\ now' = now + 1 /\ reading' = reading /\ heard' = heard /\ run' = run /\ wake' = wake
        /\ closedAt' = closedAt
    BY <1>9 DEF Tick, clientVars, serverVars
  <2>2. network = "up"
    BY DEF Shape
  <2>3. ASSUME reading PROVE now + 1 <= closedAt + RoundTrip
    <3>1. CASE acks = <<>>
      BY <1>9, <2>2, <2>3, <3>1 DEF Tick
    <3>2. CASE acks # <<>>
      <4>1. 1 \in DOMAIN acks
        BY <3>2
      <4>2. now < acks[1]
        BY <1>9, <2>2, <4>1 DEF Tick
      <4>3. acks[1] <= closedAt + RoundTrip
        BY <4>1 DEF Arriving
      <4> QED
        BY <4>1, <4>2, <4>3
    <3> QED
      BY <3>1, <3>2
  <2>4. ASSUME run = "loops", ~reading PROVE now + 1 <= closedAt + RoundTrip + Ping + Pong
    <3>1. beat = "select" /\ now < nextTick
      BY <1>9, <2>4 DEF Tick
    <3> QED
      BY <3>1 DEF OnTime
  <2> QED
    BY <2>1, <2>3, <2>4
<1> QED
  BY <1>1, <1>2, <1>3, <1>4, <1>5, <1>6, <1>7, <1>8, <1>9 DEF Next

LEMMA NextInductive == IInv /\ [Next]_vars => IInv'
BY NextConfigOK, NextTypes, NextControls, NextShape, NextOnTime, NextBackoffBounded, NextAnswered,
   NextArriving, NextLeaving DEF IInv

THEOREM Inductive == Spec => []IInv
BY InitInductive, NextInductive, PTL DEF Spec

-----------------------------------------------------------------------------
(* The theorems.                                                           *)

(* The state has its type, whatever was configured: positive periods for   *)
(* the ticker, and a backoff within its limits.                            *)
THEOREM TypeCorrect == Spec => []KeepAliveTypeOK
<1>1. IInv => KeepAliveTypeOK
  BY DEF IInv, ConfigOK, Types, Controls, BackoffBounded, KeepAliveTypeOK
<1> QED
  BY <1>1, Inductive, PTL

(* A dead connection is noticed within a ping interval and a pong timeout. *)
THEOREM Silence == Spec => []SilenceIsNoticed
<1>1. IInv => SilenceIsNoticed
  BY DEF IInv, ConfigOK, Types, Controls, OnTime, SilenceIsNoticed
<1> QED
  BY <1>1, Inductive, PTL

(* A healthy connection is kept, under the two conditions on the durations *)
(* that the defaults do not meet.                                          *)
THEOREM Healthy == Spec => []NoFalseAlarm
<1>1. IInv => NoFalseAlarm
  BY DEF IInv, Answered, NoFalseAlarm, HealthyIsKept
<1> QED
  BY <1>1, Inductive, PTL

(* Over a network that works the sensor has a server again in time.        *)
THEOREM Outage == Spec => []OutageIsShort
<1>1. IInv => OutageIsShort
  <2>1. RoundTrip \in Nat
    BY KeepAliveAssumption DEF KeepAliveAssumption
  <2> QED
    BY <2>1 DEF IInv, ConfigOK, Types, Controls, OnTime, Leaving, OutageIsShort
<1> QED
  BY <1>1, Inductive, PTL

=============================================================================
