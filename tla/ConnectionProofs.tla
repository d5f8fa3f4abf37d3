-------------------------- MODULE ConnectionProofs --------------------------
(***************************************************************************)
(* Theorems about Connection for any number of dials and any intervals.    *)
(***************************************************************************)
EXTENDS Connection, TLAPS

-----------------------------------------------------------------------------
(* The inductive invariant.  Who holds the mutex is known from the program   *)
(* counters, and with them what the field conn and the state can be: the     *)
(* code has no such test, it relies on the order in which Connect, the loops *)
(* and disconnect run.                                                       *)

MutexHolder ==
  /\ mu = "run" => run = "register"
  /\ mu = "beat" <=> beating = "send"
  /\ mu = "send" <=> sender = "locked"

LoopsInsideRun ==
  /\ reading = "off" <=> run # "loops"
  /\ beating = "off" <=> run # "loops"

(* Between two connections nobody can use the field conn. *)
BetweenConnections == run \in {"top", "connect", "dial", "assign", "wait", "done"}

SocketWhenNeeded ==
  /\ run \in {"announce", "register", "start", "loops", "disconnect"} => conn # 0
  /\ state = "connected" \/ sender # "idle" => conn # 0
  /\ run \in {"dial", "assign", "announce"} => state # "connected"
  /\ run = "assign" => conn < dials
  /\ run = "announce" => conn = dials

(* Between two connections c.conn is closed, or its registration failed. *)
NothingUsableBetween ==
  BetweenConnections /\ conn \in open => conn \in failed \cap unregistered

IInv ==
  /\ ConnectionTypeOK
  /\ MutexHolder
  /\ LoopsInsideRun
  /\ SocketWhenNeeded
  /\ NothingUsableBetween
  /\ OnlyUnregisteredLeak

(* The steps of one goroutine are grouped in Connection; the proofs go       *)
(* through them one by one.                                                  *)
LEMMA InitInductive == Init => IInv
<1> SUFFICES ASSUME Init PROVE IInv
  OBVIOUS
<1>1. ConnectionTypeOK
  <2>1. /\ dials \in 0..MaxDials /\ conn \in 0..dials
        /\ interval \in Nat \ {0} /\ interval = BaseInterval
        /\ open \subseteq 1..dials /\ alive \subseteq 1..dials /\ failed \subseteq 1..dials
        /\ unregistered \subseteq 1..dials
    BY ConnectionAssumption DEF ConnectionAssumption, Init
  <2> QED
    BY <2>1, Zenon DEF Init, ConnectionTypeOK
<1>2. MutexHolder /\ LoopsInsideRun /\ SocketWhenNeeded
  BY DEF Init, MutexHolder, LoopsInsideRun, SocketWhenNeeded
<1>3. NothingUsableBetween /\ OnlyUnregisteredLeak
  BY DEF Init, NothingUsableBetween, OnlyUnregisteredLeak
<1> QED
  BY <1>1, <1>2, <1>3 DEF IInv

(* Program counters, mutex and loops. *)
LEMMA NextControl ==
  ASSUME ConnectionTypeOK, MutexHolder, LoopsInsideRun, [Next]_vars
  PROVE  MutexHolder' /\ LoopsInsideRun'
<1> USE DEF ConnectionTypeOK, MutexHolder, LoopsInsideRun, lockVars, runVars, loopVars, socketVars,
            Lock, Free, Written, WriteFailed
<1>1. CASE Run
  BY <1>1 DEF Run, RunTop, SetConnecting, DialFails, DialSucceeds, AssignConn, SetConnected,
     RegisterLock, Register, StartLoops, JoinLoops, Disconnect, WaitOver, WaitCancelled
<1>2. CASE ReadLoop
  BY <1>2 DEF ReadLoop, ReadCheck, ReadMessage, ReadError
<1>3. CASE HeartbeatLoop
  BY <1>3 DEF HeartbeatLoop, BeatStart, BeatStops, BeatTick, SendHeartbeat, CheckPong
<1>4. CASE Send
  BY <1>4 DEF Send, SendCheck, SendLock, SendWrite, SendNotEncoded
<1>5. CASE Close
  BY <1>5 DEF Close, CloseMessage, CloseSocket, CloseState
<1>6. CASE Cancel \/ PongAges \/ (\E s \in Sockets : PeerGoes(s)) \/ UNCHANGED vars
  BY <1>6 DEF Cancel, PongAges, PeerGoes, vars
<1> QED
  BY <1>1, <1>2, <1>3, <1>4, <1>5, <1>6 DEF Next

(* c.conn is a socket wherever it is used.                                   *)
LEMMA NextSocket ==
  ASSUME ConnectionTypeOK, MutexHolder, LoopsInsideRun, SocketWhenNeeded, [Next]_vars
  PROVE  SocketWhenNeeded'
<1> USE DEF ConnectionTypeOK, MutexHolder, LoopsInsideRun, SocketWhenNeeded,
            lockVars, runVars, loopVars, socketVars, Lock, Free, Written, WriteFailed
<1>1. CASE Run
  BY <1>1 DEF Run, RunTop, SetConnecting, DialFails, DialSucceeds, AssignConn, SetConnected,
     RegisterLock, Register, StartLoops, JoinLoops, Disconnect, WaitOver, WaitCancelled
<1>2. CASE ReadLoop
  BY <1>2 DEF ReadLoop, ReadCheck, ReadMessage, ReadError
<1>3. CASE HeartbeatLoop
  BY <1>3 DEF HeartbeatLoop, BeatStart, BeatStops, BeatTick, SendHeartbeat, CheckPong
<1>4. CASE Send
  BY <1>4 DEF Send, SendCheck, SendLock, SendWrite, SendNotEncoded
<1>5. CASE Close
  BY <1>5 DEF Close, CloseMessage, CloseSocket, CloseState
<1>6. CASE Cancel \/ PongAges \/ (\E s \in Sockets : PeerGoes(s)) \/ UNCHANGED vars
  BY <1>6 DEF Cancel, PongAges, PeerGoes, vars
<1> QED
  BY <1>1, <1>2, <1>3, <1>4, <1>5, <1>6 DEF Next

(* A socket is left behind only between two connections, and is then closed  *)
(* or could not be registered.                                               *)
LEMMA NextLeak ==
  ASSUME ConnectionTypeOK, MutexHolder, LoopsInsideRun, SocketWhenNeeded,
         NothingUsableBetween, OnlyUnregisteredLeak, [Next]_vars
  PROVE  NothingUsableBetween' /\ OnlyUnregisteredLeak'
<1> USE DEF ConnectionTypeOK, MutexHolder, LoopsInsideRun, SocketWhenNeeded,
            BetweenConnections, NothingUsableBetween, OnlyUnregisteredLeak,
            lockVars, runVars, loopVars, socketVars, Lock, Free, Written, WriteFailed
<1>1. CASE Run
  <2>1. CASE RunTop
    BY <2>1 DEF RunTop
  <2>2. CASE SetConnecting
    BY <2>2 DEF SetConnecting
  <2>3. CASE DialFails
    BY <2>3 DEF DialFails
  <2>4. CASE DialSucceeds
    BY <2>4 DEF DialSucceeds
  <2>5. CASE AssignConn
    BY <2>5 DEF AssignConn
  <2>6. CASE SetConnected
    BY <2>6 DEF SetConnected
  <2>7. CASE RegisterLock
    BY <2>7 DEF RegisterLock
  <2>8. CASE Register
    BY <2>8 DEF Register
  <2>9. CASE StartLoops
    BY <2>9 DEF StartLoops
  <2>10. CASE JoinLoops
    BY <2>10 DEF JoinLoops
  <2>11. CASE Disconnect
    BY <2>11 DEF Disconnect
  <2>12. CASE WaitOver
    BY <2>12 DEF WaitOver
  <2>13. CASE WaitCancelled
    BY <2>13 DEF WaitCancelled
  <2> QED
    BY <1>1, <2>1, <2>2, <2>3, <2>4, <2>5, <2>6, <2>7, <2>8, <2>9, <2>10, <2>11, <2>12, <2>13 DEF Run
<1>2. CASE ReadLoop
  BY <1>2 DEF ReadLoop, ReadCheck, ReadMessage, ReadError
<1>3. CASE HeartbeatLoop
  BY <1>3 DEF HeartbeatLoop, BeatStart, BeatStops, BeatTick, SendHeartbeat, CheckPong
<1>4. CASE Send
  BY <1>4 DEF Send, SendCheck, SendLock, SendWrite, SendNotEncoded
<1>5. CASE Close
  BY <1>5 DEF Close, CloseMessage, CloseSocket, CloseState
<1>6. CASE Cancel \/ PongAges \/ (\E s \in Sockets : PeerGoes(s)) \/ UNCHANGED vars
  BY <1>6 DEF Cancel, PongAges, PeerGoes, vars
<1> QED
  BY <1>1, <1>2, <1>3, <1>4, <1>5, <1>6 DEF Next

(* The type invariant in three parts: program counters, the numbers of the   *)
(* sockets with the backoff, and the sets of sockets.                        *)
ControlType ==
  /\ state \in {"disconnected", "connecting", "connected"}
  /\ mu \in {"free", "run", "beat", "send"}
  /\ run \in {"top", "connect", "dial", "assign", "announce", "register", "start", "loops",
             "disconnect", "wait", "done"}
  /\ reading \in {"off", "check", "read", "done"}
  /\ beating \in {"off", "start", "select", "send", "check", "done"}
  /\ pong \in {"fresh", "stale"}
  /\ sender \in {"idle", "checked", "locked"}
  /\ closer \in {"idle", "socket", "state", "closed"}

NumberType ==
  /\ dials \in 0..MaxDials
  /\ conn \in 0..dials
  /\ interval \in Nat \ {0}
  /\ interval = BaseInterval \/ interval <= MaxInterval

SocketType ==
  /\ open \subseteq 1..dials
  /\ alive \subseteq 1..dials
  /\ failed \subseteq 1..dials
  /\ unregistered \subseteq 1..dials

LEMMA TypeParts ==
  ConnectionTypeOK <=> cancelled \in BOOLEAN /\ ControlType /\ NumberType /\ SocketType
BY Zenon DEF ConnectionTypeOK, ControlType, NumberType, SocketType

LEMMA NextControlType ==
  ASSUME ControlType, [Next]_vars
  PROVE  ControlType'
<1> USE DEF ControlType, lockVars, runVars, loopVars, socketVars, Lock, Free, Written, WriteFailed
<1>1. CASE Run
  BY <1>1 DEF Run, RunTop, SetConnecting, DialFails, DialSucceeds, AssignConn, SetConnected,
     RegisterLock, Register, StartLoops, JoinLoops, Disconnect, WaitOver, WaitCancelled
<1>2. CASE ReadLoop
  BY <1>2 DEF ReadLoop, ReadCheck, ReadMessage, ReadError
<1>3. CASE HeartbeatLoop
  BY <1>3 DEF HeartbeatLoop, BeatStart, BeatStops, BeatTick, SendHeartbeat, CheckPong
<1>4. CASE Send
  BY <1>4 DEF Send, SendCheck, SendLock, SendWrite, SendNotEncoded
<1>5. CASE Close
  BY <1>5 DEF Close, CloseMessage, CloseSocket, CloseState
<1>6. CASE Cancel \/ PongAges \/ (\E s \in Sockets : PeerGoes(s)) \/ UNCHANGED vars
  BY <1>6 DEF Cancel, PongAges, PeerGoes, vars
<1> QED
  BY <1>1, <1>2, <1>3, <1>4, <1>5, <1>6 DEF Next

LEMMA NextNumberType ==
  ASSUME NumberType, [Next]_vars
  PROVE  NumberType'
<1> USE DEF NumberType, lockVars, runVars, loopVars, socketVars, Lock, Free, Written, WriteFailed
<1>1. CASE Run
  BY <1>1, ConnectionAssumption DEF ConnectionAssumption, Run, RunTop, SetConnecting, DialFails, DialSucceeds, AssignConn, SetConnected,
     RegisterLock, Register, StartLoops, JoinLoops, Disconnect, WaitOver, WaitCancelled
<1>2. CASE ReadLoop
  BY <1>2 DEF ReadLoop, ReadCheck, ReadMessage, ReadError
<1>3. CASE HeartbeatLoop
  BY <1>3 DEF HeartbeatLoop, BeatStart, BeatStops, BeatTick, SendHeartbeat, CheckPong
<1>4. CASE Send
  BY <1>4 DEF Send, SendCheck, SendLock, SendWrite, SendNotEncoded
<1>5. CASE Close
  BY <1>5 DEF Close, CloseMessage, CloseSocket, CloseState
<1>6. CASE Cancel \/ PongAges \/ (\E s \in Sockets : PeerGoes(s)) \/ UNCHANGED vars
  BY <1>6 DEF Cancel, PongAges, PeerGoes, vars
<1> QED
  BY <1>1, <1>2, <1>3, <1>4, <1>5, <1>6 DEF Next

(* A failed write was on a socket, because whoever holds the mutex has one.  *)
LEMMA NextSocketType ==
  ASSUME ControlType, NumberType, SocketType, MutexHolder, LoopsInsideRun, SocketWhenNeeded, [Next]_vars
  PROVE  SocketType'
<1>1. mu # "free" \/ run = "register" => conn \in 1..dials
  <2>1. mu # "free" \/ run = "register" => conn # 0
    BY DEF MutexHolder, LoopsInsideRun, SocketWhenNeeded, NumberType, ControlType
  <2> QED
    BY <2>1 DEF NumberType
<1>2. dials \in Nat
  BY DEF NumberType
<1> USE DEF SocketType, lockVars, runVars, loopVars, socketVars
<1>3. ASSUME UNCHANGED <<dials, open, alive, failed, unregistered>> PROVE SocketType'
  BY <1>3
<1>4. ASSUME NEW w \in {"run", "beat", "send"}, Written(w) \/ WriteFailed(w), dials' = dials,
             unregistered' \in {unregistered, unregistered \cup {conn}}
      PROVE  SocketType'
  BY <1>1, <1>4 DEF Written, WriteFailed
<1>5. CASE Register
  BY <1>4, <1>5 DEF Register
<1>6. CASE SendHeartbeat
  BY <1>4, <1>6 DEF SendHeartbeat
<1>7. CASE SendWrite
  BY <1>4, <1>7 DEF SendWrite
<1>8. CASE DialSucceeds
  BY <1>2, <1>8 DEF DialSucceeds
<1>9. CASE Disconnect \/ CloseSocket \/ \E s \in Sockets : PeerGoes(s)
  BY <1>9 DEF Disconnect, CloseSocket, PeerGoes
<1>13. CASE CloseMessage
  <2>1. conn # 0 => conn \in 1..dials
    BY DEF NumberType
  <2> QED
    BY <2>1, <1>13 DEF CloseMessage
<1>10. CASE RunTop \/ SetConnecting \/ DialFails \/ AssignConn \/ SetConnected \/ RegisterLock
            \/ StartLoops \/ JoinLoops \/ WaitOver \/ WaitCancelled
  BY <1>3, <1>10 DEF RunTop, SetConnecting, DialFails, AssignConn, SetConnected, RegisterLock,
                     StartLoops, JoinLoops, WaitOver, WaitCancelled
<1>11. CASE ReadLoop \/ BeatStart \/ BeatStops \/ BeatTick \/ CheckPong
  BY <1>3, <1>11 DEF ReadLoop, ReadCheck, ReadMessage, ReadError, BeatStart, BeatStops, BeatTick,
                     CheckPong
<1>12. CASE SendCheck \/ SendLock \/ SendNotEncoded \/ CloseState \/ Cancel \/ PongAges \/ UNCHANGED vars
  BY <1>3, <1>12 DEF SendCheck, SendLock, SendNotEncoded, CloseState, Cancel, PongAges, vars
<1> QED
  BY <1>5, <1>6, <1>7, <1>8, <1>9, <1>10, <1>11, <1>12, <1>13
     DEF Next, Run, HeartbeatLoop, Send, Close

LEMMA NextInductive == IInv /\ [Next]_vars => IInv'
<1> SUFFICES ASSUME IInv, [Next]_vars PROVE IInv'
  OBVIOUS
<1>1. /\ ConnectionTypeOK /\ MutexHolder /\ LoopsInsideRun /\ SocketWhenNeeded
      /\ NothingUsableBetween /\ OnlyUnregisteredLeak
  BY DEF IInv
<1>2. /\ cancelled \in BOOLEAN /\ ControlType /\ NumberType /\ SocketType
  BY <1>1, TypeParts
<1>3. cancelled' \in BOOLEAN
  <2>1. cancelled' = cancelled \/ cancelled' = TRUE
    BY Zenon DEF Next, vars, Run, RunTop, SetConnecting, DialFails, DialSucceeds, AssignConn,
       SetConnected, RegisterLock, Register, StartLoops, JoinLoops, Disconnect, WaitOver,
       WaitCancelled, ReadLoop, ReadCheck, ReadMessage, ReadError, HeartbeatLoop, BeatStart,
       BeatStops, BeatTick, SendHeartbeat, CheckPong, Send, SendCheck, SendLock, SendWrite, SendNotEncoded,
       Close, CloseMessage, CloseSocket, CloseState, Cancel, PongAges, PeerGoes
  <2> QED
    BY <1>2, <2>1, Zenon
<1>4. ControlType' /\ NumberType' /\ SocketType'
  BY <1>1, <1>2, NextControlType, NextNumberType, NextSocketType
<1>5. ConnectionTypeOK'
  BY <1>3, <1>4, Zenon DEF ConnectionTypeOK, ControlType, NumberType, SocketType
<1> QED
  BY <1>1, <1>5, NextControl, NextSocket, NextLeak DEF IInv

(* The inductive invariant holds in every reachable state.                   *)
THEOREM Inductive == Spec => []IInv
BY InitInductive, NextInductive, PTL DEF Spec

-----------------------------------------------------------------------------
(* Every variable keeps its type, and the wait between two dials its bound.  *)
THEOREM TypeCorrect == Spec => []ConnectionTypeOK
<1>1. IInv => ConnectionTypeOK
  BY DEF IInv
<1> QED
  BY <1>1, Inductive, PTL

(* Whoever holds the mutex for a write finds a socket in c.conn.             *)
THEOREM WritersSafe == Spec => []WritersHaveASocket
<1>1. IInv => WritersHaveASocket
  BY DEF IInv, ConnectionTypeOK, MutexHolder, LoopsInsideRun, SocketWhenNeeded, WritersHaveASocket
<1> QED
  BY <1>1, Inductive, PTL

(* A socket that c.conn has left is closed, or its registration could not be *)
(* written.                                                                  *)
THEOREM LeakBounded == Spec => []OnlyUnregisteredLeak
<1>1. IInv => OnlyUnregisteredLeak
  BY DEF IInv
<1> QED
  BY <1>1, Inductive, PTL

(* No write succeeds once Run has returned.                                  *)
THEOREM RunLeavesNothingUsable == Spec => []NothingUsableAfterRun
<1>1. IInv => NothingUsableAfterRun
  BY DEF IInv, NothingUsableBetween, BetweenConnections, NothingUsableAfterRun
<1> QED
  BY <1>1, Inductive, PTL

-----------------------------------------------------------------------------
(* What a step may do to c.conn.                                             *)
LEMMA ConnChanges ==
  ASSUME [Next]_vars
  PROVE  conn' = conn \/ AssignConn
BY Zenon DEF Next, vars, Run, RunTop, SetConnecting, DialFails, DialSucceeds,
   SetConnected, RegisterLock, Register, StartLoops, JoinLoops, Disconnect, WaitOver,
   WaitCancelled, ReadLoop, ReadCheck, ReadMessage, ReadError, HeartbeatLoop, BeatStart,
   BeatStops, BeatTick, SendHeartbeat, CheckPong, Send, SendCheck, SendLock, SendWrite, SendNotEncoded,
   Close, CloseMessage, CloseSocket, CloseState, Cancel, PongAges, PeerGoes, Written, WriteFailed

(* c.conn changes only while neither loop is running.                        *)
THEOREM LoopsSafe == Spec => LoopsKeepTheirSocket
<1>1. IInv /\ [Next]_vars => [conn' # conn => reading = "off" /\ beating = "off"]_vars
  <2> SUFFICES ASSUME IInv, [Next]_vars, conn' # conn PROVE reading = "off" /\ beating = "off"
    OBVIOUS
  <2>1. run = "assign"
    BY ConnChanges DEF AssignConn
  <2> QED
    BY <2>1 DEF IInv, LoopsInsideRun
<1> QED
  BY <1>1, Inductive, PTL DEF Spec, LoopsKeepTheirSocket

-----------------------------------------------------------------------------
(* The connection implements Link: the goroutine that sends sees it go up    *)
(* when Connect sets the state, break when a write fails or Close closes the *)
(* socket, and go down when the state changes; a broken link never recovers  *)
(* without being down in between.                                            *)
THEOREM Refinement == Spec => ImplementsLink
<1>1. Init => AsLink!Init
  BY DEF Init, AsLink!Init, LinkState
<1>2. IInv /\ [Next]_vars => [AsLink!Next]_LinkState
  <2> SUFFICES ASSUME IInv, [Next]_vars PROVE [AsLink!Next]_LinkState
    OBVIOUS
  <2> USE DEF lockVars, runVars, loopVars, socketVars
  <2>1. /\ LinkState \in {"down", "up", "broken"}
        /\ LinkState = "down" <=> state # "connected"
        /\ LinkState = "up" <=> state = "connected" /\ conn \in open \ failed
    BY DEF LinkState
  <2>2. /\ LinkState' \in {"down", "up", "broken"}
        /\ LinkState' = "down" <=> state' # "connected"
        /\ LinkState' = "up" <=> state' = "connected" /\ conn' \in open' \ failed'
    BY DEF LinkState
  <2> DEFINE Step == [AsLink!Next]_LinkState
  <2>3. ASSUME state' # "connected" PROVE Step
    BY <2>1, <2>2, <2>3 DEF AsLink!Next, AsLink!GoDown, AsLink!Connected
  <2>4. ASSUME UNCHANGED <<state, conn>>, open' \subseteq open, failed \subseteq failed'
        PROVE  Step
    BY <2>1, <2>2, <2>4 DEF AsLink!Next, AsLink!Break
  <2>5. ASSUME UNCHANGED state, state # "connected" PROVE Step
    BY <2>3, <2>5
  <2>6. ASSUME NEW w, Written(w) \/ WriteFailed(w) PROVE Step
    BY <2>4, <2>6 DEF Written, WriteFailed
  <2>7. CASE SetConnected
    BY <2>1, <2>2, <2>7 DEF SetConnected, IInv, SocketWhenNeeded, AsLink!Next, AsLink!GoUp
  <2>8. CASE SetConnecting \/ DialFails \/ Disconnect \/ CloseState
    BY <2>3, <2>8 DEF SetConnecting, DialFails, Disconnect, CloseState
  <2>9. CASE DialSucceeds \/ AssignConn
    BY <2>5, <2>9 DEF DialSucceeds, AssignConn, IInv, SocketWhenNeeded
  <2>10. CASE Register \/ SendHeartbeat \/ SendWrite
    BY <2>6, <2>10 DEF Register, SendHeartbeat, SendWrite
  <2>11. CASE CloseMessage \/ CloseSocket
    BY <2>4, <2>11 DEF CloseMessage, CloseSocket
  <2>12. ASSUME UNCHANGED <<state, conn, open, failed>> PROVE Step
    BY <2>4, <2>12
  <2>13. CASE RunTop \/ RegisterLock \/ StartLoops \/ JoinLoops \/ WaitOver \/ WaitCancelled
    BY <2>12, <2>13 DEF RunTop, RegisterLock, Lock, StartLoops, JoinLoops, WaitOver, WaitCancelled
  <2>14. CASE ReadLoop \/ BeatStart \/ BeatStops \/ BeatTick \/ CheckPong
    BY <2>12, <2>14 DEF ReadLoop, ReadCheck, ReadMessage, ReadError, BeatStart, BeatStops,
                        BeatTick, Lock, CheckPong
  <2>15. CASE SendCheck \/ SendLock \/ SendNotEncoded \/ Cancel \/ PongAges \/ (\E s \in Sockets : PeerGoes(s))
              \/ UNCHANGED vars
    BY <2>12, <2>15 DEF SendCheck, SendLock, SendNotEncoded, Lock, Cancel, PongAges, PeerGoes, vars
  <2> QED
    BY <2>7, <2>8, <2>9, <2>10, <2>11, <2>13, <2>14, <2>15
       DEF Next, Run, HeartbeatLoop, Send, Close
<1> QED
  BY <1>1, <1>2, Inductive, PTL DEF Spec, ImplementsLink, AsLink!Spec

=============================================================================
