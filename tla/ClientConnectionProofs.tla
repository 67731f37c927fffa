------------------------- MODULE ClientConnectionProofs -------------------------
(***************************************************************************)
(* Proofs about the connections of the client: with one application        *)
(* thread and dispatch loops that start in time, ClientConnection          *)
(* implements ConnectionPromise, whatever the simulator and the server do, *)
(* for any number of sessions and answers.                                 *)
(***************************************************************************)
EXTENDS ClientConnection, FiniteSetTheorems, TLAPS

\* Two application threads undo each other's connections, and a loop that starts late runs beside the
\* next one (WASimClient.cpp:526, 636).
OneApp == \A t, u \in Apps : t = u
InTime == "late" \notin Faults

Busy(t) == pc[t] \in Making \cup Ending

\* The thread that follows a Quit only ever closes, and is started once in a session.
SessionsClose ==
    \A s \in Sessions : /\ pc[s] \in Ending \cup {"idle"}
                        /\ simulator[s] # "quit" => pc[s] = "idle"

JobsFit == \A t \in Threads : job[t].op = "disconnectServer" => pc[t] \in {"leave", "drop"}

\* Without a link there are no answers.
Grounded == hSim = 0 => ~acked /\ acks = 0

Fresh  == {"open", "starting", "waiting", "register"}
Asking == {"transmit", "answer", "joined"}
Going  == {"shutdown", "stopping", "reset", "closed"}

Unsettled(p, op) == \/ p \in Fresh \cup Asking \cup Going \cup {"close"}
                    \/ p \in {"leave", "drop"} /\ op # "disconnectServer"

Settled ==
    IF hSim # 0 THEN /\ status \in {{"SimConnected"}, {"SimConnected", "Connected"}}
                     /\ "Connected" \in status => serverConnected
                ELSE status = {}

\* Status and server connection while the one busy thread is at p
StatusRight(p, op) ==
    /\ p \in {"initialize", "open", "closed"} => hSim = 0
    /\ p \in {"starting", "waiting", "register", "connecting", "drop"} \cup Asking => hSim # 0
    /\ p \in Fresh  => status = {"Initializing"} /\ acks = 0 /\ ~serverConnected
    /\ p \in Asking => status = {"SimConnected", "Connecting"}
    /\ "Connecting" \in status => p \in Asking
    /\ p = "joined" => serverConnected
    /\ p \in Going => ~serverConnected
    /\ ~Unsettled(p, op) => Settled
    /\ serverConnected => acked

\* The dispatch loops at that time: the one of the link and no other
LoopsRight(p) ==
    /\ \A s \in Sessions : loop[s] \in {"starting", "running"} => s = hSim
    /\ \A s \in Sessions : loop[s] = "running" => runDispatchLoop
    /\ runDispatchLoop => \E s \in Sessions : loop[s] = "running"
    /\ \A s \in Sessions : loop[s] = "starting" => p = "starting"
    /\ hSim # 0 /\ ~stopEvent => loop[hSim] \in {"starting", "running"}
    /\ hSim # 0 /\ stopEvent => p \in {"stopping", "reset"}
    /\ p = "stopping" => stopEvent
    /\ p = "reset" => ~runDispatchLoop

Right(p, op) == StatusRight(p, op) /\ LoopsRight(p)

Alone == \A t, u \in Threads : Busy(t) /\ Busy(u) => t = u

Place(t) == IF Busy(t) THEN pc[t] ELSE "none"

Orderly ==
    /\ Alone
    /\ \A t \in Threads : Busy(t) => Right(pc[t], job[t].op)
    /\ (\A t \in Threads : ~Busy(t)) => Right("none", "None")

CInv == TypeOK /\ SessionsClose /\ JobsFit /\ Grounded /\ (~excused => Orderly)

--------------------------------------------------------------------------------
\* Types

ThreadTypes == /\ pc \in [Threads -> Places]
               /\ job \in [Threads -> [op: Operations \cup {"None"}, hr: {"None", "E_FAIL", "E_TIMEOUT"}, quit: BOOLEAN]]

LEMMA GotoTypes ==
  ASSUME ThreadTypes, NEW t \in Threads, NEW at \in Places, Goto(t, at)
  PROVE  ThreadTypes'
BY DEF ThreadTypes, Goto

LEMMA ReturnTypes ==
  ASSUME ThreadTypes, NEW t \in Threads, Return(t)
  PROVE  ThreadTypes'
<1>1. NoCall \in [op: Operations \cup {"None"}, hr: {"None", "E_FAIL", "E_TIMEOUT"}, quit: BOOLEAN]
  BY DEF NoCall
<1>2. "idle" \in Places
  BY DEF Places
<1>. QED  BY <1>1, <1>2 DEF ThreadTypes, Return

LEMMA FailTypes ==
  ASSUME ThreadTypes, NEW t \in Threads, NEW hr \in {"E_FAIL", "E_TIMEOUT"}, Fail(t, hr)
  PROVE  ThreadTypes'
<1>1. "close" \in Places
  BY DEF Places, Ending
<1>2. job' \in [Threads -> [op: Operations \cup {"None"}, hr: {"None", "E_FAIL", "E_TIMEOUT"}, quit: BOOLEAN]]
  BY DEF ThreadTypes, Fail
<1>. QED  BY <1>1, <1>2 DEF ThreadTypes, Fail

LEMMA StatusTypes ==
  ASSUME NEW old \in SUBSET Flags, NEW flag \in Flags \cup {"Idle"}
  PROVE  StatusAfter(flag, old) \in SUBSET Flags
BY DEF StatusAfter, Flags

\* Which actions change what
LEMMA LinkSteps ==
  ASSUME Next
  PROVE  UNCHANGED <<hSim, opens>> \/ \E t \in Threads : SimConnect_Open(t) \/ Reset(t)
BY Zenon DEF Next, Call, Step, CheckSimulator, Initialize, OpenFails, SimConnect_Open, WaitForLoop,
             WaitForSimulator, Register, CheckServer, SetConnecting, Transmit, WaitForServer, SetConnected,
             PingServer, Ping, WaitForPong, Leave, Drop, CheckClose, ShutDown, WaitForStop, Reset, Closed,
             DispatchThread, StartLoop, StopLoop, Message, RecvOpen, RecvQuit, RecvConnectAck, RecvPong,
             RecvDisconnect, shared, SetStatus

LEMMA SessionSteps ==
  ASSUME Next
  PROVE  \/ UNCHANGED <<simulator, loop>>
         \/ \E t \in Threads : SimConnect_Open(t)
         \/ \E s \in Sessions : DispatchThread(s)
         \/ RecvOpen \/ RecvQuit
BY Zenon DEF Next, Call, Step, CheckSimulator, Initialize, OpenFails, SimConnect_Open, WaitForLoop,
             WaitForSimulator, Register, CheckServer, SetConnecting, Transmit, WaitForServer, SetConnected,
             PingServer, Ping, WaitForPong, Leave, Drop, CheckClose, ShutDown, WaitForStop, Reset, Closed,
             DispatchThread, StartLoop, StopLoop, Message, RecvOpen, RecvQuit, RecvConnectAck, RecvPong,
             RecvDisconnect, shared, SetStatus

LEMMA AckSteps ==
  ASSUME Next
  PROVE  \/ UNCHANGED acks
         \/ \E t \in Threads : Transmit(t) \/ Reset(t)
         \/ RecvConnectAck
BY Zenon DEF Next, Call, Step, CheckSimulator, Initialize, OpenFails, SimConnect_Open, WaitForLoop,
             WaitForSimulator, Register, CheckServer, SetConnecting, Transmit, WaitForServer, SetConnected,
             PingServer, Ping, WaitForPong, Leave, Drop, CheckClose, ShutDown, WaitForStop, Reset, Closed,
             DispatchThread, StartLoop, StopLoop, Message, RecvOpen, RecvQuit, RecvConnectAck, RecvPong,
             RecvDisconnect, shared, SetStatus

LEMMA StatusSteps ==
  ASSUME Next
  PROVE  UNCHANGED status \/ \E flag \in Flags \cup {"Idle"} : SetStatus(flag)
<1>1. /\ "Idle" \in Flags \cup {"Idle"} /\ "Initializing" \in Flags \cup {"Idle"}
      /\ "SimConnected" \in Flags \cup {"Idle"} /\ "Connecting" \in Flags \cup {"Idle"}
      /\ "Connected" \in Flags \cup {"Idle"} /\ "ShuttingDown" \in Flags \cup {"Idle"}
  BY DEF Flags
<1>. QED  BY Zenon, <1>1 DEF Next, Call, Step, CheckSimulator, Initialize, OpenFails, SimConnect_Open, WaitForLoop,
             WaitForSimulator, Register, CheckServer, SetConnecting, Transmit, WaitForServer, SetConnected,
             PingServer, Ping, WaitForPong, Leave, Drop, CheckClose, ShutDown, WaitForStop, Reset, Closed,
             DispatchThread, StartLoop, StopLoop, Message, RecvOpen, RecvQuit, RecvConnectAck, RecvPong,
             RecvDisconnect, shared

LEMMA PongSteps ==
  ASSUME Next
  PROVE  UNCHANGED pongs \/ pongs' = Threads \/ \E t \in Threads : pongs' = pongs \ {t}
BY Zenon DEF Next, Call, Step, CheckSimulator, Initialize, OpenFails, SimConnect_Open, WaitForLoop,
             WaitForSimulator, Register, CheckServer, SetConnecting, Transmit, WaitForServer, SetConnected,
             PingServer, Ping, WaitForPong, Leave, Drop, CheckClose, ShutDown, WaitForStop, Reset, Closed,
             DispatchThread, StartLoop, StopLoop, Message, RecvOpen, RecvQuit, RecvConnectAck, RecvPong,
             RecvDisconnect, shared, SetStatus

LEMMA FlagSteps ==
  ASSUME Next
  PROVE  /\ simConnected' \in {simConnected, TRUE, FALSE}
         /\ serverConnected' \in {serverConnected, TRUE, FALSE}
         /\ runDispatchLoop' \in {runDispatchLoop, TRUE, FALSE}
         /\ stopEvent' \in {stopEvent, TRUE, FALSE}
         /\ acked' \in {acked, TRUE, FALSE}
<1>1. UNCHANGED simConnected \/ simConnected' = TRUE \/ simConnected' = FALSE
  BY Zenon DEF Next, Call, Step, CheckSimulator, Initialize, OpenFails, SimConnect_Open, WaitForLoop,
             WaitForSimulator, Register, CheckServer, SetConnecting, Transmit, WaitForServer, SetConnected,
             PingServer, Ping, WaitForPong, Leave, Drop, CheckClose, ShutDown, WaitForStop, Reset, Closed,
             DispatchThread, StartLoop, StopLoop, Message, RecvOpen, RecvQuit, RecvConnectAck, RecvPong,
             RecvDisconnect, shared, SetStatus
<1>2. UNCHANGED serverConnected \/ serverConnected' = TRUE \/ serverConnected' = FALSE
  BY Zenon DEF Next, Call, Step, CheckSimulator, Initialize, OpenFails, SimConnect_Open, WaitForLoop,
             WaitForSimulator, Register, CheckServer, SetConnecting, Transmit, WaitForServer, SetConnected,
             PingServer, Ping, WaitForPong, Leave, Drop, CheckClose, ShutDown, WaitForStop, Reset, Closed,
             DispatchThread, StartLoop, StopLoop, Message, RecvOpen, RecvQuit, RecvConnectAck, RecvPong,
             RecvDisconnect, shared, SetStatus
<1>3. UNCHANGED runDispatchLoop \/ runDispatchLoop' = TRUE \/ runDispatchLoop' = FALSE
  BY Zenon DEF Next, Call, Step, CheckSimulator, Initialize, OpenFails, SimConnect_Open, WaitForLoop,
             WaitForSimulator, Register, CheckServer, SetConnecting, Transmit, WaitForServer, SetConnected,
             PingServer, Ping, WaitForPong, Leave, Drop, CheckClose, ShutDown, WaitForStop, Reset, Closed,
             DispatchThread, StartLoop, StopLoop, Message, RecvOpen, RecvQuit, RecvConnectAck, RecvPong,
             RecvDisconnect, shared, SetStatus
<1>4. UNCHANGED stopEvent \/ stopEvent' = TRUE \/ stopEvent' = FALSE
  BY Zenon DEF Next, Call, Step, CheckSimulator, Initialize, OpenFails, SimConnect_Open, WaitForLoop,
             WaitForSimulator, Register, CheckServer, SetConnecting, Transmit, WaitForServer, SetConnected,
             PingServer, Ping, WaitForPong, Leave, Drop, CheckClose, ShutDown, WaitForStop, Reset, Closed,
             DispatchThread, StartLoop, StopLoop, Message, RecvOpen, RecvQuit, RecvConnectAck, RecvPong,
             RecvDisconnect, shared, SetStatus
<1>5. UNCHANGED acked \/ acked' = TRUE \/ acked' = FALSE
  BY Zenon DEF Next, Call, Step, CheckSimulator, Initialize, OpenFails, SimConnect_Open, WaitForLoop,
             WaitForSimulator, Register, CheckServer, SetConnecting, Transmit, WaitForServer, SetConnected,
             PingServer, Ping, WaitForPong, Leave, Drop, CheckClose, ShutDown, WaitForStop, Reset, Closed,
             DispatchThread, StartLoop, StopLoop, Message, RecvOpen, RecvQuit, RecvConnectAck, RecvPong,
             RecvDisconnect, shared, SetStatus
<1>. QED  BY Zenon, <1>1, <1>2, <1>3, <1>4, <1>5

\* Where a thread goes
LEMMA StepMoves ==
  ASSUME NEW t \in Threads, Step(t)
  PROVE  \/ \E at \in Places : Goto(t, at)
         \/ Return(t)
         \/ \E hr \in {"E_FAIL", "E_TIMEOUT"} : Fail(t, hr)
         \/ Proceed(t)
<1>1. /\ "initialize" \in Places /\ "open" \in Places /\ "starting" \in Places /\ "waiting" \in Places
      /\ "register" \in Places /\ "simulator" \in Places /\ "connecting" \in Places /\ "transmit" \in Places
      /\ "answer" \in Places /\ "joined" \in Places /\ "pinging" \in Places /\ "pong" \in Places
      /\ "drop" \in Places /\ "shutdown" \in Places /\ "leave" \in Places /\ "stopping" \in Places
      /\ "reset" \in Places /\ "closed" \in Places
  BY DEF Places, Making, Ending
<1>. QED  BY Zenon, <1>1 DEF Step, CheckSimulator, Initialize, OpenFails, SimConnect_Open, WaitForLoop,
           WaitForSimulator, Register, CheckServer, SetConnecting, Transmit, WaitForServer, SetConnected,
           PingServer, Ping, WaitForPong, Leave, Drop, CheckClose, ShutDown, WaitForStop, Reset, Closed

LEMMA ThreadSteps ==
  ASSUME Next
  PROVE  \/ UNCHANGED <<pc, job>>
         \/ \E t \in Apps : \E op \in Calls : Call(t, op)
         \/ \E t \in Threads :
              \/ \E at \in Places : Goto(t, at)
              \/ Return(t)
              \/ \E hr \in {"E_FAIL", "E_TIMEOUT"} : Fail(t, hr)
              \/ Proceed(t)
         \/ RecvQuit
<1>2. ASSUME NEW s \in Sessions, DispatchThread(s)
      PROVE  UNCHANGED <<pc, job>>
  BY Zenon, <1>2 DEF DispatchThread, StartLoop, StopLoop
<1>3. CASE Message
  BY Zenon, <1>3 DEF Message, RecvOpen, RecvConnectAck, RecvPong, RecvDisconnect
<1>. QED  BY Zenon, StepMoves, <1>2, <1>3 DEF Next

LEMMA ProceedTypes ==
  ASSUME ThreadTypes, NEW t \in Threads, Proceed(t)
  PROVE  ThreadTypes'
<1>1. "connecting" \in Places /\ "pinging" \in Places
  BY DEF Places, Making
<1>. QED  BY <1>1, GotoTypes, ReturnTypes, Zenon DEF Proceed

LEMMA ThreadTypesStep ==
  ASSUME TypeOK, Next
  PROVE  ThreadTypes'
<1>. ThreadTypes /\ hSim \in 0..opens /\ opens \in 0..MaxOpens
  BY DEF TypeOK, ThreadTypes
<1>1. ASSUME UNCHANGED <<pc, job>> PROVE ThreadTypes'
  BY <1>1 DEF ThreadTypes
<1>2. ASSUME NEW t \in Apps, NEW op \in Calls, Call(t, op)
      PROVE  ThreadTypes'
  <2>1. op \in Operations /\ t \in Threads
    BY ConnectionConstants DEF Threads
  <2>2. Entry(op) \in Places
    BY <2>1 DEF Operations, Entry, Places, Making, Ending
  <2>3. [NoCall EXCEPT !.op = op] \in [op: Operations \cup {"None"}, hr: {"None", "E_FAIL", "E_TIMEOUT"}, quit: BOOLEAN]
    BY <2>1 DEF NoCall
  <2>. QED  BY <1>2, <2>1, <2>2, <2>3 DEF ThreadTypes, Call
<1>3. CASE RecvQuit
  <2>1. hSim \in Threads
    BY <1>3, ConnectionConstants DEF RecvQuit, Dispatching, CheckInit, Threads, Sessions
  <2>2. "close" \in Places /\ "disconnectSimulator" \in Operations
    BY DEF Places, Ending, Operations
  <2>3. [NoCall EXCEPT !.op = "disconnectSimulator", !.quit = TRUE]
          \in [op: Operations \cup {"None"}, hr: {"None", "E_FAIL", "E_TIMEOUT"}, quit: BOOLEAN]
    BY <2>2 DEF NoCall
  <2>. QED  BY <1>3, <2>1, <2>2, <2>3 DEF ThreadTypes, RecvQuit
<1>. QED  BY Zenon, <1>1, <1>2, <1>3, ThreadSteps, GotoTypes, ReturnTypes, FailTypes, ProceedTypes

LEMMA LinkTypesStep ==
  ASSUME TypeOK, Next
  PROVE  hSim' \in 0..opens' /\ opens' \in 0..MaxOpens
<1>. hSim \in 0..opens /\ opens \in 0..MaxOpens /\ MaxOpens \in Nat
  BY ConnectionConstants DEF TypeOK
<1>1. ASSUME NEW t \in Threads, SimConnect_Open(t)
      PROVE  hSim' \in 0..opens' /\ opens' \in 0..MaxOpens
  <2>1. opens < MaxOpens /\ opens' = opens + 1 /\ hSim' = opens'
    BY <1>1 DEF SimConnect_Open
  <2>. QED  BY <2>1
<1>2. ASSUME NEW t \in Threads, Reset(t)
      PROVE  hSim' \in 0..opens' /\ opens' \in 0..MaxOpens
  <2>1. opens' = opens /\ hSim' = 0
    BY <1>2 DEF Reset
  <2>. QED  BY <2>1
<1>. QED  BY <1>1, <1>2, LinkSteps

LEMMA SessionTypesStep ==
  ASSUME TypeOK, Next
  PROVE  /\ simulator' \in [Sessions -> {"opening", "open", "quit"}]
         /\ loop' \in [Sessions -> {"none", "starting", "running", "ended"}]
<1>. /\ simulator \in [Sessions -> {"opening", "open", "quit"}]
     /\ loop \in [Sessions -> {"none", "starting", "running", "ended"}]
  BY DEF TypeOK
<1>1. ASSUME NEW t \in Threads, SimConnect_Open(t)
      PROVE  simulator' = simulator /\ \E s : loop' = [loop EXCEPT ![s] = "starting"]
  BY <1>1 DEF SimConnect_Open
<1>2. ASSUME NEW s \in Sessions, DispatchThread(s)
      PROVE  simulator' = simulator /\ \E v \in {"running", "ended"} : loop' = [loop EXCEPT ![s] = v]
  BY <1>2 DEF DispatchThread, StartLoop, StopLoop
<1>3. ASSUME RecvOpen \/ RecvQuit
      PROVE  loop' = loop /\ \E v \in {"open", "quit"} : simulator' = [simulator EXCEPT ![hSim] = v]
  BY <1>3 DEF RecvOpen, RecvQuit
<1>. QED  BY <1>1, <1>2, <1>3, SessionSteps

LEMMA AckTypesStep ==
  ASSUME TypeOK, Next
  PROVE  acks' \in 0..MaxAcks
<1>. acks \in 0..MaxAcks /\ MaxAcks \in Nat
  BY ConnectionConstants DEF TypeOK
<1>1. ASSUME NEW t \in Threads, Transmit(t)
      PROVE  acks' = acks \/ (acks < MaxAcks /\ acks' = acks + 1)
  BY <1>1 DEF Transmit
<1>2. ASSUME NEW t \in Threads, Reset(t)
      PROVE  acks' = 0
  BY <1>2 DEF Reset
<1>3. ASSUME RecvConnectAck
      PROVE  acks > 0 /\ acks' = acks - 1
  BY <1>3 DEF RecvConnectAck
<1>. QED  BY <1>1, <1>2, <1>3, AckSteps

\* The state keeps its types.
LEMMA TypesStep ==
  ASSUME TypeOK, Next
  PROVE  TypeOK'
<1>1. status' \subseteq Flags
  <2>1. status \in SUBSET Flags
    BY DEF TypeOK
  <2>2. status' \in SUBSET Flags
    BY <2>1, StatusSteps, StatusTypes DEF SetStatus
  <2>. QED  BY <2>2
<1>2. pongs' \subseteq Threads
  BY PongSteps DEF TypeOK
<1>3. excused' \in BOOLEAN
  BY DEF Next, Track
<1>4. /\ simConnected' \in BOOLEAN /\ serverConnected' \in BOOLEAN /\ runDispatchLoop' \in BOOLEAN
      /\ stopEvent' \in BOOLEAN /\ acked' \in BOOLEAN
  BY Zenon, FlagSteps DEF TypeOK
<1>5. ThreadTypes'
  BY ThreadTypesStep
<1>. QED  BY Zenon, <1>1, <1>2, <1>3, <1>4, <1>5, LinkTypesStep, SessionTypesStep, AckTypesStep DEF TypeOK, ThreadTypes
--------------------------------------------------------------------------------
\* What always holds

\* A step of a thread moves that thread only.
LEMMA StepShape ==
  ASSUME TypeOK, NEW t \in Threads, Step(t)
  PROVE  /\ pc[t] # "idle"
         /\ \A u \in Threads : u # t => pc'[u] = pc[u] /\ job'[u] = job[u]
<1>1. \/ \E at \in Places : Goto(t, at)
      \/ Return(t)
      \/ \E hr \in {"E_FAIL", "E_TIMEOUT"} : Fail(t, hr)
      \/ Proceed(t)
  BY StepMoves
<1>2. \/ \E at : pc' = [pc EXCEPT ![t] = at] /\ job' = job
      \/ \E at, j : pc' = [pc EXCEPT ![t] = at] /\ job' = [job EXCEPT ![t] = j]
      \/ \E at, hr : pc' = [pc EXCEPT ![t] = at] /\ job' = [job EXCEPT ![t].hr = hr]
  BY Zenon, <1>1 DEF Goto, Return, Fail, Proceed
<1>3. /\ pc \in [Threads -> Places]
      /\ job \in [Threads -> [op: Operations \cup {"None"}, hr: {"None", "E_FAIL", "E_TIMEOUT"}, quit: BOOLEAN]]
  BY DEF TypeOK
<1>4. \A u \in Threads : u # t => pc'[u] = pc[u] /\ job'[u] = job[u]
  BY <1>2, <1>3
<1>5. pc[t] # "idle"
  BY DEF Step, CheckSimulator, Initialize, OpenFails, SimConnect_Open, WaitForLoop,
         WaitForSimulator, Register, CheckServer, SetConnecting, Transmit, WaitForServer, SetConnected,
         PingServer, Ping, WaitForPong, Leave, Drop, CheckClose, ShutDown, WaitForStop, Reset, Closed
<1>. QED  BY <1>4, <1>5

\* A thread that closes goes on closing.
LEMMA StillClosing ==
  ASSUME TypeOK, NEW t \in Threads, Step(t), pc[t] \in Ending
  PROVE  pc'[t] \in Ending \cup {"idle"}
<1>1. pc \in [Threads -> Places]
  BY DEF TypeOK
<1>2. Leave(t) \/ Drop(t) \/ CheckClose(t) \/ ShutDown(t) \/ WaitForStop(t) \/ Reset(t) \/ Closed(t)
  BY DEF Ending, Step, CheckSimulator, Initialize, OpenFails, SimConnect_Open, WaitForLoop,
         WaitForSimulator, Register, CheckServer, SetConnecting, Transmit, WaitForServer, SetConnected,
         PingServer, Ping, WaitForPong
<1>3. \/ \E at \in Ending \cup {"idle"} : pc' = [pc EXCEPT ![t] = at]
  <2>1. /\ "drop" \in Ending \cup {"idle"} /\ "idle" \in Ending \cup {"idle"} /\ "shutdown" \in Ending \cup {"idle"}
        /\ "leave" \in Ending \cup {"idle"} /\ "stopping" \in Ending \cup {"idle"} /\ "reset" \in Ending \cup {"idle"}
        /\ "closed" \in Ending \cup {"idle"}
    BY DEF Ending
  <2>. QED  BY Zenon, <1>2, <2>1 DEF Leave, Drop, CheckClose, ShutDown, WaitForStop, Reset, Closed, Goto, Return
<1>. QED  BY <1>1, <1>3

LEMMA SessionsCloseStep ==
  ASSUME TypeOK, SessionsClose, Next
  PROVE  SessionsClose'
<1>. SUFFICES ASSUME NEW s \in Sessions
              PROVE  /\ pc'[s] \in Ending \cup {"idle"}
                     /\ simulator'[s] # "quit" => pc'[s] = "idle"
  BY DEF SessionsClose
<1>1. /\ s \in Threads /\ s \notin Apps
      /\ pc \in [Threads -> Places]
      /\ simulator \in [Sessions -> {"opening", "open", "quit"}]
      /\ pc[s] \in Ending \cup {"idle"}
      /\ simulator[s] # "quit" => pc[s] = "idle"
  BY ConnectionConstants DEF TypeOK, SessionsClose, Threads, Sessions
<1>2. ASSUME NEW t \in Threads, Step(t)
      PROVE  /\ pc'[s] \in Ending \cup {"idle"}
             /\ pc[s] = "idle" => pc'[s] = "idle"
    BY <1>1, <1>2, StepShape, StillClosing
<1>3. ASSUME NEW t \in Apps, NEW op \in Calls, Call(t, op)
      PROVE  pc'[s] = pc[s]
  BY <1>1, <1>3 DEF Call
<1>4. CASE RecvQuit
  <2>1. /\ pc' = [pc EXCEPT ![hSim] = "close"]
        /\ simulator' = [simulator EXCEPT ![hSim] = "quit"]
    BY <1>4 DEF RecvQuit
  <2>. QED  BY <1>1, <2>1 DEF Ending
<1>5. ASSUME ~RecvQuit PROVE simulator'[s] # "quit" => simulator[s] # "quit"
  <2>1. UNCHANGED simulator \/ simulator' = [simulator EXCEPT ![hSim] = "open"]
    BY Zenon, <1>5, SessionSteps DEF SimConnect_Open, DispatchThread, StartLoop, StopLoop, RecvOpen
  <2>2. RecvOpen \/ UNCHANGED simulator
    BY Zenon, <1>5, SessionSteps DEF SimConnect_Open, DispatchThread, StartLoop, StopLoop
  <2>3. RecvOpen => simulator[hSim] = "opening"
    BY DEF RecvOpen
  <2>. QED  BY <1>1, <2>1, <2>2, <2>3
<1>6. \/ UNCHANGED pc
      \/ \E t \in Threads : Step(t)
      \/ \E t \in Apps : \E op \in Calls : Call(t, op)
      \/ RecvQuit
  BY Zenon DEF Next, DispatchThread, StartLoop, StopLoop, Message, RecvOpen, RecvConnectAck, RecvPong, RecvDisconnect
<1>. QED  BY <1>1, <1>2, <1>3, <1>4, <1>5, <1>6

\* Only disconnectServer() itself leaves the server and returns.
LEMMA JobsFitStep ==
  ASSUME TypeOK, SessionsClose, JobsFit, Next
  PROVE  JobsFit'
<1>. /\ pc \in [Threads -> Places]
     /\ job \in [Threads -> [op: Operations \cup {"None"}, hr: {"None", "E_FAIL", "E_TIMEOUT"}, quit: BOOLEAN]]
  BY DEF TypeOK
<1>1. ASSUME NEW t \in Threads, Step(t)
      PROVE  JobsFit'
  <2>1. \A u \in Threads : u # t => pc'[u] = pc[u] /\ job'[u] = job[u]
    BY <1>1, StepShape
  <2>2. job'[t].op = "disconnectServer" => pc'[t] \in {"leave", "drop"}
    <3>1. CASE Leave(t)
      BY <3>1 DEF JobsFit, Leave, Goto, Return, NoCall
    <3>2. CASE Drop(t)
      BY <3>2 DEF JobsFit, Drop, Goto, Return, NoCall
    <3>3. CASE ~Leave(t) /\ ~Drop(t)
      <4>1. pc[t] \notin {"leave", "drop"}
        BY Zenon, <1>1, <3>3 DEF Step, CheckSimulator, Initialize, OpenFails, SimConnect_Open, WaitForLoop,
           WaitForSimulator, Register, CheckServer, SetConnecting, Transmit, WaitForServer, SetConnected,
           PingServer, Ping, WaitForPong, CheckClose, ShutDown, WaitForStop, Reset, Closed
      <4>2. job[t].op # "disconnectServer"
        BY <4>1 DEF JobsFit
      <4>3. \/ \E at \in Places : Goto(t, at)
            \/ Return(t)
            \/ \E hr \in {"E_FAIL", "E_TIMEOUT"} : Fail(t, hr)
            \/ Proceed(t)
        BY <1>1, StepMoves
      <4>4. \/ job' = job
            \/ job' = [job EXCEPT ![t] = NoCall]
            \/ \E hr : job' = [job EXCEPT ![t].hr = hr]
        BY Zenon, <4>3 DEF Goto, Return, Fail, Proceed
      <4>. QED  BY <4>2, <4>4 DEF NoCall
    <3>. QED  BY <3>1, <3>2, <3>3
  <2>. QED  BY <2>1, <2>2 DEF JobsFit
<1>2. ASSUME NEW t \in Apps, NEW op \in Calls, Call(t, op)
      PROVE  JobsFit'
  <2>1. t \in Threads /\ pc' = [pc EXCEPT ![t] = Entry(op)] /\ job' = [job EXCEPT ![t] = [NoCall EXCEPT !.op = op]]
    BY <1>2 DEF Call, Threads
  <2>2. Entry("disconnectServer") = "leave"
    BY DEF Entry
  <2>. QED  BY <2>1, <2>2 DEF JobsFit, NoCall
<1>3. CASE RecvQuit
  <2>1. job' = [job EXCEPT ![hSim] = [NoCall EXCEPT !.op = "disconnectSimulator", !.quit = TRUE]]
        /\ pc' = [pc EXCEPT ![hSim] = "close"]
    BY <1>3 DEF RecvQuit
  <2>. QED  BY <2>1 DEF JobsFit, NoCall
<1>4. CASE UNCHANGED <<pc, job>>
  BY <1>4 DEF JobsFit
<1>5. \/ UNCHANGED <<pc, job>>
      \/ \E t \in Threads : Step(t)
      \/ \E t \in Apps : \E op \in Calls : Call(t, op)
      \/ RecvQuit
  BY Zenon DEF Next, DispatchThread, StartLoop, StopLoop, Message, RecvOpen, RecvConnectAck, RecvPong, RecvDisconnect
<1>. QED  BY <1>1, <1>2, <1>3, <1>4, <1>5

LEMMA GroundedStep ==
  ASSUME TypeOK, Grounded, Next
  PROVE  Grounded'
<1>. /\ hSim \in 0..opens /\ opens \in 0..MaxOpens /\ MaxOpens \in Nat
  BY ConnectionConstants DEF TypeOK
<1>1. ASSUME NEW t \in Threads, SimConnect_Open(t)
      PROVE  Grounded'
  <2>1. opens' = opens + 1 /\ hSim' = opens'
    BY <1>1 DEF SimConnect_Open
  <2>. QED  BY <2>1 DEF Grounded
<1>2. ASSUME NEW t \in Threads, Reset(t)
      PROVE  Grounded'
  BY Zenon, <1>2 DEF Grounded, Reset
<1>3. ASSUME UNCHANGED hSim, hSim = 0
      PROVE  (UNCHANGED acks /\ (UNCHANGED acked \/ acked' = FALSE)) \/ Grounded'
  <2>1. UNCHANGED acked \/ acked' = FALSE \/ RecvConnectAck
    BY Zenon DEF Next, Call, Step, CheckSimulator, Initialize, OpenFails, SimConnect_Open, WaitForLoop,
             WaitForSimulator, Register, CheckServer, SetConnecting, Transmit, WaitForServer, SetConnected,
             PingServer, Ping, WaitForPong, Leave, Drop, CheckClose, ShutDown, WaitForStop, Reset, Closed,
             DispatchThread, StartLoop, StopLoop, Message, RecvOpen, RecvQuit, RecvPong,
             RecvDisconnect, shared, SetStatus
  <2>2. ~RecvConnectAck
    BY <1>3 DEF RecvConnectAck, Dispatching, CheckInit
  <2>3. ASSUME NEW t \in Threads, Transmit(t)
        PROVE  UNCHANGED acks
    BY <1>3, <2>3 DEF Transmit, CheckInit
  <2>4. ASSUME NEW t \in Threads, Reset(t)
        PROVE  Grounded'
    BY <1>2, <2>4
  <2>. QED  BY <2>1, <2>2, <2>3, <2>4, AckSteps
<1>4. CASE UNCHANGED hSim
  BY <1>3, <1>4 DEF Grounded
<1>. QED  BY <1>1, <1>2, <1>4, LinkSteps
--------------------------------------------------------------------------------
\* While no end of a link has met another call, one thread is busy at most, and all is as its place says.

\* The loops are as they were while a thread is neither starting nor stopping one.
LEMMA LoopsStay ==
  ASSUME NEW p, NEW q, LoopsRight(p), UNCHANGED <<hSim, loop, runDispatchLoop, stopEvent>>,
         p \notin {"starting", "stopping", "reset"}, q \notin {"stopping", "reset"}
  PROVE  LoopsRight(q)'
BY DEF LoopsRight

LEMMA MakingLink ==
  ASSUME TypeOK, Grounded, JobsFit, InTime, NEW t \in Threads, Right(pc[t], job[t].op),
         \/ CheckSimulator(t) \/ Initialize(t) \/ OpenFails(t) \/ SimConnect_Open(t)
         \/ WaitForLoop(t) \/ WaitForSimulator(t)
  PROVE  Right(Place(t), job[t].op)'
<1>. /\ pc \in [Threads -> Places]
     /\ job \in [Threads -> [op: Operations \cup {"None"}, hr: {"None", "E_FAIL", "E_TIMEOUT"}, quit: BOOLEAN]]
     /\ StatusRight(pc[t], job[t].op) /\ LoopsRight(pc[t])
  BY DEF TypeOK, Right
<1>1. CASE CheckSimulator(t)
  <2>1. /\ pc[t] = "simulator"
        /\ UNCHANGED <<shared, status>>
        /\ \/ pc'[t] = "idle"
           \/ hSim = 0 /\ pc'[t] = "initialize" /\ job' = job
    BY <1>1 DEF CheckSimulator, Return, Goto, CheckInit
  <2>2. Place(t)' \in {"none", "initialize"} /\ (Place(t)' = "initialize" => hSim = 0)
    BY <2>1 DEF Place, Busy, Making, Ending
  <2>3. StatusRight(Place(t), job[t].op)'
    BY <2>1, <2>2 DEF StatusRight, Unsettled, Settled, Fresh, Asking, Going, shared
  <2>4. LoopsRight(Place(t))'
    BY <2>1, <2>2, LoopsStay DEF shared
  <2>. QED  BY <2>3, <2>4 DEF Right
<1>2. CASE Initialize(t)
  <2>1. /\ pc[t] = "initialize" /\ pc'[t] = "open"
        /\ UNCHANGED shared /\ status' = {"Initializing"}
    BY <1>2 DEF Initialize, Goto, SetStatus, StatusAfter
  <2>2. Place(t)' = "open"
    BY <2>1 DEF Place, Busy, Making
  <2>3. hSim = 0 /\ ~acked /\ acks = 0 /\ ~serverConnected
    BY <2>1 DEF StatusRight, Grounded
  <2>4. StatusRight(Place(t), job[t].op)'
    BY <2>1, <2>2, <2>3 DEF StatusRight, Unsettled, Fresh, Asking, Going, shared
  <2>5. LoopsRight(Place(t))'
    BY <2>1, <2>2, LoopsStay DEF shared
  <2>. QED  BY <2>4, <2>5 DEF Right
<1>3. CASE OpenFails(t)
  <2>1. /\ pc[t] = "open" /\ pc'[t] = "idle"
        /\ UNCHANGED <<hSim, serverConnected, runDispatchLoop, stopEvent, loop, acks, acked>>
        /\ status' = {}
    BY <1>3 DEF OpenFails, Return, SetStatus, StatusAfter
  <2>2. Place(t)' = "none"
    BY <2>1 DEF Place, Busy, Making, Ending
  <2>3. StatusRight(Place(t), job[t].op)'
    BY <2>1, <2>2 DEF StatusRight, Unsettled, Settled, Fresh, Asking, Going
  <2>4. LoopsRight(Place(t))'
    BY <2>1, <2>2, LoopsStay
  <2>. QED  BY <2>3, <2>4 DEF Right
<1>4. CASE SimConnect_Open(t)
  <2>1. /\ pc[t] = "open" /\ pc'[t] = "starting" /\ job' = job
        /\ opens < MaxOpens /\ hSim' = opens + 1
        /\ stopEvent' = FALSE
        /\ loop' = [loop EXCEPT ![hSim'] = "starting"]
        /\ UNCHANGED <<status, serverConnected, runDispatchLoop, acks, acked>>
    BY <1>4 DEF SimConnect_Open, Goto
  <2>2. Place(t)' = "starting"
    BY <2>1 DEF Place, Busy, Making
  <2>3. hSim' \in Sessions /\ hSim' # 0 /\ 0 \notin Sessions
    BY <2>1, ConnectionConstants DEF TypeOK, Sessions
  <2>4. StatusRight(Place(t), job[t].op)'
    BY <2>1, <2>2, <2>3 DEF StatusRight, Unsettled, Fresh, Asking, Going
  <2>5. hSim = 0
    BY <2>1 DEF StatusRight
  <2>6. \A s \in Sessions : loop[s] \notin {"starting", "running"}
    BY <2>3, <2>5 DEF LoopsRight
  <2>7. loop \in [Sessions -> {"none", "starting", "running", "ended"}] /\ runDispatchLoop = FALSE
    BY <2>6 DEF TypeOK, LoopsRight
  <2>8. /\ \A s \in Sessions : s # hSim' => loop'[s] \notin {"starting", "running"}
        /\ loop'[hSim'] = "starting"
    BY <2>1, <2>3, <2>6, <2>7
  <2>9. LoopsRight(Place(t))'
    BY <2>1, <2>2, <2>3, <2>7, <2>8 DEF LoopsRight
  <2>. QED  BY <2>4, <2>9 DEF Right
<1>5. CASE WaitForLoop(t)
  <2>1. /\ pc[t] = "starting" /\ pc'[t] \in {"waiting", "close"} /\ job'[t].op = job[t].op
        /\ UNCHANGED <<shared, status>>
        /\ runDispatchLoop \/ \A s \in Sessions : loop[s] # "starting"
    BY <1>5 DEF WaitForLoop, Goto, Fail, InTime
  <2>2. Place(t)' = pc'[t]
    BY <2>1 DEF Place, Busy, Making, Ending
  <2>3. StatusRight(Place(t), job[t].op)'
    BY <2>1, <2>2 DEF StatusRight, Unsettled, Fresh, Asking, Going, shared
  <2>4. \A s \in Sessions : loop[s] # "starting"
    BY <2>1 DEF LoopsRight
  <2>5. LoopsRight(Place(t))'
    BY <2>1, <2>2, <2>4 DEF LoopsRight, shared
  <2>. QED  BY <2>3, <2>5 DEF Right
<1>6. CASE WaitForSimulator(t)
  <2>1. /\ pc[t] = "waiting" /\ pc'[t] \in {"register", "close"} /\ job'[t].op = job[t].op
        /\ UNCHANGED <<shared, status>>
    BY <1>6 DEF WaitForSimulator, Goto, Fail
  <2>2. Place(t)' = pc'[t]
    BY <2>1 DEF Place, Busy, Making, Ending
  <2>3. StatusRight(Place(t), job[t].op)'
    BY <2>1, <2>2 DEF StatusRight, Unsettled, Fresh, Asking, Going, shared
  <2>4. LoopsRight(Place(t))'
    BY <2>1, <2>2, LoopsStay DEF shared
  <2>. QED  BY <2>3, <2>4 DEF Right
<1>. QED  BY <1>1, <1>2, <1>3, <1>4, <1>5, <1>6
LEMMA MakingServer ==
  ASSUME TypeOK, NEW t \in Threads, Right(pc[t], job[t].op),
         Register(t) \/ SetConnecting(t) \/ Transmit(t) \/ WaitForServer(t) \/ SetConnected(t)
  PROVE  Right(Place(t), job[t].op)'
<1>. /\ pc \in [Threads -> Places]
     /\ job \in [Threads -> [op: Operations \cup {"None"}, hr: {"None", "E_FAIL", "E_TIMEOUT"}, quit: BOOLEAN]]
     /\ StatusRight(pc[t], job[t].op) /\ LoopsRight(pc[t])
  BY DEF TypeOK, Right
<1>1. CASE Register(t)
  <2>1. pc[t] = "register" /\ UNCHANGED shared /\ hSim # 0 /\ status = {"Initializing"} /\ ~serverConnected
    BY <1>1 DEF Register, StatusRight, Fresh
  <2>2. \/ pc'[t] = "close" /\ status' = status
        \/ pc'[t] \in {"connecting", "pinging", "idle"} /\ status' = {"SimConnected"}
    BY <1>1, <2>1 DEF Register, Fail, Proceed, Goto, Return, SetStatus, StatusAfter
  <2>3. \/ Place(t)' = "close" /\ status' = status
        \/ Place(t)' \in {"connecting", "none"} /\ status' = {"SimConnected"}
    BY <2>2 DEF Place, Busy, Making, Ending
  <2>4. CASE Place(t)' = "close" /\ status' = status
    BY <2>1, <2>4 DEF StatusRight, LoopsRight, Right, Unsettled, Fresh, Asking, Going, shared
  <2>5. CASE Place(t)' \in {"connecting", "none"} /\ status' = {"SimConnected"}
    <3>1. StatusRight(Place(t), job[t].op)'
      BY <2>1, <2>5 DEF StatusRight, Unsettled, Settled, Fresh, Asking, Going, shared
    <3>2. LoopsRight(Place(t))'
      BY <2>1, <2>5, LoopsStay DEF shared
    <3>. QED  BY <3>1, <3>2 DEF Right
  <2>. QED  BY <2>3, <2>4, <2>5
<1>2. CASE SetConnecting(t)
  <2>1. pc[t] = "connecting" /\ pc'[t] = "transmit" /\ UNCHANGED shared /\ hSim # 0
    BY <1>2 DEF SetConnecting, Goto, StatusRight
  <2>2. status \in {{"SimConnected"}, {"SimConnected", "Connected"}}
    BY <2>1 DEF StatusRight, Unsettled, Settled, Fresh, Asking, Going
  <2>3. status' = {"SimConnected", "Connecting"}
    BY <1>2, <2>2 DEF SetConnecting, SetStatus, StatusAfter
  <2>4. Place(t)' = "transmit"
    BY <2>1 DEF Place, Busy, Making
  <2>5. StatusRight(Place(t), job[t].op)'
    BY <2>1, <2>3, <2>4 DEF StatusRight, Unsettled, Fresh, Asking, Going, shared
  <2>6. LoopsRight(Place(t))'
    BY <2>1, <2>4, LoopsStay DEF shared
  <2>. QED  BY <2>5, <2>6 DEF Right
<1>3. CASE Transmit(t)
  <2>1. /\ pc[t] = "transmit" /\ hSim # 0 /\ status = {"SimConnected", "Connecting"}
        /\ UNCHANGED <<hSim, serverConnected, runDispatchLoop, stopEvent, loop, acked>>
    BY <1>3 DEF Transmit, StatusRight, Asking
  <2>2. \/ pc'[t] = "answer" /\ status' = status
        \/ pc'[t] = "idle" /\ status' = {"SimConnected"}
    BY <1>3, <2>1 DEF Transmit, Goto, Return, SetStatus, StatusAfter
  <2>3. \/ Place(t)' = "answer" /\ status' = status
        \/ Place(t)' = "none" /\ status' = {"SimConnected"}
    BY <2>2 DEF Place, Busy, Making, Ending
  <2>4. StatusRight(Place(t), job[t].op)'
    BY <2>1, <2>3 DEF StatusRight, Unsettled, Settled, Fresh, Asking, Going
  <2>5. LoopsRight(Place(t))'
    BY <2>1, <2>3, LoopsStay
  <2>. QED  BY <2>4, <2>5 DEF Right
<1>4. CASE WaitForServer(t)
  <2>1. /\ pc[t] = "answer" /\ hSim # 0 /\ status = {"SimConnected", "Connecting"}
        /\ UNCHANGED shared
    BY <1>4 DEF WaitForServer, StatusRight, Asking
  <2>2. hSim \in Sessions
    BY <2>1, ConnectionConstants DEF TypeOK, Sessions
  <2>3. runDispatchLoop
    BY <2>1, <2>2 DEF LoopsRight
  <2>4. \/ pc'[t] = "joined" /\ status' = status /\ serverConnected
        \/ pc'[t] = "idle" /\ status' = {"SimConnected"}
    BY <1>4, <2>1, <2>3 DEF WaitForServer, Accepted, Goto, Return, SetStatus, StatusAfter
  <2>5. \/ Place(t)' = "joined" /\ status' = status /\ serverConnected
        \/ Place(t)' = "none" /\ status' = {"SimConnected"}
    BY <2>4 DEF Place, Busy, Making, Ending
  <2>6. StatusRight(Place(t), job[t].op)'
    BY <2>1, <2>5 DEF StatusRight, Unsettled, Settled, Fresh, Asking, Going, shared
  <2>7. LoopsRight(Place(t))'
    BY <2>1, <2>5, LoopsStay DEF shared
  <2>. QED  BY <2>6, <2>7 DEF Right
<1>5. CASE SetConnected(t)
  <2>1. /\ pc[t] = "joined" /\ pc'[t] = "idle" /\ hSim # 0 /\ status = {"SimConnected", "Connecting"}
        /\ serverConnected /\ UNCHANGED shared
    BY <1>5 DEF SetConnected, Return, StatusRight, Asking
  <2>2. status' = {"SimConnected", "Connected"}
    BY <1>5, <2>1 DEF SetConnected, SetStatus, StatusAfter
  <2>3. Place(t)' = "none"
    BY <2>1 DEF Place, Busy, Making, Ending
  <2>4. StatusRight(Place(t), job[t].op)'
    BY <2>1, <2>2, <2>3 DEF StatusRight, Unsettled, Settled, Fresh, Asking, Going, shared
  <2>5. LoopsRight(Place(t))'
    BY <2>1, <2>3, LoopsStay DEF shared
  <2>. QED  BY <2>4, <2>5 DEF Right
<1>. QED  BY <1>1, <1>2, <1>3, <1>4, <1>5
LEMMA EndingServer ==
  ASSUME TypeOK, Grounded, JobsFit, NEW t \in Threads, Right(pc[t], job[t].op),
         Leave(t) \/ Drop(t) \/ CheckClose(t)
  PROVE  Right(Place(t), job[t].op)'
<1>. /\ pc \in [Threads -> Places]
     /\ job \in [Threads -> [op: Operations \cup {"None"}, hr: {"None", "E_FAIL", "E_TIMEOUT"}, quit: BOOLEAN]]
     /\ StatusRight(pc[t], job[t].op) /\ LoopsRight(pc[t])
  BY DEF TypeOK, Right
<1>1. CASE Leave(t)
  <2>1. pc[t] = "leave" /\ UNCHANGED <<shared, status>>
    BY <1>1 DEF Leave
  <2>2. "Connecting" \notin status
    BY <2>1 DEF StatusRight, Asking
  <2>3. serverConnected => hSim # 0
    BY DEF StatusRight, Grounded
  <2>4. \/ pc'[t] = "drop" /\ job' = job /\ hSim # 0
        \/ pc'[t] = "idle" /\ job[t].op = "disconnectServer"
        \/ pc'[t] = "shutdown" /\ ~serverConnected
    BY <1>1, <2>2, <2>3 DEF Leave, MayLeave, Goto, Return
  <2>5. \/ Place(t)' = "drop" /\ job' = job /\ hSim # 0
        \/ Place(t)' = "none" /\ job[t].op = "disconnectServer"
        \/ Place(t)' = "shutdown" /\ ~serverConnected
    BY <2>4 DEF Place, Busy, Making, Ending
  <2>6. StatusRight(Place(t), job[t].op)'
    BY <2>1, <2>2, <2>5 DEF StatusRight, Unsettled, Settled, Fresh, Asking, Going, shared
  <2>7. LoopsRight(Place(t))'
    BY <2>1, <2>5, LoopsStay DEF shared
  <2>. QED  BY <2>6, <2>7 DEF Right
<1>2. CASE Drop(t)
  <2>1. /\ pc[t] = "drop" /\ hSim # 0 /\ ~serverConnected' /\ ~acked'
        /\ UNCHANGED <<hSim, runDispatchLoop, stopEvent, loop, acks>>
        /\ status' = (status \ {"Connected", "Connecting", "Initializing"}) \cup {"SimConnected"}
    BY <1>2 DEF Drop, StatusRight, SetStatus, StatusAfter
  <2>2. \/ pc'[t] = "idle" /\ job[t].op = "disconnectServer"
        \/ pc'[t] = "shutdown"
    BY <1>2 DEF Drop, Goto, Return
  <2>3. \/ Place(t)' = "none" /\ job[t].op = "disconnectServer"
        \/ Place(t)' = "shutdown"
    BY <2>2 DEF Place, Busy, Making, Ending
  <2>4. job[t].op = "disconnectServer" => status' = {"SimConnected"}
    BY <2>1 DEF StatusRight, Unsettled, Settled, Fresh, Asking, Going
  <2>5. StatusRight(Place(t), job[t].op)'
    BY <2>1, <2>3, <2>4 DEF StatusRight, Unsettled, Settled, Fresh, Asking, Going
  <2>6. LoopsRight(Place(t))'
    BY <2>1, <2>3, LoopsStay
  <2>. QED  BY <2>5, <2>6 DEF Right
<1>3. CASE CheckClose(t)
  <2>1. pc[t] = "close" /\ UNCHANGED shared /\ job[t].op # "disconnectServer"
    BY <1>3 DEF CheckClose, JobsFit
  <2>2. \/ pc'[t] = "leave" /\ job' = job /\ status' = status
        \/ pc'[t] = "idle" /\ hSim = 0 /\ status' = {}
    BY <1>3 DEF CheckClose, MustClose, CheckInit, Goto, Return, SetStatus, StatusAfter
  <2>3. \/ Place(t)' = "leave" /\ job' = job /\ status' = status
        \/ Place(t)' = "none" /\ hSim = 0 /\ status' = {}
    BY <2>2 DEF Place, Busy, Making, Ending
  <2>4. StatusRight(Place(t), job[t].op)'
    BY <2>1, <2>3 DEF StatusRight, Unsettled, Settled, Fresh, Asking, Going, shared
  <2>5. LoopsRight(Place(t))'
    BY <2>1, <2>3, LoopsStay DEF shared
  <2>. QED  BY <2>4, <2>5 DEF Right
<1>. QED  BY <1>1, <1>2, <1>3

LEMMA EndingLink ==
  ASSUME TypeOK, InTime, NEW t \in Threads, Right(pc[t], job[t].op),
         ShutDown(t) \/ WaitForStop(t) \/ Reset(t) \/ Closed(t)
  PROVE  Right(Place(t), job[t].op)'
<1>. /\ pc \in [Threads -> Places]
     /\ job \in [Threads -> [op: Operations \cup {"None"}, hr: {"None", "E_FAIL", "E_TIMEOUT"}, quit: BOOLEAN]]
     /\ StatusRight(pc[t], job[t].op) /\ LoopsRight(pc[t])
  BY DEF TypeOK, Right
<1>1. CASE ShutDown(t)
  <2>1. /\ pc[t] = "shutdown" /\ pc'[t] = "stopping" /\ stopEvent'
        /\ UNCHANGED <<hSim, serverConnected, runDispatchLoop, loop, acks, acked>>
        /\ status' = status \cup {"ShuttingDown"}
    BY <1>1 DEF ShutDown, Goto, SetStatus, StatusAfter
  <2>2. Place(t)' = "stopping"
    BY <2>1 DEF Place, Busy, Ending
  <2>3. StatusRight(Place(t), job[t].op)'
    BY <2>1, <2>2 DEF StatusRight, Unsettled, Fresh, Asking, Going
  <2>4. LoopsRight(Place(t))'
    BY <2>1, <2>2 DEF LoopsRight
  <2>. QED  BY <2>3, <2>4 DEF Right
<1>2. CASE WaitForStop(t)
  <2>1. /\ pc[t] = "stopping" /\ pc'[t] = "reset" /\ stopEvent /\ ~runDispatchLoop
        /\ UNCHANGED <<shared, status>>
    BY <1>2 DEF WaitForStop, Stopped, InTime, Goto, LoopsRight
  <2>2. Place(t)' = "reset"
    BY <2>1 DEF Place, Busy, Ending
  <2>3. StatusRight(Place(t), job[t].op)'
    BY <2>1, <2>2 DEF StatusRight, Unsettled, Fresh, Asking, Going, shared
  <2>4. LoopsRight(Place(t))'
    BY <2>1, <2>2 DEF LoopsRight, shared
  <2>. QED  BY <2>3, <2>4 DEF Right
<1>3. CASE Reset(t)
  <2>1. /\ pc[t] = "reset" /\ pc'[t] = "closed" /\ hSim' = 0 /\ acks' = 0 /\ ~acked'
        /\ ~serverConnected /\ ~runDispatchLoop
        /\ UNCHANGED <<status, serverConnected, runDispatchLoop, stopEvent, loop>>
    BY <1>3 DEF Reset, Goto, StatusRight, LoopsRight, Going
  <2>2. Place(t)' = "closed"
    BY <2>1 DEF Place, Busy, Ending
  <2>3. StatusRight(Place(t), job[t].op)'
    BY <2>1, <2>2 DEF StatusRight, Unsettled, Fresh, Asking, Going
  <2>4. \A s \in Sessions : loop[s] \notin {"starting", "running"}
    BY <2>1 DEF LoopsRight
  <2>5. LoopsRight(Place(t))'
    BY <2>1, <2>2, <2>4 DEF LoopsRight
  <2>. QED  BY <2>3, <2>5 DEF Right
<1>4. CASE Closed(t)
  <2>1. /\ pc[t] = "closed" /\ pc'[t] = "idle" /\ hSim = 0 /\ status' = {} /\ UNCHANGED shared
    BY <1>4 DEF Closed, Return, SetStatus, StatusAfter, StatusRight
  <2>2. Place(t)' = "none"
    BY <2>1 DEF Place, Busy, Making, Ending
  <2>3. StatusRight(Place(t), job[t].op)'
    BY <2>1, <2>2 DEF StatusRight, Unsettled, Settled, Fresh, Asking, Going, shared
  <2>4. LoopsRight(Place(t))'
    BY <2>1, <2>2, LoopsStay DEF shared
  <2>. QED  BY <2>3, <2>4 DEF Right
<1>. QED  BY <1>1, <1>2, <1>3, <1>4

\* A thread that is not busy finds things settled, and stays so or becomes the one that is busy.
LEMMA Entering ==
  ASSUME TypeOK, JobsFit, NEW t \in Threads, ~Busy(t), Right("none", "None"),
         CheckServer(t) \/ PingServer(t) \/ Ping(t) \/ WaitForPong(t)
  PROVE  Right(Place(t), job[t].op)'
<1>. /\ pc \in [Threads -> Places]
     /\ job \in [Threads -> [op: Operations \cup {"None"}, hr: {"None", "E_FAIL", "E_TIMEOUT"}, quit: BOOLEAN]]
     /\ StatusRight("none", "None") /\ LoopsRight("none")
  BY DEF TypeOK, Right
<1>1. /\ UNCHANGED <<hSim, status, serverConnected, runDispatchLoop, stopEvent, loop, acks, acked>>
      /\ \/ pc'[t] \in {"idle", "simulator", "pinging", "pong"}
         \/ pc'[t] = "connecting" /\ hSim # 0
  BY DEF CheckServer, PingServer, Ping, WaitForPong, Goto, Return, CheckInit, shared
<1>2. \/ Place(t)' \in {"none", "simulator"}
      \/ Place(t)' = "connecting" /\ hSim # 0
  BY <1>1 DEF Place, Busy, Making, Ending
<1>3. StatusRight(Place(t), job[t].op)'
  BY <1>1, <1>2 DEF StatusRight, Unsettled, Settled, Fresh, Asking, Going
<1>4. LoopsRight(Place(t))'
  BY <1>1, <1>2, LoopsStay
<1>. QED  BY <1>3, <1>4 DEF Right

LEMMA Calling ==
  ASSUME TypeOK, NEW t \in Apps, NEW op \in Calls, Right("none", "None"), Call(t, op)
  PROVE  Right(Place(t), job[t].op)'
<1>. /\ pc \in [Threads -> Places]
     /\ job \in [Threads -> [op: Operations \cup {"None"}, hr: {"None", "E_FAIL", "E_TIMEOUT"}, quit: BOOLEAN]]
     /\ StatusRight("none", "None") /\ LoopsRight("none")
  BY DEF TypeOK, Right
<1>1. /\ UNCHANGED <<shared, status>> /\ t \in Threads
      /\ pc'[t] = Entry(op) /\ job'[t].op = op
  BY DEF Call, NoCall, Threads
<1>2. op \in Operations
  BY ConnectionConstants
<1>3. /\ Place(t)' \in {"none", "simulator", "close", "leave"}
      /\ Place(t)' = "leave" => op = "disconnectServer"
  BY <1>1, <1>2 DEF Place, Busy, Making, Ending, Operations, Entry
<1>4. StatusRight(Place(t), job[t].op)'
  BY <1>1, <1>3 DEF StatusRight, Unsettled, Settled, Fresh, Asking, Going, shared
<1>5. LoopsRight(Place(t))'
  BY <1>1, <1>3, LoopsStay DEF shared
<1>. QED  BY <1>4, <1>5 DEF Right

LEMMA Quitting ==
  ASSUME TypeOK, Right("none", "None"), RecvQuit
  PROVE  hSim \in Threads /\ Right(Place(hSim), job[hSim].op)'
<1>. /\ pc \in [Threads -> Places]
     /\ job \in [Threads -> [op: Operations \cup {"None"}, hr: {"None", "E_FAIL", "E_TIMEOUT"}, quit: BOOLEAN]]
     /\ StatusRight("none", "None") /\ LoopsRight("none")
  BY DEF TypeOK, Right
<1>1. hSim \in Threads /\ hSim # 0
  BY ConnectionConstants DEF TypeOK, RecvQuit, Dispatching, CheckInit, Sessions, Threads
<1>2. /\ UNCHANGED <<hSim, status, serverConnected, runDispatchLoop, stopEvent, loop, acks, acked>>
      /\ pc'[hSim] = "close" /\ job'[hSim].op = "disconnectSimulator"
  BY <1>1 DEF RecvQuit, NoCall
<1>3. Place(hSim)' = "close"
  BY <1>2 DEF Place, Busy, Ending
<1>4. StatusRight(Place(hSim), job[hSim].op)'
  BY <1>2, <1>3 DEF StatusRight, Unsettled, Fresh, Asking, Going
<1>5. LoopsRight(Place(hSim))'
  BY <1>2, <1>3, LoopsStay
<1>. QED  BY <1>1, <1>4, <1>5 DEF Right
\* What the dispatch threads and the messages do suits whichever thread is busy, and wherever it is.
LEMMA Dispatched ==
  ASSUME TypeOK, NEW p, NEW op, Right(p, op), NEW s \in Sessions, DispatchThread(s)
  PROVE  Right(p, op)'
<1>. /\ StatusRight(p, op) /\ LoopsRight(p) /\ 0 \notin Sessions
     /\ loop \in [Sessions -> {"none", "starting", "running", "ended"}]
     /\ hSim \in Sessions \cup {0}
  BY ConnectionConstants DEF Right, TypeOK, Sessions
<1>1. StatusRight(p, op)'
  <2>1. UNCHANGED <<hSim, status, serverConnected, acks, acked>>
    BY Zenon DEF DispatchThread, StartLoop, StopLoop
  <2>. QED  BY <2>1 DEF StatusRight, Unsettled, Settled
<1>2. CASE StartLoop(s)
  <2>1. /\ loop' = [loop EXCEPT ![s] = "running"] /\ runDispatchLoop' = TRUE
        /\ UNCHANGED <<hSim, stopEvent>>
        /\ s = hSim /\ p = "starting"
    BY <1>2 DEF StartLoop, LoopsRight
  <2>2. /\ \A r \in Sessions : r # s => loop'[r] = loop[r] /\ loop[r] \notin {"starting", "running"}
        /\ loop'[s] = "running"
    BY <2>1 DEF LoopsRight
  <2>3. LoopsRight(p)'
    BY <2>1, <2>2 DEF LoopsRight
  <2>. QED  BY <1>1, <2>3 DEF Right
<1>3. CASE StopLoop(s)
  <2>1. /\ loop[s] = "running" /\ loop' = [loop EXCEPT ![s] = "ended"] /\ runDispatchLoop' = FALSE
        /\ UNCHANGED <<hSim, stopEvent>>
        /\ stopEvent \/ ~runDispatchLoop
    BY <1>3 DEF StopLoop
  <2>2. s = hSim /\ stopEvent /\ p = "stopping"
    BY <2>1 DEF LoopsRight
  <2>3. \A r \in Sessions : loop'[r] \notin {"starting", "running"}
    BY <2>1, <2>2 DEF LoopsRight
  <2>4. LoopsRight(p)'
    BY <2>1, <2>2, <2>3 DEF LoopsRight
  <2>. QED  BY <1>1, <2>4 DEF Right
<1>. QED  BY <1>2, <1>3 DEF DispatchThread

LEMMA Received ==
  ASSUME TypeOK, NEW p, NEW op, Right(p, op), ~LateAnswer, p \in Going => \E t \in Threads : pc[t] = p,
         RecvOpen \/ RecvConnectAck \/ RecvPong \/ RecvDisconnect
  PROVE  Right(p, op)'
<1>. StatusRight(p, op) /\ LoopsRight(p)
  BY DEF Right
<1>1. LoopsRight(p)'
  <2>1. UNCHANGED <<hSim, loop, runDispatchLoop, stopEvent>>
    BY Zenon DEF RecvOpen, RecvConnectAck, RecvPong, RecvDisconnect
  <2>. QED  BY <2>1 DEF LoopsRight
<1>2. CASE RecvOpen \/ RecvPong
  <2>1. UNCHANGED <<hSim, status, serverConnected, acks, acked>>
    BY Zenon, <1>2 DEF RecvOpen, RecvPong
  <2>2. StatusRight(p, op)'
    BY <2>1 DEF StatusRight, Unsettled, Settled
  <2>. QED  BY <1>1, <2>2 DEF Right
<1>3. CASE RecvConnectAck
  <2>1. /\ UNCHANGED <<hSim, status>> /\ acks # 0 /\ serverConnected' /\ acked' /\ UNCHANGED pc
    BY <1>3 DEF RecvConnectAck
  <2>2. p \notin Going
    BY <2>1 DEF LateAnswer, StatusRight, Going, Ending
  <2>3. StatusRight(p, op)'
    BY <2>1, <2>2 DEF StatusRight, Unsettled, Settled
  <2>. QED  BY <1>1, <2>3 DEF Right
<1>4. CASE RecvDisconnect
  <2>1. /\ UNCHANGED <<hSim, acks>> /\ serverConnected /\ "Connecting" \notin status /\ hSim # 0
        /\ ~serverConnected' /\ ~acked'
        /\ status' = (status \ {"Connected", "Connecting", "Initializing"}) \cup {"SimConnected"}
    BY <1>4 DEF RecvDisconnect, MayLeave, Dispatching, CheckInit, SetStatus, StatusAfter
  <2>2. p \notin Fresh \cup Asking \cup Going
    BY <2>1 DEF StatusRight
  <2>3. ~Unsettled(p, op) => status' = {"SimConnected"}
    BY <2>1 DEF StatusRight, Settled
  <2>4. StatusRight(p, op)'
    BY <2>1, <2>2, <2>3 DEF StatusRight, Settled, Unsettled, Asking, Fresh, Going
  <2>. QED  BY <1>1, <2>4 DEF Right
<1>. QED  BY <1>2, <1>3, <1>4

\* With one application thread, two busy threads are an overlap.
LEMMA NoOverlap ==
  ASSUME OneApp, SessionsClose, ~Overlap
  PROVE  Alone
<1>. SUFFICES ASSUME NEW t \in Threads, NEW u \in Threads, Busy(t), Busy(u), t # u
              PROVE  FALSE
  BY DEF Alone
<1>1. t \in Sessions \/ u \in Sessions
  BY DEF OneApp, Threads
<1>2. \A s \in Sessions : Busy(s) => pc[s] \in Ending
  BY DEF SessionsClose, Busy, Making, Ending
<1>. QED  BY <1>1, <1>2 DEF Overlap, Busy

\* Orderly again, when only t may be busy after the step
LEMMA OrderlyFor ==
  ASSUME NEW t \in Threads, \A u \in Threads : u # t => ~Busy(u)', Right(Place(t), job[t].op)'
  PROVE  Orderly'
<1>1. Alone'
  BY DEF Alone
<1>2. ASSUME NEW u \in Threads, Busy(u)'
      PROVE  Right(pc[u], job[u].op)'
  BY <1>2 DEF Place
<1>3. ASSUME \A u \in Threads : ~Busy(u)'
      PROVE  Right("none", "None")'
  <2>1. Right("none", job[t].op)'
    BY <1>3 DEF Place
  <2>. QED  BY <2>1 DEF Right, StatusRight, Unsettled, Fresh, Asking, Going
<1>. QED  BY <1>1, <1>2, <1>3 DEF Orderly

\* Orderly still, when a thread that is not busy moves beside one that is
LEMMA OrderlyBeside ==
  ASSUME Orderly, Alone', NEW t \in Threads, NEW u \in Threads, u # t, Busy(u),
         \A w \in Threads : w # t => pc'[w] = pc[w] /\ job'[w] = job[w],
         UNCHANGED <<hSim, status, serverConnected, runDispatchLoop, stopEvent, loop, acks, acked>>
  PROVE  Orderly'
<1>1. Busy(u)' /\ pc'[u] = pc[u] /\ job'[u] = job[u]
  BY DEF Busy
<1>2. Right(pc[u], job[u].op)
  BY DEF Orderly
<1>3. Right(pc[u], job[u].op)'
  BY <1>1, <1>2 DEF Right, StatusRight, LoopsRight, Unsettled, Settled
<1>4. \A w \in Threads : w # u => ~Busy(w)'
  BY <1>1 DEF Alone
<1>. QED  BY <1>1, <1>3, <1>4 DEF Orderly, Alone
LEMMA OrderlyStep ==
  ASSUME OneApp, InTime, TypeOK, SessionsClose, JobsFit, Grounded, Orderly, Next, ~excused', SessionsClose'
  PROVE  Orderly'
<1>0. Alone' /\ ~LateAnswer
  <2>1. ~Overlap' /\ ~LateAnswer
    BY DEF Next, Track
  <2>2. Alone'
    BY <2>1, NoOverlap, PTL
  <2>. QED  BY <2>1, <2>2
<1>1. ASSUME NEW t \in Threads, Step(t)
      PROVE  Orderly'
  <2>1. \A u \in Threads : u # t => pc'[u] = pc[u] /\ job'[u] = job[u] /\ (Busy(u)' <=> Busy(u))
    BY <1>1, StepShape DEF Busy
  <2>2. CASE Busy(t)
    <3>1. \A u \in Threads : u # t => ~Busy(u)'
      BY <2>1, <2>2 DEF Orderly, Alone
    <3>2. Right(pc[t], job[t].op)
      BY <2>2 DEF Orderly
    <3>3. pc[t] \notin {"server", "ping", "pinging", "pong"}
      BY <2>2 DEF Busy, Making, Ending
    <3>4. Right(Place(t), job[t].op)'
      <4>1. CASE \/ CheckSimulator(t) \/ Initialize(t) \/ OpenFails(t) \/ SimConnect_Open(t)
                 \/ WaitForLoop(t) \/ WaitForSimulator(t)
        BY <3>2, <4>1, MakingLink
      <4>2. CASE Register(t) \/ SetConnecting(t) \/ Transmit(t) \/ WaitForServer(t) \/ SetConnected(t)
        BY <3>2, <4>2, MakingServer
      <4>3. CASE Leave(t) \/ Drop(t) \/ CheckClose(t)
        BY <3>2, <4>3, EndingServer
      <4>4. CASE ShutDown(t) \/ WaitForStop(t) \/ Reset(t) \/ Closed(t)
        BY <3>2, <4>4, EndingLink
      <4>5. ~CheckServer(t) /\ ~PingServer(t) /\ ~Ping(t) /\ ~WaitForPong(t)
        BY <3>3 DEF CheckServer, PingServer, Ping, WaitForPong
      <4>. QED  BY Zenon, <1>1, <4>1, <4>2, <4>3, <4>4, <4>5 DEF Step
    <3>. QED  BY <3>1, <3>4, OrderlyFor
  <2>3. CASE ~Busy(t)
    <3>1. CheckServer(t) \/ PingServer(t) \/ Ping(t) \/ WaitForPong(t)
      BY <1>1, <2>3 DEF Busy, Making, Ending, Step, CheckSimulator, Initialize, OpenFails, SimConnect_Open,
         WaitForLoop, WaitForSimulator, Register, SetConnecting, Transmit, WaitForServer, SetConnected,
         Leave, Drop, CheckClose, ShutDown, WaitForStop, Reset, Closed
    <3>2. UNCHANGED <<hSim, status, serverConnected, runDispatchLoop, stopEvent, loop, acks, acked>>
      BY Zenon, <3>1 DEF CheckServer, PingServer, Ping, WaitForPong, shared
    <3>3. CASE \E u \in Threads : Busy(u)
      BY <1>0, <2>1, <2>3, <3>2, <3>3, OrderlyBeside
    <3>4. CASE \A u \in Threads : ~Busy(u)
      <4>1. Right("none", "None")
        BY <3>4 DEF Orderly
      <4>2. Right(Place(t), job[t].op)'
        BY <2>3, <3>1, <4>1, Entering
      <4>3. \A u \in Threads : u # t => ~Busy(u)'
        BY <2>1, <3>4
      <4>. QED  BY <4>2, <4>3, OrderlyFor
    <3>. QED  BY <3>3, <3>4
  <2>. QED  BY <2>2, <2>3
<1>2. ASSUME NEW t \in Apps, NEW op \in Calls, Call(t, op)
      PROVE  Orderly'
  <2>1. /\ t \in Threads /\ pc[t] = "idle" /\ UNCHANGED <<shared, status>>
        /\ \A u \in Threads : u # t => pc'[u] = pc[u] /\ job'[u] = job[u] /\ (Busy(u)' <=> Busy(u))
    BY <1>2 DEF Call, Threads, TypeOK, Busy
  <2>2. ~Busy(t)
    BY <2>1 DEF Busy, Making, Ending
  <2>3. CASE \E u \in Threads : Busy(u)
    BY <1>0, <2>1, <2>2, <2>3, OrderlyBeside DEF shared
  <2>4. CASE \A u \in Threads : ~Busy(u)
    <3>1. Right("none", "None")
      BY <2>4 DEF Orderly
    <3>2. Right(Place(t), job[t].op)'
      BY <1>2, <3>1, Calling
    <3>3. \A u \in Threads : u # t => ~Busy(u)'
      BY <2>1, <2>4
    <3>. QED  BY <2>1, <3>2, <3>3, OrderlyFor
  <2>. QED  BY <2>3, <2>4
<1>3. CASE RecvQuit
  <2>1. /\ hSim \in Sessions /\ hSim \in Threads /\ simulator[hSim] = "open" /\ UNCHANGED hSim
        /\ pc' = [pc EXCEPT ![hSim] = "close"]
        /\ job' = [job EXCEPT ![hSim] = [NoCall EXCEPT !.op = "disconnectSimulator", !.quit = TRUE]]
    BY <1>3, ConnectionConstants DEF TypeOK, RecvQuit, Dispatching, CheckInit, Sessions, Threads
  <2>2. \A u \in Threads : u # hSim => pc'[u] = pc[u] /\ job'[u] = job[u] /\ (Busy(u)' <=> Busy(u))
    BY <2>1 DEF TypeOK, Busy
  <2>3. ~Busy(hSim)
    BY <2>1 DEF SessionsClose, Busy, Making, Ending
  <2>4. CASE \E u \in Threads : Busy(u)
    <3>1. UNCHANGED <<hSim, status, serverConnected, runDispatchLoop, stopEvent, loop, acks, acked>>
      BY Zenon, <1>3 DEF RecvQuit
    <3>. QED  BY <1>0, <2>1, <2>2, <2>3, <2>4, <3>1, OrderlyBeside
  <2>5. CASE \A u \in Threads : ~Busy(u)
    <3>1. Right("none", "None")
      BY <2>5 DEF Orderly
    <3>2. Right(Place(hSim), job[hSim].op)'
      BY <1>3, <3>1, Quitting
    <3>3. \A u \in Threads : u # hSim => ~Busy(u)'
      BY <2>2, <2>5
    <3>4. PICK t \in Threads : t = hSim
      BY <2>1
    <3>5. (\A u \in Threads : u # t => ~Busy(u)') /\ Right(Place(t), job[t].op)'
      BY <2>1, <3>2, <3>3, <3>4 DEF Place, Busy
    <3>. QED  BY <3>5, OrderlyFor
  <2>. QED  BY <2>4, <2>5
<1>4. ASSUME \/ \E s \in Sessions : DispatchThread(s)
             \/ RecvOpen \/ RecvConnectAck \/ RecvPong \/ RecvDisconnect
      PROVE  Orderly'
  <2>1. UNCHANGED <<pc, job>>
    BY Zenon, <1>4 DEF DispatchThread, StartLoop, StopLoop, RecvOpen, RecvConnectAck, RecvPong, RecvDisconnect
  <2>2. ASSUME NEW u \in Threads, Busy(u)
        PROVE  Right(pc[u], job[u].op)'
    <3>1. Right(pc[u], job[u].op)
      BY <2>2 DEF Orderly
    <3>2. PICK p, op : p = pc[u] /\ op = job[u].op
      OBVIOUS
    <3>3. Right(p, op)'
      BY <1>0, <1>4, <3>1, <3>2, Dispatched, Received
    <3>. QED  BY <2>1, <3>2, <3>3
  <2>3. ASSUME \A u \in Threads : ~Busy(u)
        PROVE  Right("none", "None")'
    <3>1. Right("none", "None")
      BY <2>3 DEF Orderly
    <3>2. "none" \notin Going
      BY DEF Going
    <3>. QED  BY <1>0, <1>4, <3>1, <3>2, Dispatched, Received
  <2>4. \A u \in Threads : Busy(u)' <=> Busy(u)
    BY <2>1 DEF Busy
  <2>. QED  BY <1>0, <2>2, <2>3, <2>4 DEF Orderly
<1>. QED  BY Zenon, <1>1, <1>2, <1>3, <1>4 DEF Next, Message
--------------------------------------------------------------------------------
\* The inductive invariant

LEMMA CInit ==
  ASSUME Init
  PROVE  CInv
<1>. 0 \notin Sessions
  BY DEF Sessions
<1>1. TypeOK
  <2>1. MaxOpens \in Nat /\ MaxAcks \in Nat
    BY ConnectionConstants
  <2>2. /\ NoCall \in [op: Operations \cup {"None"}, hr: {"None", "E_FAIL", "E_TIMEOUT"}, quit: BOOLEAN]
        /\ "idle" \in Places
    BY DEF NoCall, Places
  <2>3. /\ hSim \in 0..opens /\ opens \in 0..MaxOpens /\ acks \in 0..MaxAcks
    BY <2>1 DEF Init
  <2>4. ThreadTypes
    BY <2>2 DEF Init, ThreadTypes
  <2>. QED  BY <2>3, <2>4 DEF Init, TypeOK, ThreadTypes
<1>2. SessionsClose /\ JobsFit /\ Grounded
  BY DEF Init, SessionsClose, JobsFit, Grounded, Ending, Threads, NoCall
<1>3. \A t \in Threads : ~Busy(t)
  BY DEF Init, Busy, Making, Ending
<1>4. StatusRight("none", "None")
  BY DEF Init, StatusRight, Settled, Fresh, Asking, Going
<1>5. LoopsRight("none")
  BY DEF Init, LoopsRight
<1>6. Orderly
  BY <1>3, <1>4, <1>5 DEF Orderly, Alone, Right
<1>. QED  BY <1>1, <1>2, <1>6 DEF CInv

LEMMA CStep ==
  ASSUME OneApp, InTime, CInv, [Next]_vars
  PROVE  CInv'
<1>1. CASE Next
  <2>1. TypeOK' /\ SessionsClose' /\ JobsFit' /\ Grounded'
    BY <1>1, TypesStep, SessionsCloseStep, JobsFitStep, GroundedStep DEF CInv
  <2>2. ~excused' => ~excused
    BY <1>1 DEF Next, Track
  <2>3. ~excused' => Orderly'
    BY <1>1, <2>1, <2>2, OrderlyStep DEF CInv
  <2>. QED  BY <2>1, <2>3 DEF CInv
<1>2. CASE UNCHANGED vars
  <2>1. UNCHANGED <<hSim, opens, simulator, simConnected, serverConnected, runDispatchLoop, stopEvent, loop,
                    acks, pongs, acked, status, pc, job, excused>>
    BY <1>2 DEF vars, shared
  <2>2. TypeOK'
    BY <2>1 DEF CInv, TypeOK
  <2>3. SessionsClose' /\ JobsFit' /\ Grounded'
    BY <2>1 DEF CInv, SessionsClose, JobsFit, Grounded
  <2>4. \A p, op : Right(p, op)' <=> Right(p, op)
    BY <2>1 DEF Right, StatusRight, LoopsRight, Unsettled, Settled
  <2>5. \A t \in Threads : /\ Busy(t)' <=> Busy(t)
                           /\ Right(pc[t], job[t].op)' <=> Right(pc[t], job[t].op)
    BY <2>1 DEF Busy, Right, StatusRight, LoopsRight, Unsettled, Settled
  <2>6. Orderly' <=> Orderly
    BY <2>4, <2>5 DEF Orderly, Alone
  <2>. QED  BY <2>1, <2>2, <2>3, <2>6 DEF CInv
<1>. QED  BY <1>1, <1>2

LEMMA CAlways ==
  ASSUME OneApp, InTime
  PROVE  Spec => []CInv
BY CInit, CStep, PTL DEF Spec
--------------------------------------------------------------------------------
\* What follows

\* The state keeps its types, however many threads there are and whatever happens.
THEOREM ConnectionTypeCorrect == Spec => []TypeOK
<1>1. Init => TypeOK
  <2>1. ASSUME Init PROVE TypeOK
    BY <2>1, CInit DEF CInv
  <2>. QED  BY <2>1
<1>2. TypeOK /\ [Next]_vars => TypeOK'
  <2>1. ASSUME TypeOK, UNCHANGED vars PROVE TypeOK'
    <3>1. UNCHANGED <<hSim, opens, simulator, simConnected, serverConnected, runDispatchLoop, stopEvent, loop,
                      acks, pongs, acked, status, pc, job, excused>>
      BY <2>1 DEF vars, shared
    <3>. QED  BY <2>1, <3>1 DEF TypeOK
  <2>. QED  BY <2>1, TypesStep
<1>. QED  BY <1>1, <1>2, PTL DEF Spec

\* Every step is one of those that change what the promise sees, or takes nothing but a flag from it.
LEMMA StepsSeen ==
  ASSUME Next
  PROVE  \/ UNCHANGED <<hSim, acked, status>>
         \/ UNCHANGED <<hSim, acked>> /\ \E flag \in (Flags \cup {"Idle"}) \ {"Connected"} : SetStatus(flag)
         \/ \E t \in Threads : SimConnect_Open(t) \/ SetConnected(t) \/ Drop(t) \/ Reset(t)
         \/ RecvConnectAck \/ RecvDisconnect
<1>1. /\ "Idle" \in (Flags \cup {"Idle"}) \ {"Connected"}
      /\ "Initializing" \in (Flags \cup {"Idle"}) \ {"Connected"}
      /\ "SimConnected" \in (Flags \cup {"Idle"}) \ {"Connected"}
      /\ "Connecting" \in (Flags \cup {"Idle"}) \ {"Connected"}
      /\ "ShuttingDown" \in (Flags \cup {"Idle"}) \ {"Connected"}
  BY DEF Flags
<1>. QED  BY Zenon, <1>1 DEF Next, Call, Step, CheckSimulator, Initialize, OpenFails, WaitForLoop,
             WaitForSimulator, Register, CheckServer, SetConnecting, Transmit, WaitForServer,
             PingServer, Ping, WaitForPong, Leave, CheckClose, ShutDown, WaitForStop, Closed,
             DispatchThread, StartLoop, StopLoop, Message, RecvOpen, RecvQuit, RecvPong, shared

Link == IF ~CheckInit THEN "down" ELSE IF IsConnected THEN "server" ELSE "sim"

PromiseStep ==
    /\ \/ Link = "down" /\ Link' = "sim" /\ acked' = FALSE
       \/ Link # "down" /\ acked' = TRUE /\ Link' = Link
       \/ Link = "sim" /\ acked /\ Link' = "server" /\ acked' = acked
       \/ Link # "down" /\ Link' = "sim" /\ acked' = FALSE
       \/ Link = "server" /\ Link' = "sim" /\ acked' = acked
       \/ Link # "down" /\ Link' = "down" /\ acked' = FALSE
       \/ Link' = Link /\ acked' = acked
       \/ excused /\ Link' \in {"down", "sim", "server"} /\ acked' \in BOOLEAN
    /\ excused => excused'

\* Every step is one that the promise allows.
LEMMA StepIsPromised ==
  ASSUME CInv, TypeOK', Next
  PROVE  PromiseStep
<1>0. /\ excused => excused'
      /\ Link' \in {"down", "sim", "server"} /\ acked' \in BOOLEAN /\ acked \in BOOLEAN
  BY DEF Next, Track, Link, TypeOK, CInv
<1>1. CASE excused
  BY <1>0, <1>1 DEF PromiseStep
<1>2. CASE ~excused
  <2>. Orderly
    BY <1>2 DEF CInv
  <2>1. CASE UNCHANGED <<hSim, acked, status>>
    BY <1>0, <2>1 DEF PromiseStep, Link, CheckInit, IsConnected
  <2>2. CASE UNCHANGED <<hSim, acked>> /\ \E flag \in (Flags \cup {"Idle"}) \ {"Connected"} : SetStatus(flag)
    <3>1. "Connected" \in status' => "Connected" \in status
      BY <2>2 DEF SetStatus, StatusAfter, Flags
    <3>. QED  BY <1>0, <2>2, <3>1 DEF PromiseStep, Link, CheckInit, IsConnected
  <2>3. ASSUME NEW t \in Threads, SimConnect_Open(t)
        PROVE  PromiseStep
    <3>1. Busy(t) /\ pc[t] = "open"
      BY <2>3 DEF SimConnect_Open, Busy, Making
    <3>2. hSim = 0 /\ status = {"Initializing"} /\ ~acked
      BY <3>1 DEF Orderly, Right, StatusRight, Fresh, CInv, Grounded
    <3>3. hSim' # 0 /\ UNCHANGED <<status, acked>>
      BY <2>3 DEF SimConnect_Open, CInv, TypeOK
    <3>. QED  BY <1>0, <3>2, <3>3 DEF PromiseStep, Link, CheckInit, IsConnected
  <2>4. ASSUME NEW t \in Threads, SetConnected(t)
        PROVE  PromiseStep
    <3>1. Busy(t) /\ pc[t] = "joined"
      BY <2>4 DEF SetConnected, Busy, Making
    <3>2. hSim # 0 /\ status = {"SimConnected", "Connecting"} /\ acked
      BY <3>1 DEF Orderly, Right, StatusRight, Asking
    <3>3. UNCHANGED <<hSim, acked>> /\ "Connected" \in status'
      BY <2>4 DEF SetConnected, shared, SetStatus, StatusAfter
    <3>. QED  BY <1>0, <3>2, <3>3 DEF PromiseStep, Link, CheckInit, IsConnected
  <2>5. ASSUME RecvDisconnect \/ \E t \in Threads : Drop(t)
        PROVE  PromiseStep
    <3>1. UNCHANGED hSim /\ acked' = FALSE /\ "Connected" \notin status'
      BY <2>5 DEF RecvDisconnect, Drop, SetStatus, StatusAfter
    <3>2. hSim = 0 => acked = FALSE
      BY <1>0 DEF CInv, Grounded
    <3>. QED  BY <1>0, <3>1, <3>2 DEF PromiseStep, Link, CheckInit, IsConnected
  <2>6. ASSUME NEW t \in Threads, Reset(t)
        PROVE  PromiseStep
    <3>1. hSim' = 0 /\ acked' = FALSE
      BY <2>6 DEF Reset
    <3>2. hSim = 0 => acked = FALSE
      BY <1>0 DEF CInv, Grounded
    <3>. QED  BY <1>0, <3>1, <3>2 DEF PromiseStep, Link, CheckInit, IsConnected
  <2>7. CASE RecvConnectAck
    <3>1. hSim # 0 /\ acked' = TRUE /\ UNCHANGED <<hSim, status>>
      BY <2>7 DEF RecvConnectAck, Dispatching, CheckInit
    <3>. QED  BY <1>0, <3>1 DEF PromiseStep, Link, CheckInit, IsConnected
  <2>. QED  BY Zenon, <2>1, <2>2, <2>3, <2>4, <2>5, <2>6, <2>7, StepsSeen
<1>. QED  BY <1>1, <1>2

\* isInitialized() and isConnected() keep the promise of the header (WASimClient.h): with one application
\* thread, and loops that start and stop in time, a server is joined only over a link it has answered on.
THEOREM PromiseIsKept ==
  ASSUME OneApp, InTime
  PROVE  Spec => KeepsPromise
<1>1. Init => Promise!Init
  BY DEF Init, Promise!Init, CheckInit
<1>2. CInv /\ CInv' /\ [Next]_vars => [Promise!Next]_<<Link, acked, excused>>
  <2>1. ASSUME CInv, CInv', Next
        PROVE  Promise!Next
    <3>1. PromiseStep
      BY <2>1, StepIsPromised DEF CInv
    <3>. QED  BY <3>1 DEF PromiseStep, Link, Promise!Next, Promise!Open, Promise!Answer, Promise!Join, Promise!Leave,
                          Promise!Rejoin, Promise!Close, Promise!Excused, Promise!Links
  <2>2. ASSUME UNCHANGED vars
        PROVE  UNCHANGED <<Link, acked, excused>>
    BY <2>2 DEF vars, shared, Link, CheckInit, IsConnected
  <2>. QED  BY <2>1, <2>2
<1>3. Spec => []CInv
  BY CAlways
<1>. QED  BY <1>1, <1>2, <1>3, PTL DEF Spec, KeepsPromise, Promise!Spec, Link

\* When no call is in progress the status tells what connections there are (setStatus(),
\* disconnectServer(), disconnectSimulator()), however the calls before ended.
THEOREM StatusIsSettled ==
  ASSUME OneApp, InTime
  PROVE  Spec => []StatusSettles
<1>1. CInv => StatusSettles
  <2>1. ASSUME CInv, Quiet, ~excused
        PROVE  /\ CheckInit => /\ status \in {{"SimConnected"}, {"SimConnected", "Connected"}}
                               /\ "Connected" \in status => serverConnected
               /\ ~CheckInit => status = {} /\ ~serverConnected
    <3>1. \A t \in Threads : ~Busy(t)
      BY <2>1 DEF Quiet, Busy, Making, Ending
    <3>2. StatusRight("none", "None")
      BY <2>1, <3>1 DEF CInv, Orderly, Right
    <3>3. Settled
      BY <3>2 DEF StatusRight, Unsettled, Fresh, Asking, Going
    <3>4. hSim = 0 => ~serverConnected
      BY <2>1, <3>2 DEF StatusRight, CInv, Grounded
    <3>. QED  BY <3>3, <3>4 DEF Settled, CheckInit
  <2>. QED  BY <2>1 DEF StatusSettles
<1>. QED  BY <1>1, CAlways, PTL

\* One dispatch loop per link (dispatchLoop()): two would handle messages at once.
THEOREM OneLoopRuns ==
  ASSUME OneApp, InTime
  PROVE  Spec => []OneLoop
<1>1. CInv => OneLoop
  <2>1. ASSUME CInv, ~excused
        PROVE  Cardinality(Live) <= 1 /\ (~CheckInit => Live = {})
    <3>1. \E p : LoopsRight(p)
      BY <2>1 DEF CInv, Orderly, Right
    <3>2. \A s \in Live : s = hSim
      BY <3>1 DEF LoopsRight, Live
    <3>3. 0 \notin Live
      BY ConnectionConstants DEF Live, Sessions
    <3>4. Live = {} \/ Live = {hSim}
      BY <3>2
    <3>5. Cardinality(Live) \in {0, 1}
      BY Zenon, <3>4, FS_EmptySet, FS_Singleton
    <3>6. Cardinality(Live) <= 1
      BY <3>5
    <3>. QED  BY <3>2, <3>3, <3>6 DEF CheckInit
  <2>. QED  BY <2>1 DEF OneLoop
<1>. QED  BY <1>1, CAlways, PTL

================================================================================
