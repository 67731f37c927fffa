---------------------------- MODULE ClientConnection ----------------------------
(***************************************************************************)
(* The connections of the client (src/WASimClient/WASimClient.cpp): the    *)
(* link to the simulator, the dispatch loop which runs while it is up, and *)
(* the server connection made over it.  connectSimulator(),                *)
(* disconnectSimulator(), connectServer(), disconnectServer() and          *)
(* pingServer() may be called by any thread of the application;            *)
(* disconnectSimulator() is also called by a thread of its own for each    *)
(* Quit message of SimConnect.  Nothing but atomics protects what they     *)
(* share, so one access is one step.                                       *)
(*                                                                         *)
(* Every SimConnect connection is a session with a number of its own.      *)
(***************************************************************************)
EXTENDS Naturals, FiniteSets

CONSTANTS
    Apps,        \* application threads
    Calls,       \* the operations they use
    MaxOpens,    \* bound on successful SimConnect_Open() calls
    MaxAcks,     \* bound on the answers to connection attempts under way
    Faults       \* what may go wrong besides timeouts: see FaultKinds

FaultKinds == {"open", "register", "late"}
Operations == {"connectSimulator", "connectServer", "pingServer", "disconnectSimulator", "disconnectServer"}

ASSUME ConnectionConstants ==
    /\ Calls \subseteq Operations
    /\ MaxOpens \in Nat
    /\ MaxAcks \in Nat
    /\ Faults \subseteq FaultKinds
    /\ Apps \cap (0..MaxOpens) = {}

VARIABLES
    hSim,             \* the session behind the handle, 0 for nullptr
    opens,            \* sessions opened so far
    simulator,        \* what the simulator has sent over each session
    status,           \* Client::status, a set of flags
    simConnected, serverConnected,
    runDispatchLoop,
    stopEvent,        \* hDispatchStopEvent is signalled
    loop,             \* the dispatch thread of each session
    acks,             \* answers of the server under way
    pongs,            \* threads whose ping has been answered (serverLastSeen > refTp)
    pc, job,          \* where each thread is, and its call
    acked,            \* history: the server answered over this link and was not left since
    excused           \* history: the end of a link met another thread's call, or a late answer

shared  == <<hSim, opens, simulator, simConnected, serverConnected, runDispatchLoop, stopEvent, loop,
             acks, pongs, acked>>
vars == <<shared, status, pc, job, excused>>

Sessions == 1..MaxOpens
Threads == Apps \cup Sessions          \* the thread of a session is the one its Quit message starts
Flags == {"Initializing", "SimConnected", "Connecting", "Connected", "ShuttingDown"}

\* slips: Idle, which has no bit, added as one; the flag of the attempt not cleared when it fails
StatusAfter_IdleBit(flag, old) == IF flag = "Idle" THEN old \cup {"Idle"} ELSE {flag}
StatusAfter_Sticky(flag, old) ==
    CASE flag = "Idle"         -> {}
      [] flag = "ShuttingDown" -> old \cup {"ShuttingDown"}
      [] OTHER                 -> (old \ {"Initializing"}) \cup {flag}

\* setStatus().  Every change is reported to the client event callback.
StatusAfter(flag, old) ==
    CASE flag = "Idle"         -> {}
      [] flag = "Initializing" -> {"Initializing"}
      [] flag = "SimConnected" -> (old \ {"Connected", "Connecting", "Initializing"}) \cup {"SimConnected"}
      [] flag = "Connecting"   -> (old \ {"Connected"}) \cup {"Connecting"}
      [] flag = "Connected"    -> (old \ {"Connecting"}) \cup {"Connected"}
      [] flag = "ShuttingDown" -> old \cup {"ShuttingDown"}

SetStatus(flag) == status' = StatusAfter(flag, status)

CheckInit == hSim # 0
IsConnected == CheckInit /\ "Connected" \in status

NoCall == [op |-> "None", hr |-> "None", quit |-> FALSE]

Init ==
    /\ hSim = 0
    /\ opens = 0
    /\ simulator = [s \in Sessions |-> "opening"]
    /\ status = {}
    /\ simConnected = FALSE
    /\ serverConnected = FALSE
    /\ runDispatchLoop = FALSE
    /\ stopEvent = FALSE
    /\ loop = [s \in Sessions |-> "none"]
    /\ acks = 0
    /\ pongs = {}
    /\ pc = [t \in Threads |-> "idle"]
    /\ job = [t \in Threads |-> NoCall]
    /\ acked = FALSE
    /\ excused = FALSE

--------------------------------------------------------------------------------
\* Control

Goto(t, at) == pc' = [pc EXCEPT ![t] = at] /\ UNCHANGED job
Return(t) == pc' = [pc EXCEPT ![t] = "idle"] /\ job' = [job EXCEPT ![t] = NoCall]
Fail(t, hr) == pc' = [pc EXCEPT ![t] = "close"] /\ job' = [job EXCEPT ![t].hr = hr]

\* Where each operation begins, and where connectSimulator() goes on once the link is up
Entry(op) ==
    CASE op = "connectSimulator"    -> "simulator"
      [] op = "connectServer"       -> "server"
      [] op = "pingServer"          -> "ping"
      [] op = "disconnectSimulator" -> "close"
      [] op = "disconnectServer"    -> "leave"

Proceed(t) ==
    CASE job[t].op = "connectServer" -> Goto(t, "connecting")
      [] job[t].op = "pingServer"    -> Goto(t, "pinging")
      [] OTHER                       -> Return(t)

Call(t, op) ==
    /\ pc[t] = "idle"
    /\ pc' = [pc EXCEPT ![t] = Entry(op)]
    /\ job' = [job EXCEPT ![t] = [NoCall EXCEPT !.op = op]]
    /\ UNCHANGED <<shared, status>>

--------------------------------------------------------------------------------
\* connectSimulator()

\* Refused while another thread is at it, or when there is a link already.
CheckSimulator(t) ==
    /\ pc[t] = "simulator"
    /\ IF "Initializing" \in status \/ CheckInit THEN Return(t) ELSE Goto(t, "initialize")
    /\ UNCHANGED <<shared, status>>

Initialize(t) ==
    /\ pc[t] = "initialize"
    /\ SetStatus("Initializing")
    /\ Goto(t, "open")
    /\ UNCHANGED shared

OpenFails(t) ==
    /\ pc[t] = "open"
    /\ "open" \in Faults \/ opens = MaxOpens
    /\ SetStatus("Idle")
    /\ simConnected' = FALSE
    /\ Return(t)
    /\ UNCHANGED <<hSim, opens, simulator, serverConnected, runDispatchLoop, stopEvent, loop, acks,
                   pongs, acked>>

\* SimConnect_Open(), ResetEvent() and the start of the dispatch thread
SimConnect_Open(t) ==
    /\ pc[t] = "open"
    /\ opens < MaxOpens
    /\ opens' = opens + 1
    /\ hSim' = opens'
    /\ simConnected' = FALSE
    /\ stopEvent' = FALSE
    /\ loop' = [loop EXCEPT ![opens'] = "starting"]
    /\ Goto(t, "starting")
    /\ UNCHANGED <<status, simulator, serverConnected, runDispatchLoop, acks, pongs, acked>>

\* The thread is given 10 ms.
WaitForLoop(t) ==
    /\ pc[t] = "starting"
    /\ \/ runDispatchLoop /\ Goto(t, "waiting")
       \/ /\ ~runDispatchLoop
          /\ "late" \in Faults \/ \A s \in Sessions : loop[s] # "starting"
          /\ Fail(t, "E_FAIL")
    /\ UNCHANGED <<shared, status>>

WaitForSimulator(t) ==
    /\ pc[t] = "waiting"
    /\ IF ~runDispatchLoop \/ simConnected THEN Goto(t, "register") ELSE Fail(t, "E_TIMEOUT")
    /\ UNCHANGED <<shared, status>>

\* Events and data areas, which need a handle, then the areas of saved requests and custom events
Register(t) ==
    /\ pc[t] = "register"
    /\ \/ CheckInit /\ SetStatus("SimConnected") /\ Proceed(t)
       \/ (~CheckInit \/ "register" \in Faults) /\ Fail(t, "E_FAIL") /\ UNCHANGED status
    /\ UNCHANGED shared

--------------------------------------------------------------------------------
\* connectServer() and pingServer()

CheckServer(t) ==
    /\ pc[t] = "server"
    /\ CASE "Connecting" \in status -> Return(t)
         [] "Connecting" \notin status /\ ~CheckInit -> Goto(t, "simulator")
         [] OTHER -> Goto(t, "connecting")
    /\ UNCHANGED <<shared, status>>

SetConnecting(t) ==
    /\ pc[t] = "connecting"
    /\ SetStatus("Connecting")
    /\ Goto(t, "transmit")
    /\ UNCHANGED shared

\* The Connect event, which the server may answer or not
Transmit(t) ==
    /\ pc[t] = "transmit"
    /\ \/ /\ CheckInit
          /\ acks' \in {acks} \cup (IF acks < MaxAcks THEN {acks + 1} ELSE {})
          /\ Goto(t, "answer")
          /\ UNCHANGED status
       \/ /\ ~CheckInit \/ "register" \in Faults
          /\ SetStatus("SimConnected")
          /\ Return(t)
          /\ UNCHANGED acks
    /\ UNCHANGED <<hSim, opens, simulator, simConnected, serverConnected, runDispatchLoop, stopEvent,
                   loop, pongs, acked>>

\* When the wait for the answer is over and the attempt has succeeded, and when it has failed
Accepted_Anyway == TRUE                     \* slip: the result of the wait is not looked at
Accepted == ~runDispatchLoop \/ serverConnected

WaitForServer(t) ==
    /\ pc[t] = "answer"
    /\ IF Accepted THEN Goto(t, "joined") /\ UNCHANGED status
                   ELSE SetStatus("SimConnected") /\ Return(t)
    /\ UNCHANGED shared

\* The replay of requests and events that follows is in ClientRequests and ClientEvents.
SetConnected(t) ==
    /\ pc[t] = "joined"
    /\ SetStatus("Connected")
    /\ Return(t)
    /\ UNCHANGED shared

PingServer(t) ==
    /\ pc[t] = "ping"
    /\ Goto(t, IF CheckInit THEN "pinging" ELSE "simulator")
    /\ UNCHANGED <<shared, status>>

Ping(t) ==
    /\ pc[t] = "pinging"
    /\ pongs' = pongs \ {t}
    /\ IF CheckInit THEN Goto(t, "pong") ELSE Return(t)
    /\ UNCHANGED <<hSim, opens, simulator, status, simConnected, serverConnected, runDispatchLoop,
                   stopEvent, loop, acks, acked>>

\* Answered, timed out, or the loop was stopped
WaitForPong(t) ==
    /\ pc[t] = "pong"
    /\ Return(t)
    /\ UNCHANGED <<shared, status>>

--------------------------------------------------------------------------------
\* disconnectServer() and disconnectSimulator()

MayLeave == serverConnected /\ "Connecting" \notin status

Leave(t) ==
    /\ pc[t] = "leave"
    /\ IF MayLeave THEN Goto(t, "drop")
       ELSE IF job[t].op = "disconnectServer" THEN Return(t)
       ELSE Goto(t, "shutdown")
    /\ UNCHANGED <<shared, status>>

Drop(t) ==
    /\ pc[t] = "drop"
    /\ serverConnected' = FALSE
    /\ acked' = FALSE
    /\ SetStatus("SimConnected")
    /\ IF job[t].op = "disconnectServer" THEN Return(t) ELSE Goto(t, "shutdown")
    /\ UNCHANGED <<hSim, opens, simulator, simConnected, runDispatchLoop, stopEvent, loop, acks, pongs>>

MustClose_Connected == IsConnected         \* slip: a link without a server is left up
MustClose == CheckInit

CheckClose(t) ==
    /\ pc[t] = "close"
    /\ IF MustClose THEN Goto(t, "leave") /\ UNCHANGED status
                    ELSE SetStatus("Idle") /\ Return(t)
    /\ UNCHANGED shared

\* The status is set and the dispatch loop told to stop.
ShutDown(t) ==
    /\ pc[t] = "shutdown"
    /\ SetStatus("ShuttingDown")
    /\ stopEvent' = TRUE
    /\ Goto(t, "stopping")
    /\ UNCHANGED <<hSim, opens, simulator, simConnected, serverConnected, runDispatchLoop, loop, acks,
                   pongs, acked>>

\* The wait for the loop ends after a while whether or not it has stopped.
Stopped_NoWait == TRUE                      \* slip: the loop is not waited for
Stopped_Forever == ~runDispatchLoop         \* slip: the wait has no end
Stopped == ~runDispatchLoop \/ "late" \in Faults \/ ~stopEvent

WaitForStop(t) ==
    /\ pc[t] = "stopping"
    /\ Stopped
    /\ Goto(t, "reset")
    /\ UNCHANGED <<shared, status>>

Reset(t) ==
    /\ pc[t] = "reset"
    /\ hSim' = 0
    /\ simConnected' = FALSE
    /\ acks' = 0
    /\ acked' = FALSE
    /\ Goto(t, "closed")
    /\ UNCHANGED <<opens, simulator, status, serverConnected, runDispatchLoop, stopEvent, loop, pongs>>

Closed(t) ==
    /\ pc[t] = "closed"
    /\ SetStatus("Idle")
    /\ Return(t)
    /\ UNCHANGED shared

--------------------------------------------------------------------------------
\* Dispatch threads

Looping(s) == loop[s] = "running" /\ runDispatchLoop

StartLoop(s) ==
    /\ loop[s] = "starting"
    /\ loop' = [loop EXCEPT ![s] = "running"]
    /\ runDispatchLoop' = TRUE
    /\ UNCHANGED <<hSim, opens, simulator, status, simConnected, serverConnected, stopEvent, acks,
                   pongs, acked, pc, job>>

\* The stop event ends the loop that sees it; the flag ends every other one.
StopLoop(s) ==
    /\ loop[s] = "running"
    /\ stopEvent \/ ~runDispatchLoop
    /\ loop' = [loop EXCEPT ![s] = "ended"]
    /\ runDispatchLoop' = FALSE
    /\ UNCHANGED <<hSim, opens, simulator, status, simConnected, serverConnected, stopEvent, acks,
                   pongs, acked, pc, job>>

\* Messages are those of the session behind the handle, whichever loop takes them.
Dispatching == CheckInit /\ \E s \in Sessions : Looping(s)

RecvOpen ==
    /\ Dispatching
    /\ simulator[hSim] = "opening"
    /\ simulator' = [simulator EXCEPT ![hSim] = "open"]
    /\ simConnected' = TRUE
    /\ UNCHANGED <<hSim, opens, status, serverConnected, runDispatchLoop, stopEvent, loop, acks, pongs,
                   acked, pc, job>>

\* SIMCONNECT_RECV_ID_QUIT: disconnectSimulator(true) runs in a thread of its own.
RecvQuit ==
    /\ Dispatching
    /\ simulator[hSim] = "open"
    /\ simulator' = [simulator EXCEPT ![hSim] = "quit"]
    /\ pc' = [pc EXCEPT ![hSim] = "close"]
    /\ job' = [job EXCEPT ![hSim] = [NoCall EXCEPT !.op = "disconnectSimulator", !.quit = TRUE]]
    /\ UNCHANGED <<hSim, opens, status, simConnected, serverConnected, runDispatchLoop, stopEvent, loop,
                   acks, pongs, acked>>

\* The server's Ack of the Connect event, however late
RecvConnectAck ==
    /\ Dispatching
    /\ acks > 0
    /\ acks' = acks - 1
    /\ serverConnected' = TRUE
    /\ acked' = TRUE
    /\ UNCHANGED <<hSim, opens, simulator, status, simConnected, runDispatchLoop, stopEvent, loop, pongs,
                   pc, job>>

RecvPong ==
    /\ Dispatching
    /\ \E t \in Threads \ pongs : pc[t] = "pong"
    /\ pongs' = Threads
    /\ UNCHANGED <<hSim, opens, simulator, status, simConnected, serverConnected, runDispatchLoop,
                   stopEvent, loop, acks, acked, pc, job>>

\* The Disconnect command of the server: disconnectServer(false) on the dispatch thread
RecvDisconnect ==
    /\ Dispatching
    /\ MayLeave
    /\ serverConnected' = FALSE
    /\ acked' = FALSE
    /\ SetStatus("SimConnected")
    /\ UNCHANGED <<hSim, opens, simulator, simConnected, runDispatchLoop, stopEvent, loop, acks, pongs,
                   pc, job>>

--------------------------------------------------------------------------------
\* What a thread does once it has entered a call
Step(t) ==
    \/ CheckSimulator(t) \/ Initialize(t) \/ OpenFails(t) \/ SimConnect_Open(t)
    \/ WaitForLoop(t) \/ WaitForSimulator(t) \/ Register(t)
    \/ CheckServer(t) \/ SetConnecting(t) \/ Transmit(t) \/ WaitForServer(t) \/ SetConnected(t)
    \/ PingServer(t) \/ Ping(t) \/ WaitForPong(t)
    \/ Leave(t) \/ Drop(t) \/ CheckClose(t) \/ ShutDown(t) \/ WaitForStop(t) \/ Reset(t) \/ Closed(t)

DispatchThread(s) == StartLoop(s) \/ StopLoop(s)

Message == RecvOpen \/ RecvQuit \/ RecvConnectAck \/ RecvPong \/ RecvDisconnect

Making == {"simulator", "initialize", "open", "starting", "waiting", "register",
           "connecting", "transmit", "answer", "joined"}
Ending == {"close", "leave", "drop", "shutdown", "stopping", "reset", "closed"}

Overlap == \E t, u \in Threads : t # u /\ pc[t] \in Making \cup Ending /\ pc[u] \in Ending

LateAnswer == ~serverConnected /\ serverConnected' /\ \E t \in Threads : pc[t] \in Ending

Track == excused' = (excused \/ Overlap' \/ LateAnswer)

Next ==
    /\ \/ \E t \in Apps : \E op \in Calls : Call(t, op)
       \/ \E t \in Threads : Step(t)
       \/ \E s \in Sessions : DispatchThread(s)
       \/ Message
    /\ Track

Spec == Init /\ [][Next]_vars

\* Threads run and waits time out.  Nothing is assumed of the simulator, the server and the application.
FairSpec ==
    /\ Spec
    /\ \A t \in Threads : WF_vars(Step(t) /\ Track)
    /\ \A s \in Sessions : WF_vars(DispatchThread(s) /\ Track)

--------------------------------------------------------------------------------
\* Properties

Places == {"idle", "server", "ping", "pinging", "pong"} \cup Making \cup Ending

TypeOK ==
    /\ hSim \in 0..opens
    /\ opens \in 0..MaxOpens
    /\ simulator \in [Sessions -> {"opening", "open", "quit"}]
    /\ status \subseteq Flags
    /\ simConnected \in BOOLEAN /\ serverConnected \in BOOLEAN
    /\ runDispatchLoop \in BOOLEAN /\ stopEvent \in BOOLEAN
    /\ loop \in [Sessions -> {"none", "starting", "running", "ended"}]
    /\ acks \in 0..MaxAcks
    /\ pongs \subseteq Threads
    /\ pc \in [Threads -> Places]
    /\ job \in [Threads -> [op: Operations \cup {"None"}, hr: {"None", "E_FAIL", "E_TIMEOUT"}, quit: BOOLEAN]]
    /\ acked \in BOOLEAN /\ excused \in BOOLEAN

\* What isInitialized() and isConnected() say is what ConnectionPromise allows: above all, a server
\* is joined only after it has answered over this very link, whatever attempts timed out before,
\* were answered late, or were cut off by the end of an earlier link.
Promise == INSTANCE ConnectionPromise WITH
    link     <- IF ~CheckInit THEN "down" ELSE IF IsConnected THEN "server" ELSE "sim",
    answered <- acked,
    excused  <- excused

KeepsPromise == Promise!Spec

\* When no call is in progress, status() describes the connections, however the calls before ended.
Quiet == \A t \in Threads : pc[t] = "idle"

StatusSettles ==
    Quiet /\ ~excused =>
        IF CheckInit THEN /\ status \in {{"SimConnected"}, {"SimConnected", "Connected"}}
                          /\ "Connected" \in status => serverConnected
                     ELSE status = {} /\ ~serverConnected

\* There is one dispatch loop while there is a link and none without, as messages handled
\* by two loops at once would meet in every structure of the client.
Live == {s \in Sessions : loop[s] \in {"starting", "running"}}

OneLoop ==
    "late" \notin Faults /\ ~excused =>
        Cardinality(Live) <= 1 /\ (~CheckInit => Live = {})

\* Once the simulator quits, the link goes, whatever calls are in progress.
QuitEndsLink == \A s \in Sessions : simulator[s] = "quit" ~> hSim # s

\* "This method blocks until either the Server responds or the timeout has expired.": every call
\* returns, and so does the thread that follows a Quit.
CallsReturn == \A t \in Threads : pc[t] # "idle" ~> pc[t] = "idle"
================================================================================
