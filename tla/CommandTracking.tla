---------------------------- MODULE CommandTracking ----------------------------
(***************************************************************************)
(* Awaited answers in the client (src/WASimClient/WASimClient.cpp).  A     *)
(* thread of the application sends a command or a data request and blocks  *)
(* on a TrackedResponse until the dispatch thread has filled it in, the    *)
(* timeout has passed or the server connection is gone.                    *)
(*                                                                         *)
(* The records are found through the map `reponses` (so spelled in the     *)
(* code), which mtxResponses protects.  Both the waiting thread and the    *)
(* dispatch thread keep a raw pointer into the map after they have let go  *)
(* of the mutex.  The pointers are modelled: a record lives at an address, *)
(* an erased record leaves its content behind, and a new record may take   *)
(* the address over.  One access to what the threads share is one step.    *)
(*                                                                         *)
(* Sending and answering are asynchronous, and answers come in the order   *)
(* the server received the commands, however late.                         *)
(***************************************************************************)
EXTENDS Naturals, Sequences, FiniteSets

CONSTANTS
    Threads,            \* application threads
    RequestIds,         \* ids the application uses for its data requests
    Addrs,              \* where a TrackedResponse may live
    None,
    CallsFromCallback,  \* the application sends a command from its client event callback
    MaxCalls,           \* bound on the number of calls
    MaxConnects         \* bound on the number of connectServer() calls

ASSUME TrackingConstants ==
    /\ RequestIds \subseteq Nat \ {0}
    /\ CallsFromCallback \in BOOLEAN
    /\ MaxCalls \in Nat
    /\ MaxConnects \in Nat
    /\ None \notin Addrs \cup Threads \cup Nat

VARIABLES
    reponses,         \* the address of the TrackedResponse of a token
    node,             \* what the memory at an address holds
    mtx,              \* the thread which holds mtxResponses for more than one step
    nextCmdToken,
    serverConnected,
    status,           \* Client::status as far as the server is concerned
    pc, job,          \* where each thread is, and the call it is in
    result,           \* what the last call of each thread returned
    wire,             \* the commands which the server has not answered yet, and answers under way
    dispatch,         \* the dispatch thread
    acks,             \* answers to connectServer() under way
    calls, connects,  \* the calls made so far
    epoch,            \* how often the tracked responses were cleared
    answered          \* the calls whose answer the dispatch thread has dealt with

mapVars  == <<reponses, node, mtx>>
connVars == <<serverConnected, status, acks, connects, epoch>>
vars == <<mapVars, nextCmdToken, connVars, pc, job, result, wire, dispatch, calls, answered>>

CallIds == 1..MaxCalls
Tokens  == (1..MaxCalls) \cup RequestIds

NoResponse == [id |-> "None", token |-> 0, for |-> 0]
NoJob      == [call |-> 0, kind |-> "None", token |-> 0, addr |-> None, hr |-> "None",
               response |-> NoResponse, epoch |-> 0]
NoDispatch == [at |-> "idle", addr |-> None, response |-> NoResponse]
NoResult   == [hr |-> "None", kind |-> "None", call |-> 0, response |-> NoResponse, undisturbed |-> FALSE]

IsConnected == status = "Connected"

\* The condition variable of a record belongs to the call which made the record, and goes with it.
CvLives(a) == \E t \in Threads : pc[t] # "idle" /\ job[t].call = node[a].call

Init ==
    /\ reponses = [k \in Tokens |-> None]
    /\ node = [a \in Addrs |-> [token |-> 0, call |-> 0, response |-> NoResponse]]
    /\ mtx = None
    /\ nextCmdToken = 1
    /\ serverConnected = FALSE
    /\ status = "SimConnected"
    /\ pc = [t \in Threads |-> "idle"]
    /\ job = [t \in Threads |-> NoJob]
    /\ result = [t \in Threads |-> NoResult]
    /\ wire = <<>>
    /\ dispatch = NoDispatch
    /\ acks = 0
    /\ calls = 0
    /\ connects = 0
    /\ epoch = 0
    /\ answered = {}

--------------------------------------------------------------------------------
\* Sending

\* A thread enters sendCommandWithResponse() or sendDataRequest().
Begin(t, kind, token, at) ==
    /\ calls < MaxCalls
    /\ calls' = calls + 1
    /\ job' = [job EXCEPT ![t] = [NoJob EXCEPT !.call = calls + 1, !.kind = kind, !.token = token,
                                               !.epoch = epoch]]
    /\ pc' = [pc EXCEPT ![t] = at]
    /\ result' = [result EXCEPT ![t] = NoResult]

\* sendCommandWithResponse()
SendCommandWithResponse(t) ==
    /\ pc[t] = "idle"
    /\ Begin(t, "command", 0, "enqueue")
    /\ UNCHANGED <<mapVars, nextCmdToken, connVars, wire, dispatch, answered>>

\* sendDataRequest(): the request is written first and tracked after, under its own id.
SendDataRequest(t, r) ==
    /\ pc[t] = "idle"
    /\ IsConnected
    /\ Begin(t, "request", r, "enqueue")
    /\ wire' = Append(wire, [token |-> r, for |-> calls + 1])
    /\ UNCHANGED <<mapVars, nextCmdToken, connVars, dispatch, answered>>

TokenAfter_Twice(n) == n + 2                    \* slip: incremented by the caller as well
TokenAfter(n) == n + 1

\* enqueueTrackedResponse(): try_emplace() keeps a record that is there already.  A command gets the
\* next token.
Enqueue(t) ==
    /\ pc[t] = "enqueue"
    /\ mtx = None
    /\ LET fresh == job[t].kind = "command"
           token == IF fresh THEN nextCmdToken ELSE job[t].token
       IN /\ nextCmdToken' = IF fresh THEN TokenAfter(nextCmdToken) ELSE nextCmdToken
          /\ job' = [job EXCEPT ![t].token = token]
          /\ pc' = [pc EXCEPT ![t] = IF fresh THEN "send" ELSE "find"]
          /\ IF reponses[token] # None
             THEN UNCHANGED <<reponses, node>>
             ELSE \E a \in {b \in Addrs : \A k \in Tokens : reponses[k] # b} :
                    /\ reponses' = [reponses EXCEPT ![token] = a]
                    /\ node' = [node EXCEPT ![a] = [token |-> token, call |-> job[t].call,
                                                    response |-> NoResponse]]
    /\ UNCHANGED <<mtx, connVars, result, wire, dispatch, calls, answered>>

\* Where sendServerCommand() goes on: the record of a command that was not sent is erased.
AfterSend_NoErase(ok) == IF ok THEN "find" ELSE "idle"          \* slip: returns at once
AfterSend(ok) == IF ok THEN "find" ELSE "erase"

\* The command is written if the server is connected; SimConnect may refuse it.
Send(t) ==
    /\ pc[t] = "send"
    /\ \E ok \in {FALSE, IsConnected} :
         /\ wire' = IF ok THEN Append(wire, [token |-> job[t].token, for |-> job[t].call]) ELSE wire
         /\ job' = [job EXCEPT ![t].hr = IF ok THEN "None" ELSE "E_FAIL"]
         /\ pc' = [pc EXCEPT ![t] = AfterSend(ok)]
    /\ UNCHANGED <<mapVars, nextCmdToken, connVars, result, dispatch, calls, answered>>

--------------------------------------------------------------------------------
\* Waiting: waitCommandResponse()

Return(t, hr) ==
    /\ result' = [result EXCEPT ![t] = [hr |-> hr, kind |-> job[t].kind, call |-> job[t].call,
                                        response |-> job[t].response,
                                        undisturbed |-> job[t].epoch = epoch]]
    /\ pc' = [pc EXCEPT ![t] = "idle"]
    /\ job' = [job EXCEPT ![t] = NoJob]

\* findTrackedResponse() and the lock() of its condition variable
Find(t) ==
    /\ pc[t] = "find"
    /\ mtx = None
    /\ LET a == reponses[job[t].token] IN
         IF a # None /\ CvLives(a)
         THEN /\ job' = [job EXCEPT ![t].addr = a]
              /\ pc' = [pc EXCEPT ![t] = "check"]
              /\ UNCHANGED result
         ELSE Return(t, "E_FAIL")
    /\ UNCHANGED <<mapVars, nextCmdToken, connVars, wire, dispatch, calls, answered>>

\* The condition stop_waiting() is evaluated through the pointer found before.
Answers_AnyToken(resp, token) == resp.id # "None"               \* slip: the token is not compared
Answers(resp, token) == resp.id # "None" /\ resp.token = token
StopWaiting(t) == ~serverConnected \/ Answers(node[job[t].addr].response, job[t].token)

Check(t) ==
    /\ pc[t] = "check"
    /\ IF StopWaiting(t)
       THEN /\ job' = [job EXCEPT ![t].hr = "S_OK"]
            /\ pc' = [pc EXCEPT ![t] = "copy"]
       ELSE pc' = [pc EXCEPT ![t] = "wait"] /\ UNCHANGED job
    /\ UNCHANGED <<mapVars, nextCmdToken, connVars, result, wire, dispatch, calls, answered>>

\* wait_for() evaluates the condition when it is notified and when the time is up.
Wake(t) ==
    /\ pc[t] = "wait"
    /\ StopWaiting(t)
    /\ job' = [job EXCEPT ![t].hr = "S_OK"]
    /\ pc' = [pc EXCEPT ![t] = "copy"]
    /\ UNCHANGED <<mapVars, nextCmdToken, connVars, result, wire, dispatch, calls, answered>>

MayTimeOut_Never(t) == FALSE                    \* slip: waits for the condition alone
MayTimeOut(t) == ~StopWaiting(t)

TimeOut(t) ==
    /\ pc[t] = "wait"
    /\ MayTimeOut(t)
    /\ job' = [job EXCEPT ![t].hr = "E_TIMEOUT"]
    /\ pc' = [pc EXCEPT ![t] = "erase"]
    /\ UNCHANGED <<mapVars, nextCmdToken, connVars, result, wire, dispatch, calls, answered>>

\* The response is copied, through the same pointer.
Copy(t) ==
    /\ pc[t] = "copy"
    /\ job' = [job EXCEPT ![t].response = node[job[t].addr].response]
    /\ pc' = [pc EXCEPT ![t] = "erase"]
    /\ UNCHANGED <<mapVars, nextCmdToken, connVars, result, wire, dispatch, calls, answered>>

Erased_All(token) == [k \in Tokens |-> None]    \* slip: clear() in place of erase()
Erased(token) == [reponses EXCEPT ![token] = None]

Erase(t) ==
    /\ pc[t] = "erase"
    /\ mtx = None
    /\ reponses' = Erased(job[t].token)
    /\ Return(t, job[t].hr)
    /\ UNCHANGED <<node, mtx, nextCmdToken, connVars, wire, dispatch, calls, answered>>

--------------------------------------------------------------------------------
\* The dispatch thread: onSimConnectMessage() with an answer

\* findTrackedResponse().  An answer nobody waits for goes to the callbacks only.
Receive(id) ==
    /\ dispatch.at = "idle"
    /\ wire # <<>>
    /\ mtx = None
    /\ wire' = Tail(wire)
    /\ LET answer == [id |-> id, token |-> Head(wire).token, for |-> Head(wire).for]
           a == reponses[answer.token]
       IN IF a = None
          THEN answered' = answered \cup {answer.for} /\ UNCHANGED dispatch
          ELSE /\ dispatch' = [at |-> "found", addr |-> a, response |-> answer]
               /\ UNCHANGED answered
    /\ UNCHANGED <<mapVars, nextCmdToken, connVars, pc, job, result, calls>>

\* The response is stored, and the waiting thread is notified, if its condition variable lives.
Store ==
    /\ dispatch.at = "found"
    /\ IF CvLives(dispatch.addr)
       THEN /\ node' = [node EXCEPT ![dispatch.addr].response = dispatch.response]
            /\ answered' = answered \cup {dispatch.response.for}
            /\ dispatch' = NoDispatch
       ELSE dispatch' = [dispatch EXCEPT !.at = "expired"] /\ UNCHANGED <<node, answered>>
    /\ UNCHANGED <<reponses, mtx, nextCmdToken, connVars, pc, job, result, wire, calls>>

\* A record without a condition variable is erased.
EraseExpired ==
    /\ dispatch.at = "expired"
    /\ mtx = None
    /\ reponses' = Erased(dispatch.response.token)
    /\ answered' = answered \cup {dispatch.response.for}
    /\ dispatch' = NoDispatch
    /\ UNCHANGED <<node, mtx, nextCmdToken, connVars, pc, job, result, wire, calls>>

--------------------------------------------------------------------------------
\* The server connection, as far as it concerns waiting threads

\* connectServer() and the answer to it, which may come after connectServer() has given up.
StartConnect ==
    /\ connects < MaxConnects
    /\ status # "Connecting"
    /\ connects' = connects + 1
    /\ acks' = acks + 1
    /\ status' = "Connecting"
    /\ UNCHANGED <<mapVars, nextCmdToken, serverConnected, epoch, pc, job, result, wire, dispatch,
                   calls, answered>>

ConnectAck ==
    /\ dispatch.at = "idle"
    /\ acks > 0
    /\ acks' = acks - 1
    /\ serverConnected' = TRUE
    /\ UNCHANGED <<mapVars, nextCmdToken, status, connects, epoch, pc, job, result, wire, dispatch,
                   calls, answered>>

EndConnect ==
    /\ status = "Connecting"
    /\ status' = IF serverConnected THEN "Connected" ELSE "SimConnected"
    /\ UNCHANGED <<mapVars, nextCmdToken, serverConnected, acks, connects, epoch, pc, job, result,
                   wire, dispatch, calls, answered>>

\* disconnectServer(): by an application thread, or by the thread that follows a Quit of SimConnect.
Disconnect(t) ==
    /\ pc[t] = "idle"
    /\ serverConnected
    /\ status # "Connecting"
    /\ pc' = [pc EXCEPT ![t] = "disconnect"]
    /\ UNCHANGED <<mapVars, nextCmdToken, connVars, job, result, wire, dispatch, calls, answered>>

\* The mutex is taken and held to the end.  The threads which wait are not notified.
Clear(t) ==
    /\ pc[t] = "disconnect"
    /\ mtx = None
    /\ mtx' = t
    /\ reponses' = [k \in Tokens |-> None]
    /\ epoch' = epoch + 1
    /\ pc' = [pc EXCEPT ![t] = "cleared"]
    /\ UNCHANGED <<node, nextCmdToken, serverConnected, status, acks, connects, job, result, wire,
                   dispatch, calls, answered>>

DropServer(t) ==
    /\ pc[t] = "cleared"
    /\ serverConnected' = FALSE
    /\ pc' = [pc EXCEPT ![t] = "dropped"]
    /\ UNCHANGED <<mapVars, nextCmdToken, status, acks, connects, epoch, job, result, wire,
                   dispatch, calls, answered>>

\* setStatus() calls the client event callback of the application.
SetStatus(t) ==
    /\ pc[t] = "dropped"
    /\ status' = "SimConnected"
    /\ pc' = [pc EXCEPT ![t] = "callback"]
    /\ UNCHANGED <<mapVars, nextCmdToken, serverConnected, acks, connects, epoch, job, result, wire,
                   dispatch, calls, answered>>

\* A command sent from that callback is enqueued by the thread which holds the mutex.
CallFromCallback(t) ==
    /\ CallsFromCallback
    /\ pc[t] = "callback"
    /\ Begin(t, "command", 0, "enqueue")
    /\ UNCHANGED <<mapVars, nextCmdToken, connVars, wire, dispatch, answered>>

EndDisconnect(t) ==
    /\ pc[t] = "callback"
    /\ mtx' = None
    /\ pc' = [pc EXCEPT ![t] = "idle"]
    /\ UNCHANGED <<reponses, node, nextCmdToken, connVars, job, result, wire, dispatch, calls, answered>>

\* What a thread does once it has entered a call
Step(t) ==
    \/ Enqueue(t) \/ Send(t)
    \/ Find(t) \/ Check(t) \/ Wake(t) \/ TimeOut(t) \/ Copy(t) \/ Erase(t)
    \/ Clear(t) \/ DropServer(t) \/ SetStatus(t) \/ EndDisconnect(t)

Next ==
    \/ \E t \in Threads :
         \/ SendCommandWithResponse(t)
         \/ \E r \in RequestIds : SendDataRequest(t, r)
         \/ Disconnect(t)
         \/ CallFromCallback(t)
         \/ Step(t)
    \/ \E id \in {"Ack", "Nak"} : Receive(id)
    \/ Store
    \/ EraseExpired
    \/ StartConnect
    \/ ConnectAck
    \/ EndConnect

Spec == Init /\ [][Next]_vars

\* Threads run and timeouts pass.  Nothing is assumed of the server and of the dispatch thread.
FairSpec == Spec /\ \A t \in Threads : WF_vars(Step(t))

--------------------------------------------------------------------------------
\* Properties

Response == [id: {"None", "Ack", "Nak"}, token: Tokens \cup {0}, for: CallIds \cup {0}]

TypeOK ==
    /\ reponses \in [Tokens -> Addrs \cup {None}]
    /\ node \in [Addrs -> [token: Tokens \cup {0}, call: CallIds \cup {0}, response: Response]]
    /\ mtx \in Threads \cup {None}
    /\ nextCmdToken \in 1..(calls + 1)
    /\ serverConnected \in BOOLEAN
    /\ status \in {"SimConnected", "Connecting", "Connected"}
    /\ pc \in [Threads -> {"idle", "enqueue", "send", "find", "check", "wait", "copy", "erase",
                           "disconnect", "cleared", "dropped", "callback"}]
    /\ job \in [Threads -> [call: CallIds \cup {0}, kind: {"None", "command", "request"},
                            token: Tokens \cup {0}, addr: Addrs \cup {None},
                            hr: {"None", "S_OK", "E_FAIL", "E_TIMEOUT"}, response: Response, epoch: Nat]]
    /\ wire \in Seq([token: Tokens, for: CallIds])
    /\ dispatch \in [at: {"idle", "found", "expired"}, addr: Addrs \cup {None}, response: Response]
    /\ acks \in Nat /\ connects \in 0..MaxConnects /\ calls \in 0..MaxCalls /\ epoch \in Nat
    /\ answered \subseteq CallIds

\* While the connection stays up, a command that succeeds has got the answer of the server to that very
\* command, though late answers to calls that timed out are written through pointers to records
\* which are gone, and the memory may be the record of another call by then.
CommandAnswerIsOwn ==
    \A t \in Threads :
        LET r == result[t] IN
        r.hr = "S_OK" /\ r.kind = "command" /\ r.undisturbed => r.response.for = r.call

\* A command does not time out once its answer has been dealt with, unless the connection was dropped
\* meanwhile: no answer is lost between its arrival and the wait.
CommandAnsweredInTime ==
    [][\A t \in Threads :
         TimeOut(t) /\ job[t].kind = "command" /\ job[t].epoch = epoch
             => job[t].call \notin answered]_vars

\* Whatever way the calls end (answer, timeout, refusal, disconnection), no record outlives them.
NothingLeaks ==
    \A k \in Tokens : reponses[k] # None => \E t \in Threads : pc[t] # "idle" /\ job[t].token = k

\* The one way for a call not to return is a command sent from the client event callback of
\* disconnectServer(), whose thread holds the mutex it waits for.
WaitsForItself == \E u \in Threads : mtx = u /\ pc[u] = "enqueue"

CallsReturnOtherwise == \A t \in Threads : pc[t] # "idle" ~> (pc[t] = "idle" \/ WaitsForItself)
================================================================================
