------------------------- MODULE CommandTrackingProofs -------------------------
(***************************************************************************)
(* Proofs about awaited answers, for any number of threads, addresses,     *)
(* calls and connections.  First, the state keeps its types, and no record *)
(* outlives the calls that use it.  Then, a command whose connection stays *)
(* up returns the server's answer to itself, and does not time out once it *)
(* is answered.                                                            *)
(***************************************************************************)
EXTENDS CommandTracking, FiniteSetTheorems, SequenceTheorems, TLAPS

--------------------------------------------------------------------------------
\* Types

\* Where a thread has its place in the map of tracked responses
Tracked == {"send", "find", "check", "wait", "copy", "erase"}
Command(t) == pc[t] \in Tracked /\ job[t].kind = "command"

\* Commands that have begun but have no token yet: with the tokens given out they are not more than calls.
Pending == {t \in Threads : pc[t] = "enqueue" /\ job[t].kind = "command"}
Counted == IsFiniteSet(Pending) /\ nextCmdToken + Cardinality(Pending) <= calls + 1

JobIsKnown(t) ==
    /\ pc[t] \in Tracked \cup {"enqueue"} =>
         /\ job[t].call \in CallIds
         /\ job[t].kind = "command" \/ (job[t].kind = "request" /\ job[t].token \in RequestIds)
    /\ Command(t) => job[t].token \in 1..(nextCmdToken - 1)
    /\ pc[t] \in {"check", "wait", "copy"} => job[t].addr \in Addrs
    /\ job[t].epoch <= epoch

JobsAreKnown == \A t \in Threads : JobIsKnown(t)

Job == [call: CallIds \cup {0}, kind: {"None", "command", "request"}, token: Tokens \cup {0},
        addr: Addrs \cup {None}, hr: {"None", "S_OK", "E_FAIL", "E_TIMEOUT"}, response: Response, epoch: Nat]

PCs == {"idle", "enqueue", "send", "find", "check", "wait", "copy", "erase",
        "disconnect", "cleared", "dropped", "callback"}

Node == [token: Tokens \cup {0}, call: CallIds \cup {0}, response: Response]

\* The type invariant in the parts that steps change together
MapTypes     == reponses \in [Tokens -> Addrs \cup {None}] /\ node \in [Addrs -> Node]
ThreadTypes  == pc \in [Threads -> PCs] /\ job \in [Threads -> Job]
Message == [token: Tokens, for: CallIds]

WireTypes    == wire \in Seq(Message)
DispatchTypes == dispatch \in [at: {"idle", "found", "expired"}, addr: Addrs \cup {None}, response: Response]
CountTypes   == nextCmdToken \in 1..(calls + 1) /\ calls \in 0..MaxCalls /\ epoch \in Nat
ConnectTypes == acks \in Nat /\ connects \in 0..MaxConnects
FlagTypes    == /\ mtx \in Threads \cup {None}
                /\ serverConnected \in BOOLEAN
                /\ status \in {"SimConnected", "Connecting", "Connected"}
AnsweredTypes == answered \subseteq CallIds

TInv ==
    /\ MapTypes /\ ThreadTypes /\ WireTypes /\ DispatchTypes
    /\ CountTypes /\ ConnectTypes /\ FlagTypes /\ AnsweredTypes
    /\ Counted
    /\ JobsAreKnown

\* The state at first
LEMMA InitTypes == Init => TInv
<1>. SUFFICES ASSUME Init PROVE TInv
  OBVIOUS
<1>1. Pending = {}
  BY DEF Init, Pending
<1>2. Counted
  BY <1>1, FS_EmptySet, TrackingConstants DEF Init, Counted
<1>3. JobsAreKnown
  BY DEF Init, JobsAreKnown, JobIsKnown, Command, Tracked, NoJob
<1>4. NoResponse \in Response
  BY DEF NoResponse, Response
<1>5. MapTypes
  BY <1>4 DEF Init, MapTypes, Node
<1>6. ThreadTypes
  <2>1. NoJob \in Job
    BY <1>4 DEF NoJob, Job
  <2>. QED  BY <2>1 DEF Init, ThreadTypes, PCs
<1>7. WireTypes
  BY DEF Init, WireTypes
<1>8. DispatchTypes
  BY <1>4 DEF Init, NoDispatch, DispatchTypes
<1>9. CountTypes /\ ConnectTypes
  BY TrackingConstants DEF Init, CountTypes, ConnectTypes
<1>10. FlagTypes /\ AnsweredTypes
  BY Zenon DEF Init, FlagTypes, AnsweredTypes
<1>. QED  BY <1>2, <1>3, <1>5, <1>6, <1>7, <1>8, <1>9, <1>10 DEF TInv

\* A step of one thread which changes its place and its job only: the types of the new ones and what is
\* known of the job carry over, and so does the count if the step is no beginning and gives no token.
LEMMA ThreadStep ==
  ASSUME TInv, NEW t \in Threads, NEW x \in PCs, NEW j \in Job,
         pc' = [pc EXCEPT ![t] = x], job' = [job EXCEPT ![t] = j],
         UNCHANGED <<nextCmdToken, calls>>, epoch' \in Nat, epoch <= epoch',
         x # "enqueue", pc[t] # "enqueue",
         JobIsKnown(t)'
  PROVE  /\ pc' \in [Threads -> PCs] /\ job' \in [Threads -> Job]
         /\ Counted' /\ JobsAreKnown'
<1>1. pc' \in [Threads -> PCs] /\ job' \in [Threads -> Job]
  BY DEF TInv, ThreadTypes
<1>2. \A u \in Threads : u # t => pc'[u] = pc[u] /\ job'[u] = job[u]
  BY DEF TInv, ThreadTypes
<1>3. pc'[t] = x
  BY DEF TInv, ThreadTypes
<1>4. Pending' = Pending
  BY <1>2, <1>3 DEF Pending
<1>5. ASSUME NEW u \in Threads PROVE JobIsKnown(u)'
  <2>1. CASE u = t
    BY <2>1
  <2>2. CASE u # t
    <3>1. job[u].epoch \in Nat /\ epoch \in Nat
      BY DEF TInv, ThreadTypes, CountTypes, Job
    <3>2. job[u].epoch <= epoch'
      BY <3>1 DEF TInv, JobsAreKnown, JobIsKnown
    <3>. QED  BY <1>2, <2>2, <3>2 DEF TInv, JobsAreKnown, JobIsKnown, Command
  <2>. QED  BY <2>1, <2>2
<1>. QED  BY <1>1, <1>4, <1>5 DEF TInv, Counted, JobsAreKnown

\* A step which leaves the threads where they are
LEMMA OtherStep ==
  ASSUME TInv, UNCHANGED <<pc, job, nextCmdToken, calls, epoch>>
  PROVE  Counted' /\ JobsAreKnown'
<1>1. Pending' = Pending
  BY DEF Pending
<1>. QED  BY <1>1 DEF TInv, Counted, JobsAreKnown, JobIsKnown, Command

\* No job is a job.
LEMMA NoJobType == NoJob \in Job
<1>1. NoResponse \in Response
  BY DEF NoResponse, Response
<1>. QED  BY <1>1 DEF NoJob, Job

\* A thread that begins a call has a job, and a command counts as pending.
LEMMA BeginTypes ==
  ASSUME TInv, NEW t \in Threads, NEW kind \in {"command", "request"}, NEW token \in Tokens \cup {0},
         kind = "request" => token \in RequestIds,
         Begin(t, kind, token, "enqueue"), pc[t] \in {"idle", "callback"},
         UNCHANGED <<nextCmdToken, epoch>>
  PROVE  /\ pc' \in [Threads -> PCs] /\ job' \in [Threads -> Job] /\ calls' \in 1..MaxCalls
         /\ nextCmdToken' \in 1..(calls' + 1)
         /\ Counted' /\ JobsAreKnown'
<1> DEFINE j == [NoJob EXCEPT !.call = calls + 1, !.kind = kind, !.token = token, !.epoch = epoch]
<1>1. pc' = [pc EXCEPT ![t] = "enqueue"] /\ job' = [job EXCEPT ![t] = j]
  BY DEF Begin
<1>2. calls' \in 1..MaxCalls /\ calls' = calls + 1 /\ calls \in Nat /\ epoch \in Nat /\ nextCmdToken \in Nat
  BY TrackingConstants DEF Begin, TInv, CountTypes
<1>3. /\ j \in Job /\ j.call = calls + 1 /\ j.kind = kind /\ j.token = token /\ j.epoch = epoch
  BY <1>2, NoJobType DEF Job, CallIds
<1> HIDE DEF j
<1>4. pc' \in [Threads -> PCs] /\ job' \in [Threads -> Job]
  BY <1>1, <1>3 DEF TInv, ThreadTypes, PCs
<1>5. pc'[t] = "enqueue" /\ job'[t] = j /\ \A u \in Threads : u # t => pc'[u] = pc[u] /\ job'[u] = job[u]
  BY <1>1 DEF TInv, ThreadTypes
<1>6. ASSUME NEW u \in Threads PROVE JobIsKnown(u)'
  <2>1. CASE u = t
    <3>1. j.call \in CallIds
      BY <1>2, <1>3 DEF CallIds
    <3>2. j.epoch <= epoch'
      BY <1>2, <1>3
    <3>. QED  BY <1>3, <1>5, <2>1, <3>1, <3>2 DEF JobIsKnown, Command, Tracked
  <2>2. CASE u # t
    BY <1>5, <2>2 DEF TInv, JobsAreKnown, JobIsKnown, Command
  <2>. QED  BY <2>1, <2>2
<1>7. t \notin Pending /\ IsFiniteSet(Pending) /\ nextCmdToken + Cardinality(Pending) <= calls + 1
  BY DEF Pending, TInv, Counted
<1>8. Pending' = IF kind = "command" THEN Pending \cup {t} ELSE Pending
  BY <1>3, <1>5 DEF Pending
<1>9. Counted'
  <2>1. Cardinality(Pending) \in Nat
    BY <1>7, FS_CardinalityType
  <2>2. CASE kind = "command"
    <3>1. IsFiniteSet(Pending') /\ Cardinality(Pending') = Cardinality(Pending) + 1
      BY <1>7, <1>8, <2>2, FS_AddElement
    <3>. QED  BY <1>2, <1>7, <2>1, <3>1 DEF Counted
  <2>3. CASE kind # "command"
    BY <1>2, <1>7, <1>8, <2>1, <2>3 DEF Counted
  <2>. QED  BY <2>2, <2>3
<1>10. nextCmdToken' \in 1..(calls' + 1)
  BY <1>2 DEF TInv, CountTypes
<1>. QED  BY <1>2, <1>4, <1>6, <1>9, <1>10 DEF JobsAreKnown

\* A command is sent, from a call of the application or from its callback.
LEMMA SendCommandTypes ==
  ASSUME TInv, NEW t \in Threads, SendCommandWithResponse(t) \/ CallFromCallback(t)
  PROVE  TInv'
<1>1. /\ Begin(t, "command", 0, "enqueue") /\ pc[t] \in {"idle", "callback"}
      /\ UNCHANGED <<mapVars, nextCmdToken, connVars, wire, dispatch, answered>>
  BY DEF SendCommandWithResponse, CallFromCallback
<1>2. /\ pc' \in [Threads -> PCs] /\ job' \in [Threads -> Job] /\ calls' \in 1..MaxCalls
      /\ nextCmdToken' \in 1..(calls' + 1)
      /\ Counted' /\ JobsAreKnown'
  BY <1>1, BeginTypes DEF connVars
<1>3. MapTypes' /\ WireTypes' /\ DispatchTypes' /\ AnsweredTypes'
  BY <1>1, Zenon DEF TInv, MapTypes, WireTypes, DispatchTypes, AnsweredTypes, mapVars
<1>4. ConnectTypes' /\ FlagTypes'
  BY <1>1, Zenon DEF TInv, ConnectTypes, FlagTypes, mapVars, connVars
<1>5. ThreadTypes' /\ CountTypes'
  <2>1. ThreadTypes'
    BY <1>2 DEF ThreadTypes
  <2>2. epoch \in Nat /\ epoch' = epoch
    BY <1>1 DEF TInv, CountTypes, connVars
  <2>3. calls' \in 0..MaxCalls
    BY <1>2, TrackingConstants
  <2>. QED  BY <1>2, <2>1, <2>2, <2>3 DEF CountTypes
<1>. QED  BY <1>2, <1>3, <1>4, <1>5 DEF TInv

\* A data request is written as it begins.
LEMMA SendDataRequestTypes ==
  ASSUME TInv, NEW t \in Threads, NEW r \in RequestIds, SendDataRequest(t, r)
  PROVE  TInv'
<1>1. /\ Begin(t, "request", r, "enqueue") /\ pc[t] \in {"idle", "callback"}
      /\ UNCHANGED <<mapVars, nextCmdToken, connVars, dispatch, answered>>
  BY DEF SendDataRequest
<1>2. /\ pc' \in [Threads -> PCs] /\ job' \in [Threads -> Job] /\ calls' \in 1..MaxCalls
      /\ nextCmdToken' \in 1..(calls' + 1)
      /\ Counted' /\ JobsAreKnown'
  BY <1>1, BeginTypes DEF connVars, Tokens
<1>3. WireTypes'
  <2>1. calls + 1 \in CallIds
    BY <1>2 DEF SendDataRequest, Begin, CallIds
  <2>2. [token |-> r, for |-> calls + 1] \in Message
    BY <2>1 DEF Tokens, Message
  <2>3. wire \in Seq(Message)
    BY DEF TInv, WireTypes
  <2>. QED  BY <2>2, <2>3, AppendProperties DEF SendDataRequest, WireTypes
<1>4. MapTypes' /\ DispatchTypes' /\ AnsweredTypes'
  BY <1>1, Zenon DEF TInv, MapTypes, DispatchTypes, AnsweredTypes, mapVars
<1>5. ConnectTypes' /\ FlagTypes'
  BY <1>1, Zenon DEF TInv, ConnectTypes, FlagTypes, mapVars, connVars
<1>6. ThreadTypes' /\ CountTypes'
  <2>1. ThreadTypes'
    BY <1>2 DEF ThreadTypes
  <2>2. epoch \in Nat /\ epoch' = epoch
    BY <1>1 DEF TInv, CountTypes, connVars
  <2>3. calls' \in 0..MaxCalls
    BY <1>2, TrackingConstants
  <2>. QED  BY <1>2, <2>1, <2>2, <2>3 DEF CountTypes
<1>. QED  BY <1>2, <1>3, <1>4, <1>5, <1>6 DEF TInv

\* enqueueTrackedResponse() takes a command off the pending ones and gives it a token of the range.
LEMMA EnqueueTypes ==
  ASSUME TInv, NEW t \in Threads, Enqueue(t)
  PROVE  TInv'
<1> DEFINE fresh == job[t].kind = "command"
           token == IF fresh THEN nextCmdToken ELSE job[t].token
           x == IF fresh THEN "send" ELSE "find"
           j == [job[t] EXCEPT !.token = token]
<1>1. /\ pc[t] = "enqueue"
      /\ nextCmdToken' = IF fresh THEN TokenAfter(nextCmdToken) ELSE nextCmdToken
      /\ job' = [job EXCEPT ![t].token = token]
      /\ pc' = [pc EXCEPT ![t] = x]
      /\ UNCHANGED <<mtx, connVars, result, wire, dispatch, calls, answered>>
  BY DEF Enqueue
<1>2. /\ job[t] \in Job /\ JobIsKnown(t) /\ job[t].call \in CallIds
      /\ fresh \/ (job[t].kind = "request" /\ job[t].token \in RequestIds)
  BY <1>1 DEF TInv, ThreadTypes, JobsAreKnown, JobIsKnown, Job
<1>3. /\ IsFiniteSet(Pending) /\ Cardinality(Pending) \in Nat
      /\ nextCmdToken + Cardinality(Pending) <= calls + 1
      /\ nextCmdToken \in Nat \ {0} /\ calls \in 0..MaxCalls /\ MaxCalls \in Nat
  BY FS_CardinalityType, TrackingConstants DEF TInv, CountTypes, Counted
<1>4. ASSUME fresh
      PROVE  /\ IsFiniteSet(Pending \ {t}) /\ Cardinality(Pending \ {t}) = Cardinality(Pending) - 1
             /\ nextCmdToken <= calls /\ nextCmdToken \in Tokens
  <2>1. t \in Pending
    BY <1>1, <1>4 DEF Pending
  <2>2. IsFiniteSet(Pending \ {t}) /\ Cardinality(Pending \ {t}) = Cardinality(Pending) - 1
    BY <1>3, <2>1, FS_RemoveElement
  <2>3. Cardinality(Pending) # 0
    BY <1>3, <2>1, FS_EmptySet
  <2>4. nextCmdToken <= calls
    BY <1>3, <2>3
  <2>. QED  BY <1>3, <2>2, <2>4 DEF Tokens
<1>5. token \in Tokens
  BY <1>2, <1>4 DEF Tokens
<1>6. /\ j \in Job /\ j.kind = job[t].kind /\ j.call = job[t].call /\ j.epoch = job[t].epoch
      /\ j.token = token
  BY <1>2, <1>5 DEF Job
<1>7. pc' \in [Threads -> PCs] /\ job' \in [Threads -> Job]
  BY <1>1, <1>6 DEF TInv, ThreadTypes, PCs
<1>8. pc'[t] = x /\ job'[t] = j /\ \A u \in Threads : u # t => pc'[u] = pc[u] /\ job'[u] = job[u]
  BY <1>1 DEF TInv, ThreadTypes
<1> HIDE DEF j
<1>9. nextCmdToken' \in Nat /\ nextCmdToken <= nextCmdToken' /\ (fresh => nextCmdToken' = nextCmdToken + 1)
  BY <1>1, <1>3 DEF TokenAfter
<1>10. ASSUME NEW u \in Threads PROVE JobIsKnown(u)'
  <2>1. CASE u = t
    <3>1. fresh => token \in 1..(nextCmdToken' - 1)
      BY <1>3, <1>9
    <3>2. epoch' = epoch /\ job[t].epoch <= epoch
      BY <1>1, <1>2 DEF connVars, JobIsKnown
    <3>. QED  BY <1>2, <1>6, <1>8, <2>1, <3>1, <3>2 DEF JobIsKnown, Command, Tracked
  <2>2. CASE u # t
    <3>1. Command(u) => job[u].token \in 1..(nextCmdToken' - 1)
      BY <1>3, <1>9 DEF TInv, JobsAreKnown, JobIsKnown
    <3>. QED  BY <1>1, <1>8, <2>2, <3>1 DEF TInv, JobsAreKnown, JobIsKnown, Command, connVars
  <2>. QED  BY <2>1, <2>2
<1>11. Pending' = IF fresh THEN Pending \ {t} ELSE Pending
  <2>1. t \notin Pending'
    BY <1>8 DEF Pending
  <2>2. fresh <=> t \in Pending
    BY <1>1 DEF Pending
  <2>. QED  BY <1>8, <2>1, <2>2 DEF Pending
<1>12. Counted' /\ nextCmdToken' \in 1..(calls' + 1)
  <2>1. CASE fresh
    BY <1>1, <1>3, <1>4, <1>9, <1>11, <2>1 DEF Counted
  <2>2. CASE ~fresh
    BY <1>1, <1>3, <1>11, <2>2 DEF Counted
  <2>. QED  BY <2>1, <2>2
<1>13. MapTypes'
  <2>1. \/ UNCHANGED <<reponses, node>>
        \/ \E a \in Addrs : /\ reponses' = [reponses EXCEPT ![token] = a]
                            /\ node' = [node EXCEPT ![a] = [token |-> token, call |-> job[t].call,
                                                            response |-> NoResponse]]
    BY DEF Enqueue
  <2>2. NoResponse \in Response
    BY DEF NoResponse, Response
  <2>3. [token |-> token, call |-> job[t].call, response |-> NoResponse] \in Node
    BY <1>2, <1>5, <2>2 DEF Node
  <2> HIDE DEF token
  <2>. QED  BY <2>1, <2>3 DEF TInv, MapTypes
<1>14. ThreadTypes' /\ CountTypes'
  <2>1. ThreadTypes'
    BY <1>7 DEF ThreadTypes
  <2>2. epoch \in Nat /\ epoch' = epoch
    BY <1>1 DEF TInv, CountTypes, connVars
  <2>3. calls' \in 0..MaxCalls
    BY <1>1, <1>3
  <2>. QED  BY <1>12, <2>1, <2>2, <2>3 DEF CountTypes
<1>15. WireTypes' /\ DispatchTypes' /\ AnsweredTypes' /\ ConnectTypes' /\ FlagTypes'
  BY <1>1, Zenon DEF TInv, WireTypes, DispatchTypes, AnsweredTypes, ConnectTypes, FlagTypes, connVars
<1>16. JobsAreKnown'
  BY <1>10 DEF JobsAreKnown
<1>. QED  BY <1>12, <1>13, <1>14, <1>15, <1>16 DEF TInv

\* What a step of a thread leaves as it is, if it neither touches the memory nor the connection
Quiet == UNCHANGED <<mapVars, connVars, nextCmdToken, dispatch, calls, answered>>

\* A thread which goes on with its call
LEMMA Moves ==
  ASSUME TInv, NEW t \in Threads, NEW x \in Tracked, NEW j \in Job,
         pc[t] \in Tracked, pc' = [pc EXCEPT ![t] = x], job' = [job EXCEPT ![t] = j],
         j.call = job[t].call, j.kind = job[t].kind, j.token = job[t].token, j.epoch = job[t].epoch,
         x \in {"check", "wait", "copy"} => j.addr \in Addrs,
         UNCHANGED <<nextCmdToken, calls, epoch>>
  PROVE  ThreadTypes' /\ Counted' /\ JobsAreKnown'
<1>1. pc'[t] = x /\ job'[t] = j
  BY DEF TInv, ThreadTypes
<1>2. JobIsKnown(t)'
  BY <1>1 DEF TInv, JobsAreKnown, JobIsKnown, Command
<1>3. x \in PCs /\ x # "enqueue" /\ pc[t] # "enqueue"
  BY DEF Tracked, PCs
<1>4. epoch' \in Nat /\ epoch <= epoch'
  BY DEF TInv, CountTypes
<1>. QED  BY <1>2, <1>3, <1>4, ThreadStep DEF ThreadTypes

\* A thread which returns from its call
LEMMA Returns ==
  ASSUME TInv, NEW t \in Threads, NEW hr, pc[t] # "enqueue", Return(t, hr),
         UNCHANGED <<nextCmdToken, calls, epoch>>
  PROVE  ThreadTypes' /\ Counted' /\ JobsAreKnown'
<1>1. pc' = [pc EXCEPT ![t] = "idle"] /\ job' = [job EXCEPT ![t] = NoJob]
  BY DEF Return
<1>2. pc'[t] = "idle" /\ job'[t] = NoJob
  BY <1>1 DEF TInv, ThreadTypes
<1>3. epoch' \in Nat /\ epoch <= epoch' /\ 0 <= epoch'
  BY DEF TInv, CountTypes
<1>4. JobIsKnown(t)'
  BY <1>2, <1>3 DEF JobIsKnown, Command, Tracked, NoJob
<1>5. "idle" \in PCs
  BY DEF PCs
<1>. QED  BY <1>1, <1>3, <1>4, <1>5, NoJobType, ThreadStep DEF ThreadTypes

\* A thread which goes on disconnecting
LEMMA Disconnects ==
  ASSUME TInv, NEW t \in Threads, NEW x \in {"idle", "disconnect", "cleared", "dropped", "callback"},
         pc[t] \in {"idle", "disconnect", "cleared", "dropped", "callback"},
         pc' = [pc EXCEPT ![t] = x], UNCHANGED <<job, nextCmdToken, calls>>,
         epoch' \in Nat, epoch <= epoch'
  PROVE  ThreadTypes' /\ Counted' /\ JobsAreKnown'
<1>1. job \in [Threads -> Job] /\ job[t] \in Job /\ job' = [job EXCEPT ![t] = job[t]]
  BY DEF TInv, ThreadTypes
<1>2. pc'[t] = x /\ job'[t] = job[t]
  BY DEF TInv, ThreadTypes
<1>3. job[t].epoch \in Nat /\ epoch \in Nat /\ job[t].epoch <= epoch
  BY <1>1 DEF TInv, CountTypes, JobsAreKnown, JobIsKnown, Job
<1>4. job[t].epoch <= epoch'
  BY <1>3
<1>5. JobIsKnown(t)'
  BY <1>2, <1>4 DEF JobIsKnown, Command, Tracked
<1>6. x \in PCs /\ x # "enqueue" /\ pc[t] # "enqueue"
  BY DEF PCs
<1>. QED  BY <1>1, <1>5, <1>6, ThreadStep DEF ThreadTypes

\* A command is written and has its record to find, or goes back to erase it.
LEMMA SendTypes ==
  ASSUME TInv, NEW t \in Threads, Send(t)
  PROVE  TInv'
<1>1. PICK ok \in {FALSE, IsConnected} :
         /\ wire' = IF ok THEN Append(wire, [token |-> job[t].token, for |-> job[t].call]) ELSE wire
         /\ job' = [job EXCEPT ![t].hr = IF ok THEN "None" ELSE "E_FAIL"]
         /\ pc' = [pc EXCEPT ![t] = AfterSend(ok)]
  BY DEF Send
<1>2. pc[t] = "send" /\ Quiet
  BY DEF Send, Quiet
<1> DEFINE j == [job[t] EXCEPT !.hr = IF ok THEN "None" ELSE "E_FAIL"]
<1>3. job[t] \in Job /\ JobIsKnown(t)
  BY DEF TInv, ThreadTypes, JobsAreKnown
<1>4. /\ j \in Job /\ j.call = job[t].call /\ j.kind = job[t].kind /\ j.token = job[t].token
      /\ j.epoch = job[t].epoch
  BY <1>3 DEF Job
<1>5. job' = [job EXCEPT ![t] = j] /\ AfterSend(ok) \in Tracked \ {"check", "wait", "copy"} /\ pc[t] \in Tracked
  BY <1>1, <1>2 DEF AfterSend, Tracked
<1>6. UNCHANGED <<nextCmdToken, calls, epoch>>
  BY <1>2 DEF Quiet, connVars
<1> HIDE DEF j
<1>7. ThreadTypes' /\ Counted' /\ JobsAreKnown'
  BY <1>1, <1>4, <1>5, <1>6, Moves
<1>8. WireTypes'
  <2>1. job[t].call \in CallIds
    BY <1>2, <1>3 DEF JobIsKnown, Tracked
  <2>2. job[t].token \in Tokens
    <3>1. job[t].kind = "command" => job[t].token \in 1..(nextCmdToken - 1)
      BY <1>2, <1>3 DEF JobIsKnown, Command, Tracked
    <3>2. job[t].kind = "command" => job[t].token # 0
      BY <3>1 DEF TInv, CountTypes
    <3>3. job[t].token \in Tokens \cup {0} /\ (job[t].kind # "command" => job[t].token \in RequestIds)
      BY <1>2, <1>3 DEF Job, JobIsKnown, Tracked
    <3>. QED  BY <3>2, <3>3 DEF Tokens
  <2>3. wire \in Seq(Message)
    BY DEF TInv, WireTypes
  <2>4. [token |-> job[t].token, for |-> job[t].call] \in Message
    BY <2>1, <2>2 DEF Message
  <2>5. wire' = Append(wire, [token |-> job[t].token, for |-> job[t].call]) \/ wire' = wire
    BY <1>1, Zenon
  <2>. QED  BY <2>3, <2>4, <2>5, AppendProperties DEF WireTypes
<1>9. MapTypes' /\ DispatchTypes' /\ CountTypes' /\ AnsweredTypes' /\ ConnectTypes' /\ FlagTypes'
  BY <1>2, Zenon
     DEF Quiet, TInv, MapTypes, DispatchTypes, CountTypes, AnsweredTypes, ConnectTypes, FlagTypes, mapVars, connVars
<1>. QED  BY <1>7, <1>8, <1>9 DEF TInv

\* What a quiet step of a waiting thread has left to show
LEMMA QuietTypes ==
  ASSUME TInv, Quiet, UNCHANGED wire, ThreadTypes', Counted', JobsAreKnown'
  PROVE  TInv'
BY Zenon DEF Quiet, TInv, MapTypes, DispatchTypes, CountTypes, AnsweredTypes, ConnectTypes, FlagTypes,
             WireTypes, mapVars, connVars

\* The record is found, or the call fails.
LEMMA FindTypes ==
  ASSUME TInv, NEW t \in Threads, Find(t)
  PROVE  TInv'
<1>1. pc[t] = "find" /\ Quiet /\ UNCHANGED wire
  BY DEF Find, Quiet
<1>2. UNCHANGED <<nextCmdToken, calls, epoch>>
  BY <1>1 DEF Quiet, connVars
<1>3. ThreadTypes' /\ Counted' /\ JobsAreKnown'
  <2>1. CASE Return(t, "E_FAIL")
    BY <1>1, <1>2, <2>1, Returns
  <2>2. CASE ~Return(t, "E_FAIL")
    <3> DEFINE a == reponses[job[t].token]
               j == [job[t] EXCEPT !.addr = a]
    <3>1. a # None /\ job' = [job EXCEPT ![t] = j] /\ pc' = [pc EXCEPT ![t] = "check"]
      BY <2>2 DEF Find
    <3>2. job[t] \in Job /\ JobIsKnown(t)
      BY DEF TInv, ThreadTypes, JobsAreKnown
    <3>3. job[t].token \in Tokens
      <4>1. job[t].kind = "command" => job[t].token \in 1..(nextCmdToken - 1)
        BY <1>1, <3>2 DEF JobIsKnown, Command, Tracked
      <4>2. job[t].kind = "command" => job[t].token # 0
        BY <4>1 DEF TInv, CountTypes
      <4>3. job[t].token \in Tokens \cup {0} /\ (job[t].kind # "command" => job[t].token \in RequestIds)
        BY <1>1, <3>2 DEF Job, JobIsKnown, Tracked
      <4>. QED  BY <4>2, <4>3 DEF Tokens
    <3>4. a \in Addrs
      BY <3>1, <3>3 DEF TInv, MapTypes
    <3>5. /\ j \in Job /\ j.call = job[t].call /\ j.kind = job[t].kind /\ j.token = job[t].token
          /\ j.epoch = job[t].epoch /\ j.addr = a
      BY <3>2, <3>4 DEF Job
    <3>6. "check" \in Tracked /\ pc[t] \in Tracked
      BY <1>1 DEF Tracked
    <3> HIDE DEF j, a
    <3>. QED  BY <1>2, <3>1, <3>4, <3>5, <3>6, Moves
  <2>. QED  BY <2>1, <2>2
<1>. QED  BY <1>1, <1>3, QuietTypes

\* The condition is evaluated, when the wait begins, when it is notified and when the time is up.
LEMMA WaitTypes ==
  ASSUME TInv, NEW t \in Threads, Check(t) \/ Wake(t) \/ TimeOut(t)
  PROVE  TInv'
<1>1. pc[t] \in {"check", "wait"} /\ Quiet /\ UNCHANGED wire
  BY DEF Check, Wake, TimeOut, Quiet
<1>2. UNCHANGED <<nextCmdToken, calls, epoch>>
  BY <1>1 DEF Quiet, connVars
<1>3. job[t] \in Job /\ JobIsKnown(t) /\ job \in [Threads -> Job]
  BY DEF TInv, ThreadTypes, JobsAreKnown
<1>4. PICK h \in {job[t].hr, "S_OK", "E_TIMEOUT"}, x \in {"wait", "copy", "erase"} :
         job' = [job EXCEPT ![t] = [job[t] EXCEPT !.hr = h]] /\ pc' = [pc EXCEPT ![t] = x]
  <2>1. job = [job EXCEPT ![t] = [job[t] EXCEPT !.hr = job[t].hr]]
    BY <1>3 DEF Job
  <2>2. CASE Check(t)
    BY <2>1, <2>2 DEF Check
  <2>3. CASE Wake(t) \/ TimeOut(t)
    BY <2>3 DEF Wake, TimeOut
  <2>. QED  BY <2>2, <2>3
<1> DEFINE j == [job[t] EXCEPT !.hr = h]
<1>5. /\ j \in Job /\ j.call = job[t].call /\ j.kind = job[t].kind /\ j.token = job[t].token
      /\ j.epoch = job[t].epoch /\ j.addr = job[t].addr
  BY <1>3 DEF Job
<1>6. x \in Tracked /\ pc[t] \in Tracked /\ j.addr \in Addrs
  BY <1>1, <1>3, <1>5 DEF Tracked, JobIsKnown
<1> HIDE DEF j
<1>7. job' = [job EXCEPT ![t] = j]
  BY <1>4 DEF j
<1>8. ThreadTypes' /\ Counted' /\ JobsAreKnown'
  BY <1>2, <1>4, <1>5, <1>6, <1>7, Moves
<1>. QED  BY <1>1, <1>8, QuietTypes

\* The response is copied.
LEMMA CopyTypes ==
  ASSUME TInv, NEW t \in Threads, Copy(t)
  PROVE  TInv'
<1>1. pc[t] = "copy" /\ Quiet /\ UNCHANGED wire
  BY DEF Copy, Quiet
<1>2. UNCHANGED <<nextCmdToken, calls, epoch>>
  BY <1>1 DEF Quiet, connVars
<1>3. job[t] \in Job /\ job[t].addr \in Addrs
  BY <1>1 DEF TInv, ThreadTypes, JobsAreKnown, JobIsKnown
<1>4. node[job[t].addr].response \in Response
  BY <1>3 DEF TInv, MapTypes, Node
<1> DEFINE j == [job[t] EXCEPT !.response = node[job[t].addr].response]
<1>5. /\ j \in Job /\ j.call = job[t].call /\ j.kind = job[t].kind /\ j.token = job[t].token
      /\ j.epoch = job[t].epoch
  BY <1>3, <1>4 DEF Job
<1>6. job' = [job EXCEPT ![t] = j] /\ pc' = [pc EXCEPT ![t] = "erase"]
  BY DEF Copy
<1>7. "erase" \in Tracked /\ pc[t] \in Tracked
  BY <1>1 DEF Tracked
<1> HIDE DEF j
<1>8. ThreadTypes' /\ Counted' /\ JobsAreKnown'
  BY <1>2, <1>5, <1>6, <1>7, Moves
<1>. QED  BY <1>1, <1>8, QuietTypes

\* The record is erased.
LEMMA EraseTypes ==
  ASSUME TInv, NEW t \in Threads, Erase(t)
  PROVE  TInv'
<1>1. /\ pc[t] = "erase" /\ Return(t, job[t].hr) /\ reponses' = [reponses EXCEPT ![job[t].token] = None]
      /\ UNCHANGED <<node, mtx, nextCmdToken, connVars, wire, dispatch, calls, answered>>
  BY DEF Erase, Erased
<1>2. ThreadTypes' /\ Counted' /\ JobsAreKnown'
  BY <1>1, Returns DEF connVars
<1>3. MapTypes'
  BY <1>1 DEF TInv, MapTypes
<1>4. WireTypes' /\ DispatchTypes' /\ CountTypes' /\ AnsweredTypes' /\ ConnectTypes' /\ FlagTypes'
  BY <1>1, Zenon
     DEF TInv, WireTypes, DispatchTypes, CountTypes, AnsweredTypes, ConnectTypes, FlagTypes, connVars
<1>. QED  BY <1>2, <1>3, <1>4 DEF TInv

\* disconnectServer(), step by step
LEMMA DisconnectTypes ==
  ASSUME TInv, NEW t \in Threads,
         Disconnect(t) \/ Clear(t) \/ DropServer(t) \/ SetStatus(t) \/ EndDisconnect(t)
  PROVE  TInv'
<1>1. /\ UNCHANGED <<node, nextCmdToken, acks, connects, job, wire, dispatch, calls, answered>>
      /\ pc[t] \in {"idle", "disconnect", "cleared", "dropped", "callback"}
      /\ \E x \in {"idle", "disconnect", "cleared", "dropped", "callback"} : pc' = [pc EXCEPT ![t] = x]
  BY Zenon DEF Disconnect, Clear, DropServer, SetStatus, EndDisconnect, mapVars, connVars
<1>2. epoch' \in Nat /\ epoch <= epoch'
  <2>1. epoch' = epoch \/ epoch' = epoch + 1
    BY Zenon DEF Disconnect, Clear, DropServer, SetStatus, EndDisconnect, mapVars, connVars
  <2>. QED  BY <2>1 DEF TInv, CountTypes
<1>3. ThreadTypes' /\ Counted' /\ JobsAreKnown'
  BY <1>1, <1>2, Disconnects
<1>4. MapTypes'
  <2>1. reponses' = reponses \/ reponses' = [k \in Tokens |-> None]
    BY Zenon DEF Disconnect, Clear, DropServer, SetStatus, EndDisconnect, mapVars
  <2>. QED  BY <1>1, <2>1 DEF TInv, MapTypes
<1>5. FlagTypes'
  BY Zenon DEF TInv, FlagTypes, Disconnect, Clear, DropServer, SetStatus, EndDisconnect, mapVars, connVars
<1>6. CountTypes'
  BY <1>1, <1>2 DEF TInv, CountTypes
<1>7. WireTypes' /\ DispatchTypes' /\ AnsweredTypes' /\ ConnectTypes'
  BY <1>1, Zenon DEF TInv, WireTypes, DispatchTypes, AnsweredTypes, ConnectTypes
<1>. QED  BY <1>3, <1>4, <1>5, <1>6, <1>7 DEF TInv

\* Parts which the steps of the other threads leave alone
LEMMA OthersTypes ==
  ASSUME TInv, UNCHANGED <<nextCmdToken, epoch, pc, job, calls>>
  PROVE  ThreadTypes' /\ CountTypes' /\ Counted' /\ JobsAreKnown'
<1>1. Counted' /\ JobsAreKnown'
  BY OtherStep
<1>. QED  BY <1>1, Zenon DEF TInv, ThreadTypes, CountTypes

\* An answer arrives.
LEMMA ReceiveTypes ==
  ASSUME TInv, NEW id \in {"Ack", "Nak"}, Receive(id)
  PROVE  TInv'
<1>1. wire # <<>> /\ wire' = Tail(wire) /\ UNCHANGED <<mapVars, nextCmdToken, connVars, pc, job, result, calls>>
  BY DEF Receive
<1>2. ThreadTypes' /\ CountTypes' /\ Counted' /\ JobsAreKnown'
  BY <1>1, OthersTypes DEF connVars
<1>3. wire \in Seq(Message)
  BY DEF TInv, WireTypes
<1>4. Head(wire) \in Message /\ WireTypes'
  BY <1>1, <1>3, HeadTailProperties DEF WireTypes
<1>5. DispatchTypes' /\ AnsweredTypes'
  <2> DEFINE answer == [id |-> id, token |-> Head(wire).token, for |-> Head(wire).for]
             a == reponses[answer.token]
  <2>1. answer \in Response /\ answer.for \in CallIds
    BY <1>4 DEF Response, Message
  <2>2. a \in Addrs \cup {None}
    BY <1>4 DEF TInv, MapTypes, Message
  <2>3. \/ answered' = answered \cup {answer.for} /\ UNCHANGED dispatch
        \/ dispatch' = [at |-> "found", addr |-> a, response |-> answer] /\ UNCHANGED answered
    BY DEF Receive
  <2> HIDE DEF a, answer
  <2>. QED  BY <2>1, <2>2, <2>3 DEF TInv, DispatchTypes, AnsweredTypes
<1>6. MapTypes' /\ ConnectTypes' /\ FlagTypes'
  BY <1>1, Zenon DEF TInv, MapTypes, ConnectTypes, FlagTypes, mapVars, connVars
<1>. QED  BY <1>2, <1>4, <1>5, <1>6 DEF TInv

\* It is stored, or the record is found to be expired and erased.  The wire carries calls only, so the
\* responses under way belong to calls.
Dealing == dispatch.at # "idle" => dispatch.addr \in Addrs /\ dispatch.response.for \in CallIds
                                   /\ dispatch.response.token \in Tokens

LEMMA StoreTypes ==
  ASSUME TInv, Dealing, Store \/ EraseExpired
  PROVE  TInv'
<1>1. /\ dispatch.at # "idle"
      /\ UNCHANGED <<mtx, nextCmdToken, connVars, pc, job, result, wire, calls>>
  BY DEF Store, EraseExpired
<1>2. ThreadTypes' /\ CountTypes' /\ Counted' /\ JobsAreKnown'
  BY <1>1, OthersTypes DEF connVars
<1>3. /\ dispatch \in [at: {"idle", "found", "expired"}, addr: Addrs \cup {None}, response: Response]
      /\ dispatch.response \in Response /\ dispatch.response.for \in CallIds
      /\ dispatch.response.token \in Tokens /\ dispatch.addr \in Addrs
  BY <1>1 DEF TInv, DispatchTypes, Dealing
<1>4. NoDispatch \in [at: {"idle", "found", "expired"}, addr: Addrs \cup {None}, response: Response]
  BY DEF NoDispatch, NoResponse, Response
<1>5. DispatchTypes'
  <2>1. dispatch' = NoDispatch \/ dispatch' = [dispatch EXCEPT !.at = "expired"]
    BY DEF Store, EraseExpired
  <2>. QED  BY <1>3, <1>4, <2>1 DEF DispatchTypes
<1>6. AnsweredTypes'
  <2>1. answered' = answered \cup {dispatch.response.for} \/ answered' = answered
    BY DEF Store, EraseExpired
  <2>. QED  BY <1>3, <2>1 DEF TInv, AnsweredTypes
<1>7. MapTypes'
  <2>1. \/ UNCHANGED <<reponses, node>>
        \/ reponses' = reponses /\ node' = [node EXCEPT ![dispatch.addr].response = dispatch.response]
        \/ reponses' = [reponses EXCEPT ![dispatch.response.token] = None] /\ node' = node
    BY DEF Store, EraseExpired, Erased
  <2>. QED  BY <1>3, <2>1 DEF TInv, MapTypes, Node
<1>8. WireTypes' /\ ConnectTypes' /\ FlagTypes'
  BY <1>1, Zenon DEF TInv, WireTypes, ConnectTypes, FlagTypes, connVars
<1>. QED  BY <1>2, <1>5, <1>6, <1>7, <1>8 DEF TInv

\* connectServer(), as far as it is modelled
LEMMA ConnectTypesStep ==
  ASSUME TInv, StartConnect \/ ConnectAck \/ EndConnect
  PROVE  TInv'
<1>1. UNCHANGED <<mapVars, nextCmdToken, epoch, pc, job, wire, dispatch, calls, answered>>
  BY DEF StartConnect, ConnectAck, EndConnect
<1>2. ThreadTypes' /\ CountTypes' /\ Counted' /\ JobsAreKnown'
  BY <1>1, OthersTypes
<1>3. ConnectTypes'
  <2>1. \/ acks' = acks + 1 /\ connects' = connects + 1 /\ connects < MaxConnects
        \/ acks' = acks - 1 /\ acks > 0 /\ connects' = connects
        \/ UNCHANGED <<acks, connects>>
    BY DEF StartConnect, ConnectAck, EndConnect
  <2>2. MaxConnects \in Nat
    BY TrackingConstants
  <2>. QED  BY <2>1, <2>2 DEF TInv, ConnectTypes
<1>4. FlagTypes'
  BY Zenon DEF TInv, FlagTypes, StartConnect, ConnectAck, EndConnect, mapVars
<1>5. MapTypes' /\ WireTypes' /\ DispatchTypes' /\ AnsweredTypes'
  BY <1>1, Zenon DEF TInv, MapTypes, WireTypes, DispatchTypes, AnsweredTypes, mapVars
<1>. QED  BY <1>2, <1>3, <1>4, <1>5 DEF TInv

--------------------------------------------------------------------------------
\* The type invariant

\* Only the dispatch thread's own steps change what it is at.
LEMMA DispatchSteps ==
  ASSUME Next
  PROVE  UNCHANGED dispatch \/ (\E id \in {"Ack", "Nak"} : Receive(id)) \/ Store \/ EraseExpired
BY Zenon DEF Next, Step, SendCommandWithResponse, SendDataRequest, Enqueue, Send, Find, Check, Wake, TimeOut, Copy,
             Erase, Disconnect, Clear, DropServer, SetStatus, CallFromCallback, EndDisconnect, StartConnect,
             ConnectAck, EndConnect

\* The answer under way belongs to a call, and its address was found in the map.
LEMMA DealingStep ==
  ASSUME TInv, Dealing, Next
  PROVE  Dealing'
<1>1. CASE UNCHANGED dispatch
  BY <1>1, Zenon DEF Dealing
<1>2. ASSUME NEW id \in {"Ack", "Nak"}, Receive(id)
      PROVE  Dealing'
  <2>1. wire # <<>> /\ wire \in Seq(Message)
    BY <1>2 DEF Receive, TInv, WireTypes
  <2>2. Head(wire) \in Message
    BY <2>1, HeadTailProperties
  <2>3. Head(wire).token \in Tokens /\ Head(wire).for \in CallIds
    BY <2>2 DEF Message
  <2> DEFINE answer == [id |-> id, token |-> Head(wire).token, for |-> Head(wire).for]
             a == reponses[Head(wire).token]
  <2>4. \/ UNCHANGED dispatch
        \/ a # None /\ dispatch' = [at |-> "found", addr |-> a, response |-> answer]
    BY <1>2 DEF Receive
  <2>5. a \in Addrs \cup {None}
    BY <2>3 DEF TInv, MapTypes
  <2>6. answer.for \in CallIds /\ answer.token \in Tokens
    BY <2>3
  <2> HIDE DEF answer, a
  <2>. QED  BY <2>4, <2>5, <2>6 DEF Dealing
<1>3. CASE Store
  <2>1. dispatch' = NoDispatch \/ (dispatch.at # "idle" /\ dispatch' = [dispatch EXCEPT !.at = "expired"])
    BY <1>3 DEF Store
  <2>2. dispatch \in [at: {"idle", "found", "expired"}, addr: Addrs \cup {None}, response: Response]
    BY DEF TInv, DispatchTypes
  <2>. QED  BY <2>1, <2>2 DEF Dealing, NoDispatch
<1>4. CASE EraseExpired
  BY <1>4 DEF EraseExpired, Dealing, NoDispatch
<1>. QED  BY <1>1, <1>2, <1>3, <1>4, DispatchSteps

\* Every step keeps the types.
LEMMA NextTypes ==
  ASSUME TInv, Dealing, Next
  PROVE  TInv'
BY SendCommandTypes, SendDataRequestTypes, EnqueueTypes, SendTypes, FindTypes, WaitTypes, CopyTypes, EraseTypes,
   DisconnectTypes, ReceiveTypes, StoreTypes, ConnectTypesStep DEF Next, Step

LEMMA StutterTypes ==
  ASSUME TInv, Dealing, UNCHANGED vars
  PROVE  TInv' /\ Dealing'
<1>1. UNCHANGED <<nextCmdToken, epoch, pc, job, calls>>
  BY DEF vars, connVars
<1>2. ThreadTypes' /\ CountTypes' /\ Counted' /\ JobsAreKnown'
  BY <1>1, OthersTypes
<1>3. MapTypes' /\ WireTypes' /\ DispatchTypes' /\ AnsweredTypes' /\ ConnectTypes' /\ FlagTypes' /\ Dealing'
  BY Zenon DEF vars, mapVars, connVars, TInv, MapTypes, WireTypes, DispatchTypes, AnsweredTypes, ConnectTypes,
               FlagTypes, Dealing
<1>. QED  BY <1>2, <1>3 DEF TInv

\* The two together are inductive.
LEMMA TypesHold == Spec => [](TInv /\ Dealing)
<1>1. Init => TInv /\ Dealing
  BY InitTypes DEF Init, Dealing, NoDispatch
<1>2. TInv /\ Dealing /\ [Next]_vars => TInv' /\ Dealing'
  BY NextTypes, DealingStep, StutterTypes
<1>. QED  BY <1>1, <1>2, PTL DEF Spec

\* Every token, address, call and response in the state is one of the system: in particular the
\* counter of tokens never runs ahead of the calls (WASimClient.cpp:767).
THEOREM TrackingTypeCorrect == Spec => []TypeOK
<1>1. TInv => TypeOK
  BY DEF TInv, TypeOK, MapTypes, ThreadTypes, WireTypes, DispatchTypes, CountTypes, ConnectTypes, FlagTypes,
         AnsweredTypes, PCs, Job, Node, Message
<1>. QED  BY <1>1, TypesHold, PTL

--------------------------------------------------------------------------------
\* Who is in the map

Same(u) == /\ job'[u].call = job[u].call /\ job'[u].token = job[u].token
           /\ job'[u].kind = job[u].kind /\ job'[u].epoch = job[u].epoch

\* A thread in a call goes on with it.
LEMMA Going ==
  ASSUME TInv, NEW t \in Threads,
         \/ Send(t) \/ Check(t) \/ Wake(t) \/ TimeOut(t) \/ Copy(t)
         \/ (Find(t) /\ ~Return(t, "E_FAIL"))
  PROVE  pc[t] \in Tracked /\ pc'[t] \in Tracked /\ Same(t)
<1>1. pc[t] \in Tracked
  BY DEF Send, Check, Wake, TimeOut, Copy, Find, Tracked
<1>2. \E x \in Tracked : pc' = [pc EXCEPT ![t] = x]
  BY DEF Send, AfterSend, Check, Wake, TimeOut, Copy, Find, Tracked
<1>3. \/ UNCHANGED job
      \/ \E h : job' = [job EXCEPT ![t].hr = h] \/ job' = [job EXCEPT ![t].addr = h]
                \/ job' = [job EXCEPT ![t].response = h]
  BY Zenon DEF Send, Check, Wake, TimeOut, Copy, Find
<1>4. job \in [Threads -> Job] /\ pc \in [Threads -> PCs]
  BY DEF TInv, ThreadTypes
<1>5. Same(t)
  BY <1>3, <1>4 DEF Same, Job
<1>. QED  BY <1>1, <1>2, <1>4, <1>5

\* What a thread does to itself
ActsAs(t) ==
    \/ SendCommandWithResponse(t) \/ (\E r \in RequestIds : SendDataRequest(t, r))
    \/ Disconnect(t) \/ CallFromCallback(t) \/ Step(t)

\* A thread changes its own place only.
LEMMA Frame ==
  ASSUME TInv, NEW t \in Threads, ActsAs(t), NEW u \in Threads, u # t
  PROVE  pc'[u] = pc[u] /\ job'[u] = job[u]
<1>1. \E x : pc' = [pc EXCEPT ![t] = x]
  BY Zenon DEF ActsAs, Step, SendCommandWithResponse, SendDataRequest, Begin, Enqueue, Send, Find, Return, Check,
               Wake, TimeOut, Copy, Erase, Disconnect, Clear, DropServer, SetStatus, CallFromCallback, EndDisconnect
<1>2. UNCHANGED job \/ \E j : job' = [job EXCEPT ![t] = j]
  <2>1. CASE SendCommandWithResponse(t) \/ (\E r \in RequestIds : SendDataRequest(t, r)) \/ CallFromCallback(t)
    BY <2>1, Zenon DEF SendCommandWithResponse, SendDataRequest, CallFromCallback, Begin
  <2>2. CASE Enqueue(t)
    BY <2>2 DEF Enqueue
  <2>3. CASE Send(t)
    BY <2>3 DEF Send
  <2>4. CASE Find(t)
    BY <2>4 DEF Find, Return
  <2>5. CASE Check(t) \/ Wake(t) \/ TimeOut(t) \/ Copy(t)
    BY <2>5 DEF Check, Wake, TimeOut, Copy
  <2>6. CASE Erase(t)
    BY <2>6, Zenon DEF Erase, Return
  <2>7. CASE Disconnect(t) \/ Clear(t) \/ DropServer(t) \/ SetStatus(t) \/ EndDisconnect(t)
    BY <2>7, Zenon DEF Disconnect, Clear, DropServer, SetStatus, EndDisconnect
  <2>. QED  BY <2>1, <2>2, <2>3, <2>4, <2>5, <2>6, <2>7 DEF ActsAs, Step
<1>3. job \in [Threads -> Job] /\ pc \in [Threads -> PCs]
  BY DEF TInv, ThreadTypes
<1>. QED  BY <1>1, <1>2, <1>3

\* The other steps leave the threads where they are.
LEMMA OtherFrame ==
  ASSUME Next, \A t \in Threads : ~ActsAs(t)
  PROVE  UNCHANGED <<pc, job, reponses>> \/ (UNCHANGED <<pc, job>> /\ EraseExpired)
BY Zenon DEF Next, ActsAs, Receive, Store, EraseExpired, StartConnect, ConnectAck, EndConnect, mapVars

\* A thread that has its place in the map after a step rests, goes on with its call, or enqueues now.
LEMMA TrackedCases ==
  ASSUME TInv, Next, NEW u \in Threads, pc'[u] \in Tracked, ~Enqueue(u)
  PROVE  \/ pc'[u] = pc[u] /\ job'[u] = job[u]
         \/ Send(u) \/ Check(u) \/ Wake(u) \/ TimeOut(u) \/ Copy(u)
         \/ (Find(u) /\ ~Return(u, "E_FAIL"))
<1>1. CASE ActsAs(u)
  <2>1. pc \in [Threads -> PCs] /\ job \in [Threads -> Job]
    BY DEF TInv, ThreadTypes
  <2>2. CASE ~(Send(u) \/ Check(u) \/ Wake(u) \/ TimeOut(u) \/ Copy(u) \/ (Find(u) /\ ~Return(u, "E_FAIL")))
    <3>1. \E x \in {"enqueue", "idle", "disconnect", "cleared", "dropped", "callback"} : pc' = [pc EXCEPT ![u] = x]
      BY <1>1, <2>2, Zenon
         DEF ActsAs, Step, SendCommandWithResponse, SendDataRequest, Begin, Return, Erase, Disconnect, Clear,
             DropServer, SetStatus, CallFromCallback, EndDisconnect
    <3>. QED  BY <2>1, <3>1 DEF Tracked
  <2>. QED  BY <2>2
<1>2. ASSUME NEW t \in Threads, ActsAs(t), t # u
      PROVE  pc'[u] = pc[u] /\ job'[u] = job[u]
  BY <1>2, Frame
<1>3. CASE \A t \in Threads : ~ActsAs(t)
  BY <1>3, OtherFrame
<1>. QED  BY <1>1, <1>2, <1>3

\* It had that place before, for the same call, unless it enqueues now.
LEMMA TrackedStay ==
  ASSUME TInv, Next, NEW u \in Threads, pc'[u] \in Tracked, ~Enqueue(u)
  PROVE  pc[u] \in Tracked /\ Same(u)
BY TrackedCases, Going DEF Same

\* A thread gives its place up by erasing its record or by finding none.
LEMMA TrackedLeave ==
  ASSUME TInv, Next, NEW u \in Threads, pc[u] \in Tracked, pc'[u] \notin Tracked
  PROVE  Erase(u) \/ (Find(u) /\ Return(u, "E_FAIL"))
<1>1. CASE ActsAs(u)
  <2>1. CASE Send(u) \/ Check(u) \/ Wake(u) \/ TimeOut(u) \/ Copy(u) \/ (Find(u) /\ ~Return(u, "E_FAIL"))
    BY <2>1, Going
  <2>2. pc[u] \notin {"idle", "enqueue", "disconnect", "cleared", "dropped", "callback"}
    BY DEF Tracked
  <2>3. Send(u) \/ Check(u) \/ Wake(u) \/ TimeOut(u) \/ Copy(u) \/ Find(u) \/ Erase(u)
    BY <1>1, <2>2, Zenon
       DEF ActsAs, Step, SendCommandWithResponse, SendDataRequest, Enqueue, Disconnect, Clear,
           DropServer, SetStatus, CallFromCallback, EndDisconnect
  <2>. QED  BY <2>1, <2>3
<1>2. ASSUME NEW t \in Threads, ActsAs(t), t # u
      PROVE  FALSE
  BY <1>2, Frame
<1>3. CASE \A t \in Threads : ~ActsAs(t)
  BY <1>3, OtherFrame
<1>. QED  BY <1>1, <1>2, <1>3

\* The map changes by a new record, by the record of a returning call, by the clearing, or by an expired one.
LEMMA MapSteps ==
  ASSUME Next
  PROVE  \/ UNCHANGED reponses
         \/ \E t \in Threads : Enqueue(t) \/ Erase(t) \/ Clear(t)
         \/ EraseExpired
BY Zenon DEF Next, Step, SendCommandWithResponse, SendDataRequest, Send, Find, Check, Wake, TimeOut, Copy,
             Disconnect, DropServer, SetStatus, CallFromCallback, EndDisconnect, Receive, Store, StartConnect,
             ConnectAck, EndConnect, mapVars

\* The memory changes by a new record and by an answer.
LEMMA NodeSteps ==
  ASSUME Next
  PROVE  UNCHANGED node \/ (\E t \in Threads : Enqueue(t)) \/ Store
BY Zenon DEF Next, Step, SendCommandWithResponse, SendDataRequest, Send, Find, Check, Wake, TimeOut, Copy, Erase,
             Disconnect, Clear, DropServer, SetStatus, CallFromCallback, EndDisconnect, Receive, EraseExpired,
             StartConnect, ConnectAck, EndConnect, mapVars

\* A new record at a free address, or the one there already
LEMMA EnqueueShape ==
  ASSUME TInv, NEW t \in Threads, Enqueue(t)
  PROVE  LET token == job'[t].token IN
         /\ token \in Tokens /\ pc'[t] \in Tracked /\ job'[t].call = job[t].call
         /\ job'[t].kind = job[t].kind /\ job'[t].epoch = job[t].epoch
         /\ token = IF job[t].kind = "command" THEN nextCmdToken ELSE job[t].token
         /\ \/ reponses[token] # None /\ UNCHANGED <<reponses, node>>
            \/ \E a \in Addrs :
                 /\ \A k \in Tokens : reponses[k] # a
                 /\ reponses[token] = None
                 /\ reponses' = [reponses EXCEPT ![token] = a]
                 /\ node' = [node EXCEPT ![a] = [token |-> token, call |-> job[t].call,
                                                 response |-> NoResponse]]
<1> DEFINE token == IF job[t].kind = "command" THEN nextCmdToken ELSE job[t].token
<1>1. /\ job' = [job EXCEPT ![t].token = token]
      /\ pc' = [pc EXCEPT ![t] = IF job[t].kind = "command" THEN "send" ELSE "find"]
      /\ IF reponses[token] # None
         THEN UNCHANGED <<reponses, node>>
         ELSE \E a \in {b \in Addrs : \A k \in Tokens : reponses[k] # b} :
                /\ reponses' = [reponses EXCEPT ![token] = a]
                /\ node' = [node EXCEPT ![a] = [token |-> token, call |-> job[t].call, response |-> NoResponse]]
  BY DEF Enqueue
<1>2. job[t] \in Job /\ job \in [Threads -> Job] /\ pc \in [Threads -> PCs]
  BY DEF TInv, ThreadTypes
<1>3. TInv'
  BY EnqueueTypes
<1> HIDE DEF token
<1>4. /\ job'[t].token = token /\ job'[t].call = job[t].call /\ job'[t].kind = job[t].kind
      /\ job'[t].epoch = job[t].epoch /\ pc'[t] \in Tracked
  BY <1>1, <1>2 DEF Job, Tracked
<1>5. token \in Tokens
  <2>1. job'[t] \in Job /\ JobIsKnown(t)'
    BY <1>3 DEF TInv, ThreadTypes, JobsAreKnown
  <2>2. token \in Tokens \cup {0}
    BY <1>4, <2>1 DEF Job
  <2>3. job[t].kind = "command" => token # 0
    BY DEF token, TInv, CountTypes
  <2>4. job[t].kind # "command" => token \in RequestIds
    BY <1>4, <2>1 DEF JobIsKnown
  <2>. QED  BY <2>2, <2>3, <2>4 DEF Tokens
<1>6. token = IF job[t].kind = "command" THEN nextCmdToken ELSE job[t].token
  BY DEF token
<1>. QED  BY <1>1, <1>4, <1>5, <1>6, Zenon

\* Without a new record the map only shrinks.
LEMMA MapShrinks ==
  ASSUME TInv, Next, \A t \in Threads : ~Enqueue(t), NEW k \in Tokens, reponses'[k] # None
  PROVE  reponses'[k] = reponses[k]
<1>1. reponses \in [Tokens -> Addrs \cup {None}]
  BY DEF TInv, MapTypes
<1>2. CASE \E t \in Threads : Erase(t) \/ Clear(t)
  BY <1>1, <1>2 DEF Erase, Erased, Clear
<1>3. CASE EraseExpired
  BY <1>1, <1>3 DEF EraseExpired, Erased
<1>. QED  BY <1>2, <1>3, MapSteps

\* Every record in the map was made by a call which has not returned and goes by the same token.
Holds(t, k) == pc[t] \in Tracked /\ job[t].token = k /\ job[t].call = node[reponses[k]].call
MadeByLiving == \A k \in Tokens : reponses[k] # None => \E t \in Threads : Holds(t, k)

LEMMA LivingStep ==
  ASSUME TInv, Dealing, MadeByLiving, Next
  PROVE  MadeByLiving'
<1>1. TInv'
  BY NextTypes
<1>2. ASSUME NEW t \in Threads, Enqueue(t), NEW k \in Tokens, reponses'[k] # None
      PROVE  \E u \in Threads : Holds(u, k)'
  <2> DEFINE token == job'[t].token
  <2>1. /\ token \in Tokens /\ pc'[t] \in Tracked /\ job'[t].call = job[t].call
        /\ \/ UNCHANGED <<reponses, node>>
           \/ \E a \in Addrs :
                /\ \A l \in Tokens : reponses[l] # a
                /\ reponses' = [reponses EXCEPT ![token] = a]
                /\ node' = [node EXCEPT ![a] = [token |-> token, call |-> job[t].call, response |-> NoResponse]]
    BY <1>2, EnqueueShape
  <2>2. \A u \in Threads : u # t => pc'[u] = pc[u] /\ job'[u] = job[u]
    BY <1>2, Frame DEF ActsAs, Step
  <2>3. pc[t] \notin Tracked
    BY <1>2 DEF Enqueue, Tracked
  <2>4. ASSUME reponses'[k] = reponses[k], node'[reponses[k]] = node[reponses[k]]
        PROVE  \E u \in Threads : Holds(u, k)'
    <3>1. PICK u \in Threads : Holds(u, k)
      BY <1>2, <2>4 DEF MadeByLiving
    <3>2. u # t
      BY <2>3, <3>1 DEF Holds
    <3>. QED  BY <2>2, <2>4, <3>1, <3>2 DEF Holds
  <2>5. CASE UNCHANGED <<reponses, node>>
    BY <2>4, <2>5
  <2>6. ASSUME NEW a \in Addrs,
               \A l \in Tokens : reponses[l] # a,
               reponses' = [reponses EXCEPT ![token] = a],
               node' = [node EXCEPT ![a] = [token |-> token, call |-> job[t].call, response |-> NoResponse]]
        PROVE  \E u \in Threads : Holds(u, k)'
    <3>1. reponses \in [Tokens -> Addrs \cup {None}] /\ node \in [Addrs -> Node]
      BY DEF TInv, MapTypes
    <3>2. CASE k = token
      <4>1. reponses'[k] = a
        BY <2>6, <3>1, <3>2
      <4>2. node'[a].call = job'[t].call
        BY <2>1, <2>6, <3>1
      <4>. QED  BY <2>1, <3>2, <4>1, <4>2 DEF Holds
    <3>3. CASE k # token
      <4>1. reponses'[k] = reponses[k] /\ reponses[k] # a
        BY <2>6, <3>1, <3>3
      <4>2. node'[reponses[k]] = node[reponses[k]]
        BY <1>2, <2>6, <3>1, <4>1
      <4>. QED  BY <2>4, <4>1, <4>2
    <3>. QED  BY <3>2, <3>3
  <2>. QED  BY <2>1, <2>5, <2>6
<1>3. ASSUME NEW k \in Tokens, reponses'[k] # None, \A t \in Threads : ~Enqueue(t)
      PROVE  \E u \in Threads : Holds(u, k)'
  <2>1. reponses \in [Tokens -> Addrs \cup {None}] /\ node \in [Addrs -> Node]
    BY DEF TInv, MapTypes
  <2>2. reponses'[k] = reponses[k]
    BY <1>3, MapShrinks
  <2>3. node'[reponses[k]].call = node[reponses[k]].call
    <3>1. reponses[k] \in Addrs
      BY <1>3, <2>1, <2>2
    <3>2. CASE Store
      BY <2>1, <3>1, <3>2 DEF Store, Node
    <3>. QED  BY <1>3, <3>2, NodeSteps
  <2>4. PICK u \in Threads : Holds(u, k)
    BY <1>3, <2>2 DEF MadeByLiving
  <2>5. pc'[u] \in Tracked
    <3>1. CASE Erase(u)
      BY <1>3, <2>1, <2>4, <3>1 DEF Erase, Erased, Holds
    <3>2. CASE Find(u) /\ Return(u, "E_FAIL")
      <4>1. CvLives(reponses[job[u].token])
        BY <2>4 DEF CvLives, Holds, Tracked
      <4>2. reponses[job[u].token] # None
        BY <1>3, <2>2, <2>4 DEF Holds
      <4>3. pc' = [pc EXCEPT ![u] = "check"]
        BY <3>2, <4>1, <4>2, Zenon DEF Find
      <4>4. pc' = [pc EXCEPT ![u] = "idle"] /\ pc \in [Threads -> PCs]
        BY <3>2 DEF Return, TInv, ThreadTypes
      <4>. QED  BY <4>3, <4>4 DEF Tracked
    <3>. QED  BY <2>4, <3>1, <3>2, TrackedLeave DEF Holds
  <2>6. Same(u)
    BY <1>3, <2>5, TrackedStay
  <2>. QED  BY <2>2, <2>3, <2>4, <2>5, <2>6 DEF Holds, Same
<1>. QED  BY <1>2, <1>3 DEF MadeByLiving

\* However calls end (answer, timeout, refusal, disconnection), no record of a call stays behind
\* in the map of tracked responses (WASimClient.cpp:780-850).
THEOREM NoResponseLeaks == Spec => []NothingLeaks
<1>1. Init => MadeByLiving
  BY DEF Init, MadeByLiving
<1>2. TInv /\ Dealing /\ MadeByLiving /\ [Next]_vars => MadeByLiving'
  <2>1. TInv /\ Dealing /\ MadeByLiving /\ UNCHANGED vars => MadeByLiving'
    BY Zenon DEF vars, mapVars, MadeByLiving, Holds
  <2>. QED  BY <2>1, LivingStep
<1>3. MadeByLiving => NothingLeaks
  <2>1. ASSUME NEW t \in Threads, NEW k, Holds(t, k)
        PROVE  pc[t] # "idle" /\ job[t].token = k
    BY <2>1 DEF Holds, Tracked
  <2>. QED  BY <2>1 DEF MadeByLiving, NothingLeaks
<1>. QED  BY <1>1, <1>2, <1>3, TypesHold, PTL DEF Spec

--------------------------------------------------------------------------------
\* The answer to a command is its own

\* The application's request ids are not the tokens of commands: both are keys of the one map
\* (WASimClient.cpp:1098), and only then is a token the key of one call.
Disjoint == RequestIds \cap CallIds = {}

\* A command since whose beginning the server connection has stayed
Undisturbed(t) == Command(t) /\ job[t].epoch = epoch

\* Tokens are given to one command each, and responses carry tokens that were given.
Unique == \A t, u \in Threads : Command(t) /\ Command(u) /\ job[t].token = job[u].token => t = u

Issued(k) == k \in RequestIds \/ k < nextCmdToken
Fits(r)   == /\ Issued(r.token)
             /\ \A t \in Threads : Command(t) /\ job[t].token = r.token => r.for = job[t].call

AllFit ==
    /\ \A i \in 1..Len(wire) : Fits(wire[i])
    /\ Fits(dispatch.response)
    /\ \A a \in Addrs : Fits(node[a].response)
    /\ \A k \in Tokens : reponses[k] # None => Issued(k)

\* The same of the state after a step, for a response that is given
FitsNext(r) == /\ r.token \in RequestIds \/ r.token < nextCmdToken'
               /\ \A t \in Threads : Command(t)' /\ job'[t].token = r.token => r.for = job'[t].call

LEMMA TokenTypes ==
  ASSUME NEW r, r \in Response \cup Message
  PROVE  r.token \in Nat
<1>1. r.token \in Tokens \cup {0}
  BY DEF Response, Message
<1>2. RequestIds \subseteq Nat
  BY TrackingConstants
<1>3. \A n \in 1..MaxCalls : n \in Nat
  OBVIOUS
<1>4. r.token \in RequestIds \/ r.token \in 1..MaxCalls \/ r.token = 0
  BY <1>1, Zenon DEF Tokens
<1>5. 0 \in Nat
  OBVIOUS
<1>. QED  BY <1>2, <1>3, <1>4, <1>5, Zenon

LEMMA EnqueueAlone ==
  ASSUME TInv, NEW t \in Threads, Enqueue(t), NEW u \in Threads, u # t
  PROVE  ~Enqueue(u)
<1>1. pc'[u] = pc[u]
  BY Frame DEF ActsAs, Step
<1>2. ASSUME Enqueue(u) PROVE FALSE
  <2>1. pc[u] = "enqueue" /\ pc'[u] \in Tracked
    BY <1>2, EnqueueShape DEF Enqueue
  <2>. QED  BY <1>1, <2>1 DEF Tracked
<1>. QED  BY <1>2

\* The token of a command is one of the calls, and already given.
LEMMA CommandToken ==
  ASSUME TInv, NEW t \in Threads, Command(t)
  PROVE  job[t].token \in CallIds /\ job[t].token < nextCmdToken /\ job[t].token # 0 /\ nextCmdToken \in Nat
<1>1. job[t].token \in 1..(nextCmdToken - 1)
  BY DEF TInv, JobsAreKnown, JobIsKnown
<1>2. nextCmdToken \in 1..(calls + 1) /\ calls \in 0..MaxCalls /\ MaxCalls \in Nat
  BY TrackingConstants DEF TInv, CountTypes
<1>. QED  BY <1>1, <1>2 DEF CallIds

\* The counter of tokens does not go back.
LEMMA TokensGrow ==
  ASSUME TInv, Next
  PROVE  nextCmdToken \in Nat /\ nextCmdToken' \in Nat /\ nextCmdToken <= nextCmdToken'
<1>1. UNCHANGED nextCmdToken \/ \E t \in Threads : Enqueue(t)
  BY Zenon DEF Next, Step, SendCommandWithResponse, SendDataRequest, Send, Find, Check, Wake, TimeOut, Copy, Erase,
               Disconnect, Clear, DropServer, SetStatus, CallFromCallback, EndDisconnect, Receive, Store,
               EraseExpired, StartConnect, ConnectAck, EndConnect
<1>2. nextCmdToken' = nextCmdToken \/ nextCmdToken' = nextCmdToken + 1
  BY <1>1 DEF Enqueue, TokenAfter
<1>. QED  BY <1>2 DEF TInv, CountTypes

\* A new token is larger than those given.
LEMMA NewToken ==
  ASSUME TInv, Dealing, Next, NEW t \in Threads, Enqueue(t), Command(t)'
  PROVE  job'[t].token = nextCmdToken /\ nextCmdToken \in CallIds /\ nextCmdToken < nextCmdToken'
<1>1. job'[t].kind = "command" /\ job'[t].kind = job[t].kind
  BY EnqueueShape DEF Command
<1>2. nextCmdToken' = nextCmdToken + 1
  BY <1>1 DEF Enqueue, TokenAfter
<1>3. TInv'
  BY NextTypes
<1>4. nextCmdToken \in Nat \ {0}
  BY DEF TInv, CountTypes
<1>5. nextCmdToken' \in 1..(calls' + 1) /\ calls' \in 0..MaxCalls
  BY <1>3 DEF TInv, CountTypes
<1>6. MaxCalls \in Nat
  BY TrackingConstants
<1>7. ASSUME NEW n \in Nat \ {0}, NEW c \in 0..MaxCalls, n + 1 \in 1..(c + 1)
      PROVE  n \in 1..MaxCalls
  BY <1>6, <1>7
<1>9. nextCmdToken \in 1..MaxCalls
  <2>1. nextCmdToken + 1 \in 1..(calls' + 1)
    BY <1>2, <1>5, Zenon
  <2>. QED  BY <1>4, <1>5, <1>7, <2>1, Zenon
<1>10. nextCmdToken < nextCmdToken'
  BY <1>2, <1>4
<1>11. job'[t].token = nextCmdToken
  BY <1>1, EnqueueShape
<1>. QED  BY <1>9, <1>10, <1>11, Zenon DEF CallIds

LEMMA UniqueStep ==
  ASSUME TInv, Dealing, Unique, Next
  PROVE  Unique'
<1>. SUFFICES ASSUME NEW t \in Threads, NEW u \in Threads, Command(t)', Command(u)',
                     job'[t].token = job'[u].token, t # u
              PROVE  FALSE
  BY DEF Unique
<1>1. ASSUME NEW v \in Threads, NEW w \in Threads, v # w, Command(v)', Command(w)', Enqueue(v)
      PROVE  job'[v].token # job'[w].token
  <2>1. job'[v].token = nextCmdToken
    BY <1>1, NewToken
  <2>2. pc[w] \in Tracked /\ Same(w)
    BY <1>1, EnqueueAlone, TrackedStay DEF Command
  <2>3. Command(w)
    BY <1>1, <2>2 DEF Command, Same
  <2>4. job[w].token < nextCmdToken /\ nextCmdToken \in Nat
    BY <2>3, CommandToken
  <2>. QED  BY <2>1, <2>2, <2>4 DEF Same
<1>2. CASE Enqueue(t) \/ Enqueue(u)
  BY <1>1, <1>2
<1>3. CASE ~Enqueue(t) /\ ~Enqueue(u)
  <2>1. pc[t] \in Tracked /\ Same(t) /\ pc[u] \in Tracked /\ Same(u)
    BY <1>3, TrackedStay DEF Command
  <2>2. Command(t) /\ Command(u) /\ job[t].token = job[u].token
    BY <2>1 DEF Command, Same
  <2>. QED  BY <2>2 DEF Unique
<1>. QED  BY <1>2, <1>3

\* What fits now fits after the step.
LEMMA FitsStep ==
  ASSUME Disjoint, TInv, Dealing, Next, NEW r, r.token \in Nat, Fits(r)
  PROVE  FitsNext(r)
<1>1. r.token \in RequestIds \/ r.token < nextCmdToken'
  BY TokensGrow DEF Fits, Issued
<1>2. ASSUME NEW t \in Threads, Command(t)', job'[t].token = r.token
      PROVE  r.for = job'[t].call
  <2>1. CASE Enqueue(t)
    <3>1. r.token = nextCmdToken /\ nextCmdToken \in CallIds
      BY <1>2, <2>1, NewToken
    <3>2. r.token \notin RequestIds /\ ~(r.token < nextCmdToken)
      BY <3>1 DEF Disjoint
    <3>. QED  BY <3>2 DEF Fits, Issued
  <2>2. CASE ~Enqueue(t)
    <3>1. pc[t] \in Tracked /\ Same(t)
      BY <1>2, <2>2, TrackedStay DEF Command
    <3>2. Command(t) /\ job[t].token = r.token /\ job'[t].call = job[t].call
      BY <1>2, <3>1 DEF Command, Same
    <3>. QED  BY <3>2 DEF Fits
  <2>. QED  BY <2>1, <2>2
<1>. QED  BY <1>1, <1>2 DEF FitsNext

\* An answer under a request id, and no answer at all, are of no command.
LEMMA RequestFits ==
  ASSUME Disjoint, TInv, NEW r, r.token \in RequestIds
  PROVE  Fits(r)
BY CommandToken DEF Fits, Issued, Disjoint

LEMMA NothingFits ==
  ASSUME TInv
  PROVE  Fits(NoResponse)
<1>1. NoResponse.token = 0 /\ 0 < nextCmdToken
  BY DEF NoResponse, TInv, CountTypes
<1>. QED  BY <1>1, CommandToken DEF Fits, Issued

\* The wire changes by what is sent and by what arrives.
LEMMA WireSteps ==
  ASSUME Next
  PROVE  \/ UNCHANGED wire
         \/ \E t \in Threads : \/ Send(t)
                               \/ \E r \in RequestIds : SendDataRequest(t, r)
         \/ \E id \in {"Ack", "Nak"} : Receive(id)
BY Zenon DEF Next, Step, SendCommandWithResponse, Enqueue, Find, Check, Wake, TimeOut, Copy, Erase,
             Disconnect, Clear, DropServer, SetStatus, CallFromCallback, EndDisconnect, Store, EraseExpired,
             StartConnect, ConnectAck, EndConnect

LEMMA WireFits ==
  ASSUME Disjoint, TInv, Dealing, Unique, AllFit, Next, NEW i \in 1..Len(wire')
  PROVE  FitsNext(wire'[i])
<1>1. wire \in Seq(Message) /\ Len(wire) \in Nat
  BY LenProperties DEF TInv, WireTypes
<1>2. \A j \in 1..Len(wire) : wire[j] \in Message /\ wire[j].token \in Nat /\ Fits(wire[j])
  <2>1. \A j \in 1..Len(wire) : wire[j] \in Message
    BY <1>1, ElementOfSeq
  <2>2. Tokens \subseteq Nat
    BY TrackingConstants DEF Tokens
  <2>. QED  BY <2>1, <2>2 DEF Message, AllFit
<1>3. CASE UNCHANGED wire
  BY <1>2, <1>3, FitsStep
<1>4. ASSUME NEW m, m \in Message, Fits(m), wire' = Append(wire, m)
      PROVE  FitsNext(wire'[i])
  <2>1. Len(wire') = Len(wire) + 1 /\ wire'[i] = IF i <= Len(wire) THEN wire[i] ELSE m
    BY <1>1, <1>4, AppendProperties
  <2>2. m.token \in Nat
    BY <1>4, TokenTypes
  <2>3. FitsNext(m)
    BY <1>4, <2>2, FitsStep
  <2>4. CASE i <= Len(wire)
    <3>1. i \in 1..Len(wire) /\ wire'[i] = wire[i]
      BY <1>1, <2>1, <2>4
    <3>2. FitsNext(wire[i])
      BY <1>2, <3>1, FitsStep
    <3>. QED  BY <3>1, <3>2
  <2>5. CASE ~(i <= Len(wire))
    BY <2>1, <2>3, <2>5
  <2>. QED  BY <2>4, <2>5
<1>5. ASSUME NEW t \in Threads, Send(t)
      PROVE  FitsNext(wire'[i])
  <2> DEFINE m == [token |-> job[t].token, for |-> job[t].call]
  <2>1. UNCHANGED wire \/ wire' = Append(wire, m)
    BY <1>5, Zenon DEF Send
  <2>2. pc[t] = "send" /\ job[t] \in Job /\ JobIsKnown(t)
    BY <1>5 DEF Send, TInv, ThreadTypes, JobsAreKnown
  <2>3. Fits(m)
    <3>1. CASE job[t].kind = "command"
      <4>1. Command(t)
        BY <2>2, <3>1 DEF Command, Tracked
      <4>2. Issued(m.token)
        BY <4>1, CommandToken DEF Issued
      <4>. QED  BY <4>1, <4>2 DEF Fits, Unique
    <3>2. CASE job[t].kind # "command"
      <4>1. m.token \in RequestIds
        BY <2>2, <3>2 DEF JobIsKnown, Tracked
      <4>. QED  BY <4>1, RequestFits
    <3>. QED  BY <3>1, <3>2
  <2>4. m \in Message
    <3>1. job[t].call \in CallIds
      BY <2>2 DEF JobIsKnown, Tracked
    <3>2. job[t].token \in Tokens
      <4>1. CASE job[t].kind = "command"
        BY <2>2, <4>1, CommandToken DEF Command, Tracked, Tokens, CallIds
      <4>2. CASE job[t].kind # "command"
        BY <2>2, <4>2 DEF JobIsKnown, Tracked, Tokens
      <4>. QED  BY <4>1, <4>2
    <3>. QED  BY <3>1, <3>2 DEF Message
  <2> HIDE DEF m
  <2>. QED  BY <1>3, <1>4, <2>1, <2>3, <2>4
<1>6. ASSUME NEW t \in Threads, NEW r \in RequestIds, SendDataRequest(t, r)
      PROVE  FitsNext(wire'[i])
  <2> DEFINE m == [token |-> r, for |-> calls + 1]
  <2>1. wire' = Append(wire, m)
    BY <1>6 DEF SendDataRequest
  <2>2. calls + 1 \in CallIds
    <3>1. calls < MaxCalls /\ calls \in 0..MaxCalls
      BY <1>6 DEF SendDataRequest, Begin, TInv, CountTypes
    <3>2. MaxCalls \in Nat
      BY TrackingConstants
    <3>. QED  BY <3>1, <3>2 DEF CallIds
  <2>3. m \in Message
    BY <2>2 DEF Message, Tokens
  <2>4. Fits(m)
    BY RequestFits
  <2> HIDE DEF m
  <2>. QED  BY <1>4, <2>1, <2>3, <2>4
<1>7. ASSUME NEW id \in {"Ack", "Nak"}, Receive(id)
      PROVE  FitsNext(wire'[i])
  <2>1. wire # <<>> /\ wire' = Tail(wire)
    BY <1>7 DEF Receive
  <2>2. Len(wire') = Len(wire) - 1 /\ i + 1 \in 1..Len(wire) /\ wire'[i] = wire[i + 1]
    BY <1>1, <2>1, HeadTailProperties
  <2>3. FitsNext(wire[i + 1])
    BY <1>2, <2>2, FitsStep
  <2>. QED  BY <2>2, <2>3
<1>. QED  BY <1>3, <1>5, <1>6, <1>7, WireSteps

LEMMA DispatchFits ==
  ASSUME Disjoint, TInv, Dealing, AllFit, Next
  PROVE  FitsNext(dispatch'.response)
<1>1. dispatch.response \in Response /\ Fits(dispatch.response)
  BY DEF TInv, DispatchTypes, AllFit
<1>2. Tokens \subseteq Nat
  BY TrackingConstants DEF Tokens
<1>3. FitsNext(dispatch.response)
  BY <1>1, TokenTypes, FitsStep
<1>4. FitsNext(NoResponse)
  BY NothingFits, FitsStep DEF NoResponse
<1>5. ASSUME NEW id \in {"Ack", "Nak"}, Receive(id)
      PROVE  FitsNext(dispatch'.response)
  <2> DEFINE m == Head(wire)
             answer == [id |-> id, token |-> m.token, for |-> m.for]
  <2>1. wire # <<>> /\ wire \in Seq(Message) /\ Len(wire) \in Nat
    BY <1>5, LenProperties DEF Receive, TInv, WireTypes
  <2>2. m = wire[1] /\ m \in Message /\ 1 \in 1..Len(wire)
    <3>1. Len(wire) # 0
      BY <2>1, EmptySeq
    <3>. QED  BY <2>1, <3>1, HeadTailProperties, ElementOfSeq
  <2>3. Fits(m)
    BY <2>2 DEF AllFit
  <2>4. Fits(answer) /\ answer.token \in Nat
    BY <1>2, <2>2, <2>3 DEF Fits, Message
  <2>5. FitsNext(answer)
    BY <2>4, FitsStep
  <2>6. UNCHANGED dispatch \/ dispatch'.response = answer
    BY <1>5 DEF Receive
  <2>. QED  BY <1>3, <2>5, <2>6
<1>6. CASE Store
  BY <1>3, <1>4, <1>6 DEF Store, NoDispatch, TInv, DispatchTypes
<1>7. CASE EraseExpired
  BY <1>4, <1>7 DEF EraseExpired, NoDispatch
<1>. QED  BY <1>3, <1>5, <1>6, <1>7, DispatchSteps

LEMMA NodeFits ==
  ASSUME Disjoint, TInv, Dealing, AllFit, Next, NEW a \in Addrs
  PROVE  FitsNext(node'[a].response)
<1>1. node \in [Addrs -> Node] /\ node[a].response \in Response /\ Fits(node[a].response)
  BY DEF TInv, MapTypes, Node, AllFit
<1>3. FitsNext(node[a].response)
  BY <1>1, TokenTypes, FitsStep
<1>4. FitsNext(NoResponse)
  BY NothingFits, FitsStep DEF NoResponse
<1>5. dispatch.response \in Response /\ Fits(dispatch.response)
  BY DEF TInv, DispatchTypes, AllFit
<1>6. FitsNext(dispatch.response)
  BY <1>5, TokenTypes, FitsStep
<1>7. node'[a].response \in {node[a].response, NoResponse, dispatch.response}
  <2>1. CASE UNCHANGED node
    BY <2>1
  <2>2. ASSUME NEW t \in Threads, Enqueue(t)
        PROVE  node'[a].response \in {node[a].response, NoResponse}
    <3>1. UNCHANGED node \/ \E b \in Addrs : \E k, c : node' = [node EXCEPT ![b] = [token |-> k, call |-> c, response |-> NoResponse]]
      BY <2>2, EnqueueShape
    <3>. QED  BY <1>1, <3>1
  <2>3. CASE Store
    <3>1. UNCHANGED node \/ node' = [node EXCEPT ![dispatch.addr].response = dispatch.response]
      BY <2>3, Zenon DEF Store
    <3>. QED  BY <1>1, <3>1 DEF Node
  <2>. QED  BY <2>1, <2>2, <2>3, NodeSteps
<1>. QED  BY <1>3, <1>4, <1>6, <1>7

LEMMA AllFitStep ==
  ASSUME Disjoint, TInv, Dealing, Unique, AllFit, Next
  PROVE  AllFit'
<1>1. ASSUME NEW k \in Tokens, reponses'[k] # None
      PROVE  Issued(k)'
  <2>1. ASSUME NEW t \in Threads, Enqueue(t)
        PROVE  Issued(k)'
    <3> DEFINE token == job'[t].token
    <3>1. \/ reponses'[k] = reponses[k]
          \/ k = token
      <4>1. UNCHANGED reponses \/ \E a \in Addrs : reponses' = [reponses EXCEPT ![token] = a]
        BY <2>1, EnqueueShape
      <4>. QED  BY <4>1 DEF TInv, MapTypes
    <3>2. CASE reponses'[k] = reponses[k]
      BY <1>1, <3>2, TokensGrow, TrackingConstants DEF AllFit, Issued, Tokens
    <3>3. CASE k = token
      <4>1. CASE job'[t].kind = "command"
        <5>1. Command(t)'
          BY <2>1, <4>1, EnqueueShape DEF Command
        <5>. QED  BY <2>1, <3>3, <5>1, NewToken DEF Issued
      <4>2. CASE job'[t].kind # "command"
        <5>1. JobIsKnown(t)'
          BY NextTypes DEF TInv, JobsAreKnown
        <5>. QED  BY <2>1, <3>3, <4>2, <5>1, EnqueueShape DEF JobIsKnown, Issued
      <4>. QED  BY <4>1, <4>2
    <3>. QED  BY <3>1, <3>2, <3>3
  <2>2. CASE \A t \in Threads : ~Enqueue(t)
    BY <1>1, <2>2, MapShrinks, TokensGrow, TrackingConstants DEF AllFit, Issued, Tokens
  <2>. QED  BY <2>1, <2>2
<1>2. \A i \in 1..Len(wire') : FitsNext(wire'[i])
  BY WireFits
<1>3. FitsNext(dispatch'.response) /\ \A a \in Addrs : FitsNext(node'[a].response)
  BY DispatchFits, NodeFits
<1>. QED  BY <1>1, <1>2, <1>3, Zenon DEF AllFit, Fits, FitsNext, Issued

\* One address holds the record of one token.
Injective == \A k, l \in Tokens : reponses[k] # None /\ reponses[k] = reponses[l] => k = l

LEMMA InjectiveStep ==
  ASSUME TInv, Injective, Next
  PROVE  Injective'
<1>1. reponses \in [Tokens -> Addrs \cup {None}]
  BY DEF TInv, MapTypes
<1>2. ASSUME NEW t \in Threads, Enqueue(t)
      PROVE  Injective'
  <2>1. UNCHANGED reponses
        \/ \E a \in Addrs, token \in Tokens :
             /\ \A k \in Tokens : reponses[k] # a
             /\ reponses' = [reponses EXCEPT ![token] = a]
    BY <1>2, EnqueueShape
  <2>. QED  BY <1>1, <2>1 DEF Injective
<1>3. CASE \A t \in Threads : ~Enqueue(t)
  BY <1>3, MapShrinks DEF Injective
<1>. QED  BY <1>2, <1>3

\* The thread which disconnects holds the mutex from the clearing to the end.
Ends == {"cleared", "dropped", "callback"}
Locked == \A u \in Threads : pc[u] \in Ends => mtx = u

LEMMA MutexSteps ==
  ASSUME Next
  PROVE  UNCHANGED mtx \/ \E t \in Threads : Clear(t) \/ EndDisconnect(t)
BY Zenon DEF Next, Step, SendCommandWithResponse, SendDataRequest, Enqueue, Send, Find, Check, Wake, TimeOut, Copy,
             Erase, Disconnect, DropServer, SetStatus, CallFromCallback, Receive, Store, EraseExpired, StartConnect,
             ConnectAck, EndConnect, mapVars

LEMMA LockedStep ==
  ASSUME TInv, Locked, Next
  PROVE  Locked'
<1>. SUFFICES ASSUME NEW u \in Threads, pc'[u] \in Ends
              PROVE  mtx' = u
  BY DEF Locked
<1>1. None \notin Threads
  BY TrackingConstants
<1>2. pc \in [Threads -> PCs]
  BY DEF TInv, ThreadTypes
<1>3. CASE Clear(u)
  BY <1>3 DEF Clear
<1>4. CASE EndDisconnect(u)
  BY <1>2, <1>4 DEF EndDisconnect, Ends
<1>5. CASE ~Clear(u) /\ ~EndDisconnect(u)
  <2>1. pc[u] \in Ends
    <3>1. CASE ActsAs(u)
      <4>1. CASE DropServer(u) \/ SetStatus(u)
        BY <4>1 DEF DropServer, SetStatus, Ends
      <4>2. CASE ~DropServer(u) /\ ~SetStatus(u)
        <5>1. CASE \/ Send(u) \/ Check(u) \/ Wake(u) \/ TimeOut(u) \/ Copy(u)
                   \/ (Find(u) /\ ~Return(u, "E_FAIL"))
          BY <5>1, Going DEF Ends, Tracked
        <5>2. CASE Enqueue(u)
          BY <5>2, EnqueueShape DEF Ends, Tracked
        <5>3. CASE ~(\/ Send(u) \/ Check(u) \/ Wake(u) \/ TimeOut(u) \/ Copy(u) \/ Enqueue(u)
                     \/ (Find(u) /\ ~Return(u, "E_FAIL")))
          <6>1. \E x \in {"enqueue", "idle", "disconnect"} : pc' = [pc EXCEPT ![u] = x]
            BY <1>5, <3>1, <4>2, <5>3, Zenon
               DEF ActsAs, Step, SendCommandWithResponse, SendDataRequest, Begin, Return, Erase, Disconnect,
                   CallFromCallback
          <6>. QED  BY <1>2, <6>1 DEF Ends
        <5>. QED  BY <5>1, <5>2, <5>3
      <4>. QED  BY <4>1, <4>2
    <3>2. ASSUME NEW t \in Threads, ActsAs(t), t # u
          PROVE  pc[u] \in Ends
      BY <3>2, Frame
    <3>3. CASE \A t \in Threads : ~ActsAs(t)
      BY <3>3, OtherFrame
    <3>. QED  BY <3>1, <3>2, <3>3
  <2>2. mtx = u
    BY <2>1 DEF Locked
  <2>3. ASSUME NEW t \in Threads, Clear(t)
        PROVE  FALSE
    BY <1>1, <2>2, <2>3 DEF Clear
  <2>4. ASSUME NEW t \in Threads, EndDisconnect(t)
        PROVE  FALSE
    BY <1>5, <2>2, <2>4 DEF EndDisconnect, Locked, Ends
  <2>. QED  BY <2>2, <2>3, <2>4, MutexSteps
<1>. QED  BY <1>3, <1>4, <1>5

\* Connected is what the status says only while it is so, or while the disconnecting thread is about to change it.
Connection == status = "Connected" => serverConnected \/ \E u \in Threads : pc[u] = "dropped"

LEMMA StatusSteps ==
  ASSUME Next
  PROVE  \/ UNCHANGED <<status, serverConnected>>
         \/ StartConnect \/ ConnectAck \/ EndConnect
         \/ \E t \in Threads : DropServer(t) \/ SetStatus(t)
BY Zenon DEF Next, Step, SendCommandWithResponse, SendDataRequest, Enqueue, Send, Find, Check, Wake, TimeOut, Copy,
             Erase, Disconnect, Clear, CallFromCallback, EndDisconnect, Receive, Store, EraseExpired, connVars

LEMMA ConnectionStep ==
  ASSUME TInv, Connection, Next
  PROVE  Connection'
<1>1. CASE StartConnect
  BY <1>1 DEF StartConnect, Connection
<1>2. CASE ConnectAck
  BY <1>2, Zenon DEF ConnectAck, Connection
<1>3. CASE EndConnect
  BY <1>3 DEF EndConnect, Connection
<1>4. ASSUME NEW t \in Threads, DropServer(t)
      PROVE  Connection'
  BY <1>4 DEF DropServer, Connection, TInv, ThreadTypes
<1>5. ASSUME NEW t \in Threads, SetStatus(t)
      PROVE  Connection'
  BY <1>5 DEF SetStatus, Connection
<1>6. CASE UNCHANGED <<status, serverConnected>> /\ \A t \in Threads : ~SetStatus(t)
  <2>1. ASSUME NEW u \in Threads, pc[u] = "dropped"
        PROVE  pc'[u] = "dropped"
    <3>1. ~ActsAs(u)
      BY <1>6, <2>1, Zenon
         DEF ActsAs, Step, SendCommandWithResponse, SendDataRequest, Enqueue, Send, Find, Check, Wake, TimeOut, Copy,
             Erase, Disconnect, Clear, DropServer, CallFromCallback, EndDisconnect
    <3>2. ASSUME NEW t \in Threads, ActsAs(t), t # u
          PROVE  pc'[u] = pc[u]
      BY <3>2, Frame
    <3>3. CASE \A t \in Threads : ~ActsAs(t)
      BY <2>1, <3>3, OtherFrame
    <3>. QED  BY <2>1, <3>1, <3>2, <3>3
  <2>2. status' = status /\ serverConnected' = serverConnected
    BY <1>6
  <2>3. CASE serverConnected
    BY <2>2, <2>3, Zenon DEF Connection
  <2>4. CASE ~serverConnected
    <3>1. status' = "Connected" => \E u \in Threads : pc[u] = "dropped"
      BY <2>2, <2>4 DEF Connection
    <3>. QED  BY <2>1, <3>1 DEF Connection
  <2>. QED  BY <2>3, <2>4
<1>. QED  BY <1>1, <1>2, <1>3, <1>4, <1>5, <1>6, StatusSteps

\* What the dispatch thread deals with is an answer.
Answering == dispatch.at # "idle" => dispatch.response.id # "None"

LEMMA AnsweringStep ==
  ASSUME TInv, Answering, Next
  PROVE  Answering'
<1>1. CASE UNCHANGED dispatch
  BY <1>1, Zenon DEF Answering
<1>2. ASSUME NEW id \in {"Ack", "Nak"}, Receive(id)
      PROVE  Answering'
  <2>1. UNCHANGED dispatch \/ dispatch'.response.id = id
    BY <1>2 DEF Receive
  <2>. QED  BY <1>1, <2>1 DEF Answering
<1>3. CASE Store
  BY <1>3 DEF Store, NoDispatch, Answering, TInv, DispatchTypes
<1>4. CASE EraseExpired
  BY <1>4 DEF EraseExpired, NoDispatch, Answering
<1>. QED  BY <1>1, <1>2, <1>3, <1>4, DispatchSteps

\* An undisturbed command has its record, and keeps pointing at it: while it has, nobody holds the mutex.
Recorded(t) ==
    LET k == job[t].token IN
    /\ mtx = None
    /\ reponses[k] # None
    /\ node[reponses[k]].call = job[t].call
    /\ pc[t] \in {"check", "wait", "copy"} => job[t].addr = reponses[k]

\* The dispatch thread brings its answer to that record, and brings no other answer once it is there.
Reached(t) ==
    LET k == job[t].token IN
    dispatch.at # "idle" =>
        /\ dispatch.response.token = k => dispatch.at = "found" /\ dispatch.addr = reponses[k]
        /\ dispatch.at = "found" /\ dispatch.addr = reponses[k] /\ Answers(node[reponses[k]].response, k)
             => dispatch.response.token = k

\* It waits while the server is connected, and goes on when, and with what, it is answered.
Served(t) ==
    LET k == job[t].token IN
    /\ pc[t] \in {"find", "check", "wait"} => serverConnected
    /\ pc[t] = "copy" => Answers(node[reponses[k]].response, k)
    /\ pc[t] = "erase" /\ job[t].hr = "S_OK" => job[t].response.for = job[t].call

Mine == \A t \in Threads : Undisturbed(t) => Recorded(t) /\ Reached(t) /\ Served(t)

AInv == /\ TInv /\ Dealing
        /\ Unique /\ AllFit /\ Injective
        /\ Locked /\ Connection /\ Answering
        /\ Mine

\* What has stayed if a command is undisturbed after a step
LEMMA Stays ==
  ASSUME AInv, Next, NEW t \in Threads, Undisturbed(t)', ~Enqueue(t)
  PROVE  /\ Undisturbed(t) /\ Same(t) /\ Recorded(t) /\ Reached(t) /\ Served(t)
         /\ \A u \in Threads : ~Clear(u) /\ pc[u] \notin Ends
         /\ mtx' = None
         /\ serverConnected => serverConnected'
<1>1. TInv /\ Dealing /\ Locked /\ Mine
  BY DEF AInv
<1>2. pc[t] \in Tracked /\ Same(t)
  BY <1>1, TrackedStay DEF Undisturbed, Command
<1>3. Command(t)
  BY <1>2 DEF Undisturbed, Command, Same
<1>4. job[t].epoch = epoch' /\ job[t].epoch \in Nat /\ epoch \in Nat /\ job[t].epoch <= epoch
  BY <1>1, <1>2 DEF Undisturbed, Same, TInv, ThreadTypes, Job, JobsAreKnown, JobIsKnown, CountTypes
<1>5. UNCHANGED epoch \/ \E u \in Threads : Clear(u)
  BY Zenon DEF Next, Step, SendCommandWithResponse, SendDataRequest, Enqueue, Send, Find, Check, Wake, TimeOut, Copy,
               Erase, Disconnect, DropServer, SetStatus, CallFromCallback, EndDisconnect, Receive, Store,
               EraseExpired, StartConnect, ConnectAck, EndConnect, connVars
<1>6. \A u \in Threads : ~Clear(u)
  BY <1>4 DEF Clear
<1>7. Undisturbed(t)
  BY <1>3, <1>4, <1>5, <1>6 DEF Undisturbed
<1>8. Recorded(t) /\ Reached(t) /\ Served(t)
  BY <1>1, <1>7 DEF Mine
<1>9. mtx = None /\ None \notin Threads
  BY <1>8, TrackingConstants DEF Recorded
<1>10. \A u \in Threads : pc[u] \notin Ends
  BY <1>1, <1>9 DEF Locked
<1>11. mtx' = None
  <2>1. \A u \in Threads : ~EndDisconnect(u)
    BY <1>10 DEF EndDisconnect, Ends
  <2>. QED  BY <1>6, <1>9, <2>1, MutexSteps
<1>12. serverConnected => serverConnected'
  <2>1. \A u \in Threads : ~DropServer(u) /\ ~SetStatus(u)
    BY <1>10 DEF DropServer, SetStatus, Ends
  <2>2. serverConnected' = serverConnected \/ serverConnected' = TRUE
    <3>1. CASE UNCHANGED <<status, serverConnected>>
      BY <3>1
    <3>2. CASE StartConnect \/ ConnectAck \/ EndConnect
      BY <3>2, Zenon DEF StartConnect, ConnectAck, EndConnect
    <3>. QED  BY <2>1, <3>1, <3>2, StatusSteps
  <2>3. serverConnected \in BOOLEAN
    BY <1>1, Zenon DEF TInv, FlagTypes
  <2>. QED  BY <2>2, <2>3, Zenon
<1>. QED  BY <1>2, <1>6, <1>7, <1>8, <1>10, <1>11, <1>12

\* Its record stays where it is, and only the dispatch thread writes to it.
LEMMA RecordStays ==
  ASSUME Disjoint, AInv, Next, NEW t \in Threads, Undisturbed(t)', ~Enqueue(t)
  PROVE  LET R == reponses[job[t].token] IN
         /\ R \in Addrs
         /\ reponses'[job[t].token] = R
         /\ node'[R].call = node[R].call
         /\ \/ node'[R].response = node[R].response
            \/ Store /\ dispatch.addr = R /\ node'[R].response = dispatch.response
<1> DEFINE k == job[t].token
           R == reponses[k]
<1>1. /\ TInv /\ Dealing /\ Unique /\ Undisturbed(t) /\ Recorded(t) /\ Reached(t)
      /\ \A u \in Threads : ~Clear(u)
  BY Stays DEF AInv
<1>2. Command(t) /\ k \in CallIds /\ k \in Tokens /\ R # None
  BY <1>1, CommandToken DEF Undisturbed, Recorded, Tokens, CallIds
<1>3. /\ reponses \in [Tokens -> Addrs \cup {None}] /\ node \in [Addrs -> Node]
      /\ R \in Addrs
  BY <1>1, <1>2 DEF TInv, MapTypes
<1> HIDE DEF k, R
<1>4. ASSUME NEW u \in Threads, Enqueue(u)
      PROVE  reponses'[k] = R /\ node'[R] = node[R]
  <2>1. \/ UNCHANGED <<reponses, node>>
        \/ \E a \in Addrs, token \in Tokens : \E n :
             /\ \A l \in Tokens : reponses[l] # a
             /\ reponses[token] = None
             /\ reponses' = [reponses EXCEPT ![token] = a]
             /\ node' = [node EXCEPT ![a] = n]
    BY <1>1, <1>4, EnqueueShape
  <2>. QED  BY <1>2, <1>3, <2>1 DEF R
<1>5. reponses'[k] = R
  <2>1. ASSUME NEW u \in Threads, Erase(u)
        PROVE  reponses'[k] = R
    <3>1. pc[u] = "erase" /\ reponses' = [reponses EXCEPT ![job[u].token] = None] /\ JobIsKnown(u)
      BY <1>1, <2>1 DEF Erase, Erased, TInv, JobsAreKnown
    <3>2. u # t
      <4>1. ASSUME u = t PROVE FALSE
        <5>1. pc' = [pc EXCEPT ![t] = "idle"] /\ pc \in [Threads -> PCs]
          BY <1>1, <2>1, <4>1, Zenon DEF Erase, Return, TInv, ThreadTypes
        <5>2. pc'[t] \in Tracked
          BY DEF Undisturbed, Command
        <5>. QED  BY <5>1, <5>2 DEF Tracked
      <4>. QED  BY <4>1
    <3>3. job[u].token # k
      <4>1. CASE job[u].kind = "command"
        BY <1>1, <1>2, <3>1, <3>2, <4>1 DEF Unique, Command, Tracked, k
      <4>2. CASE job[u].kind # "command"
        BY <1>2, <3>1, <4>2 DEF JobIsKnown, Tracked, Disjoint
      <4>. QED  BY <4>1, <4>2
    <3>. QED  BY <1>2, <1>3, <3>1, <3>3 DEF R
  <2>2. CASE EraseExpired
    <3>1. reponses' = [reponses EXCEPT ![dispatch.response.token] = None] /\ dispatch.at = "expired"
      BY <2>2 DEF EraseExpired, Erased
    <3>2. dispatch.response.token # k
      BY <1>1, <3>1 DEF Reached, k
    <3>. QED  BY <1>2, <1>3, <3>1, <3>2 DEF R
  <2>. QED  BY <1>1, <1>4, <2>1, <2>2, MapSteps DEF R
<1>6. /\ node'[R].call = node[R].call
      /\ \/ node'[R].response = node[R].response
         \/ Store /\ dispatch.addr = R /\ node'[R].response = dispatch.response
  <2>1. CASE Store
    <3>1. UNCHANGED node \/ node' = [node EXCEPT ![dispatch.addr].response = dispatch.response]
      BY <2>1, Zenon DEF Store
    <3>. QED  BY <1>3, <2>1, <3>1 DEF Node
  <2>. QED  BY <1>4, <2>1, NodeSteps
<1>. QED  BY <1>3, <1>5, <1>6 DEF R, k

\* A command that goes on, or rests
LEMMA RecordedStep ==
  ASSUME Disjoint, AInv, Next, NEW t \in Threads, Undisturbed(t)', ~Enqueue(t)
  PROVE  Recorded(t)'
<1> DEFINE k == job[t].token
           R == reponses[k]
<1>1. TInv /\ Undisturbed(t) /\ Same(t) /\ Recorded(t) /\ mtx' = None
  BY Stays DEF AInv
<1>2. R \in Addrs /\ reponses'[k] = R /\ node'[R].call = node[R].call
  BY RecordStays
<1>3. R # None
  BY <1>1 DEF Recorded
<1>4. pc'[t] \in {"check", "wait", "copy"} => job'[t].addr = R
  <2>1. job[t] \in Job /\ job \in [Threads -> Job] /\ pc \in [Threads -> PCs]
    BY <1>1 DEF TInv, ThreadTypes
  <2>2. CASE pc'[t] = pc[t] /\ job'[t] = job[t]
    BY <1>1, <2>2 DEF Recorded
  <2>3. CASE Send(t)
    BY <2>1, <2>3 DEF Send, AfterSend
  <2>4. CASE Check(t) \/ Wake(t) \/ TimeOut(t)
    <3>1. pc[t] \in {"check", "wait"}
      BY <2>4 DEF Check, Wake, TimeOut
    <3>2. job'[t].addr = job[t].addr
      <4>1. UNCHANGED job \/ \E h : job' = [job EXCEPT ![t].hr = h]
        BY <2>4, Zenon DEF Check, Wake, TimeOut
      <4>. QED  BY <2>1, <4>1 DEF Job
    <3>. QED  BY <1>1, <3>1, <3>2 DEF Recorded
  <2>5. CASE Copy(t)
    BY <2>1, <2>5 DEF Copy
  <2>6. CASE Find(t) /\ ~Return(t, "E_FAIL")
    <3>1. job' = [job EXCEPT ![t].addr = R]
      BY <2>6, Zenon DEF Find
    <3>. QED  BY <2>1, <3>1 DEF Job
  <2>7. pc'[t] \in Tracked
    BY DEF Undisturbed, Command
  <2>. QED  BY <1>1, <2>2, <2>3, <2>4, <2>5, <2>6, <2>7, TrackedCases
<1>5. job'[t].token = k /\ job'[t].call = job[t].call /\ node[R].call = job[t].call
  BY <1>1 DEF Same, Recorded
<1>. QED  BY <1>1, <1>2, <1>3, <1>4, <1>5 DEF Recorded

LEMMA ReachedStep ==
  ASSUME Disjoint, AInv, Next, NEW t \in Threads, Undisturbed(t)', ~Enqueue(t)
  PROVE  Reached(t)'
<1> DEFINE k == job[t].token
           R == reponses[k]
<1>1. TInv /\ Dealing /\ Injective /\ Undisturbed(t) /\ Same(t) /\ Recorded(t) /\ Reached(t)
  BY Stays DEF AInv
<1>2. /\ R \in Addrs /\ reponses'[k] = R
      /\ \/ node'[R].response = node[R].response
         \/ Store
  BY RecordStays
<1>3. Command(t) /\ k \in Tokens /\ R # None
  BY <1>1, CommandToken DEF Undisturbed, Recorded, Tokens, CallIds
<1>4. job'[t].token = k
  BY <1>1 DEF Same
<1>5. CASE dispatch'.at = "idle"
  BY <1>5 DEF Reached
<1>6. CASE UNCHANGED dispatch
  <2>1. ~Store \/ dispatch'.at = "idle"
    <3>1. ASSUME Store, dispatch'.at # "idle"
          PROVE  FALSE
      <4>1. dispatch.at = "found" /\ (dispatch' = NoDispatch \/ dispatch' = [dispatch EXCEPT !.at = "expired"])
        BY <3>1 DEF Store
      <4>. QED  BY <1>1, <1>6, <3>1, <4>1 DEF NoDispatch, TInv, DispatchTypes
    <3>. QED  BY <3>1
  <2>2. CASE ~Store
    BY <1>1, <1>2, <1>4, <1>6, <2>2 DEF Reached, Answers
  <2>. QED  BY <1>5, <2>1, <2>2
<1>7. ASSUME NEW id \in {"Ack", "Nak"}, Receive(id), dispatch' # dispatch
      PROVE  Reached(t)'
  <2> DEFINE token == Head(wire).token
  <2>1. /\ dispatch'.at = "found" /\ dispatch'.addr = reponses[token] /\ dispatch'.response.token = token
        /\ reponses[token] # None
    BY <1>7 DEF Receive
  <2>2. token \in Tokens
    <3>1. wire # <<>> /\ wire \in Seq(Message)
      BY <1>1, <1>7 DEF Receive, TInv, WireTypes
    <3>2. Head(wire) \in Message
      BY <3>1, HeadTailProperties
    <3>. QED  BY <3>2 DEF Message
  <2>3. reponses[token] = R => token = k
    BY <1>1, <1>3, <2>1, <2>2 DEF Injective
  <2> HIDE DEF token
  <2>4. token = k => reponses[token] = R
    OBVIOUS
  <2>. QED  BY <1>2, <1>4, <2>1, <2>3, <2>4 DEF Reached
<1>8. CASE Store /\ dispatch'.at # "idle"
  <2>1. dispatch.at = "found" /\ ~CvLives(dispatch.addr) /\ dispatch' = [dispatch EXCEPT !.at = "expired"]
    <3>1. NoDispatch.at = "idle"
      BY DEF NoDispatch
    <3>. QED  BY <1>8, <3>1, Zenon DEF Store
  <2>2. dispatch'.at = "expired" /\ dispatch'.response = dispatch.response
    BY <1>1, <2>1 DEF TInv, DispatchTypes
  <2>3. CvLives(R)
    BY <1>1, <1>3 DEF CvLives, Command, Tracked, Recorded
  <2>4. dispatch.response.token # k
    BY <1>1, <2>1, <2>3 DEF Reached
  <2>. QED  BY <1>4, <2>2, <2>4 DEF Reached
<1>9. CASE EraseExpired
  BY <1>5, <1>9 DEF EraseExpired, NoDispatch
<1>. QED  BY <1>5, <1>6, <1>7, <1>8, <1>9, DispatchSteps

LEMMA AnswersStay ==
  ASSUME Disjoint, AInv, Next, NEW t \in Threads, Undisturbed(t)', ~Enqueue(t)
  PROVE  LET k == job[t].token
             R == reponses[k]
         IN Answers(node[R].response, k) => Answers(node'[R].response, k)
<1> DEFINE k == job[t].token
           R == reponses[k]
<1>1. Answering /\ Reached(t)
  BY Stays DEF AInv
<1>2. \/ node'[R].response = node[R].response
      \/ Store /\ dispatch.addr = R /\ node'[R].response = dispatch.response
  BY RecordStays
<1>3. CASE Store /\ dispatch.addr = R /\ node'[R].response = dispatch.response
  <2>1. dispatch.at = "found"
    BY <1>3 DEF Store
  <2>. QED  BY <1>1, <1>3, <2>1 DEF Reached, Answering, Answers
<1>. QED  BY <1>2, <1>3

LEMMA ServedStep ==
  ASSUME Disjoint, AInv, Next, NEW t \in Threads, Undisturbed(t)', ~Enqueue(t)
  PROVE  Served(t)'
<1> DEFINE k == job[t].token
           R == reponses[k]
<1>1. /\ TInv /\ AllFit /\ Locked /\ Connection /\ Answering
      /\ Undisturbed(t) /\ Same(t) /\ Recorded(t) /\ Reached(t) /\ Served(t)
      /\ \A u \in Threads : pc[u] \notin Ends
      /\ serverConnected => serverConnected'
  BY Stays DEF AInv
<1>2. /\ R \in Addrs /\ reponses'[k] = R
      /\ \/ node'[R].response = node[R].response
         \/ Store /\ dispatch.addr = R /\ node'[R].response = dispatch.response
  BY RecordStays
<1>3. job'[t].token = k /\ job'[t].call = job[t].call /\ Command(t)
  BY <1>1 DEF Same, Undisturbed
<1>4. job[t] \in Job /\ job \in [Threads -> Job] /\ pc \in [Threads -> PCs]
  BY <1>1 DEF TInv, ThreadTypes
<1>5. Answers(node[R].response, k) => Answers(node'[R].response, k)
  BY AnswersStay
<1>6. ASSUME pc'[t] \in {"find", "check", "wait"}, pc'[t] # pc[t]
      PROVE  serverConnected \/ Send(t)
  <2>1. Find(t) \/ Check(t) => serverConnected
    BY <1>1 DEF Find, Check, Served
  <2>2. ~Wake(t) /\ ~TimeOut(t) /\ ~Copy(t)
    BY <1>4, <1>6 DEF Wake, TimeOut, Copy
  <2>. QED  BY <1>1, <1>6, <2>1, <2>2, TrackedCases DEF Tracked
<1>7. ASSUME pc'[t] \in {"find", "check", "wait"}, Send(t)
      PROVE  serverConnected
  <2>1. IsConnected
    <3>1. PICK ok \in {FALSE, IsConnected} : pc' = [pc EXCEPT ![t] = AfterSend(ok)]
      BY <1>7, Zenon DEF Send
    <3>2. AfterSend(ok) # "erase"
      BY <1>4, <1>7, <3>1
    <3>3. ok
      BY <3>2, Zenon DEF AfterSend
    <3>. QED  BY <3>3, Zenon
  <2>. QED  BY <1>1, <2>1 DEF IsConnected, Connection, Ends
<1>8. pc'[t] \in {"find", "check", "wait"} => serverConnected'
  <2>1. ASSUME pc'[t] \in {"find", "check", "wait"}, pc'[t] = pc[t]
        PROVE  serverConnected
    BY <1>1, <2>1 DEF Served
  <2>. QED  BY <1>1, <1>6, <1>7, <2>1, Zenon
<1>9. ASSUME Check(t) \/ Wake(t) \/ TimeOut(t), StopWaiting(t)
      PROVE  Answers(node[R].response, k)
  <2>1. pc[t] \in {"check", "wait"}
    BY <1>9 DEF Check, Wake, TimeOut
  <2>2. serverConnected /\ job[t].addr = R
    BY <1>1, <2>1 DEF Served, Recorded
  <2>. QED  BY <1>9, <2>2 DEF StopWaiting
<1>10. ASSUME pc'[t] = "copy"
       PROVE  Answers(node[R].response, k)
  <2>1. CASE pc'[t] = pc[t]
    BY <1>1, <1>10, <2>1 DEF Served
  <2>2. ~Send(t) /\ ~Copy(t) /\ ~TimeOut(t)
    BY <1>4, <1>10 DEF Send, AfterSend, Copy, TimeOut
  <2>3. ~(Find(t) /\ ~Return(t, "E_FAIL"))
    <3>1. ASSUME Find(t), ~Return(t, "E_FAIL")
          PROVE  FALSE
      <4>1. pc' = [pc EXCEPT ![t] = "check"]
        BY <3>1, Zenon DEF Find
      <4>. QED  BY <1>4, <1>10, <4>1
    <3>. QED  BY <3>1
  <2>4. CASE Check(t) \/ Wake(t)
    <3>1. StopWaiting(t)
      BY <1>4, <1>10, <2>4 DEF Check, Wake
    <3>. QED  BY <1>9, <2>4, <3>1
  <2>5. pc'[t] \in Tracked
    BY <1>10 DEF Tracked
  <2>. QED  BY <1>1, <2>1, <2>2, <2>3, <2>4, <2>5, TrackedCases
<1>11. ASSUME pc'[t] = "erase", job'[t].hr = "S_OK"
       PROVE  job'[t].response.for = job[t].call
  <2>1. CASE pc'[t] = pc[t] /\ job'[t] = job[t]
    BY <1>1, <1>11, <2>1 DEF Served
  <2>2. CASE Copy(t)
    <3>1. pc[t] = "copy" /\ job' = [job EXCEPT ![t].response = node[job[t].addr].response]
      BY <2>2 DEF Copy
    <3>2. job'[t].response = node[R].response
      BY <1>1, <1>4, <3>1 DEF Recorded, Job
    <3>3. Answers(node[R].response, k)
      BY <1>1, <3>1 DEF Served
    <3>4. Fits(node[R].response)
      BY <1>1, <1>2 DEF AllFit
    <3>. QED  BY <1>3, <3>2, <3>3, <3>4 DEF Answers, Fits
  <2>3. ~TimeOut(t)
    BY <1>4, <1>11 DEF TimeOut, Job
  <2>4. ~Send(t)
    BY <1>4, <1>11 DEF Send, AfterSend, Job
  <2>5. ~Check(t) /\ ~Wake(t)
    BY <1>4, <1>11 DEF Check, Wake
  <2>6. ~(Find(t) /\ ~Return(t, "E_FAIL"))
    <3>1. ASSUME Find(t), ~Return(t, "E_FAIL")
          PROVE  FALSE
      <4>1. pc' = [pc EXCEPT ![t] = "check"]
        BY <3>1, Zenon DEF Find
      <4>. QED  BY <1>4, <1>11, <4>1
    <3>. QED  BY <3>1
  <2>7. pc'[t] \in Tracked
    BY <1>11 DEF Tracked
  <2>. QED  BY <1>1, <2>1, <2>2, <2>3, <2>4, <2>5, <2>6, <2>7, TrackedCases
<1> HIDE DEF k, R
<1>12. pc'[t] = "copy" => Answers(node'[R].response, k)
  BY <1>5, <1>10
<1>. QED  BY <1>2, <1>3, <1>8, <1>11, <1>12, Zenon DEF Served, Answers, k, R

\* A command that has just been given its token: no response carries it, and its record is new.
LEMMA MineEnqueue ==
  ASSUME Disjoint, AInv, Next, NEW t \in Threads, Enqueue(t), Undisturbed(t)'
  PROVE  Recorded(t)' /\ Reached(t)' /\ Served(t)'
<1> DEFINE k == job'[t].token
<1>1. TInv /\ Dealing /\ AllFit /\ Command(t)'
  BY DEF AInv, Undisturbed
<1>2. k = nextCmdToken /\ nextCmdToken \in CallIds /\ nextCmdToken < nextCmdToken'
  BY <1>1, NewToken
<1>3. ~Issued(k)
  <2>1. nextCmdToken \in Nat
    BY <1>1, TokensGrow
  <2>. QED  BY <1>2, <2>1 DEF Issued, Disjoint
<1>4. k \in Tokens /\ reponses[k] = None /\ dispatch.response.token # k
  BY <1>1, <1>2, <1>3, Zenon DEF AllFit, Fits, Tokens, CallIds
<1>5. PICK a \in Addrs :
         /\ reponses' = [reponses EXCEPT ![k] = a]
         /\ node' = [node EXCEPT ![a] = [token |-> k, call |-> job[t].call, response |-> NoResponse]]
  BY <1>1, <1>4, EnqueueShape
<1>6. reponses \in [Tokens -> Addrs \cup {None}] /\ node \in [Addrs -> Node] /\ None \notin Addrs
  BY <1>1, TrackingConstants DEF TInv, MapTypes
<1>7. /\ reponses'[k] = a /\ a # None
      /\ node'[a].call = job[t].call /\ node'[a].response = NoResponse
  BY <1>4, <1>5, <1>6
<1>8. job'[t].call = job[t].call
  BY <1>1, EnqueueShape
<1>9. pc'[t] = "send"
  <2>1. job[t].kind = "command"
    BY <1>1, EnqueueShape DEF Command
  <2>2. pc' = [pc EXCEPT ![t] = "send"]
    BY <2>1 DEF Enqueue
  <2>. QED  BY <1>1, <2>2 DEF TInv, ThreadTypes
<1>10. mtx' = None /\ dispatch' = dispatch
  BY DEF Enqueue
<1> HIDE DEF k
<1>11. Recorded(t)'
  BY <1>7, <1>8, <1>9, <1>10 DEF Recorded, k
<1>12. ~Answers(NoResponse, k)
  BY DEF Answers, NoResponse
<1>13. Reached(t)'
  BY <1>4, <1>7, <1>10, <1>12 DEF Reached, Answers, k
<1>14. Served(t)'
  BY <1>9 DEF Served
<1>. QED  BY <1>11, <1>13, <1>14

\* All of it together is inductive.
LEMMA AnswersStep ==
  ASSUME Disjoint, AInv, Next
  PROVE  AInv'
<1>1. TInv' /\ Dealing'
  BY NextTypes, DealingStep DEF AInv
<1>2. Unique' /\ AllFit' /\ Injective' /\ Locked' /\ Connection' /\ Answering'
  BY UniqueStep, AllFitStep, InjectiveStep, LockedStep, ConnectionStep, AnsweringStep DEF AInv
<1>3. ASSUME NEW t \in Threads, Undisturbed(t)'
      PROVE  Recorded(t)' /\ Reached(t)' /\ Served(t)'
  <2>1. CASE Enqueue(t)
    BY <1>3, <2>1, MineEnqueue
  <2>2. CASE ~Enqueue(t)
    BY <1>3, <2>2, RecordedStep, ReachedStep, ServedStep
  <2>. QED  BY <2>1, <2>2
<1>4. Mine'
  BY <1>3 DEF Mine
<1>. QED  BY <1>1, <1>2, <1>4 DEF AInv

LEMMA AnswersStutter ==
  ASSUME AInv, UNCHANGED vars
  PROVE  AInv'
<1>1. TInv' /\ Dealing'
  BY StutterTypes DEF AInv
<1>2. Unique' /\ Injective' /\ Locked' /\ Answering'
  BY Zenon DEF AInv, vars, mapVars, Unique, Injective, Locked, Answering, Command
<1>3. Connection'
  BY Zenon DEF AInv, vars, connVars, Connection
<1>4. AllFit'
  BY Zenon DEF AInv, vars, mapVars, AllFit, Fits, Issued, Command
<1>5. Mine'
  BY Zenon DEF AInv, vars, mapVars, connVars, Mine, Undisturbed, Command, Recorded, Reached, Served, Answers
<1>. QED  BY <1>1, <1>2, <1>3, <1>4, <1>5 DEF AInv

LEMMA AnswersInit == Init => AInv
<1>. SUFFICES ASSUME Init PROVE AInv
  OBVIOUS
<1>1. TInv
  BY InitTypes
<1>2. \A t \in Threads : ~Command(t) /\ pc[t] = "idle"
  BY DEF Init, Command, Tracked
<1>3. dispatch.at = "idle" /\ dispatch.response = NoResponse
  BY DEF Init, NoDispatch
<1>4. Dealing /\ Answering
  BY <1>3 DEF Dealing, Answering
<1>5. Unique /\ Mine
  BY <1>2 DEF Unique, Mine, Undisturbed
<1>6. Injective /\ Connection
  BY DEF Init, Injective, Connection
<1>7. Locked
  BY <1>2 DEF Locked, Ends
<1>8. AllFit
  <2>1. Len(wire) = 0 /\ \A a \in Addrs : node[a].response = NoResponse
    BY DEF Init
  <2>2. \A i \in 1..Len(wire) : FALSE
    BY <2>1
  <2>3. \A k \in Tokens : reponses[k] = None
    BY DEF Init
  <2>. QED  BY <1>1, <1>3, <2>1, <2>2, <2>3, NothingFits DEF AllFit
<1>. QED  BY <1>1, <1>4, <1>5, <1>6, <1>7, <1>8 DEF AInv

LEMMA AnswersHold ==
  ASSUME Disjoint
  PROVE  Spec => []AInv
<1>1. AInv /\ [Next]_vars => AInv'
  BY AnswersStep, AnswersStutter
<1>. QED  BY <1>1, AnswersInit, PTL DEF Spec

\* The results that are kept: those of calls that return, and none for those that begin.
ForEveryThread == DOMAIN result = Threads

LEMMA ResultSteps ==
  ASSUME Next
  PROVE  \/ UNCHANGED result
         \/ \E t \in Threads : result' = [result EXCEPT ![t] = NoResult]
         \/ \E t \in Threads : Erase(t) \/ (Find(t) /\ Return(t, "E_FAIL"))
BY Zenon DEF Next, Step, SendCommandWithResponse, SendDataRequest, CallFromCallback, Begin, Enqueue, Send, Find,
             Check, Wake, TimeOut, Copy, Disconnect, Clear, DropServer, SetStatus, EndDisconnect, Receive, Store,
             EraseExpired, StartConnect, ConnectAck, EndConnect

LEMMA ResultStep ==
  ASSUME AInv, ForEveryThread, CommandAnswerIsOwn, Next
  PROVE  ForEveryThread' /\ CommandAnswerIsOwn'
<1>1. CASE UNCHANGED result
  BY <1>1 DEF ForEveryThread, CommandAnswerIsOwn
<1>2. ASSUME NEW t \in Threads, result' = [result EXCEPT ![t] = NoResult]
      PROVE  ForEveryThread' /\ CommandAnswerIsOwn'
  <2>1. NoResult.hr = "None"
    BY DEF NoResult
  <2>. QED  BY <1>2, <2>1 DEF ForEveryThread, CommandAnswerIsOwn
<1>3. ASSUME NEW t \in Threads, NEW hr, Return(t, hr),
             hr = "S_OK" => pc[t] = "erase" /\ job[t].hr = "S_OK"
      PROVE  ForEveryThread' /\ CommandAnswerIsOwn'
  <2> DEFINE r == [hr |-> hr, kind |-> job[t].kind, call |-> job[t].call, response |-> job[t].response,
                   undisturbed |-> job[t].epoch = epoch]
  <2>1. result' = [result EXCEPT ![t] = r]
    BY <1>3 DEF Return
  <2>2. ASSUME r.hr = "S_OK", r.kind = "command", r.undisturbed
        PROVE  r.response.for = r.call
    <3>1. pc[t] = "erase" /\ job[t].hr = "S_OK" /\ job[t].kind = "command"
      BY <1>3, <2>2
    <3>2. job[t].epoch = epoch
      BY <2>2, Zenon
    <3>3. Undisturbed(t)
      BY <3>1, <3>2 DEF Undisturbed, Command, Tracked
    <3>4. Served(t)
      BY <3>3 DEF AInv, Mine
    <3>5. job[t].response.for = job[t].call
      BY <3>1, <3>4 DEF Served
    <3>. QED  BY <3>5
  <2> HIDE DEF r
  <2>. QED  BY <2>1, <2>2, Zenon DEF ForEveryThread, CommandAnswerIsOwn
<1>4. ASSUME NEW t \in Threads, Erase(t) \/ (Find(t) /\ Return(t, "E_FAIL"))
      PROVE  ForEveryThread' /\ CommandAnswerIsOwn'
  <2>1. CASE Erase(t)
    BY <1>3, <2>1 DEF Erase
  <2>2. CASE Return(t, "E_FAIL")
    <3>1. "E_FAIL" # "S_OK"
      OBVIOUS
    <3>. QED  BY <1>3, <2>2, <3>1
  <2>. QED  BY <1>4, <2>1, <2>2
<1>. QED  BY <1>1, <1>2, <1>4, ResultSteps

\* As long as the application's request ids are not numbers of commands, a command that succeeds while
\* its connection lasts returns the server's answer to that very command: neither late answers, nor
\* pointers to erased records, nor reused memory bring it another one (WASimClient.cpp:780-850, 1440-1480).
THEOREM CommandsGetTheirOwnAnswer ==
  ASSUME Disjoint
  PROVE  Spec => []CommandAnswerIsOwn
<1>1. Init => ForEveryThread /\ CommandAnswerIsOwn
  BY DEF Init, ForEveryThread, CommandAnswerIsOwn, NoResult
<1>2. AInv /\ ForEveryThread /\ CommandAnswerIsOwn /\ [Next]_vars => ForEveryThread' /\ CommandAnswerIsOwn'
  <2>1. ForEveryThread /\ CommandAnswerIsOwn /\ UNCHANGED vars => ForEveryThread' /\ CommandAnswerIsOwn'
    BY DEF vars, ForEveryThread, CommandAnswerIsOwn
  <2>. QED  BY <2>1, ResultStep
<1>. QED  BY <1>1, <1>2, AnswersHold, PTL DEF Spec

--------------------------------------------------------------------------------
\* A command is not late for its answer

\* From its beginning to its return a call has a number of its own.
InCall(t) == pc[t] \in Tracked \cup {"enqueue"}
Begins(t) == \E kind, token : Begin(t, kind, token, "enqueue")

OneCall == /\ \A t, u \in Threads : InCall(t) /\ InCall(u) /\ job[t].call = job[u].call => t = u
           /\ \A t \in Threads : InCall(t) => job[t].call <= calls

LEMMA CallsSteps ==
  ASSUME Next
  PROVE  UNCHANGED calls \/ \E t \in Threads : Begins(t)
BY Zenon DEF Next, Step, SendCommandWithResponse, SendDataRequest, CallFromCallback, Begins, Enqueue, Send, Find,
             Check, Wake, TimeOut, Copy, Erase, Disconnect, Clear, DropServer, SetStatus, EndDisconnect, Receive,
             Store, EraseExpired, StartConnect, ConnectAck, EndConnect

LEMMA CallNumbers ==
  ASSUME TInv, Next
  PROVE  calls \in Nat /\ calls' \in Nat /\ calls <= calls'
<1>1. calls \in Nat
  BY TrackingConstants DEF TInv, CountTypes
<1>2. calls' = calls \/ calls' = calls + 1
  BY CallsSteps DEF Begins, Begin
<1>. QED  BY <1>1, <1>2

\* A thread in a call was in it before the step, or begins it.
LEMMA InCallStay ==
  ASSUME TInv, Next, NEW t \in Threads, InCall(t)'
  PROVE  \/ InCall(t) /\ job'[t].call = job[t].call /\ job'[t].kind = job[t].kind
         \/ /\ pc[t] \notin Tracked \cup {"enqueue"} /\ pc'[t] = "enqueue"
            /\ job'[t].call = calls + 1 /\ calls' = calls + 1 /\ UNCHANGED <<wire, dispatch>>
         \/ /\ pc[t] \notin Tracked \cup {"enqueue"} /\ pc'[t] = "enqueue"
            /\ job'[t].call = calls + 1 /\ calls' = calls + 1 /\ job'[t].kind = "request"
<1>1. pc \in [Threads -> PCs] /\ job \in [Threads -> Job]
  BY DEF TInv, ThreadTypes
<1>2. CASE pc'[t] \in Tracked
  <2>1. CASE Enqueue(t)
    BY <2>1, EnqueueShape DEF Enqueue, InCall
  <2>2. CASE ~Enqueue(t)
    BY <1>2, <2>2, TrackedStay DEF InCall, Same
  <2>. QED  BY <2>1, <2>2
<1>3. CASE pc'[t] = "enqueue"
  <2>1. ASSUME NEW kind, NEW token, Begin(t, kind, token, "enqueue")
        PROVE  job'[t].call = calls + 1 /\ calls' = calls + 1 /\ job'[t].kind = kind
    <3> DEFINE j == [NoJob EXCEPT !.call = calls + 1, !.kind = kind, !.token = token, !.epoch = epoch]
    <3>1. job' = [job EXCEPT ![t] = j] /\ calls' = calls + 1
      BY <2>1 DEF Begin
    <3>2. j.call = calls + 1 /\ j.kind = kind
      BY DEF NoJob
    <3> HIDE DEF j
    <3>. QED  BY <1>1, <3>1, <3>2
  <2>2. CASE SendCommandWithResponse(t) \/ CallFromCallback(t)
    <3>1. pc[t] \in {"idle", "callback"} /\ UNCHANGED <<wire, dispatch>> /\ Begin(t, "command", 0, "enqueue")
      BY <2>2 DEF SendCommandWithResponse, CallFromCallback
    <3>. QED  BY <1>3, <2>1, <3>1 DEF Tracked
  <2>3. ASSUME NEW r \in RequestIds, SendDataRequest(t, r)
        PROVE  /\ pc[t] \notin Tracked \cup {"enqueue"} /\ pc'[t] = "enqueue"
               /\ job'[t].call = calls + 1 /\ calls' = calls + 1 /\ job'[t].kind = "request"
    <3>1. pc[t] = "idle" /\ Begin(t, "request", r, "enqueue")
      BY <2>3 DEF SendDataRequest
    <3>. QED  BY <1>3, <2>1, <3>1 DEF Tracked
  <2>4. ~Step(t) /\ ~Disconnect(t)
    <3>1. ~Enqueue(t)
      BY <1>3, EnqueueShape DEF Tracked
    <3>2. ~Send(t) /\ ~Check(t) /\ ~Wake(t) /\ ~TimeOut(t) /\ ~Copy(t) /\ ~(Find(t) /\ ~Return(t, "E_FAIL"))
      BY <1>3, Going DEF Tracked
    <3>3. ASSUME NEW x \in {"idle", "disconnect", "cleared", "dropped", "callback"}, pc' = [pc EXCEPT ![t] = x]
          PROVE  FALSE
      BY <1>1, <1>3, <3>3
    <3>4. ~Return(t, "E_FAIL") /\ ~Erase(t) /\ ~Clear(t) /\ ~DropServer(t) /\ ~SetStatus(t) /\ ~EndDisconnect(t)
          /\ ~Disconnect(t)
      BY <3>3, Zenon DEF Return, Erase, Clear, DropServer, SetStatus, EndDisconnect, Disconnect
    <3>. QED  BY <3>1, <3>2, <3>4 DEF Step
  <2>5. ASSUME \A u \in Threads : u = t \/ ~ActsAs(u),
               ~ActsAs(t)
        PROVE  InCall(t) /\ job'[t].call = job[t].call /\ job'[t].kind = job[t].kind
    BY <1>3, <2>5, OtherFrame DEF InCall
  <2>6. ASSUME NEW u \in Threads, u # t, ActsAs(u)
        PROVE  InCall(t) /\ job'[t].call = job[t].call /\ job'[t].kind = job[t].kind
    BY <1>3, <2>6, Frame DEF InCall
  <2>. QED  BY <2>2, <2>3, <2>4, <2>5, <2>6 DEF ActsAs
<1>. QED  BY <1>2, <1>3 DEF InCall

LEMMA OneCallStep ==
  ASSUME TInv, OneCall, Next
  PROVE  OneCall'
<1>1. calls \in Nat /\ calls' \in Nat /\ calls <= calls'
  BY CallNumbers
<1>2. ASSUME NEW t \in Threads, InCall(t), job[t].call <= calls
      PROVE  job[t].call \in Nat
  BY <1>2 DEF TInv, JobsAreKnown, JobIsKnown, InCall, CallIds
<1>3. ASSUME NEW t \in Threads, InCall(t)'
      PROVE  job'[t].call <= calls'
  <2>1. CASE InCall(t) /\ job'[t].call = job[t].call
    BY <1>1, <1>2, <2>1 DEF OneCall
  <2>2. CASE job'[t].call = calls + 1 /\ calls' = calls + 1
    BY <1>1, <2>2
  <2>. QED  BY <1>3, <2>1, <2>2, InCallStay
<1>4. ASSUME NEW t \in Threads, NEW u \in Threads, InCall(t)', InCall(u)', job'[t].call = job'[u].call, t # u,
             InCall(t) /\ job'[t].call = job[t].call
      PROVE  FALSE
  <2>1. CASE InCall(u) /\ job'[u].call = job[u].call
    BY <1>4, <2>1 DEF OneCall
  <2>2. CASE job'[u].call = calls + 1
    <3>1. job[t].call <= calls /\ job[t].call \in Nat
      BY <1>2, <1>4 DEF OneCall
    <3>2. job[t].call = calls + 1
      BY <1>4, <2>2
    <3>3. ASSUME NEW n \in Nat, n <= calls
          PROVE  n # calls + 1
      BY <1>1, <3>3
    <3>. QED  BY <3>1, <3>2, <3>3
  <2>. QED  BY <1>4, <2>1, <2>2, InCallStay
<1>5. ASSUME NEW t \in Threads, NEW u \in Threads, InCall(t)', InCall(u)', t # u, ~InCall(t), ~InCall(u)
      PROVE  FALSE
  <2>1. pc'[t] # pc[t] /\ pc'[u] # pc[u]
    BY <1>5, InCallStay DEF InCall
  <2>2. ~ActsAs(t) \/ ~ActsAs(u)
    BY <1>5, <2>1, Frame
  <2>3. \E v \in Threads : ActsAs(v)
    BY <2>1, OtherFrame
  <2>. QED  BY <1>5, <2>1, <2>3, Frame
<1>6. ASSUME NEW t \in Threads, NEW u \in Threads, InCall(t)', InCall(u)', job'[t].call = job'[u].call
      PROVE  t = u
  <2>1. InCall(t) => job'[t].call = job[t].call
    BY <1>6, InCallStay DEF InCall
  <2>2. InCall(u) => job'[u].call = job[u].call
    BY <1>6, InCallStay DEF InCall
  <2>. QED  BY <1>4, <1>5, <1>6, <2>1, <2>2
<1>. QED  BY <1>3, <1>6 DEF OneCall

\* What is under way belongs to the one command it was sent for, which has gone on to wait.
Belongs(r) == /\ r.for <= calls
              /\ \A t \in Threads : InCall(t) /\ job[t].kind = "command" /\ job[t].call = r.for
                   => pc[t] \in Tracked \ {"send"} /\ job[t].token = r.token
BelongsNext(r) == /\ r.for <= calls'
                  /\ \A t \in Threads : InCall(t)' /\ job'[t].kind = "command" /\ job'[t].call = r.for
                       => pc'[t] \in Tracked \ {"send"} /\ job'[t].token = r.token

AllBelong == (\A i \in 1..Len(wire) : Belongs(wire[i])) /\ Belongs(dispatch.response)

LEMMA CallTypes ==
  ASSUME NEW r, r \in Response \cup Message
  PROVE  r.for \in Nat
<1>1. r.for \in CallIds \cup {0}
  BY DEF Response, Message
<1>2. \A n \in 1..MaxCalls : n \in Nat
  OBVIOUS
<1>. QED  BY <1>1, <1>2 DEF CallIds

\* A call that has been sent is not sent again.
LEMMA GoneOn ==
  ASSUME TInv, Next, NEW t \in Threads, pc[t] \in Tracked \ {"send"}, InCall(t)'
  PROVE  pc'[t] \in Tracked \ {"send"} /\ Same(t)
<1>1. pc'[t] # "enqueue"
  <2>1. CASE ActsAs(t)
    <3>1. pc[t] \notin {"idle", "enqueue", "send", "disconnect", "cleared", "dropped", "callback"}
      BY DEF Tracked
    <3>2. \/ Check(t) \/ Wake(t) \/ TimeOut(t) \/ Copy(t)
          \/ (Find(t) /\ ~Return(t, "E_FAIL")) \/ Return(t, "E_FAIL") \/ Erase(t)
      BY <2>1, <3>1, Zenon
         DEF ActsAs, Step, SendCommandWithResponse, SendDataRequest, CallFromCallback, Enqueue, Send, Find,
             Disconnect, Clear, DropServer, SetStatus, EndDisconnect
    <3>3. CASE Return(t, "E_FAIL") \/ Erase(t)
      <4>1. pc' = [pc EXCEPT ![t] = "idle"]
        BY <3>3, Zenon DEF Return, Erase
      <4>. QED  BY <4>1 DEF TInv, ThreadTypes
    <3>. QED  BY <3>2, <3>3, Going DEF Tracked
  <2>2. ASSUME NEW u \in Threads, u # t, ActsAs(u)
        PROVE  pc'[t] # "enqueue"
    BY <2>2, Frame DEF Tracked
  <2>3. CASE \A u \in Threads : ~ActsAs(u)
    BY <2>3, OtherFrame DEF Tracked
  <2>. QED  BY <2>1, <2>2, <2>3
<1>2. pc'[t] \in Tracked
  BY <1>1 DEF InCall
<1>3. ~Enqueue(t)
  BY DEF Enqueue, Tracked
<1>4. Same(t)
  BY <1>2, <1>3, TrackedStay
<1>5. pc'[t] # "send"
  <2>1. pc \in [Threads -> PCs]
    BY DEF TInv, ThreadTypes
  <2>2. \/ pc'[t] = pc[t]
        \/ Send(t) \/ Check(t) \/ Wake(t) \/ TimeOut(t) \/ Copy(t)
        \/ (Find(t) /\ ~Return(t, "E_FAIL"))
    BY <1>2, <1>3, TrackedCases
  <2>3. ~Send(t)
    BY DEF Send
  <2>4. CASE Find(t) /\ ~Return(t, "E_FAIL")
    <3>1. pc' = [pc EXCEPT ![t] = "check"]
      BY <2>4, Zenon DEF Find
    <3>. QED  BY <2>1, <3>1
  <2>. QED  BY <2>1, <2>2, <2>3, <2>4 DEF Check, Wake, TimeOut, Copy
<1>. QED  BY <1>2, <1>4, <1>5

LEMMA BelongsStep ==
  ASSUME TInv, Next, NEW r, r.for \in Nat, Belongs(r)
  PROVE  BelongsNext(r)
<1>1. calls \in Nat /\ calls' \in Nat /\ calls <= calls' /\ r.for <= calls
  BY CallNumbers DEF Belongs
<1>2. r.for <= calls'
  BY <1>1
<1>3. r.for # calls + 1
  BY <1>1
<1>4. ASSUME NEW t \in Threads, InCall(t)', job'[t].kind = "command", job'[t].call = r.for
      PROVE  pc'[t] \in Tracked \ {"send"} /\ job'[t].token = r.token
  <2>1. InCall(t) /\ job'[t].call = job[t].call /\ job'[t].kind = job[t].kind
    BY <1>3, <1>4, InCallStay
  <2>2. pc[t] \in Tracked \ {"send"} /\ job[t].token = r.token
    BY <1>4, <2>1 DEF Belongs
  <2>3. pc'[t] \in Tracked \ {"send"} /\ Same(t)
    BY <1>4, <2>2, GoneOn
  <2>. QED  BY <2>2, <2>3 DEF Same
<1>. QED  BY <1>2, <1>4 DEF BelongsNext

\* A command that is sent now, and a data request, belong to their callers.
LEMMA SentBelongs ==
  ASSUME TInv, OneCall, Next, NEW t \in Threads, Send(t), NEW r, r.for = job[t].call, r.token = job[t].token
  PROVE  BelongsNext(r)
<1>1. pc[t] = "send" /\ pc[t] \in Tracked /\ InCall(t) /\ pc \in [Threads -> PCs]
  BY DEF Send, InCall, Tracked, TInv, ThreadTypes
<1>2. /\ calls \in Nat /\ calls' \in Nat /\ calls <= calls'
      /\ job[t].call \in Nat /\ job[t].call <= calls
  BY <1>1, CallNumbers DEF OneCall, TInv, JobsAreKnown, JobIsKnown, CallIds
<1>3. r.for \in Nat /\ r.for <= calls /\ r.for <= calls' /\ r.for # calls + 1
  <2>1. ASSUME NEW n \in Nat, n <= calls
        PROVE  n <= calls' /\ n # calls + 1
    BY <1>2, <2>1
  <2>. QED  BY <1>2, <2>1
<1>4. pc'[t] \in {"find", "erase"} /\ Same(t)
  <2>1. pc' = [pc EXCEPT ![t] = "find"] \/ pc' = [pc EXCEPT ![t] = "erase"]
    BY Zenon DEF Send, AfterSend
  <2>. QED  BY <1>1, <2>1, Going
<1>5. ASSUME NEW u \in Threads, InCall(u)', job'[u].kind = "command", job'[u].call = r.for
      PROVE  pc'[u] \in Tracked \ {"send"} /\ job'[u].token = r.token
  <2>1. InCall(u) /\ job'[u].call = job[u].call
    BY <1>3, <1>5, InCallStay
  <2>2. u = t
    BY <1>1, <1>5, <2>1 DEF OneCall
  <2>. QED  BY <1>4, <2>2 DEF Same, Tracked
<1>. QED  BY <1>3, <1>5 DEF BelongsNext

LEMMA RequestBelongs ==
  ASSUME TInv, OneCall, Next, NEW t \in Threads, NEW q \in RequestIds, SendDataRequest(t, q),
         NEW r, r.for = calls + 1
  PROVE  BelongsNext(r)
<1>1. calls \in Nat /\ calls' = calls + 1 /\ Begin(t, "request", q, "enqueue") /\ pc[t] = "idle"
  BY CallNumbers DEF SendDataRequest, Begin
<1>2. job'[t].kind = "request"
  <2> DEFINE j == [NoJob EXCEPT !.call = calls + 1, !.kind = "request", !.token = q, !.epoch = epoch]
  <2>1. job' = [job EXCEPT ![t] = j] /\ j.kind = "request"
    BY <1>1 DEF Begin, NoJob
  <2> HIDE DEF j
  <2>. QED  BY <2>1 DEF TInv, ThreadTypes
<1>3. ASSUME NEW u \in Threads, InCall(u)', job'[u].kind = "command", job'[u].call = r.for
      PROVE  FALSE
  <2>1. u # t
    BY <1>2, <1>3
  <2>2. pc'[u] = pc[u] /\ job'[u] = job[u]
    BY <2>1, Frame DEF ActsAs
  <2>3. InCall(u) /\ job[u].call = calls + 1
    BY <1>3, <2>2 DEF InCall
  <2>4. job[u].call <= calls
    BY <2>3 DEF OneCall
  <2>5. ~(calls + 1 <= calls)
    BY <1>1
  <2>. QED  BY <2>3, <2>4, <2>5
<1>4. r.for <= calls'
  BY <1>1
<1>. QED  BY <1>3, <1>4 DEF BelongsNext

\* The message that arrives
LEMMA FirstMessage ==
  ASSUME TInv, wire # <<>>
  PROVE  Head(wire) = wire[1] /\ 1 \in 1..Len(wire) /\ Head(wire) \in Message
<1>1. wire \in Seq(Message) /\ Len(wire) \in Nat
  BY LenProperties DEF TInv, WireTypes
<1>2. Len(wire) # 0
  BY <1>1, EmptySeq
<1>. QED  BY <1>1, <1>2, HeadTailProperties, ElementOfSeq

LEMMA AllBelongStep ==
  ASSUME TInv, OneCall, AllBelong, Next
  PROVE  AllBelong'
<1>1. wire \in Seq(Message) /\ Len(wire) \in Nat
  BY LenProperties DEF TInv, WireTypes
<1>2. \A j \in 1..Len(wire) : wire[j].for \in Nat /\ Belongs(wire[j])
  BY <1>1, ElementOfSeq, CallTypes DEF AllBelong
<1>3. \A j \in 1..Len(wire) : BelongsNext(wire[j])
  BY <1>2, BelongsStep
<1>4. ASSUME NEW i \in 1..Len(wire')
      PROVE  BelongsNext(wire'[i])
  <2>1. ASSUME NEW m, wire' = Append(wire, m), m \in Message, BelongsNext(m)
        PROVE  BelongsNext(wire'[i])
    <3>1. Len(wire') = Len(wire) + 1 /\ wire'[i] = IF i <= Len(wire) THEN wire[i] ELSE m
      BY <1>1, <2>1, AppendProperties
    <3>2. CASE i <= Len(wire)
      <4>1. i \in 1..Len(wire) /\ wire'[i] = wire[i]
        BY <1>1, <3>1, <3>2
      <4>. QED  BY <1>3, <4>1
    <3>3. CASE ~(i <= Len(wire))
      BY <2>1, <3>1, <3>3
    <3>. QED  BY <3>2, <3>3
  <2>2. CASE UNCHANGED wire
    BY <1>3, <2>2
  <2>3. ASSUME NEW t \in Threads, Send(t)
        PROVE  BelongsNext(wire'[i])
    <3> DEFINE m == [token |-> job[t].token, for |-> job[t].call]
    <3>1. UNCHANGED wire \/ wire' = Append(wire, m)
      BY <2>3, Zenon DEF Send
    <3>2. BelongsNext(m)
      BY <2>3, SentBelongs
    <3>3. pc[t] = "send" /\ JobIsKnown(t) /\ job[t] \in Job
      BY <2>3 DEF Send, TInv, JobsAreKnown, ThreadTypes
    <3>4. job[t].call \in CallIds
      BY <3>3 DEF JobIsKnown, Tracked
    <3>5. job[t].token \in Tokens
      <4>1. CASE job[t].kind = "command"
        BY <3>3, <4>1, CommandToken DEF Command, Tracked, Tokens, CallIds
      <4>2. CASE job[t].kind # "command"
        BY <3>3, <4>2 DEF JobIsKnown, Tracked, Tokens
      <4>. QED  BY <4>1, <4>2
    <3>6. m \in Message
      BY <3>4, <3>5 DEF Message
    <3> HIDE DEF m
    <3>. QED  BY <2>1, <2>2, <3>1, <3>2, <3>6
  <2>4. ASSUME NEW t \in Threads, NEW q \in RequestIds, SendDataRequest(t, q)
        PROVE  BelongsNext(wire'[i])
    <3> DEFINE m == [token |-> q, for |-> calls + 1]
    <3>1. wire' = Append(wire, m)
      BY <2>4 DEF SendDataRequest
    <3>2. BelongsNext(m)
      BY <2>4, RequestBelongs
    <3>3. calls + 1 \in CallIds
      <4>1. calls < MaxCalls /\ calls \in 0..MaxCalls
        BY <2>4 DEF SendDataRequest, Begin, TInv, CountTypes
      <4>2. MaxCalls \in Nat
        BY TrackingConstants
      <4>. QED  BY <4>1, <4>2 DEF CallIds
    <3>4. m \in Message
      BY <3>3 DEF Message, Tokens
    <3> HIDE DEF m
    <3>. QED  BY <2>1, <3>1, <3>2, <3>4
  <2>5. ASSUME NEW id \in {"Ack", "Nak"}, Receive(id)
        PROVE  BelongsNext(wire'[i])
    <3>1. wire # <<>> /\ wire' = Tail(wire)
      BY <2>5 DEF Receive
    <3>2. i + 1 \in 1..Len(wire) /\ wire'[i] = wire[i + 1]
      BY <1>1, <3>1, HeadTailProperties
    <3>. QED  BY <1>3, <3>2
  <2>. QED  BY <2>2, <2>3, <2>4, <2>5, WireSteps
<1>5. BelongsNext(dispatch'.response)
  <2>1. dispatch.response \in Response /\ Belongs(dispatch.response)
    BY DEF TInv, DispatchTypes, AllBelong
  <2>2. BelongsNext(dispatch.response)
    BY <2>1, CallTypes, BelongsStep
  <2>3. BelongsNext(NoResponse)
    <3>1. NoResponse.for = 0 /\ calls \in Nat /\ 0 \in Nat
      BY CallNumbers DEF NoResponse
    <3>2. ASSUME NEW t \in Threads, InCall(t)
          PROVE  job[t].call # 0
      BY <3>2 DEF TInv, JobsAreKnown, JobIsKnown, InCall, CallIds
    <3>3. Belongs(NoResponse)
      <4>1. NoResponse.for <= calls
        BY <3>1
      <4>. QED  BY <3>1, <3>2, <4>1, Zenon DEF Belongs
    <3>. QED  BY <3>1, <3>3, BelongsStep
  <2>4. ASSUME NEW id \in {"Ack", "Nak"}, Receive(id)
        PROVE  BelongsNext(dispatch'.response)
    <3> DEFINE answer == [id |-> id, token |-> Head(wire).token, for |-> Head(wire).for]
    <3>1. UNCHANGED dispatch \/ dispatch'.response = answer
      BY <2>4 DEF Receive
    <3>2. BelongsNext(Head(wire))
      BY <1>3, <2>4, FirstMessage DEF Receive
    <3>3. answer.token = Head(wire).token /\ answer.for = Head(wire).for
      OBVIOUS
    <3> HIDE DEF answer
    <3>4. BelongsNext(answer)
      BY <3>2, <3>3 DEF BelongsNext
    <3>. QED  BY <2>2, <3>1, <3>4
  <2>5. CASE Store
    <3>1. dispatch'.response \in {dispatch.response, NoResponse}
      BY <2>5 DEF Store, NoDispatch, TInv, DispatchTypes
    <3>. QED  BY <2>2, <2>3, <3>1
  <2>6. CASE EraseExpired
    BY <2>3, <2>6 DEF EraseExpired, NoDispatch
  <2>. QED  BY <2>2, <2>4, <2>5, <2>6, DispatchSteps
<1>. QED  BY <1>4, <1>5, Zenon DEF AllBelong, Belongs, BelongsNext, InCall

\* An answer that has been dealt with is in the record of its command; before a command is sent
\* there is none.
Done ==
    /\ \A c \in answered : c <= calls
    /\ \A t \in Threads : job[t].kind = "command" /\ job[t].call \in answered
         => /\ pc[t] \notin {"enqueue", "send"}
            /\ Undisturbed(t) => Answers(node[reponses[job[t].token]].response, job[t].token)

IInv == AInv /\ OneCall /\ AllBelong /\ Done

\* The response which a step of the dispatch thread adds to those that have been dealt with
LEMMA AnsweredSteps ==
  ASSUME TInv, AllBelong, Next
  PROVE  \/ UNCHANGED answered
         \/ \E r : /\ r.for \in Nat /\ Belongs(r) /\ answered' = answered \cup {r.for}
                   /\ UNCHANGED <<pc, job, calls>>
                   /\ \/ reponses[r.token] = None /\ wire # <<>> /\ r.token = Head(wire).token
                      \/ r = dispatch.response /\ dispatch.at = "expired"
                      \/ /\ r = dispatch.response /\ dispatch.at = "found"
                         /\ node' = [node EXCEPT ![dispatch.addr].response = dispatch.response]
<1>1. dispatch.response.for \in Nat /\ Belongs(dispatch.response)
  BY CallTypes DEF TInv, DispatchTypes, AllBelong
<1>2. ASSUME NEW id \in {"Ack", "Nak"}, Receive(id), answered' # answered
      PROVE  \E r : /\ r.for \in Nat /\ Belongs(r) /\ answered' = answered \cup {r.for}
                    /\ UNCHANGED <<pc, job, calls>>
                    /\ reponses[r.token] = None /\ wire # <<>> /\ r.token = Head(wire).token
  <2>1. /\ answered' = answered \cup {Head(wire).for} /\ UNCHANGED <<pc, job, calls>>
        /\ reponses[Head(wire).token] = None /\ wire # <<>>
    BY <1>2 DEF Receive
  <2>2. Belongs(Head(wire)) /\ Head(wire).for \in Nat
    BY <2>1, FirstMessage, CallTypes DEF AllBelong
  <2>. QED  BY <2>1, <2>2
<1>3. CASE Store
  <2>1. \/ UNCHANGED answered
        \/ /\ answered' = answered \cup {dispatch.response.for} /\ dispatch.at = "found" /\ UNCHANGED <<pc, job, calls>>
           /\ node' = [node EXCEPT ![dispatch.addr].response = dispatch.response]
    BY <1>3, Zenon DEF Store
  <2>. QED  BY <1>1, <2>1
<1>4. CASE EraseExpired
  <2>1. /\ answered' = answered \cup {dispatch.response.for} /\ dispatch.at = "expired" /\ UNCHANGED <<pc, job, calls>>
    BY <1>4 DEF EraseExpired
  <2>. QED  BY <1>1, <2>1
<1>5. UNCHANGED answered \/ (\E id \in {"Ack", "Nak"} : Receive(id)) \/ Store \/ EraseExpired
  BY Zenon DEF Next, Step, SendCommandWithResponse, SendDataRequest, Enqueue, Send, Find, Check, Wake, TimeOut, Copy,
               Erase, Disconnect, Clear, DropServer, SetStatus, CallFromCallback, EndDisconnect, StartConnect,
               ConnectAck, EndConnect
<1>. QED  BY <1>2, <1>3, <1>4, <1>5

LEMMA DoneStep ==
  ASSUME Disjoint, IInv, Next
  PROVE  Done'
<1>1. /\ AInv /\ TInv /\ OneCall /\ AllBelong /\ Done /\ Mine /\ Answering
  BY DEF IInv, AInv
<1>2. calls \in Nat /\ calls' \in Nat /\ calls <= calls'
  BY <1>1, CallNumbers
<1>3. \A c \in answered' : c \in Nat /\ c <= calls
  <2>1. \A c \in answered : c \in Nat /\ c <= calls
    BY <1>1 DEF Done, TInv, AnsweredTypes, CallIds
  <2>. QED  BY <1>1, <2>1, AnsweredSteps DEF Belongs
<1>4. \A c \in answered' : c <= calls'
  BY <1>2, <1>3
<1>5. ASSUME NEW t \in Threads, InCall(t), job[t].kind = "command", job[t].call \in answered'
      PROVE  pc[t] \in Tracked \ {"send"}
  <2>1. CASE job[t].call \in answered
    BY <1>1, <1>5, <2>1 DEF Done, InCall
  <2>2. CASE job[t].call \notin answered
    <3>1. PICK r : Belongs(r) /\ answered' = answered \cup {r.for}
      BY <1>1, <1>5, <2>2, AnsweredSteps
    <3>2. job[t].call = r.for
      BY <1>5, <2>2, <3>1
    <3>. QED  BY <1>5, <3>1, <3>2 DEF Belongs
  <2>. QED  BY <2>1, <2>2
<1>6. ASSUME NEW t \in Threads, job'[t].kind = "command", job'[t].call \in answered', InCall(t)'
      PROVE  pc[t] \in Tracked \ {"send"} /\ pc'[t] \in Tracked \ {"send"} /\ Same(t)
  <2>1. job'[t].call # calls + 1
    BY <1>2, <1>3, <1>6
  <2>2. InCall(t) /\ job'[t].call = job[t].call /\ job'[t].kind = job[t].kind
    BY <1>1, <1>6, <2>1, InCallStay
  <2>3. pc[t] \in Tracked \ {"send"}
    BY <1>5, <1>6, <2>2
  <2>. QED  BY <1>1, <1>6, <2>3, GoneOn
<1>7. ASSUME NEW t \in Threads, job'[t].kind = "command", job'[t].call \in answered', Undisturbed(t)'
      PROVE  Answers(node'[reponses'[job'[t].token]].response, job'[t].token)
  <2> DEFINE k == job[t].token
             R == reponses[k]
  <2>1. InCall(t)'
    BY <1>7 DEF Undisturbed, Command, InCall
  <2>2. pc[t] \in Tracked \ {"send"} /\ Same(t)
    BY <1>6, <1>7, <2>1
  <2>3. ~Enqueue(t)
    BY <2>2 DEF Enqueue, Tracked
  <2>4. Undisturbed(t) /\ Recorded(t) /\ Reached(t)
    BY <1>1, <1>7, <2>3, Stays
  <2>5. R \in Addrs /\ reponses'[k] = R
    BY <1>1, <1>7, <2>3, RecordStays
  <2>6. job'[t].token = k /\ job'[t].call = job[t].call /\ job[t].kind = "command"
    BY <1>7, <2>2 DEF Same
  <2>7. CASE job[t].call \in answered
    <3>1. Answers(node[R].response, k)
      BY <1>1, <2>4, <2>6, <2>7 DEF Done
    <3>2. Answers(node'[R].response, k)
      BY <1>1, <1>7, <2>3, <3>1, AnswersStay
    <3>. QED  BY <2>5, <2>6, <3>2
  <2>8. CASE job[t].call \notin answered
    <3>1. PICK r :
            /\ Belongs(r) /\ answered' = answered \cup {r.for}
            /\ \/ reponses[r.token] = None
               \/ r = dispatch.response /\ dispatch.at = "expired"
               \/ /\ r = dispatch.response /\ dispatch.at = "found"
                  /\ node' = [node EXCEPT ![dispatch.addr].response = dispatch.response]
      BY <1>1, <1>7, <2>6, <2>8, AnsweredSteps
    <3>2. job[t].call = r.for /\ InCall(t)
      BY <1>7, <2>2, <2>6, <2>8, <3>1 DEF InCall
    <3>3. r.token = k
      BY <2>6, <3>1, <3>2 DEF Belongs
    <3>4. reponses[r.token] # None /\ ~(r = dispatch.response /\ dispatch.at = "expired")
      BY <2>4, <3>3 DEF Recorded, Reached
    <3>5. /\ r = dispatch.response /\ dispatch.at = "found" /\ dispatch.addr = R
          /\ node' = [node EXCEPT ![dispatch.addr].response = dispatch.response]
      BY <2>4, <3>1, <3>3, <3>4 DEF Reached
    <3>6. node'[R].response = dispatch.response
      BY <1>1, <2>5, <3>5 DEF TInv, MapTypes, Node
    <3>7. Answers(dispatch.response, k)
      BY <1>1, <3>3, <3>5 DEF Answers, Answering
    <3>. QED  BY <2>5, <2>6, <3>6, <3>7
  <2>. QED  BY <2>7, <2>8
<1>8. ASSUME NEW t \in Threads, job'[t].kind = "command", job'[t].call \in answered'
      PROVE  pc'[t] \notin {"enqueue", "send"}
  <2>1. CASE InCall(t)'
    BY <1>6, <1>8, <2>1 DEF Tracked
  <2>2. CASE ~InCall(t)'
    BY <2>2 DEF InCall, Tracked
  <2>. QED  BY <2>1, <2>2
<1>. QED  BY <1>4, <1>7, <1>8 DEF Done

LEMMA InTimeHolds ==
  ASSUME Disjoint
  PROVE  Spec => []IInv
<1>1. Init => IInv
  <2>. SUFFICES ASSUME Init PROVE IInv
    OBVIOUS
  <2>1. AInv
    BY AnswersInit
  <2>2. \A t \in Threads : ~InCall(t)
    BY DEF Init, InCall, Tracked
  <2>3. answered = {} /\ Len(wire) = 0 /\ dispatch.response.for = 0 /\ calls = 0
    BY DEF Init, NoDispatch, NoResponse
  <2>4. OneCall
    BY <2>2 DEF OneCall
  <2>5. Done
    BY <2>3 DEF Done
  <2>6. AllBelong
    <3>1. \A i \in 1..Len(wire) : FALSE
      BY <2>3
    <3>2. dispatch.response.for <= calls
      BY <2>3
    <3>. QED  BY <2>2, <3>1, <3>2, Zenon DEF AllBelong, Belongs
  <2>. QED  BY <2>1, <2>4, <2>5, <2>6 DEF IInv
<1>2. IInv /\ [Next]_vars => IInv'
  <2>1. ASSUME IInv, Next PROVE IInv'
    BY <2>1, AnswersStep, OneCallStep, AllBelongStep, DoneStep DEF IInv, AInv
  <2>2. ASSUME IInv, UNCHANGED vars PROVE IInv'
    <3>1. AInv'
      BY <2>2, AnswersStutter DEF IInv
    <3>2. OneCall' /\ AllBelong'
      BY <2>2, Zenon DEF IInv, vars, OneCall, AllBelong, Belongs, InCall
    <3>3. Done'
      BY <2>2, Zenon DEF IInv, vars, mapVars, connVars, Done, Undisturbed, Command, Answers
    <3>. QED  BY <3>1, <3>2, <3>3 DEF IInv
  <2>. QED  BY <2>1, <2>2
<1>. QED  BY <1>1, <1>2, PTL DEF Spec

\* A command does not time out once its answer has been dealt with, as long as its connection lasts and
\* the application's request ids are not numbers of commands: no notification is lost between the
\* answer's arrival and the wait (WASimClient.cpp:800-850).
THEOREM AnsweredCommandsDoNotTimeOut ==
  ASSUME Disjoint
  PROVE  Spec => CommandAnsweredInTime
<1>1. ASSUME IInv, NEW t \in Threads, TimeOut(t), job[t].kind = "command", job[t].epoch = epoch,
             job[t].call \in answered
      PROVE  FALSE
  <2>1. pc[t] = "wait" /\ ~StopWaiting(t)
    BY <1>1 DEF TimeOut, MayTimeOut
  <2>2. Undisturbed(t)
    BY <1>1, <2>1 DEF Undisturbed, Command, Tracked
  <2>3. Recorded(t) /\ Answers(node[reponses[job[t].token]].response, job[t].token)
    BY <1>1, <2>2 DEF IInv, AInv, Mine, Done
  <2>4. job[t].addr = reponses[job[t].token]
    BY <2>1, <2>3 DEF Recorded
  <2>. QED  BY <2>1, <2>3, <2>4 DEF StopWaiting
<1>2. IInv /\ [Next]_vars
        => [\A t \in Threads :
              TimeOut(t) /\ job[t].kind = "command" /\ job[t].epoch = epoch => job[t].call \notin answered]_vars
  BY <1>1
<1>. QED  BY <1>2, InTimeHolds, PTL DEF Spec, CommandAnsweredInTime

================================================================================
